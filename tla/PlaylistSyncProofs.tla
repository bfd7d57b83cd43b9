------------------------ MODULE PlaylistSyncProofs ------------------------
(***************************************************************************)
(* For any clients, orders and bounds: the revision of a playlist's order  *)
(* is a sound ETag and the sync implements VersionedOrder; a write is on   *)
(* record from before it is sent until its answer is stored; entries hold  *)
(* only items the base has; what a push deletes, or a merge drops, an edit *)
(* let go of or YouTube no longer has; nothing is added twice; and the     *)
(* base is what YouTube holds.                                             *)
(***************************************************************************)
EXTENDS PlaylistSync, MergeProofs

-----------------------------------------------------------------------------
(* The videos of an order, through what the store does to its entries.      *)

LEMMA NumberedKeepsVideos ==
    ASSUME NEW list
    PROVE  VideosOf(Numbered(list)) = VideosOf(list)
  BY DEF VideosOf, Numbered, Entry

LEMMA WithItemKeepsVideos ==
    ASSUME NEW list, NEW entry, NEW made
    PROVE  VideosOf(WithItem(list, entry, made)) = VideosOf(list)
  BY DEF VideosOf, WithItem, Entry

LEMMA OrderedEntriesTakeVideos ==
    ASSUME NEW list, NEW videos \in Seq(Videos)
    PROVE  VideosOf(OrderedEntries(list, videos)) = videos
  BY DEF VideosOf, OrderedEntries, Entry

(* An order replaced: its revision is one more when its videos changed, and *)
(* the same when they did not.                                              *)
LEMMA ReplaceOrderCounts ==
    ASSUME NEW list, ReplaceOrder(list)
    PROVE  /\ VideosOf(entries') = VideosOf(list)
           /\ \/ VideosOf(entries') = VideosOf(entries) /\ revision' = revision
              \/ VideosOf(entries') # VideosOf(entries) /\ revision' = revision + 1
  <1>1. VideosOf(entries') = VideosOf(list)
    BY NumberedKeepsVideos DEF ReplaceOrder
  <1> QED
    BY <1>1 DEF ReplaceOrder, NextRevision

-----------------------------------------------------------------------------
(* The inductive invariant.  SeenIsCurrent is inductive because a revision  *)
(* given to a client is never ahead of the store's, and WriteOnRecord       *)
(* because the worker's writes change only as it leaves a settlement.       *)

SeenOK ==
    /\ revision \in Nat \ {0}
    /\ DOMAIN seen = Clients
    /\ \A c \in Clients : seen[c].revision \in Nat
    /\ SeenIsCurrent

WorkerOK == DOMAIN worker = DOMAIN Idle /\ WriteOnRecord

IInv == SeenOK /\ WorkerOK

SyncKeepsOrCounts ==
    /\ UNCHANGED seen
    /\ \/ VideosOf(entries') = VideosOf(entries) /\ revision' = revision
       \/ VideosOf(entries') # VideosOf(entries) /\ revision' = revision + 1

(* Only two actions touch what a client has, and any other changes the      *)
(* revision by one when it changes the videos, and not otherwise.           *)
LEMMA StepKinds ==
    ASSUME [Next]_vars
    PROVE  \/ SyncKeepsOrCounts
           \/ \E c \in Clients : ClientRead(c)
           \/ \E c \in Clients, videos \in Orders, any \in BOOLEAN :
                    ReplaceItems(c, videos, any)
  <1> USE DEF SyncKeepsOrCounts, youtubeVars, storeVars
  <1>1. CASE UNCHANGED vars
    BY <1>1 DEF vars
  <1>2. CASE ClientActions
    BY <1>2 DEF ClientActions, DeleteOnYouTube, DeleteStored
  <1>3. CASE OwnerEdits
    BY <1>3 DEF OwnerEdits, OwnerAdds, OwnerRemoves, OwnerMoves, OwnerSorts, Owner
  <1>4. CASE Faults
    BY <1>4 DEF Faults, TakeUpMissing, TakeUpFails, ConfirmFails, ReadFails, PushYields,
                SendLost, SendRefused, SettleFails, Crash
  <1>5. CASE LagPasses \/ RetryFires \/ DayPasses
    BY <1>5 DEF LagPasses, RetryFires, DayPasses
  <1>6. CASE WorkerActions
    <2>1. CASE TakeUp \/ TakeUpDeferred \/ TakeUpNotYet \/ TakeUpGone \/ SpentPass
                    \/ ConfirmAbsences
      BY <2>1 DEF TakeUp, TakeUpDeferred, TakeUpNotYet, TakeUpGone, SpentPass,
                  ConfirmAbsences
    <2>2. CASE MergeInto
      BY <2>2, ReplaceOrderCounts DEF MergeInto
    <2>3. CASE MergeStops \/ PushStops \/ BeginWrite \/ SendApplied \/ SendDeclined
      BY <2>3 DEF MergeStops, PushStops, BeginWrite, SendApplied, SendDeclined
    <2>4. CASE SettleDone
      BY <2>4, WithItemKeepsVideos DEF SettleDone
    <2>5. CASE SettleVideoRefused
      BY <2>5, ReplaceOrderCounts DEF SettleVideoRefused
    <2>6. CASE SettleDeclined \/ SettleUnanswered \/ SettleGone
      BY <2>6 DEF SettleDeclined, SettleUnanswered, SettleGone
    <2> QED
      BY <1>6, <2>1, <2>2, <2>3, <2>4, <2>5, <2>6 DEF WorkerActions
  <1> QED
    BY <1>1, <1>2, <1>3, <1>4, <1>5, <1>6 DEF Next

(* An edit replaces the order with the videos it names, under a revision    *)
(* nobody has yet.                                                          *)
LEMMA ReplaceItemsChanges ==
    ASSUME NEW c \in Clients, NEW videos \in Orders, NEW any \in BOOLEAN,
           ReplaceItems(c, videos, any)
    PROVE  /\ VideosOf(entries') = videos
           /\ VideosOf(entries') # VideosOf(entries)
           /\ revision' = revision + 1
  <1> DEFINE ordered == OrderedEntries(entries, videos)
  <1>1. ReplaceOrder(ordered)
    BY DEF ReplaceItems
  <1>2. VideosOf(ordered) = videos
    BY OrderedEntriesTakeVideos, PlaylistSyncAssumption
  <1> QED
    BY <1>1, <1>2, ReplaceOrderCounts DEF ReplaceItems

LEMMA SeenKept ==
    ASSUME SeenOK, [Next]_vars
    PROVE  SeenOK'
  <1> USE DEF SeenOK, SeenIsCurrent
  <1>1. CASE SyncKeepsOrCounts
    BY <1>1 DEF SyncKeepsOrCounts
  <1>2. ASSUME NEW c \in Clients, ClientRead(c)
        PROVE  SeenOK'
    BY <1>2 DEF ClientRead, storeVars
  <1>3. ASSUME NEW c \in Clients, NEW videos \in Orders, NEW any \in BOOLEAN,
               ReplaceItems(c, videos, any)
        PROVE  SeenOK'
    <2>1. seen' = [seen EXCEPT ![c] = [revision |-> revision', videos |-> videos,
                                       forced |-> any]]
      BY <1>3 DEF ReplaceItems
    <2>2. VideosOf(entries') = videos /\ revision' = revision + 1
      BY <1>3, ReplaceItemsChanges
    <2> QED
      BY <2>1, <2>2
  <1> QED
    BY <1>1, <1>2, <1>3, StepKinds

(* Between BeginWrite and the settlement only the request's answer changes  *)
(* the worker, and neither the record nor its recency.                      *)
LEMMA WorkerAway ==
    ASSUME DOMAIN worker' = DOMAIN Idle, worker'.pc \notin {"send", "settle"}
    PROVE  WorkerOK'
  BY DEF WorkerOK, WriteOnRecord

LEMMA WorkerIdle ==
    ASSUME worker' = Idle
    PROVE  WorkerOK'
  BY WorkerAway DEF Idle

LEMMA RecordStays ==
    ASSUME WorkerOK, UNCHANGED <<unanswered, recent>>, stored' => stored,
           DOMAIN worker' = DOMAIN worker, worker'.writes = worker.writes,
           worker'.pc \in {"send", "settle"} => worker.pc \in {"send", "settle"}
    PROVE  WorkerOK'
  <1>1. Sent' = Sent
    BY DEF Sent
  <1>2. Recorded(Sent)' = Recorded(Sent)
    BY <1>1 DEF Recorded
  <1> QED
    BY <1>2 DEF WorkerOK, WriteOnRecord

LEMMA AnswerStays ==
    ASSUME WorkerOK, worker.pc = "send", NEW outcome, NEW made,
           Answered(outcome, made), UNCHANGED storeVars
    PROVE  WorkerOK'
  <1>1. DOMAIN worker' = DOMAIN worker /\ worker'.writes = worker.writes
    BY DEF Answered, WorkerOK, Idle
  <1> QED
    BY <1>1, RecordStays DEF storeVars

LEMMA WorkerKept ==
    ASSUME WorkerOK, [Next]_vars
    PROVE  WorkerOK'
  <1> USE DEF youtubeVars, storeVars
  <1>1. CASE UNCHANGED vars
    BY <1>1, RecordStays DEF vars
  <1>2. CASE ClientActions
    <2>1. UNCHANGED <<worker, unanswered, recent>> /\ (stored' => stored)
      BY <1>2 DEF ClientActions, ClientRead, ReplaceItems, DeleteOnYouTube, DeleteStored
    <2> QED
      BY <2>1, RecordStays
  <1>3. CASE OwnerEdits
    <2>1. UNCHANGED <<worker, storeVars>>
      BY <1>3 DEF OwnerEdits, OwnerAdds, OwnerRemoves, OwnerMoves, OwnerSorts, Owner
    <2> QED
      BY <2>1, RecordStays
  <1>4. CASE LagPasses
    BY <1>4 DEF LagPasses, WorkerOK, WriteOnRecord
  <1>5. CASE RetryFires \/ DayPasses
    <2>1. UNCHANGED <<worker, unanswered, recent, stored>>
      BY <1>5 DEF RetryFires, DayPasses
    <2> QED
      BY <2>1, RecordStays
  <1>6. CASE Faults
    <2>1. CASE TakeUpMissing
      BY <2>1, WorkerAway DEF TakeUpMissing, Reading, Idle
    <2>2. CASE TakeUpFails
      BY <2>2, RecordStays DEF TakeUpFails, ReadFails
    <2>3. CASE PushYields \/ SettleFails \/ Crash
      BY <2>3, WorkerIdle DEF PushYields, SettleFails, Crash
    <2>4. CASE SendLost
      BY <2>4, AnswerStays DEF SendLost
    <2>5. CASE SendRefused
      BY <2>5, AnswerStays DEF SendRefused
    <2>6. CASE ConfirmFails
      BY <2>6, WorkerIdle DEF ConfirmFails
    <2> QED
      BY <1>6, <2>1, <2>2, <2>3, <2>4, <2>5, <2>6 DEF Faults
  <1>7. CASE WorkerActions
    <2>1. CASE TakeUp
      BY <2>1, WorkerAway DEF TakeUp, Reading, Idle
    <2>2. CASE TakeUpDeferred \/ TakeUpNotYet \/ TakeUpGone \/ SpentPass
      <3>1. UNCHANGED <<worker, unanswered, recent>> /\ (stored' => stored)
        BY <2>2 DEF TakeUpDeferred, TakeUpNotYet, TakeUpGone, SpentPass, TakesUp
      <3> QED
        BY <3>1, RecordStays
    <2>3. CASE ConfirmAbsences
      <3>1. worker' = Idle \/ worker' = [worker EXCEPT !.pc = "merge"]
        BY <2>3 DEF ConfirmAbsences
      <3> QED
        BY <3>1, WorkerAway DEF WorkerOK, Idle
    <2>4. CASE MergeInto
      BY <2>4, WorkerAway DEF MergeInto, Idle
    <2>5. CASE MergeStops \/ PushStops
      BY <2>5, WorkerIdle DEF MergeStops, PushStops
    <2>6. CASE BeginWrite
      <3>1. DOMAIN worker' = DOMAIN worker /\ worker'.writes = worker.writes
        BY <2>6 DEF BeginWrite, WorkerOK, Idle
      <3>2. unanswered' = Recorded(Sent)' /\ recent'
        BY <2>6, <3>1 DEF BeginWrite, Recorded, Sent
      <3> QED
        BY <3>1, <3>2 DEF WorkerOK, WriteOnRecord
    <2>7. CASE SendApplied
      BY <2>7, AnswerStays DEF SendApplied
    <2>8. CASE SendDeclined
      BY <2>8, AnswerStays DEF SendDeclined
    <2>9. CASE SettleDone \/ SettleGone
      <3>1. worker' = NextWrite \/ worker' = Idle
        BY <2>9 DEF SettleDone, SettleGone
      <3>2. DOMAIN NextWrite = DOMAIN worker /\ NextWrite.pc = "push"
        BY DEF NextWrite, WorkerOK, Idle
      <3> QED
        BY <3>1, <3>2, WorkerAway, WorkerIdle DEF WorkerOK
    <2>10. CASE SettleVideoRefused \/ SettleDeclined \/ SettleUnanswered
      <3>1. worker' = Idle
        BY <2>10 DEF SettleVideoRefused, SettleDeclined, SettleUnanswered
      <3> QED
        BY <3>1, WorkerIdle
    <2> QED
      BY <1>7, <2>1, <2>2, <2>3, <2>4, <2>5, <2>6, <2>7, <2>8, <2>9, <2>10
         DEF WorkerActions
  <1> QED
    BY <1>1, <1>2, <1>3, <1>4, <1>5, <1>6, <1>7 DEF Next

LEMMA InitIInv == Init => IInv
  BY DEF Init, IInv, SeenOK, WorkerOK, SeenIsCurrent, WriteOnRecord, Idle

LEMMA NextIInv == IInv /\ [Next]_vars => IInv'
  BY SeenKept, WorkerKept DEF IInv

-----------------------------------------------------------------------------
(* An ETag a client still finds current names the order it saw, through any *)
(* interleaving of edits, merges, pushes, dropped entries and restarts.     *)
THEOREM ETagsAreSound == Spec => []SeenIsCurrent
  <1>1. IInv => SeenIsCurrent
    BY DEF IInv, SeenOK
  <1> QED
    BY InitIInv, NextIInv, <1>1, PTL DEF Spec

(* Wherever the process stops between the record of a write and its         *)
(* settlement, the write is the unanswered one the next merge accounts for, *)
(* and recent, so that no read the write may not show is merged.            *)
THEOREM WritesStayOnRecord == Spec => []WriteOnRecord
  <1>1. IInv => WriteOnRecord
    BY DEF IInv, WorkerOK
  <1> QED
    BY InitIInv, NextIInv, <1>1, PTL DEF Spec

-----------------------------------------------------------------------------
(* The refinement: each step is a step of VersionedOrder, or one it does    *)
(* not see.                                                                 *)

LEMMA InitImplements == Init => Versioned!Init
  <1> SUFFICES ASSUME Init PROVE Versioned!Init
    OBVIOUS
  <1>1. VideosOf(entries) = StartVideos
    BY PlaylistSyncAssumption DEF Init, VideosOf, Entry
  <1> QED
    BY <1>1 DEF Init, Versioned!Init, Versioned!Nothing

LEMMA StepImplements ==
    ASSUME IInv, [Next]_vars
    PROVE  [Versioned!Next]_Versioned!vars
  <1> USE DEF Versioned!Next, Versioned!vars, Versioned!Changes, Versioned!Receives
  <1>1. CASE SyncKeepsOrCounts
    BY <1>1 DEF SyncKeepsOrCounts, Versioned!SyncChange
  <1>2. ASSUME NEW c \in Clients, ClientRead(c)
        PROVE  Versioned!Next
    <2>1. Versioned!Read(c)
      BY <1>2 DEF ClientRead, storeVars, Versioned!Read
    <2> QED
      BY <2>1
  <1>3. ASSUME NEW c \in Clients, NEW videos \in Orders, NEW any \in BOOLEAN,
               ReplaceItems(c, videos, any)
        PROVE  Versioned!Next
    <2>1. /\ VideosOf(entries') = videos
          /\ VideosOf(entries') # VideosOf(entries)
          /\ revision' = revision + 1
      BY <1>3, ReplaceItemsChanges
    <2>2. seen' = [seen EXCEPT ![c] = [revision |-> revision', videos |-> videos,
                                       forced |-> any]]
      BY <1>3 DEF ReplaceItems
    <2>3. CASE any
      <3>1. Versioned!Overwrite(c)
        BY <2>1, <2>2, <2>3 DEF Versioned!Overwrite
      <3> QED
        BY <3>1
    <2>4. CASE ~any
      <3>1. seen[c].revision = revision
        BY <1>3, <2>4 DEF ReplaceItems, IfMatch
      <3>2. seen[c].videos = VideosOf(entries)
        BY <3>1 DEF IInv, SeenOK, SeenIsCurrent
      <3>3. Versioned!Edit(c)
        BY <2>1, <2>2, <2>4, <3>1, <3>2 DEF Versioned!Edit
      <3> QED
        BY <3>3
    <2> QED
      BY <2>3, <2>4
  <1> QED
    BY <1>1, <1>2, <1>3, StepKinds

(* The revision counts the changes to the videos of an order and nothing    *)
(* else, whoever makes them, and an edit at a client's ETag replaces        *)
(* exactly the order that client saw.                                       *)
THEOREM SyncImplementsVersionedOrder == Spec => ImplementsVersionedOrder
  BY InitIInv, NextIInv, InitImplements, StepImplements, PTL
     DEF Spec, ImplementsVersionedOrder, Versioned!Spec

-----------------------------------------------------------------------------
(***************************************************************************)
(* The items of a playlist, through what is done to it.                    *)
(***************************************************************************)
Items == [id : Nat \ {0}, video : Videos]

(* Contents of a playlist whose items' ids were all given out below n.      *)
Known(list, n) == list \in ItemsOf(Videos) /\ IdsOf(list) \subseteq 1..(n - 1)

(* No two places hold one item, said of the items rather than the places.   *)
LEMMA ItemsByRange ==
    ASSUME NEW list
    PROVE  list \in ItemsOf(Videos) <=>
                /\ list \in Seq(Items) /\ IsInjective(list)
                /\ \A a, b \in Range(list) : a.id = b.id => a = b
  <1>1. ASSUME list \in ItemsOf(Videos)
        PROVE  /\ list \in Seq(Items) /\ IsInjective(list)
               /\ \A a, b \in Range(list) : a.id = b.id => a = b
    BY <1>1 DEF ItemsOf, Items, IsInjective, Range
  <1>2. ASSUME list \in Seq(Items), IsInjective(list),
               \A a, b \in Range(list) : a.id = b.id => a = b
        PROVE  list \in ItemsOf(Videos)
    BY <1>2 DEF ItemsOf, Items, IsInjective, Range
  <1> QED
    BY <1>1, <1>2

LEMMA IdsByRange ==
    ASSUME NEW list
    PROVE  IdsOf(list) = {a.id : a \in Range(list)}
  BY DEF IdsOf, Range

LEMMA KnownLater ==
    ASSUME NEW n \in Nat, NEW m \in Nat, n <= m, NEW list, Known(list, n)
    PROVE  Known(list, m)
  <1>1. 1..(n - 1) \subseteq 1..(m - 1)
    OBVIOUS
  <1> QED
    BY <1>1 DEF Known

LEMMA KnownInsert ==
    ASSUME NEW n \in Nat \ {0}, NEW list, Known(list, n), NEW place \in 1..(Len(list) + 1),
           NEW video \in Videos
    PROVE  LET new == [id |-> n, video |-> video]
               more == InsertAt(list, place, new)
           IN  Known(more, n + 1) /\ Range(more) = Range(list) \cup {new}
  <1> DEFINE new == [id |-> n, video |-> video]
             more == InsertAt(list, place, new)
  <1>1. /\ list \in Seq(Items) /\ IsInjective(list)
        /\ \A a, b \in Range(list) : a.id = b.id => a = b
        /\ \A a \in Range(list) : a.id \in 1..(n - 1)
    BY ItemsByRange, IdsByRange DEF Known
  <1>2. new \in Items /\ new.id = n /\ new \notin Range(list)
    BY <1>1 DEF Items
  <1> HIDE DEF new
  <1>3. more \in Seq(Items) /\ Range(more) = Range(list) \cup {new} /\ IsInjective(more)
    BY <1>1, <1>2, InsertAtKeeps
  <1> HIDE DEF more
  <1>4. \A a, b \in Range(more) : a.id = b.id => a = b
    BY <1>1, <1>2, <1>3
  <1>5. IdsOf(more) \subseteq 1..n
    <2>1. \A a \in Range(more) : a.id \in 1..n
      BY <1>1, <1>2, <1>3
    <2> QED
      BY <2>1, IdsByRange
  <1>6. Known(more, n + 1)
    BY <1>3, <1>4, <1>5, ItemsByRange DEF Known
  <1> QED
    BY <1>3, <1>6 DEF more, new

LEMMA KnownRemove ==
    ASSUME NEW n \in Nat, NEW list, Known(list, n), NEW place \in 1..Len(list)
    PROVE  /\ Known(RemoveAt(list, place), n)
           /\ Len(RemoveAt(list, place)) = Len(list) - 1
           /\ Range(RemoveAt(list, place)) \subseteq Range(list) \ {list[place]}
           /\ list[place] \in Range(list)
  <1> DEFINE less == RemoveAt(list, place)
  <1>1. /\ list \in Seq(Items) /\ IsInjective(list)
        /\ \A a, b \in Range(list) : a.id = b.id => a = b
        /\ \A a \in Range(list) : a.id \in 1..(n - 1)
    BY ItemsByRange, IdsByRange DEF Known
  <1>2. /\ less \in Seq(Items) /\ Range(less) \subseteq Range(list)
        /\ Len(less) = Len(list) - 1
        /\ IsInjective(less) /\ list[place] \notin Range(less)
    BY <1>1, RemoveAtKeeps
  <1> HIDE DEF less
  <1>3. \A a \in Range(less) : a.id \in 1..(n - 1)
    BY <1>1, <1>2
  <1>4. Known(less, n)
    BY <1>1, <1>2, <1>3, ItemsByRange, IdsByRange DEF Known
  <1>5. list[place] \in Range(list)
    BY <1>1 DEF Range
  <1> QED
    BY <1>2, <1>4, <1>5 DEF less

LEMMA KnownMove ==
    ASSUME NEW n \in Nat, NEW list, Known(list, n), NEW from \in 1..Len(list),
           NEW to \in 1..Len(list)
    PROVE  LET moved == InsertAt(RemoveAt(list, from), to, list[from])
           IN  Known(moved, n) /\ Range(moved) \subseteq Range(list)
  <1> DEFINE less == RemoveAt(list, from)
             one == list[from]
             moved == InsertAt(less, to, one)
  <1>1. /\ Known(less, n) /\ Len(less) = Len(list) - 1
        /\ Range(less) \subseteq Range(list) \ {one} /\ one \in Range(list)
    BY KnownRemove
  <1>2. /\ list \in Seq(Items) /\ Len(list) \in Nat
        /\ \A a, b \in Range(list) : a.id = b.id => a = b
        /\ \A a \in Range(list) : a.id \in 1..(n - 1)
    BY ItemsByRange, IdsByRange DEF Known
  <1>3. less \in Seq(Items) /\ IsInjective(less)
    BY <1>1, ItemsByRange DEF Known
  <1>4. one \in Items
    BY <1>2
  <1> HIDE DEF less, one
  <1>5. to \in 1..(Len(less) + 1) /\ one \notin Range(less)
    BY <1>1, <1>2
  <1>6. moved \in Seq(Items) /\ Range(moved) = Range(less) \cup {one} /\ IsInjective(moved)
    BY <1>3, <1>4, <1>5, InsertAtKeeps
  <1> HIDE DEF moved
  <1>7. Range(moved) \subseteq Range(list)
    BY <1>1, <1>6
  <1>8. Known(moved, n)
    BY <1>2, <1>6, <1>7, ItemsByRange, IdsByRange DEF Known
  <1> QED
    BY <1>7, <1>8 DEF moved, less, one

LEMMA KnownPermuted ==
    ASSUME NEW n \in Nat, NEW list, Known(list, n),
           NEW p \in [DOMAIN list -> DOMAIN list], IsInjective(p)
    PROVE  LET sorted == [i \in DOMAIN list |-> list[p[i]]]
           IN  Known(sorted, n) /\ Range(sorted) \subseteq Range(list)
  <1> DEFINE sorted == [i \in DOMAIN list |-> list[p[i]]]
  <1>1. /\ list \in Seq(Items) /\ IsInjective(list)
        /\ \A a, b \in Range(list) : a.id = b.id => a = b
        /\ \A a \in Range(list) : a.id \in 1..(n - 1)
    BY ItemsByRange, IdsByRange DEF Known
  <1>2. Len(list) \in Nat /\ DOMAIN list = 1..Len(list) /\ \A i \in 1..Len(list) : list[i] \in Items
    BY <1>1
  <1>3. sorted \in Seq(Items)
    BY <1>2
  <1>4. IsInjective(sorted)
    BY <1>1 DEF IsInjective
  <1>5. Range(sorted) \subseteq Range(list)
    BY DEF Range
  <1> HIDE DEF sorted
  <1>6. Known(sorted, n)
    BY <1>1, <1>3, <1>4, <1>5, ItemsByRange, IdsByRange DEF Known
  <1> QED
    BY <1>5, <1>6 DEF sorted

(* What YouTube keeps of its items when it does what it was asked.          *)
LEMMA KnownPerformed ==
    ASSUME NEW n \in Nat \ {0}, NEW list, Known(list, n), NEW w \in WritesOf(Videos),
           w.kind \in {"delete", "move"} => HasItem(list, w.item),
           AcceptsPosition(list, w)
    PROVE  /\ Known(Performed(list, w, n), IF AddsItem(w) THEN n + 1 ELSE n)
           /\ Range(Performed(list, w, n)) \subseteq
                Range(list) \cup IF AddsItem(w) THEN {[id |-> n, video |-> w.video]} ELSE {}
  <1> DEFINE at == PlaceIn(ItemIds(list), w.item)
             new == [id |-> n, video |-> w.video]
  <1>1. /\ list \in ItemsOf(Videos) /\ list \in Seq(Items)
        /\ Len(list) \in Nat /\ DOMAIN list = 1..Len(list)
    BY ItemsByRange DEF Known
  <1>2. /\ w.kind \in {"delete", "insert", "append", "move"} /\ w.position \in Nat
        /\ AddsItem(w) => w.video \in Videos
    BY DEF WritesOf
  <1>3. w.kind \in {"delete", "move"} => at \in 1..Len(list)
    <2> SUFFICES ASSUME w.kind \in {"delete", "move"} PROVE at \in 1..Len(list)
      OBVIOUS
    <2> DEFINE ids == ItemIds(list)
    <2>1. /\ ids \in Seq(Int) /\ Range(ids) = IdsOf(list) /\ Len(ids) = Len(list)
      BY <1>1, ItemIdsOf
    <2>2. w.item \in Range(ids)
      BY <2>1 DEF HasItem, IdsOf
    <2> HIDE DEF ids
    <2>3. PlaceIn(ids, w.item) \in 1..Len(ids)
      BY <2>1, <2>2, PlaceInList
    <2> QED
      BY <2>1, <2>3 DEF ids
  <1>4. CASE w.kind = "delete"
    <2>1. Performed(list, w, n) = RemoveAt(list, at) /\ ~AddsItem(w)
      BY <1>4 DEF Performed, AddsItem
    <2> HIDE DEF at
    <2> QED
      BY <1>3, <1>4, <2>1, KnownRemove
  <1>5. CASE w.kind = "append"
    <2>1. Performed(list, w, n) = Append(list, new) /\ AddsItem(w)
      BY <1>5 DEF Performed, AddsItem
    <2>2. Append(list, new) = InsertAt(list, Len(list) + 1, new)
      <3>1. new \in Items
        BY <1>2, <2>1 DEF Items
      <3> HIDE DEF new
      <3> QED
        BY <1>1, <3>1, AppendIsInsert
    <2>3. Len(list) + 1 \in 1..(Len(list) + 1)
      BY <1>1
    <2>4. /\ Known(InsertAt(list, Len(list) + 1, new), n + 1)
          /\ Range(InsertAt(list, Len(list) + 1, new)) = Range(list) \cup {new}
      BY <1>2, <2>1, <2>3, KnownInsert
    <2> QED
      BY <2>1, <2>2, <2>4
  <1>6. CASE w.kind = "insert"
    <2>1. Performed(list, w, n) = InsertAt(list, w.position + 1, new) /\ AddsItem(w)
      BY <1>6 DEF Performed, AddsItem
    <2>2. w.position + 1 \in 1..(Len(list) + 1)
      BY <1>1, <1>2, <1>6 DEF AcceptsPosition
    <2> DEFINE place == w.position + 1
    <2> HIDE DEF place
    <2>4. /\ Known(InsertAt(list, place, new), n + 1)
          /\ Range(InsertAt(list, place, new)) = Range(list) \cup {new}
      BY <1>2, <2>1, <2>2, KnownInsert DEF place
    <2> QED
      BY <2>1, <2>4 DEF place
  <1>7. CASE w.kind = "move"
    <2>1. Performed(list, w, n) = InsertAt(RemoveAt(list, at), w.position + 1, list[at])
            /\ ~AddsItem(w)
      BY <1>7 DEF Performed, AddsItem
    <2>2. w.position + 1 \in 1..Len(list)
      BY <1>1, <1>2, <1>7 DEF AcceptsPosition
    <2> DEFINE place == w.position + 1
    <2> HIDE DEF place, at
    <2>4. /\ Known(InsertAt(RemoveAt(list, at), place, list[at]), n)
          /\ Range(InsertAt(RemoveAt(list, at), place, list[at])) \subseteq Range(list)
      BY <1>3, <1>7, <2>2, KnownMove DEF place
    <2> QED
      BY <2>1, <2>4 DEF place
  <1> QED
    BY <1>2, <1>4, <1>5, <1>6, <1>7

-----------------------------------------------------------------------------
(***************************************************************************)
(* The order, through what is done to it.                                  *)
(***************************************************************************)

(* An order made of entries of list, each once, and of new ones that await   *)
(* an item.                                                                 *)
Reorders(list, new) ==
    /\ new \in OrdersOf(Videos) /\ Distinct(new)
    /\ \A i \in DOMAIN new :
            new[i] \in Range(list) \/ (new[i].id = NewEntry /\ new[i].item = NoItem)

LEMMA OrderedReorders ==
    ASSUME NEW list \in OrdersOf(Videos), Distinct(list), NewEntry \notin IdsOf(list),
           NEW videos \in Seq(Videos)
    PROVE  Reorders(list, OrderedEntries(list, videos))
  <1> DEFINE T == [id : Nat, video : Videos, item : Nat]
             of(v) == {e \in Range(list) : e.video = v}
             holding(v) == Only(list, of(v))
             ordered == OrderedEntries(list, videos)
             same(v) == {j \in DOMAIN videos : videos[j] = v}
  <1>1. /\ list \in Seq(T) /\ Len(list) \in Nat /\ DOMAIN list = 1..Len(list)
        /\ Len(videos) \in Nat /\ DOMAIN videos = 1..Len(videos)
        /\ \A i \in DOMAIN videos : videos[i] \in Videos
    BY DEF OrdersOf
  <1>2. IsInjective(list)
    BY DEF IsInjective, Distinct, IdsOf
  <1>3. ASSUME NEW v
        PROVE  /\ holding(v) \in Seq(T) /\ IsInjective(holding(v))
               /\ Range(holding(v)) = of(v)
    <2> DEFINE S == of(v)
    <2>1. S \subseteq Range(list)
      OBVIOUS
    <2> HIDE DEF S, T
    <2>2. Only(list, S) \in Seq(T) /\ IsInjective(Only(list, S))
            /\ Range(Only(list, S)) = Range(list) \cap S
      BY <1>1, <1>2, OnlyKeeps
    <2> QED
      BY <2>1, <2>2 DEF S
  <1>4. ASSUME NEW i \in DOMAIN videos
        PROVE  /\ NthOf(videos, i) = Cardinality({j \in 1..i : j \in same(videos[i])})
               /\ i \in Nat \ {0} /\ i \in same(videos[i]) /\ NthOf(videos, i) \in Nat \ {0}
    <2>1. i \in Nat \ {0} /\ 1..i \subseteq DOMAIN videos
      BY <1>1
    <2>2. {j \in 1..i : videos[j] = videos[i]} = {j \in 1..i : j \in same(videos[i])}
      BY <2>1
    <2>3. i \in same(videos[i])
      OBVIOUS
    <2> DEFINE S == same(videos[i])
               k == i - 1
    <2>4. k \in Nat /\ i \in Nat /\ k <= i /\ k < i /\ i <= i /\ i \in S
      BY <2>1, <2>3
    <2> HIDE DEF S, k
    <2>5. /\ Cardinality({j \in 1..k : j \in S}) \in Nat
          /\ Cardinality({j \in 1..i : j \in S}) \in Nat
          /\ Cardinality({j \in 1..k : j \in S}) < Cardinality({j \in 1..i : j \in S})
      <3>1. Cardinality({j \in 1..i : j \in S}) \in Nat
        BY <2>4, CountsGrow
      <3>2. /\ Cardinality({j \in 1..k : j \in S}) \in Nat
            /\ k < i /\ i \in S =>
                Cardinality({j \in 1..k : j \in S}) < Cardinality({j \in 1..i : j \in S})
        BY <2>4, CountsGrow
      <3> QED
        BY <2>4, <3>1, <3>2
    <2>6. Cardinality({j \in 1..i : j \in S}) \in Nat \ {0}
      BY <2>5
    <2> QED
      BY <2>1, <2>2, <2>3, <2>6 DEF NthOf, S
  <1>5. \A i, j \in DOMAIN videos :
            i < j /\ videos[i] = videos[j] => NthOf(videos, i) < NthOf(videos, j)
    <2> SUFFICES ASSUME NEW i \in DOMAIN videos, NEW j \in DOMAIN videos,
                        i < j, videos[i] = videos[j]
                 PROVE  NthOf(videos, i) < NthOf(videos, j)
      OBVIOUS
    <2> DEFINE S == same(videos[j])
    <2>1. /\ NthOf(videos, i) = Cardinality({k \in 1..i : k \in S})
          /\ NthOf(videos, j) = Cardinality({k \in 1..j : k \in S})
          /\ i \in Nat /\ j \in Nat /\ j \in S /\ i <= j
      BY <1>4
    <2> HIDE DEF S
    <2>2. Cardinality({k \in 1..i : k \in S}) < Cardinality({k \in 1..j : k \in S})
      BY <2>1, CountsGrow
    <2> QED
      BY <2>1, <2>2
  <1> DEFINE taken(i) == NthOf(videos, i) <= Len(holding(videos[i]))
             place(i) == NthOf(videos, i)
             held(i) == holding(videos[i])[place(i)]
  <1>6. ASSUME NEW i \in DOMAIN videos, taken(i)
        PROVE  /\ held(i) \in Range(list) /\ held(i).video = videos[i]
               /\ held(i) \in T /\ held(i).id # NewEntry
               /\ place(i) \in DOMAIN holding(videos[i])
               /\ Entry(held(i).id, videos[i], held(i).item) = held(i)
    <2> DEFINE h == holding(videos[i])
               S == of(videos[i])
    <2>1. h \in Seq(T) /\ Range(h) = S
      BY <1>3
    <2>2. place(i) \in 1..Len(h)
      <3>1. Len(h) \in Nat
        <4> HIDE DEF h
        <4> QED
          BY <2>1
      <3>2. place(i) \in Nat \ {0} /\ place(i) <= Len(h)
        BY <1>4, <1>6
      <3> HIDE DEF place, h
      <3> QED
        BY <3>1, <3>2
    <2>3. DOMAIN h = 1..Len(h)
      <3> HIDE DEF h
      <3> QED
        BY <2>1
    <2>4. held(i) \in Range(h)
      BY <2>2, <2>3 DEF Range
    <2>5. held(i) \in Range(list) /\ held(i).video = videos[i]
      BY <2>1, <2>4
    <2>6. PICK j \in DOMAIN list : held(i) = list[j]
      BY <2>5 DEF Range
    <2>7. list[j] \in T
      BY EntryTyped
    <2> HIDE DEF held, h
    <2>8. Entry(held(i).id, videos[i], held(i).item) = held(i)
      BY <2>5, <2>6, <2>7 DEF Entry
    <2> QED
      BY <2>2, <2>3, <2>5, <2>6, <2>7, <2>8 DEF IdsOf, h
  <1>7. /\ DOMAIN ordered = 1..Len(videos)
        /\ \A i \in DOMAIN videos :
                ordered[i] = IF taken(i) THEN Entry(held(i).id, videos[i], held(i).item)
                             ELSE Entry(NewEntry, videos[i], NoItem)
    BY <1>1 DEF OrderedEntries
  <1> HIDE DEF taken, held, place
  <1>8. \A i \in DOMAIN videos :
            ordered[i] = IF taken(i) THEN held(i) ELSE Entry(NewEntry, videos[i], NoItem)
    BY <1>6, <1>7
  <1>9. ordered \in OrdersOf(Videos)
    <2>1. ASSUME NEW i \in DOMAIN videos PROVE ordered[i] \in T
      <3>1. Entry(NewEntry, videos[i], NoItem) \in T
        BY <1>1 DEF Entry, NewEntry, NoItem
      <3> QED
        BY <1>6, <1>8, <3>1
    <2>2. ordered = [i \in 1..Len(videos) |-> ordered[i]]
      BY <1>1 DEF OrderedEntries
    <2> HIDE DEF ordered, T
    <2>3. ordered \in Seq(T)
      BY <1>1, <2>1, <2>2
    <2> QED
      BY <2>3 DEF OrdersOf, T
  <1> HIDE DEF ordered
  <1>10. \A i \in DOMAIN ordered :
            ordered[i] \in Range(list) \/ (ordered[i].id = NewEntry /\ ordered[i].item = NoItem)
    <2> TAKE i \in DOMAIN ordered
    <2>1. i \in DOMAIN videos
      BY <1>1, <1>7
    <2>2. CASE taken(i)
      BY <1>6, <1>8, <2>1, <2>2
    <2>3. CASE ~taken(i)
      <3>1. ordered[i] = Entry(NewEntry, videos[i], NoItem)
        BY <1>8, <2>1, <2>3
      <3> QED
        BY <3>1 DEF Entry
    <2> QED
      BY <2>2, <2>3
  <1>11. ASSUME NEW i \in DOMAIN videos, NEW j \in DOMAIN videos,
                taken(i), taken(j), held(i) = held(j)
         PROVE  i = j
    <2>1. videos[i] = videos[j]
      BY <1>6, <1>11
    <2> DEFINE h == holding(videos[i])
    <2>2. place(i) \in DOMAIN h /\ place(j) \in DOMAIN h /\ h[place(i)] = h[place(j)]
      BY <1>6, <1>11, <2>1 DEF held
    <2>3. IsInjective(h)
      BY <1>3
    <2> HIDE DEF h
    <2>4. place(i) = place(j)
      BY <2>2, <2>3 DEF IsInjective
    <2>5. NthOf(videos, i) = NthOf(videos, j)
      BY <2>4 DEF place
    <2>6. NthOf(videos, i) \in Nat /\ NthOf(videos, j) \in Nat /\ i \in Nat /\ j \in Nat
      BY <1>4
    <2> QED
      BY <1>5, <2>1, <2>5, <2>6
  <1>12. \A a, b \in Range(list) : a.id = b.id => a = b
    BY DEF Range, Distinct, IdsOf
  <1>13. \A a, b \in Range(list) : a.item = b.item /\ a.item # NoItem => a = b
    BY DEF Range, Distinct, IdsOf
  <1>14. Distinct(ordered)
    <2> SUFFICES ASSUME NEW i \in DOMAIN videos, NEW j \in DOMAIN videos,
                        \/ ordered[i].id = ordered[j].id /\ ordered[i].id # NewEntry
                        \/ ordered[i].item = ordered[j].item /\ ordered[i].item # NoItem
                 PROVE  i = j
      BY <1>1, <1>7 DEF Distinct
    <2>1. taken(i) /\ taken(j)
      <3>3. ASSUME NEW k \in DOMAIN videos, ~taken(k)
            PROVE  ordered[k].id = NewEntry /\ ordered[k].item = NoItem
        <4>1. ordered[k] = Entry(NewEntry, videos[k], NoItem)
          BY <1>8, <3>3
        <4> QED
          BY <4>1 DEF Entry
      <3>1. ~taken(i) => ordered[i].id = NewEntry /\ ordered[i].item = NoItem
        BY <3>3
      <3>2. ~taken(j) => ordered[j].id = NewEntry /\ ordered[j].item = NoItem
        BY <3>3
      <3> QED
        BY <3>1, <3>2
    <2>2. held(i) = held(j)
      <3>1. ordered[i] = held(i) /\ ordered[j] = held(j)
        BY <1>8, <2>1
      <3>2. held(i) \in Range(list) /\ held(j) \in Range(list)
        BY <1>6, <2>1
      <3>3. CASE ordered[i].id = ordered[j].id
        <4>1. held(i).id = held(j).id
          BY <3>1, <3>3
        <4> QED
          BY <1>12, <3>2, <4>1
      <3>4. CASE ordered[i].item = ordered[j].item /\ ordered[i].item # NoItem
        <4>1. held(i).item = held(j).item /\ held(i).item # NoItem
          BY <3>1, <3>4
        <4> QED
          BY <1>13, <3>2, <4>1
      <3> QED
        BY <3>3, <3>4
    <2> QED
      BY <1>11, <2>1, <2>2
  <1> QED
    BY <1>9, <1>10, <1>14 DEF Reorders, ordered

Without(list, entry) == RemoveFirstMatch(list, LAMBDA e : e.id = entry)

LEMMA DroppedReorders ==
    ASSUME NEW list \in OrdersOf(Videos), Distinct(list), NewEntry \notin IdsOf(list),
           NEW entry
    PROVE  Reorders(list, Without(list, entry))
  <1> DEFINE T == [id : Nat, video : Videos, item : Nat]
             new == Without(list, entry)
             matching == {i \in 1..Len(list) : list[i].id = entry}
  <1>1. /\ list \in Seq(T) /\ Len(list) \in Nat /\ DOMAIN list = 1..Len(list)
    BY DEF OrdersOf
  <1>2. IsInjective(list)
    BY DEF IsInjective, Distinct, IdsOf
  <1>3. CASE matching = {}
    <2>1. new = list
      BY <1>3 DEF Without, RemoveFirstMatch
    <2> QED
      BY <1>1, <2>1 DEF Reorders, Range
  <1>4. CASE matching # {}
    <2> DEFINE at == Min(matching)
    <2>1. new = RemoveAt(list, at)
      BY <1>4 DEF Without, RemoveFirstMatch, SelectInSeq
    <2>2. at \in 1..Len(list)
      <3>1. Min(matching) \in matching
        BY <1>1, <1>4, MinOfSome
      <3> QED
        BY <3>1
    <2> HIDE DEF at, matching, T
    <2>3. new \in Seq(T) /\ Range(new) \subseteq Range(list) /\ IsInjective(new)
      <3>1. /\ RemoveAt(list, at) \in Seq(T)
            /\ Range(RemoveAt(list, at)) \subseteq Range(list)
            /\ IsInjective(list) =>
                IsInjective(RemoveAt(list, at)) /\ list[at] \notin Range(RemoveAt(list, at))
        BY <1>1, <2>2, RemoveAtKeeps
      <3> QED
        BY <1>2, <2>1, <3>1
    <2> HIDE DEF new
    <2>4. \A i \in DOMAIN new : new[i] \in Range(list)
      BY <2>3 DEF Range
    <2>5. \A a, b \in Range(list) :
                a.id = b.id \/ (a.item = b.item /\ a.item # NoItem) => a = b
      BY DEF Range, Distinct, IdsOf
    <2>6. Distinct(new)
      BY <2>3, <2>4, <2>5 DEF Distinct, IsInjective
    <2> QED
      BY <2>3, <2>4, <2>6 DEF Reorders, OrdersOf, T, new
  <1> QED
    BY <1>3, <1>4

(* The entries of a list that has an id twice are one.                      *)
LEMMA EntriesByRange ==
    ASSUME NEW list \in OrdersOf(Videos), Distinct(list), NewEntry \notin IdsOf(list)
    PROVE  /\ \A a, b \in Range(list) : a.id = b.id => a = b
           /\ \A a, b \in Range(list) : a.item = b.item /\ a.item # NoItem => a = b
           /\ IdsOf(list) = {a.id : a \in Range(list)}
           /\ HeldBy(list) = {a.item : a \in Range(list)} \ {NoItem}
  BY DEF Range, Distinct, IdsOf, HeldBy

(* What a reordered list holds, and what became of the entries left out.    *)
LEMMA ReordersKeeps ==
    ASSUME NEW list \in OrdersOf(Videos), Distinct(list), NewEntry \notin IdsOf(list),
           NEW new, Reorders(list, new)
    PROVE  /\ IdsOf(new) \subseteq IdsOf(list) \cup {NewEntry}
           /\ HeldBy(new) \subseteq HeldBy(list)
           /\ \A i \in DOMAIN list :
                \/ \E j \in DOMAIN new : new[j] = list[i]
                \/ list[i] \in EditedAway(list, new)
           /\ \A x \in HeldBy(list) \ HeldBy(new) : \E e \in EditedAway(list, new) : e.item = x
  <1>1. \A i \in DOMAIN new :
            new[i] \in Range(list) \/ (new[i].id = NewEntry /\ new[i].item = NoItem)
    BY DEF Reorders
  <1>2. \A a, b \in Range(list) : a.id = b.id => a = b
    BY EntriesByRange
  <1>3. \A i \in DOMAIN list : list[i] \in Range(list) /\ list[i].id # NewEntry
    BY DEF Range, IdsOf
  <1>4. ASSUME NEW i \in DOMAIN list
        PROVE  \/ \E j \in DOMAIN new : new[j] = list[i]
               \/ list[i] \in EditedAway(list, new)
    <2>1. CASE list[i].id \in IdsOf(new)
      <3>1. PICK j \in DOMAIN new : new[j].id = list[i].id
        BY <2>1 DEF IdsOf
      <3>2. new[j] = list[i]
        BY <1>1, <1>2, <1>3, <3>1
      <3> QED
        BY <3>2
    <2>2. CASE list[i].id \notin IdsOf(new)
      BY <2>2 DEF EditedAway
    <2> QED
      BY <2>1, <2>2
  <1>5. IdsOf(new) \subseteq IdsOf(list) \cup {NewEntry}
    BY <1>1 DEF IdsOf, Range
  <1>6. HeldBy(new) \subseteq HeldBy(list)
    BY <1>1 DEF HeldBy, Range
  <1>7. ASSUME NEW x \in HeldBy(list) \ HeldBy(new)
        PROVE  \E e \in EditedAway(list, new) : e.item = x
    <2>1. PICK i \in DOMAIN list : list[i].item = x /\ x # NoItem
      BY DEF HeldBy
    <2>2. \A j \in DOMAIN new : new[j] # list[i]
      BY <2>1 DEF HeldBy
    <2> QED
      BY <1>4, <2>1, <2>2
  <1> QED
    BY <1>4, <1>5, <1>6, <1>7

(* An order stored: each entry keeps its video and its item, an old one its  *)
(* id, and each new one takes an id nothing had.                            *)
LEMMA NumberedKeeps ==
    ASSUME NEW list \in OrdersOf(Videos), Distinct(list), nextEntry \in Nat \ {0},
           IdsOf(list) \subseteq 0..(nextEntry - 1)
    PROVE  /\ Numbered(list) \in OrdersOf(Videos) /\ Distinct(Numbered(list))
           /\ DOMAIN Numbered(list) = DOMAIN list
           /\ \A i \in DOMAIN list :
                /\ Numbered(list)[i].video = list[i].video
                /\ Numbered(list)[i].item = list[i].item
                /\ list[i].id # NewEntry => Numbered(list)[i].id = list[i].id
                /\ list[i].id = NewEntry => Numbered(list)[i].id \notin 0..(nextEntry - 1)
           /\ NewUpTo(list, Len(list)) \in Nat
           /\ nextEntry + NewUpTo(list, Len(list)) \in Nat \ {0}
           /\ nextEntry <= nextEntry + NewUpTo(list, Len(list))
           /\ IdsOf(Numbered(list)) \subseteq 1..(nextEntry + NewUpTo(list, Len(list)) - 1)
           /\ HeldBy(Numbered(list)) = HeldBy(list)
  <1> DEFINE T == [id : Nat, video : Videos, item : Nat]
             new == Numbered(list)
             fresh == {i \in DOMAIN list : list[i].id = NewEntry}
             count(i) == Cardinality({j \in 1..i : j \in fresh})
             last == Len(list)
             top == nextEntry + count(last)
  <1>1. last \in Nat /\ DOMAIN list = 1..last
    BY DEF OrdersOf
  <1>2. \A i \in DOMAIN list : list[i].id \in Nat /\ list[i].video \in Videos /\ list[i].item \in Nat
    <2> TAKE i \in DOMAIN list
    <2>1. list[i] \in [id : Nat, video : Videos, item : Nat]
      BY EntryTyped
    <2> QED
      BY <2>1
  <1>3. \A i \in 0..last : NewUpTo(list, i) = count(i)
    <2> TAKE i \in 0..last
    <2>1. 1..i \subseteq DOMAIN list
      BY <1>1
    <2>2. {j \in 1..i : list[j].id = NewEntry} = {j \in 1..i : j \in fresh}
      BY <2>1
    <2> QED
      BY <2>2 DEF NewUpTo
  <1>4. new = [i \in 1..last |->
                Entry(IF list[i].id = NewEntry THEN nextEntry + NewUpTo(list, i) - 1
                      ELSE list[i].id, list[i].video, list[i].item)]
    BY <1>1 DEF Numbered
  <1>5. \A i \in 1..last : i \in fresh <=> list[i].id = NewEntry
    BY <1>1
  <1> HIDE DEF fresh, new
  <1>6. ASSUME NEW i \in Nat, NEW j \in Nat, i <= j
        PROVE  /\ count(i) \in Nat /\ count(i) <= count(j)
               /\ i < j /\ j \in fresh => count(i) < count(j)
    BY <1>6, CountsGrow
  <1> HIDE DEF count
  <1>7. ASSUME NEW i \in fresh, i \in 1..last
        PROVE  count(i) \in Nat \ {0} /\ count(i) <= count(last)
    <2>1. i \in Nat /\ i - 1 \in Nat /\ i - 1 < i /\ i - 1 <= i /\ i <= i /\ i <= last
      BY <1>1, <1>7
    <2>2. count(i) \in Nat /\ count(i) <= count(last)
      BY <1>1, <1>6, <2>1
    <2> DEFINE k == i - 1
    <2>3. k \in Nat /\ k < i /\ k <= i
      BY <2>1
    <2> HIDE DEF k
    <2>4. count(k) \in Nat /\ count(k) < count(i)
      BY <1>6, <1>7, <2>1, <2>3
    <2> QED
      BY <2>2, <2>4
  <1>8. ASSUME NEW i \in DOMAIN list
        PROVE  /\ new[i].id = IF i \in fresh THEN nextEntry + count(i) - 1 ELSE list[i].id
               /\ new[i].video = list[i].video /\ new[i].item = list[i].item
               /\ new[i] = Entry(new[i].id, list[i].video, list[i].item)
    <2>1. i \in 0..last /\ i \in 1..last
      BY <1>1
    <2> QED
      BY <1>3, <1>4, <1>5, <2>1 DEF Entry
  <1>9. top \in Nat \ {0} /\ nextEntry <= top /\ count(last) \in Nat
    <2>1. count(last) \in Nat
      BY <1>1, <1>6
    <2> QED
      BY <2>1
  <1>10. ASSUME NEW i \in DOMAIN list
         PROVE  /\ new[i].id \in 1..(top - 1)
                /\ i \notin fresh => new[i].id = list[i].id /\ list[i].id \in 1..(nextEntry - 1)
                /\ i \in fresh => new[i].id \notin 0..(nextEntry - 1)
    <2>1. CASE i \in fresh
      <3>1. count(i) \in Nat \ {0} /\ count(i) <= count(last)
        BY <1>1, <1>7, <2>1
      <3>2. new[i].id = nextEntry + count(i) - 1
        BY <1>8, <2>1
      <3> DEFINE a == count(i)
                 b == count(last)
                 id == new[i].id
      <3>3. a \in Nat \ {0} /\ b \in Nat /\ a <= b /\ id = nextEntry + a - 1 /\ top = nextEntry + b
        BY <1>9, <3>1, <3>2
      <3> HIDE DEF a, b, id, top
      <3>4. id \in 1..(top - 1) /\ id \notin 0..(nextEntry - 1)
        BY <3>3
      <3> QED
        BY <2>1, <3>4 DEF id
    <2>2. CASE i \notin fresh
      <3>1. new[i].id = list[i].id /\ list[i].id # NewEntry
        BY <1>1, <1>5, <1>8, <2>2
      <3>2. list[i].id \in 0..(nextEntry - 1)
        BY DEF IdsOf
      <3>3. list[i].id \in 1..(nextEntry - 1)
        BY <3>1, <3>2 DEF NewEntry
      <3> HIDE DEF top
      <3>4. list[i].id \in 1..(top - 1)
        BY <1>9, <3>3
      <3> QED
        BY <2>2, <3>1, <3>3, <3>4
    <2> QED
      BY <2>1, <2>2
  <1> HIDE DEF top
  <1>11. \A i \in DOMAIN list : new[i] \in T
    <2> TAKE i \in DOMAIN list
    <2> DEFINE id == new[i].id
    <2>1. id \in Nat
      BY <1>9, <1>10
    <2>2. new[i] = Entry(id, list[i].video, list[i].item)
      BY <1>8
    <2> HIDE DEF id
    <2> QED
      BY <1>2, <2>1, <2>2 DEF Entry
  <1>12. new \in OrdersOf(Videos) /\ DOMAIN new = DOMAIN list
    <2>1. new = [i \in 1..last |-> new[i]]
      BY <1>4
    <2> HIDE DEF T
    <2>2. new \in Seq(T)
      BY <1>1, <1>11, <2>1
    <2>3. DOMAIN new = 1..last
      BY <2>1
    <2> QED
      BY <1>1, <2>2, <2>3 DEF OrdersOf, T
  <1>13. Distinct(new)
    <2> SUFFICES ASSUME NEW i \in DOMAIN list, NEW j \in DOMAIN list
                 PROVE  /\ new[i].id = new[j].id => i = j
                        /\ new[i].item = new[j].item /\ new[i].item # NoItem => i = j
      BY <1>12 DEF Distinct
    <2>1. new[i].item = new[j].item /\ new[i].item # NoItem => i = j
      BY <1>8 DEF Distinct
    <2>2. CASE i \in fresh /\ j \in fresh
      <3>1. /\ new[i].id = nextEntry + count(i) - 1 /\ new[j].id = nextEntry + count(j) - 1
            /\ count(i) \in Nat /\ count(j) \in Nat /\ i \in Nat /\ j \in Nat
        BY <1>1, <1>7, <1>8, <2>2
      <3>2. i < j => count(i) < count(j)
        BY <1>6, <2>2, <3>1
      <3>3. j < i => count(j) < count(i)
        BY <1>6, <2>2, <3>1
      <3> QED
        BY <2>1, <3>1, <3>2, <3>3
    <2>3. CASE i \notin fresh /\ j \notin fresh
      <3>1. /\ new[i].id = list[i].id /\ new[j].id = list[j].id
            /\ list[i].id # NewEntry
        BY <1>1, <1>5, <1>10, <2>3
      <3> QED
        BY <2>1, <3>1 DEF Distinct
    <2>4. CASE (i \in fresh /\ j \notin fresh) \/ (i \notin fresh /\ j \in fresh)
      <3>1. new[i].id # new[j].id
        <4>1. \A k \in DOMAIN list : k \notin fresh => new[k].id \in 0..(nextEntry - 1)
          BY <1>10
        <4>2. \A k \in DOMAIN list : k \in fresh => new[k].id \notin 0..(nextEntry - 1)
          BY <1>10
        <4> QED
          BY <2>4, <4>1, <4>2
      <3> QED
        BY <2>1, <3>1
    <2> QED
      BY <2>2, <2>3, <2>4
  <1>14. top = nextEntry + NewUpTo(list, Len(list))
    BY <1>1, <1>3 DEF top
  <1>15. IdsOf(new) \subseteq 1..(top - 1)
    BY <1>10, <1>12 DEF IdsOf
  <1>16. HeldBy(new) = HeldBy(list)
    BY <1>8, <1>12 DEF HeldBy
  <1>17. \A i \in DOMAIN list : /\ list[i].id # NewEntry => new[i].id = list[i].id
                                /\ list[i].id = NewEntry => new[i].id \notin 0..(nextEntry - 1)
    BY <1>1, <1>5, <1>10
  <1>18. \A i \in DOMAIN list :
            /\ new[i].video = list[i].video /\ new[i].item = list[i].item
            /\ list[i].id # NewEntry => new[i].id = list[i].id
            /\ list[i].id = NewEntry => new[i].id \notin 0..(nextEntry - 1)
    BY <1>8, <1>17
  <1>19. /\ new \in OrdersOf(Videos) /\ Distinct(new) /\ DOMAIN new = DOMAIN list
         /\ HeldBy(new) = HeldBy(list)
    BY <1>12, <1>13, <1>16
  <1>20. top \in Nat \ {0} /\ nextEntry <= top /\ IdsOf(new) \subseteq 1..(top - 1)
    BY <1>9, <1>15
  <1>21. NewUpTo(list, Len(list)) \in Nat
    BY <1>1, <1>3, <1>9
  <1> QED
    BY <1>14, <1>18, <1>19, <1>20, <1>21 DEF new

(* An entry that awaits an item takes the one made for it.                  *)
LEMMA WithItemKeeps ==
    ASSUME NEW list \in OrdersOf(Videos), Distinct(list), NewEntry \notin IdsOf(list),
           NEW entry, NEW made \in Nat \ {0}, made \notin HeldBy(list)
    PROVE  LET new == WithItem(list, entry, made)
           IN  /\ new \in OrdersOf(Videos) /\ Distinct(new) /\ DOMAIN new = DOMAIN list
               /\ \A i \in DOMAIN list :
                    /\ new[i].id = list[i].id
                    /\ new[i].item = IF list[i].id = entry THEN made ELSE list[i].item
               /\ IdsOf(new) = IdsOf(list)
               /\ HeldBy(new) \subseteq HeldBy(list) \cup {made}
               /\ entry \in IdsOf(list) => made \in HeldBy(new)
               /\ (\A i \in DOMAIN list : list[i].id = entry => list[i].item = NoItem) =>
                    HeldBy(list) \subseteq HeldBy(new)
  <1> DEFINE T == [id : Nat, video : Videos, item : Nat]
             new == WithItem(list, entry, made)
  <1>1. Len(list) \in Nat /\ DOMAIN list = 1..Len(list)
    BY DEF OrdersOf
  <1>2. ASSUME NEW i \in DOMAIN list
        PROVE  /\ new[i] \in T /\ new[i].id = list[i].id
               /\ new[i].item = IF list[i].id = entry THEN made ELSE list[i].item
    <2>1. list[i] \in T
      BY EntryTyped
    <2>2. new[i] = IF list[i].id = entry THEN Entry(entry, list[i].video, made) ELSE list[i]
      BY DEF WithItem
    <2>3. CASE list[i].id = entry
      BY <2>1, <2>2, <2>3 DEF Entry
    <2>4. CASE list[i].id # entry
      BY <2>1, <2>2, <2>4
    <2> QED
      BY <2>3, <2>4
  <1>3. new = [i \in 1..Len(list) |-> new[i]] /\ DOMAIN new = DOMAIN list
    BY <1>1 DEF WithItem
  <1> HIDE DEF new
  <1>4. new \in OrdersOf(Videos)
    <2> HIDE DEF T
    <2>1. new \in Seq(T)
      BY <1>1, <1>2, <1>3
    <2> QED
      BY <2>1 DEF OrdersOf, T
  <1>5. \A i \in DOMAIN list : list[i].item # made
    BY DEF HeldBy, NoItem
  <1>6. Distinct(new)
    <2> SUFFICES ASSUME NEW i \in DOMAIN list, NEW j \in DOMAIN list
                 PROVE  /\ new[i].id = new[j].id /\ new[i].id # NewEntry => i = j
                        /\ new[i].item = new[j].item /\ new[i].item # NoItem => i = j
      BY <1>3 DEF Distinct
    <2>1. list[i].id = list[j].id => i = j
      BY DEF Distinct, IdsOf
    <2>2. list[i].item = list[j].item /\ list[i].item # NoItem => i = j
      BY DEF Distinct
    <2> QED
      BY <1>2, <1>5, <2>1, <2>2
  <1>7. IdsOf(new) = IdsOf(list)
    BY <1>2, <1>3 DEF IdsOf
  <1>8. HeldBy(new) \subseteq HeldBy(list) \cup {made}
    BY <1>2, <1>3 DEF HeldBy
  <1>9. entry \in IdsOf(list) => made \in HeldBy(new)
    <2> SUFFICES ASSUME entry \in IdsOf(list) PROVE made \in HeldBy(new)
      OBVIOUS
    <2>1. PICK i \in DOMAIN list : list[i].id = entry
      BY DEF IdsOf
    <2>2. new[i].item = made /\ i \in DOMAIN new
      BY <1>2, <1>3, <2>1
    <2> QED
      BY <2>2 DEF HeldBy, NoItem
  <1>10. ASSUME \A i \in DOMAIN list : list[i].id = entry => list[i].item = NoItem
         PROVE  HeldBy(list) \subseteq HeldBy(new)
    <2> SUFFICES ASSUME NEW x \in HeldBy(list) PROVE x \in HeldBy(new)
      OBVIOUS
    <2>1. PICK i \in DOMAIN list : list[i].item = x /\ x # NoItem
      BY DEF HeldBy
    <2>2. new[i].item = x /\ i \in DOMAIN new
      BY <1>2, <1>3, <1>10, <2>1
    <2> QED
      BY <2>1, <2>2 DEF HeldBy
  <1> QED
    BY <1>2, <1>3, <1>4, <1>6, <1>7, <1>8, <1>9, <1>10 DEF new

-----------------------------------------------------------------------------
(***************************************************************************)
(* The base, as the writes of a plan are applied to it.                    *)
(***************************************************************************)
BaseItem == [id : Nat \ {0}, video : Nat, placed : BOOLEAN]

LEMMA BaseItemMoved ==
    ASSUME NEW b \in BaseItem
    PROVE  /\ [b EXCEPT !.placed = TRUE] \in BaseItem
           /\ [b EXCEPT !.placed = TRUE].id = b.id
  BY DEF BaseItem

LEMMA BaseByRange ==
    ASSUME NEW list \in Seq(BaseItem)
    PROVE  /\ Len(list) \in Nat /\ DOMAIN list = 1..Len(list)
           /\ IdsOf(list) = {b.id : b \in Range(list)}
           /\ NoItem \notin IdsOf(list)
           /\ ItemIds(list) \in Seq(Nat) /\ Len(ItemIds(list)) = Len(list)
           /\ Range(ItemIds(list)) = IdsOf(list)
  <1>1. Len(list) \in Nat /\ DOMAIN list = 1..Len(list)
    OBVIOUS
  <1>2. \A i \in 1..Len(list) : list[i] \in BaseItem
    OBVIOUS
  <1>3. \A i \in 1..Len(list) : list[i].id \in Nat \ {0}
    BY <1>2 DEF BaseItem
  <1>4. IdsOf(list) = {b.id : b \in Range(list)}
    BY DEF IdsOf, Range
  <1>5. ItemIds(list) \in Seq(Nat) /\ Len(ItemIds(list)) = Len(list)
    BY <1>1, <1>3 DEF ItemIds
  <1>6. Range(ItemIds(list)) = IdsOf(list)
    BY DEF ItemIds, IdsOf, Range
  <1> QED
    BY <1>1, <1>3, <1>4, <1>5, <1>6 DEF IdsOf, NoItem

LEMMA AppliedKeeps ==
    ASSUME NEW list \in Seq(BaseItem), NEW w \in WritesOf(Videos), NEW made \in Nat,
           AddsItem(w) => made # NoItem, NEW next, WriteFits(w, Len(list), next),
           w.kind \in {"delete", "move"} => w.item \in IdsOf(list)
    PROVE  LET new == Applied(list, w, made)
           IN  /\ new \in Seq(BaseItem) /\ Len(new) = next
               /\ IdsOf(new) \subseteq IdsOf(list) \cup IF AddsItem(w) THEN {made} ELSE {}
               /\ IdsOf(list) \subseteq
                    IdsOf(new) \cup IF w.kind = "delete" THEN {w.item} ELSE {}
               /\ AddsItem(w) => made \in IdsOf(new)
  <1> DEFINE at == PlaceIn(ItemIds(list), w.item)
             new == [id |-> made, video |-> w.video, placed |-> TRUE]
             result == Applied(list, w, made)
             place == w.position + 1
  <1>1. /\ Len(list) \in Nat /\ DOMAIN list = 1..Len(list)
        /\ IdsOf(list) = {b.id : b \in Range(list)}
        /\ ItemIds(list) \in Seq(Nat) /\ Len(ItemIds(list)) = Len(list)
        /\ Range(ItemIds(list)) = IdsOf(list)
    BY BaseByRange
  <1>2. /\ w.kind \in {"delete", "insert", "append", "move"} /\ w.position \in Nat
        /\ w.item \in Nat /\ (AddsItem(w) => w.video \in Videos)
    BY DEF WritesOf
  <1>3. w.kind \in {"delete", "move"} => at \in 1..Len(list) /\ list[at].id = w.item
    <2> SUFFICES ASSUME w.kind \in {"delete", "move"}
                 PROVE  at \in 1..Len(list) /\ list[at].id = w.item
      OBVIOUS
    <2>1. at \in 1..Len(ItemIds(list)) /\ ItemIds(list)[at] = w.item
      BY <1>1, PlaceInList
    <2> HIDE DEF at
    <2> QED
      BY <1>1, <2>1 DEF ItemIds
  <1>4. AddsItem(w) => new \in BaseItem
    <2> SUFFICES ASSUME AddsItem(w)
                 PROVE  new \in BaseItem
      OBVIOUS
    <2> DEFINE v == w.video
    <2>1. made \in Nat \ {0}
      BY DEF NoItem
    <2>2. v \in Nat
      <3>1. w.video \in Videos
        BY <1>2 DEF AddsItem
      <3>2. Videos \subseteq Nat
        BY PlaylistSyncAssumption
      <3> QED
        BY <3>1, <3>2
    <2> HIDE DEF v
    <2>3. [id |-> made, video |-> v, placed |-> TRUE] \in BaseItem
      BY <2>1, <2>2 DEF BaseItem
    <2> QED
      BY <2>3 DEF v
  <1>5. new.id = made
    OBVIOUS
  <1>6. \A one \in Seq(BaseItem) : IdsOf(one) = {b.id : b \in Range(one)}
    BY BaseByRange
  <1>7. CASE w.kind = "delete"
    <2>1. result = RemoveAt(list, at) /\ ~AddsItem(w) /\ next = Len(list) - 1
      BY <1>1, <1>3, <1>7 DEF Applied, AddsItem, WriteFits
    <2> HIDE DEF at, result
    <2>2. /\ result \in Seq(BaseItem) /\ Len(result) = Len(list) - 1
          /\ Range(result) \subseteq Range(list)
          /\ Range(list) \subseteq Range(result) \cup {list[at]}
      BY <1>3, <1>7, <2>1, RemoveAtKeeps
    <2>3. IdsOf(result) = {b.id : b \in Range(result)}
      BY <1>6, <2>2
    <2>4. IdsOf(result) \subseteq IdsOf(list)
      BY <1>1, <2>2, <2>3
    <2>5. IdsOf(list) \subseteq IdsOf(result) \cup {w.item}
      BY <1>1, <1>3, <1>7, <2>2, <2>3
    <2> QED
      BY <1>7, <2>1, <2>2, <2>4, <2>5 DEF result
  <1>8. CASE AddsItem(w)
    <2>1. w.kind # "delete" /\ next = Len(list) + 1
      BY <1>8 DEF AddsItem, WriteFits
    <2>2. PICK p \in 1..(Len(list) + 1) : result = InsertAt(list, p, new)
      <3>1. CASE w.kind = "append"
        <4>1. result = Append(list, new)
          BY <3>1 DEF Applied
        <4> HIDE DEF new, result
        <4>2. result = InsertAt(list, Len(list) + 1, new)
          BY <1>4, <1>8, <4>1, AppendIsInsert
        <4>3. Len(list) + 1 \in 1..(Len(list) + 1)
          BY <1>1
        <4> QED
          BY <4>2, <4>3
      <3>2. CASE w.kind = "insert"
        <4>1. result = InsertAt(list, place, new)
          BY <3>2 DEF Applied, PutAt
        <4>2. place \in 1..(Len(list) + 1)
          BY <1>1, <1>2, <3>2 DEF WriteFits
        <4> HIDE DEF place, result
        <4> QED
          BY <4>1, <4>2
      <3> QED
        BY <1>8, <3>1, <3>2 DEF AddsItem
    <2> HIDE DEF new, result
    <2>3. /\ result \in Seq(BaseItem) /\ Len(result) = Len(list) + 1
          /\ Range(result) = Range(list) \cup {new}
      BY <1>4, <1>8, <2>2, InsertAtKeeps
    <2>4. IdsOf(result) = {b.id : b \in Range(result)}
      BY <1>6, <2>3
    <2>5. IdsOf(result) = IdsOf(list) \cup {made}
      BY <1>1, <1>5, <2>3, <2>4
    <2> QED
      BY <1>8, <2>1, <2>3, <2>5 DEF result
  <1>9. CASE w.kind = "move"
    <2> DEFINE less == RemoveAt(list, at)
               one == [list[at] EXCEPT !.placed = TRUE]
    <2>1. result = InsertAt(less, place, one) /\ ~AddsItem(w) /\ next = Len(list)
            /\ place \in 1..Len(list)
      BY <1>1, <1>2, <1>9 DEF Applied, PutAt, AddsItem, WriteFits
    <2> HIDE DEF at, result, place
    <2>2. /\ less \in Seq(BaseItem) /\ Len(less) = Len(list) - 1
          /\ Range(less) \subseteq Range(list)
          /\ Range(list) \subseteq Range(less) \cup {list[at]}
      BY <1>3, <1>9, RemoveAtKeeps
    <2>3. one \in BaseItem /\ one.id = list[at].id /\ list[at] \in Range(list)
      <3>1. list[at] \in BaseItem
        BY <1>3, <1>9
      <3>2. list[at] \in Range(list)
        BY <1>1, <1>3, <1>9 DEF Range
      <3> QED
        BY <3>1, <3>2, BaseItemMoved
    <2> HIDE DEF less, one
    <2>4. place \in 1..(Len(less) + 1)
      BY <1>1, <2>1, <2>2
    <2>5. /\ result \in Seq(BaseItem) /\ Len(result) = Len(less) + 1
          /\ Range(result) = Range(less) \cup {one}
      BY <2>1, <2>2, <2>3, <2>4, InsertAtKeeps
    <2>6. IdsOf(result) = {b.id : b \in Range(result)}
      BY <1>6, <2>5
    <2>7. IdsOf(result) \subseteq IdsOf(list) /\ IdsOf(list) \subseteq IdsOf(result)
      BY <1>1, <2>2, <2>3, <2>5, <2>6
    <2>8. Len(result) = next
      BY <1>1, <2>1, <2>2, <2>5
    <2> QED
      BY <1>9, <2>1, <2>5, <2>7, <2>8 DEF result
  <1> QED
    BY <1>2, <1>7, <1>8, <1>9 DEF AddsItem

LEMMA UnplacedKeeps ==
    ASSUME NEW read \in ItemsOf(Videos)
    PROVE  /\ Unplaced(read) \in Seq(BaseItem)
           /\ Len(Unplaced(read)) = Len(read) /\ IdsOf(Unplaced(read)) = IdsOf(read)
  <1>1. Len(read) \in Nat /\ DOMAIN read = 1..Len(read)
    BY DEF ItemsOf
  <1>2. \A i \in DOMAIN read : Unplaced(read)[i] \in BaseItem /\ Unplaced(read)[i].id = read[i].id
    <2> TAKE i \in DOMAIN read
    <2>1. read[i].id \in Nat \ {0} /\ read[i].video \in Videos
      BY ItemTyped
    <2> QED
      BY <2>1, PlaylistSyncAssumption DEF Unplaced, BaseItem
  <1>3. DOMAIN Unplaced(read) = DOMAIN read
    BY DEF Unplaced
  <1>4. Unplaced(read) = [i \in 1..Len(read) |-> Unplaced(read)[i]]
    BY <1>1 DEF Unplaced
  <1>5. Unplaced(read) \in Seq(BaseItem) /\ Len(Unplaced(read)) = Len(read)
    <2> DEFINE u == Unplaced(read)
    <2> HIDE DEF u
    <2>1. u = [i \in 1..Len(read) |-> u[i]] /\ \A i \in 1..Len(read) : u[i] \in BaseItem
      BY <1>1, <1>2, <1>4 DEF u
    <2>2. u \in Seq(BaseItem) /\ Len(u) = Len(read)
      BY <1>1, <2>1
    <2> QED
      BY <2>2 DEF u
  <1> QED
    BY <1>2, <1>3, <1>5 DEF IdsOf

-----------------------------------------------------------------------------
(***************************************************************************)
(* The inductive invariant of the whole sync.                              *)
(***************************************************************************)

(* What an edit here removed, and the items made or taken for an entry,     *)
(* only grow.                                                               *)
HistoryOK(past) == DOMAIN past = {"made", "editedAway", "taken", "sinceBase", "sinceRead"}

GoesOn(past, now) ==
    /\ HistoryOK(past) => HistoryOK(now)
    /\ past.made \subseteq now.made
    /\ past.editedAway \subseteq now.editedAway
    /\ past.taken \subseteq now.taken

(* What YouTube holds, and what a read of it may show.                      *)
ContentsOK ==
    /\ nextItem \in Nat \ {0}
    /\ Known(youtube, nextItem)
    /\ \A content \in older : Known(content, nextItem)
    /\ live \in BOOLEAN /\ stored \in BOOLEAN
    /\ ~live => youtube = <<>>
    /\ ~stored => ~live

(* No two entries have one id or hold one item, and each item they hold is  *)
(* in the base.                                                             *)
StoreOK ==
    /\ nextEntry \in Nat \ {0}
    /\ entries \in OrdersOf(Videos) /\ Distinct(entries)
    /\ IdsOf(entries) \subseteq 1..(nextEntry - 1)
    /\ base \in Seq(BaseItem) /\ IdsOf(base) \subseteq 1..(nextItem - 1)
    /\ HeldBy(entries) \subseteq IdsOf(base)

(* What the worker read, and the writes it has left to send.                *)
WorkOK ==
    /\ worker.pc \in Phases
    /\ worker.pc \in {"confirm", "merge"} =>
            /\ Known(worker.read, nextItem)
            /\ IdsOf(worker.checked) \subseteq 1..(nextItem - 1)
    /\ worker.writes \in Seq(WritesOf(Videos))
    /\ worker.pc \in {"send", "settle"} => worker.writes # <<>>

Gone(past, entry) == \E e \in past.editedAway : e.id = entry

(* No entry of that id holds an item, and if none has it an edit removed it. *)
WaitsOrGone(list, past, entry) ==
    /\ \A i \in DOMAIN list : list[i].id = entry => list[i].item = NoItem
    /\ entry \in IdsOf(list) \/ Gone(past, entry)

(* An item that no entry holds because of an edit here.                     *)
Excused(past, item) ==
    \E e \in past.editedAway :
        e.item = item \/ [entry |-> e.id, item |-> item] \in past.made \cup past.taken

(* A write the base and the order, as they stand now, still ask for.        *)
AskedFor(held, list, past, w) ==
    \/ w.kind = "delete" /\ w.item \in IdsOf(held) \ HeldBy(list)
    \/ w.kind = "move" /\ w.item \in IdsOf(held)
    \/ AddsItem(w) /\ WaitsOrGone(list, past, w.entry)

DeletesNoMoved(writes) ==
    \A i, j \in DOMAIN writes :
        writes[i].kind = "delete" /\ writes[j].kind = "move" => writes[i].item # writes[j].item

Pushable(held, list, past, writes) ==
    /\ OneAddEach(writes) /\ OneDeleteEach(writes) /\ DeletesNoMoved(writes)
    /\ \E to : Fits(writes, Len(held), to)
    /\ \A n \in DOMAIN writes : AskedFor(held, list, past, writes[n])

(* A push goes on from the base its plan was made from, whatever is edited  *)
(* meanwhile.                                                               *)
PushOK ==
    stored /\ worker.pc \in {"push", "send", "settle"} =>
        worker.base = base /\ Pushable(base, entries, history, worker.writes)

(* An item the answer names is new to the base.                             *)
AnswerOK ==
    worker.pc = "settle" =>
        /\ worker.made # NoItem <=> worker.outcome = "applied" /\ AddsItem(Sent)
        /\ worker.made # NoItem =>
                /\ worker.made \in 1..(nextItem - 1) /\ worker.made \notin IdsOf(base)
                /\ [entry |-> Sent.entry, item |-> worker.made] \in history.made

(* The entry of an unanswered insert still awaits its item, or an edit      *)
(* removed it.                                                              *)
UnansweredOK ==
    stored /\ AddsItem(unanswered) => WaitsOrGone(entries, history, unanswered.entry)

(* An item of the base that no entry holds was let go by an edit here, and  *)
(* so was each the worker deletes.                                          *)
ExcusesOK ==
    /\ stored => \A item \in IdsOf(base) \ HeldBy(entries) : Excused(history, item)
    /\ \A n \in DOMAIN worker.writes :
            worker.writes[n].kind = "delete" => Excused(history, worker.writes[n].item)

(* Outside the lag of a write a read shows what YouTube holds, so what a    *)
(* confirmed read lacks YouTube does not have.                              *)
ConfirmedOK ==
    /\ live /\ ~recent => older = {}
    /\ live /\ worker.pc = "confirm" => older = {}
    /\ live /\ worker.pc = "merge" => Absent \cap IdsOf(youtube) = {}

SyncInv ==
    /\ ContentsOK /\ StoreOK /\ WorkOK /\ PushOK /\ AnswerOK
    /\ UnansweredOK /\ ExcusesOK /\ ConfirmedOK /\ HistoryOK(history)

-----------------------------------------------------------------------------
(* What stands stands as history goes on.                                   *)

LEMMA ExcusedStays ==
    ASSUME NEW past, NEW now, GoesOn(past, now), NEW item, Excused(past, item)
    PROVE  Excused(now, item)
  BY DEF GoesOn, Excused

LEMMA GoneStays ==
    ASSUME NEW past, NEW now, GoesOn(past, now), NEW entry, Gone(past, entry)
    PROVE  Gone(now, entry)
  BY DEF GoesOn, Gone

LEMMA AwaitedStays ==
    ASSUME NEW past, NEW now, GoesOn(past, now), NEW list, NEW entry,
           WaitsOrGone(list, past, entry)
    PROVE  WaitsOrGone(list, now, entry)
  BY GoneStays DEF WaitsOrGone

LEMMA AskedForStays ==
    ASSUME NEW past, NEW now, GoesOn(past, now), NEW held, NEW list, NEW w,
           AskedFor(held, list, past, w)
    PROVE  AskedFor(held, list, now, w)
  BY AwaitedStays DEF AskedFor

LEMMA PushableStays ==
    ASSUME NEW past, NEW now, GoesOn(past, now), NEW held, NEW list, NEW writes,
           Pushable(held, list, past, writes)
    PROVE  Pushable(held, list, now, writes)
  BY AskedForStays DEF Pushable

LEMMA HistoryStays ==
    ASSUME UNCHANGED history
    PROVE  GoesOn(history, history')
  BY DEF GoesOn

-----------------------------------------------------------------------------
(* A step that changes neither the order, nor the base, nor the writes of   *)
(* a push that goes on.                                                     *)
Still ==
    /\ UNCHANGED <<entries, base, nextEntry>>
    /\ GoesOn(history, history')
    /\ stored' => stored
    /\ nextItem' \in {nextItem, nextItem + 1}
    /\ worker' \in {worker, Idle}
    /\ unanswered' \in {unanswered, NoWrite}

StillOK == StoreOK /\ WorkOK /\ PushOK /\ AnswerOK /\ UnansweredOK /\ ExcusesOK
               /\ HistoryOK(history)

LEMMA StillKeeps ==
    ASSUME SyncInv, Still
    PROVE  StillOK'
  <1> USE DEF SyncInv, Still
  <1>1. nextItem' \in Nat \ {0} /\ nextItem <= nextItem' /\ 1..(nextItem - 1) \subseteq 1..(nextItem' - 1)
    <2> DEFINE n == nextItem
               m == nextItem'
    <2>1. n \in Nat \ {0} /\ m \in {n, n + 1}
      BY DEF ContentsOK
    <2> HIDE DEF n, m
    <2>2. m \in Nat \ {0} /\ n <= m /\ 1..(n - 1) \subseteq 1..(m - 1)
      BY <2>1
    <2> QED
      BY <2>2 DEF n, m
  <1>2. StoreOK'
    BY <1>1 DEF StoreOK
  <1>3. WorkOK'
    <2>1. CASE worker' = worker
      <3>1. \A list : Known(list, nextItem) => Known(list, nextItem')
        BY <1>1 DEF Known
      <3> QED
        BY <1>1, <2>1, <3>1 DEF WorkOK
    <2>2. CASE worker' = Idle
      BY <2>2 DEF WorkOK, Idle, Phases
    <2> QED
      BY <2>1, <2>2
  <1>4. PushOK'
    BY PushableStays DEF PushOK, Idle
  <1>5. AnswerOK'
    <2>1. CASE worker' = worker
      BY <1>1, <2>1 DEF AnswerOK, Sent, GoesOn
    <2>2. CASE worker' = Idle
      BY <2>2 DEF AnswerOK, Idle
    <2> QED
      BY <2>1, <2>2
  <1>6. UnansweredOK'
    BY AwaitedStays DEF UnansweredOK, NoWrite, Write, AddsItem
  <1>7. ExcusesOK'
    <2>1. stored' => \A item \in IdsOf(base') \ HeldBy(entries') : Excused(history', item)
      BY ExcusedStays DEF ExcusesOK
    <2>2. \A n \in DOMAIN worker'.writes :
            worker'.writes[n].kind = "delete" => Excused(history', worker'.writes[n].item)
      BY ExcusedStays DEF ExcusesOK, Idle
    <2> QED
      BY <2>1, <2>2 DEF ExcusesOK
  <1>8. HistoryOK(history')
    BY DEF GoesOn
  <1> QED
    BY <1>2, <1>3, <1>4, <1>5, <1>6, <1>7, <1>8 DEF StillOK

-----------------------------------------------------------------------------
(* YouTube, as its owner edits it there: what it had and the item added.    *)
OwnerLeaves ==
    /\ nextItem' \in {nextItem, nextItem + 1}
    /\ Known(youtube', nextItem')
    /\ \A a \in Range(youtube') : a \in Range(youtube) \/ a.id = nextItem

LEMMA OwnerKeeps ==
    ASSUME ContentsOK, OwnerEdits
    PROVE  OwnerLeaves
  <1>1. nextItem \in Nat \ {0} /\ nextItem + 1 \in Nat /\ Known(youtube, nextItem)
    BY DEF ContentsOK
  <1>2. DOMAIN youtube = 1..Len(youtube)
    BY <1>1 DEF Known, ItemsOf
  <1>3. ASSUME NEW video \in OwnerVideos, NEW place \in 1..(Len(youtube) + 1),
               OwnerAdds(video, place)
        PROVE  OwnerLeaves
    <2> DEFINE new == [id |-> nextItem, video |-> video]
               more == InsertAt(youtube, place, new)
    <2>1. video \in Videos
      BY PlaylistSyncAssumption
    <2>2. Known(more, nextItem + 1) /\ Range(more) = Range(youtube) \cup {new}
      BY <1>1, <2>1, KnownInsert
    <2>3. youtube' = more /\ nextItem' = nextItem + 1
      BY <1>3 DEF OwnerAdds
    <2>4. new.id = nextItem
      OBVIOUS
    <2> HIDE DEF more, new
    <2> QED
      BY <2>2, <2>3, <2>4 DEF OwnerLeaves
  <1>4. ASSUME NEW place \in DOMAIN youtube, OwnerRemoves(place)
        PROVE  OwnerLeaves
    <2> DEFINE less == RemoveAt(youtube, place)
    <2>1. Known(less, nextItem) /\ Range(less) \subseteq Range(youtube)
      BY <1>1, <1>2, KnownRemove
    <2>2. youtube' = less /\ nextItem' = nextItem
      BY <1>4 DEF OwnerRemoves
    <2> HIDE DEF less
    <2> QED
      BY <2>1, <2>2 DEF OwnerLeaves
  <1>5. ASSUME NEW from \in DOMAIN youtube, NEW to \in DOMAIN youtube, OwnerMoves(from, to)
        PROVE  OwnerLeaves
    <2> DEFINE moved == InsertAt(RemoveAt(youtube, from), to, youtube[from])
    <2>1. Known(moved, nextItem) /\ Range(moved) \subseteq Range(youtube)
      BY <1>1, <1>2, KnownMove
    <2>2. youtube' = moved /\ nextItem' = nextItem
      BY <1>5 DEF OwnerMoves
    <2> HIDE DEF moved
    <2> QED
      BY <2>1, <2>2 DEF OwnerLeaves
  <1>6. CASE OwnerSorts
    <2>1. nextItem' = nextItem
      BY <1>6 DEF OwnerSorts
    <2>2. CASE youtube' = youtube
      BY <1>1, <2>1, <2>2 DEF OwnerLeaves
    <2>3. CASE youtubeSort = Manual
      <3>1. PICK p \in [DOMAIN youtube -> DOMAIN youtube] :
                IsInjective(p) /\ youtube' = [i \in DOMAIN youtube |-> youtube[p[i]]]
        BY <1>6, <2>3 DEF OwnerSorts
      <3> DEFINE sorted == [i \in DOMAIN youtube |-> youtube[p[i]]]
      <3>2. Known(sorted, nextItem) /\ Range(sorted) \subseteq Range(youtube)
        BY <1>1, <3>1, KnownPermuted
      <3>3. youtube' = sorted
        BY <3>1
      <3> HIDE DEF sorted
      <3> QED
        BY <2>1, <3>2, <3>3 DEF OwnerLeaves
    <2> QED
      BY <1>6, <2>2, <2>3 DEF OwnerSorts
  <1> QED
    BY <1>3, <1>4, <1>5, <1>6 DEF OwnerEdits

LEMMA OwnerIsStill ==
    ASSUME SyncInv, OwnerEdits
    PROVE  SyncInv'
  <1>1. OwnerLeaves
    BY OwnerKeeps DEF SyncInv
  <1>2. /\ UNCHANGED <<live, older, stored, entries, base, nextEntry, recent, worker, unanswered>>
        /\ \E kind : history' = [history EXCEPT !.sinceBase = @ \cup {kind},
                                                !.sinceRead = @ \cup {kind}]
    BY DEF OwnerEdits, OwnerAdds, OwnerRemoves, OwnerMoves, OwnerSorts, Owner, storeVars
  <1>3. GoesOn(history, history')
    BY <1>2 DEF SyncInv, HistoryOK, GoesOn
  <1>4. StillOK'
    BY <1>1, <1>2, <1>3, StillKeeps DEF Still, OwnerLeaves
  <1>5. live
    BY DEF OwnerEdits, OwnerAdds, OwnerRemoves, OwnerMoves, OwnerSorts, Owner
  <1>6. ContentsOK'
    <2>1. \A list : Known(list, nextItem) => Known(list, nextItem')
      BY <1>1, KnownLater DEF SyncInv, ContentsOK, OwnerLeaves
    <2>2. nextItem' \in Nat \ {0}
      BY <1>1 DEF SyncInv, ContentsOK, OwnerLeaves
    <2> QED
      BY <1>1, <1>2, <1>5, <2>1, <2>2 DEF SyncInv, ContentsOK, OwnerLeaves
  <1>7. ConfirmedOK'
    <2>1. worker.pc = "merge" => nextItem \notin IdsOf(worker.checked)
      BY DEF SyncInv, WorkOK, ContentsOK
    <2>2. IdsOf(youtube') \subseteq IdsOf(youtube) \cup {nextItem}
      BY <1>1, IdsByRange DEF OwnerLeaves
    <2> QED
      BY <1>1, <1>2, <2>1, <2>2 DEF SyncInv, ConfirmedOK, Absent
  <1> QED
    BY <1>4, <1>6, <1>7 DEF SyncInv, StillOK

-----------------------------------------------------------------------------
(* The other steps that leave the order and the base alone: those of which  *)
(* the worker, if anything, gives up what it was doing.                     *)
Rests ==
    /\ UNCHANGED <<youtube, youtubeSort, live, older, nextItem, stored, entries, base, nextEntry, history>>
    /\ worker' \in {worker, Idle}
    /\ recent' = recent \/ recent' = TRUE
    /\ \/ unanswered' = unanswered
       \/ /\ unanswered' = NoWrite
          /\ stored /\ worker.pc = "settle" /\ worker' = Idle
          /\ worker.outcome \notin {"applied", "unanswered"}

LEMMA RestsKeeps ==
    ASSUME SyncInv, Rests
    PROVE  SyncInv'
  <1>1. StillOK'
    BY StillKeeps, HistoryStays DEF Rests, Still
  <1>2. ContentsOK'
    BY DEF SyncInv, ContentsOK, Rests
  <1>3. ConfirmedOK'
    BY DEF SyncInv, ConfirmedOK, Rests, Absent, Idle
  <1> QED
    BY <1>1, <1>2, <1>3 DEF SyncInv, StillOK

LEMMA LagPassesKeeps ==
    ASSUME SyncInv, LagPasses
    PROVE  SyncInv'
  <1>1. StillOK'
    BY StillKeeps, HistoryStays DEF LagPasses, Still
  <1>2. ContentsOK'
    BY DEF SyncInv, ContentsOK, LagPasses
  <1>3. ConfirmedOK'
    BY DEF SyncInv, ConfirmedOK, LagPasses, Absent
  <1> QED
    BY <1>1, <1>2, <1>3 DEF SyncInv, StillOK

LEMMA DeletedOnYouTubeKeeps ==
    ASSUME SyncInv, DeleteOnYouTube
    PROVE  SyncInv'
  <1>1. StillOK'
    BY StillKeeps, HistoryStays DEF DeleteOnYouTube, Still, storeVars
  <1>2. Known(<<>>, nextItem)
    BY DEF Known, ItemsOf, IdsOf
  <1>3. ContentsOK'
    BY <1>2 DEF SyncInv, ContentsOK, DeleteOnYouTube, storeVars
  <1>4. ConfirmedOK'
    BY DEF ConfirmedOK, DeleteOnYouTube
  <1> QED
    BY <1>1, <1>3, <1>4 DEF SyncInv, StillOK

(* The store lets go of a playlist YouTube no longer has.                   *)
LEMMA DroppedKeeps ==
    ASSUME SyncInv, DeleteStored \/ TakeUpGone
    PROVE  SyncInv'
  <1>1. /\ UNCHANGED <<youtube, live, older, nextItem, entries, base, nextEntry, history,
                       worker, recent, unanswered>>
        /\ stored' = FALSE /\ ~live
    BY DEF DeleteStored, TakeUpGone, youtubeVars
  <1>2. StillOK'
    BY <1>1, StillKeeps, HistoryStays DEF Still
  <1>3. ContentsOK'
    BY <1>1 DEF SyncInv, ContentsOK
  <1>4. ConfirmedOK'
    BY <1>1 DEF ConfirmedOK
  <1> QED
    BY <1>2, <1>3, <1>4 DEF SyncInv, StillOK

-----------------------------------------------------------------------------
(* The read and its confirmation, which change only the worker.             *)
LEMMA ReadingKeeps ==
    ASSUME SyncInv, NEW content, Known(content, nextItem), Reading(content),
           UNCHANGED <<youtube, live, older, nextItem, stored, entries, base, nextEntry,
                       recent, unanswered>>
    PROVE  SyncInv'
  <1>1. /\ worker' = [Idle EXCEPT !.pc = "confirm", !.job = Job, !.read = content,
                                  !.checked = base]
        /\ history' = [history EXCEPT !.sinceRead = {}]
        /\ ~recent
    BY DEF Reading, ItemWritesSince
  <1>2. /\ worker'.pc = "confirm" /\ worker'.read = content /\ worker'.checked = base
        /\ worker'.writes = <<>>
    BY <1>1 DEF Idle
  <1>3. GoesOn(history, history') /\ HistoryOK(history')
    BY <1>1 DEF SyncInv, HistoryOK, GoesOn
  <1>4. ContentsOK' /\ StoreOK'
    BY DEF SyncInv, ContentsOK, StoreOK
  <1>5. WorkOK'
    BY <1>2 DEF SyncInv, StoreOK, WorkOK, Phases
  <1>6. PushOK' /\ AnswerOK' /\ ConfirmedOK'
    BY <1>1, <1>2 DEF SyncInv, PushOK, AnswerOK, ConfirmedOK
  <1>7. UnansweredOK'
    BY <1>3, AwaitedStays DEF SyncInv, UnansweredOK
  <1>8. ExcusesOK'
    <2>1. \A item : Excused(history, item) => Excused(history', item)
      BY <1>3, ExcusedStays
    <2> QED
      BY <1>2, <2>1 DEF SyncInv, ExcusesOK
  <1> QED
    BY <1>3, <1>4, <1>5, <1>6, <1>7, <1>8 DEF SyncInv

LEMMA TakesUpKeeps ==
    ASSUME SyncInv, TakeUp \/ TakeUpMissing
    PROVE  SyncInv'
  <1>1. UNCHANGED <<youtube, live, older, nextItem, stored, entries, base, nextEntry,
                    recent, unanswered>>
    BY DEF TakeUp, TakeUpMissing, youtubeVars, storeVars
  <1>2. \A content \in Readable : Known(content, nextItem)
    BY DEF SyncInv, ContentsOK, Readable
  <1>3. CASE TakeUp
    BY <1>1, <1>2, <1>3, ReadingKeeps DEF TakeUp
  <1>4. CASE TakeUpMissing
    <2>1. PICK content \in Readable :
                \E place \in DOMAIN content : Reading(RemoveAt(content, place))
      BY <1>4 DEF TakeUpMissing
    <2>2. PICK place \in DOMAIN content : Reading(RemoveAt(content, place))
      BY <2>1
    <2> DEFINE missing == RemoveAt(content, place)
    <2>3. DOMAIN content = 1..Len(content)
      BY <1>2 DEF Known, ItemsOf
    <2>4. Known(missing, nextItem)
      BY <1>2, <2>3, KnownRemove DEF SyncInv, ContentsOK
    <2>5. Reading(missing)
      BY <2>2
    <2> HIDE DEF missing
    <2> QED
      BY <1>1, <2>4, <2>5, ReadingKeeps
  <1> QED
    BY <1>3, <1>4

LEMMA ConfirmsKeeps ==
    ASSUME SyncInv, IInv, ConfirmAbsences
    PROVE  SyncInv'
  <1>1. UNCHANGED <<youtube, youtubeSort, live, older, nextItem, stored, entries, base, nextEntry,
                    history, recent, unanswered>>
    BY DEF ConfirmAbsences, youtubeVars, storeVars
  <1>2. CASE worker' = Idle
    BY <1>1, <1>2, RestsKeeps DEF Rests
  <1>3. CASE worker' # Idle
    <2>1. PICK content \in older \cup {youtube} :
            /\ ExistingItems(Absent, content) = {}
            /\ worker' = [worker EXCEPT !.pc = "merge"]
      BY <1>3 DEF ConfirmAbsences
    <2>2. live => content = youtube
      BY DEF SyncInv, ConfirmedOK, ConfirmAbsences
    <2>3. /\ worker.pc = "confirm" /\ worker'.pc = "merge" /\ worker'.read = worker.read
          /\ worker'.checked = worker.checked /\ worker'.writes = worker.writes
      BY <2>1 DEF ConfirmAbsences, IInv, WorkerOK, Idle
    <2>4. Absent' = Absent
      BY <2>3 DEF Absent
    <2>5. ContentsOK' /\ StoreOK' /\ UnansweredOK' /\ HistoryOK(history')
      BY <1>1 DEF SyncInv, ContentsOK, StoreOK, UnansweredOK
    <2>6. WorkOK' /\ PushOK' /\ AnswerOK'
      BY <1>1, <2>3 DEF SyncInv, WorkOK, PushOK, AnswerOK, Phases
    <2>7. ExcusesOK'
      BY <1>1, <2>3 DEF SyncInv, ExcusesOK
    <2>8. ConfirmedOK'
      BY <1>1, <2>1, <2>2, <2>3, <2>4 DEF SyncInv, ConfirmedOK, ExistingItems
    <2> QED
      BY <2>5, <2>6, <2>7, <2>8 DEF SyncInv
  <1> QED
    BY <1>2, <1>3

-----------------------------------------------------------------------------
(* The push: a write recorded, sent, answered, and settled.                 *)
LEMMA HeadAndTail ==
    ASSUME NEW S, NEW list \in Seq(S), list # <<>>
    PROVE  /\ 1 \in DOMAIN list /\ Head(list) = list[1] /\ Head(list) \in S
           /\ Tail(list) \in Seq(S)
           /\ \A i \in DOMAIN Tail(list) :
                i + 1 \in DOMAIN list /\ i + 1 # 1 /\ Tail(list)[i] = list[i + 1]
  OBVIOUS

LEMMA RecordedTyped ==
    ASSUME NEW w \in WritesOf(Videos)
    PROVE  /\ Recorded(w).kind = w.kind /\ Recorded(w).entry = w.entry
           /\ AddsItem(w) => Recorded(w).video = w.video
  BY DEF WritesOf, Recorded, AddsItem

LEMMA BeginsKeeps ==
    ASSUME SyncInv, IInv, BeginWrite
    PROVE  SyncInv'
  <1>1. /\ UNCHANGED <<youtube, live, older, nextItem, stored, entries, base, nextEntry, history>>
        /\ unanswered' = Recorded(Sent) /\ recent' = TRUE
        /\ worker.pc = "push" /\ stored /\ worker.writes # <<>>
    BY DEF BeginWrite, PushGoesOn, youtubeVars, Sent
  <1>2. /\ worker'.pc = "send" /\ worker'.writes = worker.writes /\ worker'.base = worker.base
    BY DEF BeginWrite, IInv, WorkerOK, Idle
  <1>3. ContentsOK' /\ StoreOK' /\ HistoryOK(history')
    BY <1>1 DEF SyncInv, ContentsOK, StoreOK
  <1>4. WorkOK' /\ PushOK' /\ AnswerOK' /\ ConfirmedOK'
    BY <1>1, <1>2 DEF SyncInv, WorkOK, PushOK, AnswerOK, ConfirmedOK, Phases
  <1>5. ExcusesOK'
    BY <1>1, <1>2 DEF SyncInv, ExcusesOK
  <1>6. UnansweredOK'
    <2>1. 1 \in DOMAIN worker.writes /\ Sent = worker.writes[1] /\ Sent \in WritesOf(Videos)
      BY <1>1, HeadAndTail DEF SyncInv, WorkOK, Sent
    <2>2. unanswered'.kind = Sent.kind /\ unanswered'.entry = Sent.entry
      BY <1>1, <2>1, RecordedTyped
    <2>3. AskedFor(base, entries, history, Sent)
      BY <1>1, <2>1 DEF SyncInv, PushOK, Pushable
    <2>4. AddsItem(Sent) => WaitsOrGone(entries, history, Sent.entry)
      BY <2>3 DEF AskedFor, AddsItem
    <2> QED
      BY <1>1, <2>2, <2>4 DEF UnansweredOK, AddsItem
  <1> QED
    BY <1>3, <1>4, <1>5, <1>6 DEF SyncInv

(* The write lands: YouTube holds what it held and the item made.           *)
LEMMA LandsLeaves ==
    ASSUME SyncInv, worker.pc = "send", Lands
    PROVE  /\ live /\ stored /\ live' = live
           /\ Known(youtube', nextItem')
           /\ older' = older \cup {youtube}
           /\ nextItem' = IF AddsItem(Sent) THEN nextItem + 1 ELSE nextItem
           /\ Range(youtube') \subseteq Range(youtube) \cup
                IF AddsItem(Sent) THEN {[id |-> nextItem, video |-> Sent.video]} ELSE {}
           /\ history' = IF AddsItem(Sent)
                         THEN [history EXCEPT !.made =
                                @ \cup {[entry |-> Sent.entry, item |-> nextItem]}]
                         ELSE history
  <1> USE DEF AddsItem
  <1>1. /\ live /\ (Sent.kind \in {"delete", "move"} => HasItem(youtube, Sent.item))
        /\ AcceptsPosition(youtube, Sent)
    BY DEF Lands, YouTubeAnswer, SyncInv, ContentsOK
  <1>2. stored
    BY <1>1 DEF SyncInv, ContentsOK
  <1>3. Sent \in WritesOf(Videos)
    BY HeadAndTail DEF SyncInv, WorkOK, Sent
  <1>4. nextItem \in Nat \ {0} /\ Known(youtube, nextItem)
    BY DEF SyncInv, ContentsOK
  <1>5. /\ nextItem' = IF AddsItem(Sent) THEN nextItem + 1 ELSE nextItem
        /\ older' = older \cup {youtube} /\ live' = live
    BY DEF Lands
  <1>6. history' = IF AddsItem(Sent)
                   THEN [history EXCEPT !.made =
                            @ \cup {[entry |-> Sent.entry, item |-> nextItem]}]
                   ELSE history
    BY DEF Lands
  <1>7. /\ Known(youtube', IF AddsItem(Sent) THEN nextItem + 1 ELSE nextItem)
        /\ Range(youtube') \subseteq Range(youtube) \cup
                IF AddsItem(Sent) THEN {[id |-> nextItem, video |-> Sent.video]} ELSE {}
    <2>1. CASE youtubeSort = Automatic /\ Sent.kind = "append"
      <3> DEFINE new == [id |-> nextItem, video |-> Sent.video]
      <3>1. PICK place \in 1..(Len(youtube) + 1) : youtube' = InsertAt(youtube, place, new)
        BY <2>1 DEF Lands
      <3>2. Sent.video \in Videos
        BY <1>3, <2>1 DEF WritesOf
      <3>3. Known(youtube', nextItem + 1) /\ Range(youtube') = Range(youtube) \cup {new}
        BY <1>4, <3>1, <3>2, KnownInsert
      <3> QED
        BY <2>1, <3>3
    <2>2. CASE ~(youtubeSort = Automatic /\ Sent.kind = "append")
      <3>1. youtube' = Performed(youtube, Sent, nextItem)
        BY <2>2 DEF Lands
      <3> QED
        BY <1>1, <1>3, <1>4, <3>1, KnownPerformed
    <2> QED
      BY <2>1, <2>2
  <1> QED
    BY <1>1, <1>2, <1>5, <1>6, <1>7

(* An answer, or none, of a write that landed or did not.                   *)
Answers(outcome, made) ==
    /\ worker.pc = "send" /\ Answered(outcome, made) /\ UNCHANGED storeVars
    /\ \/ /\ Lands
          /\ \/ outcome = "applied" /\ made = (IF AddsItem(Sent) THEN nextItem ELSE NoItem)
             \/ outcome = "unanswered" /\ made = NoItem
       \/ /\ UNCHANGED <<youtube, youtubeSort, live, older, nextItem, history>>
          /\ outcome # "applied" /\ made = NoItem
          /\ outcome = "absent" => YouTubeAnswer = "absent"

(* What YouTube holds then, and that the store is as it was.                *)
LEMMA AnswersLeave ==
    ASSUME SyncInv, NEW outcome, NEW made, Answers(outcome, made)
    PROVE  /\ UNCHANGED <<stored, entries, base, nextEntry, unanswered, recent, live>>
           /\ nextItem' \in {nextItem, nextItem + 1}
           /\ Known(youtube', nextItem') /\ older' \subseteq older \cup {youtube}
           /\ ~live => youtube' = youtube
           /\ GoesOn(history, history') /\ HistoryOK(history')
           /\ made # NoItem <=> outcome = "applied" /\ AddsItem(Sent)
           /\ made # NoItem => /\ made = nextItem /\ nextItem' = nextItem + 1
                               /\ [entry |-> Sent.entry, item |-> made] \in history'.made
  <1>1. UNCHANGED <<stored, entries, base, nextEntry, unanswered, recent>>
    BY DEF Answers, storeVars
  <1>2. CASE UNCHANGED <<youtube, live, older, nextItem, history>>
                /\ outcome # "applied" /\ made = NoItem
    BY <1>1, <1>2, HistoryStays DEF SyncInv, ContentsOK
  <1>3. CASE Lands /\ (\/ outcome = "applied" /\ made = (IF AddsItem(Sent) THEN nextItem ELSE NoItem)
                       \/ outcome = "unanswered" /\ made = NoItem)
    <2>1. worker.pc = "send"
      BY DEF Answers
    <2>2. /\ live /\ live' = live /\ Known(youtube', nextItem') /\ older' = older \cup {youtube}
          /\ nextItem' = IF AddsItem(Sent) THEN nextItem + 1 ELSE nextItem
          /\ history' = IF AddsItem(Sent)
                        THEN [history EXCEPT !.made =
                                @ \cup {[entry |-> Sent.entry, item |-> nextItem]}]
                        ELSE history
      BY <1>3, <2>1, LandsLeaves
    <2>3. CASE AddsItem(Sent)
      <3>1. history' = [history EXCEPT !.made =
                            @ \cup {[entry |-> Sent.entry, item |-> nextItem]}]
        BY <2>2, <2>3
      <3>2. /\ GoesOn(history, history') /\ HistoryOK(history')
            /\ [entry |-> Sent.entry, item |-> nextItem] \in history'.made
        BY <3>1 DEF SyncInv, HistoryOK, GoesOn
      <3>3. nextItem # NoItem
        BY DEF SyncInv, ContentsOK, NoItem
      <3> QED
        BY <1>1, <1>3, <2>2, <2>3, <3>2, <3>3
    <2>4. CASE ~AddsItem(Sent)
      <3>1. history' = history
        BY <2>2, <2>4
      <3>2. GoesOn(history, history') /\ HistoryOK(history')
        BY <3>1, HistoryStays DEF SyncInv
      <3> QED
        BY <1>1, <1>3, <2>2, <2>4, <3>2
    <2> QED
      BY <2>3, <2>4
  <1> QED
    BY <1>2, <1>3 DEF Answers

LEMMA AnswersKeep ==
    ASSUME SyncInv, IInv, NEW outcome, NEW made, Answers(outcome, made)
    PROVE  SyncInv'
  <1>1. /\ UNCHANGED <<stored, entries, base, nextEntry, unanswered, recent, live>>
        /\ nextItem' \in {nextItem, nextItem + 1}
        /\ Known(youtube', nextItem') /\ older' \subseteq older \cup {youtube}
        /\ ~live => youtube' = youtube
        /\ GoesOn(history, history') /\ HistoryOK(history')
        /\ made # NoItem <=> outcome = "applied" /\ AddsItem(Sent)
        /\ made # NoItem => /\ made = nextItem /\ nextItem' = nextItem + 1
                            /\ [entry |-> Sent.entry, item |-> made] \in history'.made
    BY AnswersLeave
  <1>2. /\ worker.pc = "send" /\ worker'.pc = "settle" /\ worker'.outcome = outcome
        /\ worker'.made = made /\ worker'.writes = worker.writes /\ worker'.base = worker.base
    BY DEF Answers, Answered, IInv, WorkerOK, Idle
  <1>3. Sent' = Sent
    BY <1>2 DEF Sent
  <1>4. /\ nextItem \in Nat \ {0} /\ nextItem' \in Nat \ {0} /\ nextItem <= nextItem'
        /\ 1..(nextItem - 1) \subseteq 1..(nextItem' - 1)
    <2> DEFINE n == nextItem
               m == nextItem'
    <2>1. n \in Nat \ {0} /\ m \in {n, n + 1}
      BY <1>1 DEF SyncInv, ContentsOK
    <2> HIDE DEF n, m
    <2>2. m \in Nat \ {0} /\ n <= m /\ 1..(n - 1) \subseteq 1..(m - 1)
      BY <2>1
    <2> QED
      BY <2>1, <2>2 DEF n, m
  <1>5. ContentsOK'
    <2>1. \A list : Known(list, nextItem) => Known(list, nextItem')
      BY <1>4, KnownLater
    <2> QED
      BY <1>1, <1>4, <2>1 DEF SyncInv, ContentsOK
  <1>6. StoreOK'
    BY <1>1, <1>4 DEF SyncInv, StoreOK
  <1>7. WorkOK'
    BY <1>2 DEF SyncInv, WorkOK, Phases
  <1>8. PushOK'
    BY <1>1, <1>2, PushableStays DEF SyncInv, PushOK
  <1>9. AnswerOK'
    <2>1. made # NoItem => made \in 1..(nextItem' - 1) /\ made \notin IdsOf(base)
      BY <1>1, <1>4 DEF SyncInv, StoreOK
    <2> QED
      BY <1>1, <1>2, <1>3, <2>1 DEF AnswerOK
  <1>10. UnansweredOK'
    BY <1>1, AwaitedStays DEF SyncInv, UnansweredOK
  <1>11. ExcusesOK'
    <2>1. \A item : Excused(history, item) => Excused(history', item)
      BY <1>1, ExcusedStays
    <2> QED
      BY <1>1, <1>2, <2>1 DEF SyncInv, ExcusesOK
  <1>12. ConfirmedOK'
    <2>1. live => recent
      BY <1>2 DEF SyncInv, ContentsOK, IInv, WorkerOK, WriteOnRecord
    <2> QED
      BY <1>1, <1>2, <2>1 DEF ConfirmedOK
  <1> QED
    BY <1>1, <1>5, <1>6, <1>7, <1>8, <1>9, <1>10, <1>11, <1>12 DEF SyncInv

(* The rest of a push's writes: what held of them all.                      *)
LEMMA TailKeeps ==
    ASSUME NEW S, NEW writes \in Seq(S), writes # <<>>
    PROVE  /\ OneAddEach(writes) => OneAddEach(Tail(writes))
           /\ OneDeleteEach(writes) => OneDeleteEach(Tail(writes))
           /\ DeletesNoMoved(writes) => DeletesNoMoved(Tail(writes))
  <1>1. \A i \in DOMAIN Tail(writes) :
            i \in Int /\ i + 1 \in DOMAIN writes /\ Tail(writes)[i] = writes[i + 1]
    BY HeadAndTail
  <1> QED
    BY <1>1 DEF OneAddEach, OneDeleteEach, DeletesNoMoved

(* The first write done: the base it leaves holds what the entries do, the  *)
(* other writes are still asked for, and an item no entry holds was one     *)
(* before or is the one made for an entry an edit removed.                  *)
LEMMA PushableSettles ==
    ASSUME NEW held \in Seq(BaseItem), NEW list \in OrdersOf(Videos), Distinct(list),
           NewEntry \notin IdsOf(list), HeldBy(list) \subseteq IdsOf(held),
           NEW writes \in Seq(WritesOf(Videos)), writes # <<>>,
           NEW past, Pushable(held, list, past, writes),
           NEW made \in Nat, made # NoItem <=> AddsItem(Head(writes)), made \notin IdsOf(held)
    PROVE  LET w == Head(writes)
               now == Applied(held, w, made)
               new == IF made = NoItem THEN list ELSE WithItem(list, w.entry, made)
           IN  /\ now \in Seq(BaseItem) /\ IdsOf(now) \subseteq IdsOf(held) \cup {made}
               /\ made = NoItem => IdsOf(now) \subseteq IdsOf(held)
               /\ new \in OrdersOf(Videos) /\ Distinct(new) /\ IdsOf(new) = IdsOf(list)
               /\ HeldBy(new) \subseteq IdsOf(now)
               /\ Pushable(now, new, past, Tail(writes))
               /\ \A item \in IdsOf(now) \ HeldBy(new) :
                    \/ item \in IdsOf(held) \ HeldBy(list)
                    \/ item = made /\ AddsItem(w) /\ Gone(past, w.entry)
  <1> DEFINE w == Head(writes)
             now == Applied(held, w, made)
             new == IF made = NoItem THEN list ELSE WithItem(list, w.entry, made)
             rest == Tail(writes)
  <1>1. /\ 1 \in DOMAIN writes /\ w = writes[1] /\ w \in WritesOf(Videos)
        /\ rest \in Seq(WritesOf(Videos))
        /\ \A i \in DOMAIN rest :
                i + 1 \in DOMAIN writes /\ i + 1 # 1 /\ rest[i] = writes[i + 1]
    BY HeadAndTail
  <1>2. AskedFor(held, list, past, w)
    BY <1>1 DEF Pushable
  <1>3. PICK to : Fits(writes, Len(held), to)
    BY DEF Pushable
  <1>4. PICK next \in Nat : WriteFits(w, Len(held), next) /\ Fits(rest, next, to)
    BY <1>3, FitsOne
  <1>5. w.kind \in {"delete", "move"} => w.item \in IdsOf(held)
    BY <1>2 DEF AskedFor, AddsItem
  <1> HIDE DEF w, rest
  <1>6. AddsItem(w) <=> made # NoItem
    BY DEF w
  <1>7. /\ now \in Seq(BaseItem) /\ Len(now) = next
        /\ IdsOf(now) \subseteq IdsOf(held) \cup IF AddsItem(w) THEN {made} ELSE {}
        /\ IdsOf(held) \subseteq IdsOf(now) \cup IF w.kind = "delete" THEN {w.item} ELSE {}
        /\ AddsItem(w) => made \in IdsOf(now)
    BY <1>1, <1>4, <1>5, <1>6, AppliedKeeps
  <1>8. /\ IdsOf(now) \subseteq IdsOf(held) \cup {made}
        /\ made = NoItem => IdsOf(now) \subseteq IdsOf(held)
        /\ w.kind # "delete" => IdsOf(held) \subseteq IdsOf(now)
        /\ made # NoItem => made \in IdsOf(now) /\ w.kind # "delete"
        /\ IdsOf(held) \subseteq IdsOf(now) \cup {w.item}
    BY <1>6, <1>7 DEF AddsItem
  <1>9. /\ new \in OrdersOf(Videos) /\ Distinct(new) /\ DOMAIN new = DOMAIN list
        /\ IdsOf(new) = IdsOf(list)
        /\ HeldBy(list) \subseteq HeldBy(new) /\ HeldBy(new) \subseteq HeldBy(list) \cup {made}
        /\ made = NoItem => new = list
        /\ made # NoItem => (w.entry \in IdsOf(list) => made \in HeldBy(new))
        /\ \A i \in DOMAIN list : /\ new[i].id = list[i].id
                                  /\ new[i].id # w.entry => new[i].item = list[i].item
    <2>1. CASE made = NoItem
      BY <2>1
    <2>2. CASE made # NoItem
      <3>1. \A i \in DOMAIN list : list[i].id = w.entry => list[i].item = NoItem
        BY <1>2, <1>6, <2>2 DEF AskedFor, WaitsOrGone, AddsItem
      <3> DEFINE with == WithItem(list, w.entry, made)
      <3>2. /\ with \in OrdersOf(Videos) /\ Distinct(with) /\ DOMAIN with = DOMAIN list
            /\ \A i \in DOMAIN list :
                 /\ with[i].id = list[i].id
                 /\ with[i].item = IF list[i].id = w.entry THEN made ELSE list[i].item
            /\ IdsOf(with) = IdsOf(list)
            /\ HeldBy(with) \subseteq HeldBy(list) \cup {made}
            /\ w.entry \in IdsOf(list) => made \in HeldBy(with)
            /\ (\A i \in DOMAIN list : list[i].id = w.entry => list[i].item = NoItem) =>
                    HeldBy(list) \subseteq HeldBy(with)
        BY <2>2, WithItemKeeps DEF NoItem
      <3>3. new = with
        BY <2>2
      <3> HIDE DEF with, new
      <3> QED
        BY <2>2, <3>1, <3>2, <3>3
    <2> QED
      BY <2>1, <2>2
  <1> HIDE DEF now, new
  <1>10. HeldBy(new) \subseteq IdsOf(now)
    <2>1. CASE made = NoItem
      <3>1. w.kind = "delete" => w.item \notin HeldBy(list)
        BY <1>2 DEF AskedFor, AddsItem
      <3> QED
        BY <1>8, <1>9, <2>1, <3>1
    <2>2. CASE made # NoItem
      BY <1>8, <1>9, <2>2
    <2> QED
      BY <2>1, <2>2
  <1>11. ASSUME NEW item \in IdsOf(now) \ HeldBy(new)
         PROVE  \/ item \in IdsOf(held) \ HeldBy(list)
                \/ item = made /\ AddsItem(w) /\ Gone(past, w.entry)
    <2>1. CASE made = NoItem
      BY <1>8, <1>9, <2>1
    <2>2. CASE made # NoItem
      <3>1. w.entry \in IdsOf(list) \/ Gone(past, w.entry)
        BY <1>2, <1>6, <2>2 DEF AskedFor, WaitsOrGone, AddsItem
      <3> QED
        BY <1>6, <1>8, <1>9, <2>2, <3>1
    <2> QED
      BY <2>1, <2>2
  <1>12. ASSUME NEW i \in DOMAIN rest
         PROVE  AskedFor(now, new, past, rest[i])
    <2> DEFINE one == rest[i]
               j == i + 1
    <2>1. j \in DOMAIN writes /\ j # 1 /\ one = writes[j] /\ writes[1] = w /\ 1 \in DOMAIN writes
      BY <1>1
    <2>2. AskedFor(held, list, past, one)
      BY <2>1 DEF Pushable
    <2> HIDE DEF one, j
    <2>3. CASE one.kind = "delete"
      <3>1. one.item \in IdsOf(held) \ HeldBy(list)
        BY <2>2, <2>3 DEF AskedFor, AddsItem
      <3>2. w.kind = "delete" => w.item # one.item
        BY <2>1, <2>3 DEF Pushable, OneDeleteEach
      <3>3. one.item \in IdsOf(now) /\ one.item \notin HeldBy(new)
        BY <1>8, <1>9, <3>1, <3>2
      <3> QED
        BY <2>3, <3>3 DEF AskedFor, one
    <2>4. CASE one.kind = "move"
      <3>1. one.item \in IdsOf(held)
        BY <2>2, <2>4 DEF AskedFor, AddsItem
      <3>2. w.kind = "delete" => w.item # one.item
        BY <2>1, <2>4 DEF Pushable, DeletesNoMoved
      <3>3. one.item \in IdsOf(now)
        BY <1>8, <3>1, <3>2
      <3> QED
        BY <2>4, <3>3 DEF AskedFor, one
    <2>5. CASE AddsItem(one)
      <3>1. WaitsOrGone(list, past, one.entry)
        BY <2>2, <2>5 DEF AskedFor, AddsItem
      <3>2. AddsItem(w) => w.entry # one.entry
        BY <2>1, <2>5 DEF Pushable, OneAddEach
      <3>3. \A k \in DOMAIN new : new[k].id = one.entry => new[k].item = NoItem
        BY <1>6, <1>9, <3>1, <3>2 DEF WaitsOrGone
      <3>4. WaitsOrGone(new, past, one.entry)
        BY <1>9, <3>1, <3>3 DEF WaitsOrGone
      <3> QED
        BY <2>5, <3>4 DEF AskedFor, one
    <2> QED
      BY <2>2, <2>3, <2>4, <2>5 DEF AskedFor
  <1>13. Pushable(now, new, past, rest)
    <2>1. OneAddEach(rest) /\ OneDeleteEach(rest) /\ DeletesNoMoved(rest)
      BY TailKeeps DEF Pushable, rest
    <2>2. Fits(rest, Len(now), to)
      BY <1>4, <1>7
    <2> QED
      BY <1>12, <2>1, <2>2 DEF Pushable
  <1> QED
    BY <1>7, <1>8, <1>9, <1>10, <1>11, <1>13 DEF w, now, new, rest

(* The settlement of a write that did what the plan expects.                *)
LEMMA SettledWorker ==
    ASSUME SyncInv, IInv, worker.pc = "settle", worker' = NextWrite
    PROVE  /\ worker'.pc = "push" /\ worker'.writes = Tail(worker.writes)
           /\ worker'.base = NextBase
           /\ worker'.writes \in Seq(WritesOf(Videos))
           /\ \A past : (\A n \in DOMAIN worker.writes : worker.writes[n].kind = "delete" =>
                                Excused(past, worker.writes[n].item)) =>
                        (\A n \in DOMAIN worker'.writes : worker'.writes[n].kind = "delete" =>
                                Excused(past, worker'.writes[n].item))
  <1>1. /\ worker'.pc = "push" /\ worker'.writes = Tail(worker.writes)
        /\ worker'.base = NextBase
    BY DEF IInv, WorkerOK, Idle, NextWrite
  <1>2. /\ Tail(worker.writes) \in Seq(WritesOf(Videos))
        /\ \A i \in DOMAIN Tail(worker.writes) :
                i + 1 \in DOMAIN worker.writes
                    /\ Tail(worker.writes)[i] = worker.writes[i + 1]
    BY HeadAndTail DEF SyncInv, WorkOK
  <1> QED
    BY <1>1, <1>2

LEMMA SettlesKeep ==
    ASSUME SyncInv, IInv, SettleDone
    PROVE  SyncInv'
  <1> DEFINE w == Sent
             made == worker.made
             with == WithItem(entries, w.entry, made)
  <1>1. /\ UNCHANGED <<youtube, live, older, nextItem, stored, nextEntry, history>>
        /\ stored /\ Did /\ worker.pc = "settle" /\ worker' = NextWrite
        /\ base' = NextBase /\ recent' = TRUE
        /\ entries' = IF made = NoItem THEN entries ELSE with
        /\ unanswered' = NoWrite
    BY DEF SettleDone, Settling, youtubeVars, Unanswered, Did
  <1>2. /\ worker.base = base /\ Pushable(base, entries, history, worker.writes)
    BY <1>1 DEF SyncInv, PushOK
  <1>3. /\ worker.writes \in Seq(WritesOf(Videos)) /\ worker.writes # <<>>
    BY <1>1 DEF SyncInv, WorkOK
  <1>4. /\ made # NoItem <=> worker.outcome = "applied" /\ AddsItem(w)
        /\ made # NoItem => /\ made \in 1..(nextItem - 1) /\ made \notin IdsOf(base)
                            /\ [entry |-> w.entry, item |-> made] \in history.made
    BY <1>1 DEF SyncInv, AnswerOK
  <1>5. made # NoItem <=> AddsItem(w)
    BY <1>1, <1>4 DEF Did, AddsItem
  <1>6. made \in Nat /\ made \notin IdsOf(base)
    <2>1. CASE made = NoItem
      <3>1. NoItem \notin IdsOf(base)
        BY DEF SyncInv, StoreOK, NoItem
      <3> QED
        BY <2>1, <3>1 DEF NoItem
    <2>2. CASE made # NoItem
      BY <1>4, <2>2
    <2> QED
      BY <2>1, <2>2
  <1>7. /\ entries \in OrdersOf(Videos) /\ Distinct(entries) /\ NewEntry \notin IdsOf(entries)
        /\ HeldBy(entries) \subseteq IdsOf(base) /\ base \in Seq(BaseItem)
    BY DEF SyncInv, StoreOK, NewEntry
  <1>8. /\ base' = Applied(base, w, made) /\ w = Head(worker.writes)
    BY <1>1, <1>2 DEF NextBase, Sent
  <1> HIDE DEF w, made, with
  <1>9. /\ base' \in Seq(BaseItem) /\ IdsOf(base') \subseteq IdsOf(base) \cup {made}
        /\ made = NoItem => IdsOf(base') \subseteq IdsOf(base)
        /\ entries' \in OrdersOf(Videos) /\ Distinct(entries') /\ IdsOf(entries') = IdsOf(entries)
        /\ HeldBy(entries') \subseteq IdsOf(base')
        /\ Pushable(base', entries', history, Tail(worker.writes))
        /\ \A item \in IdsOf(base') \ HeldBy(entries') :
                \/ item \in IdsOf(base) \ HeldBy(entries)
                \/ item = made /\ AddsItem(w) /\ Gone(history, w.entry)
    <2> DEFINE writes == worker.writes
               now == Applied(base, Head(writes), made)
               new == IF made = NoItem THEN entries ELSE WithItem(entries, Head(writes).entry, made)
    <2>1. /\ writes \in Seq(WritesOf(Videos)) /\ writes # <<>>
          /\ Pushable(base, entries, history, writes)
          /\ made # NoItem <=> AddsItem(Head(writes))
      BY <1>2, <1>3, <1>5, <1>8
    <2>2. base' = now /\ entries' = new
      BY <1>1, <1>8 DEF with
    <2> HIDE DEF writes
    <2>3. /\ now \in Seq(BaseItem) /\ IdsOf(now) \subseteq IdsOf(base) \cup {made}
          /\ made = NoItem => IdsOf(now) \subseteq IdsOf(base)
          /\ new \in OrdersOf(Videos) /\ Distinct(new) /\ IdsOf(new) = IdsOf(entries)
          /\ HeldBy(new) \subseteq IdsOf(now)
          /\ Pushable(now, new, history, Tail(writes))
          /\ \A item \in IdsOf(now) \ HeldBy(new) :
                \/ item \in IdsOf(base) \ HeldBy(entries)
                \/ item = made /\ AddsItem(Head(writes)) /\ Gone(history, Head(writes).entry)
      BY <1>6, <1>7, <2>1, PushableSettles
    <2> HIDE DEF now, new
    <2> QED
      BY <1>8, <2>2, <2>3 DEF writes
  <1>10. /\ worker'.pc = "push" /\ worker'.writes = Tail(worker.writes)
         /\ worker'.base = base' /\ worker'.writes \in Seq(WritesOf(Videos))
    BY <1>1, SettledWorker
  <1>11. ContentsOK' /\ HistoryOK(history')
    BY <1>1 DEF SyncInv, ContentsOK
  <1>12. StoreOK'
    BY <1>1, <1>4, <1>9 DEF SyncInv, StoreOK
  <1>13. WorkOK'
    BY <1>10 DEF WorkOK, Phases
  <1>14. PushOK' /\ AnswerOK'
    BY <1>1, <1>9, <1>10 DEF PushOK, AnswerOK
  <1>15. UnansweredOK' /\ ConfirmedOK'
    BY <1>1, <1>10 DEF UnansweredOK, NoWrite, Write, AddsItem, ConfirmedOK, SyncInv, ContentsOK
  <1>16. ExcusesOK'
    <2>1. ASSUME NEW item \in IdsOf(base') \ HeldBy(entries')
          PROVE  Excused(history, item)
      <3>1. CASE item \in IdsOf(base) \ HeldBy(entries)
        BY <1>1, <3>1 DEF SyncInv, ExcusesOK
      <3>2. CASE item = made /\ AddsItem(w) /\ Gone(history, w.entry)
        BY <1>4, <1>5, <3>2 DEF Gone, Excused
      <3> QED
        BY <1>9, <3>1, <3>2
    <2>2. \A n \in DOMAIN worker'.writes : worker'.writes[n].kind = "delete" =>
                                Excused(history, worker'.writes[n].item)
      BY <1>1, SettledWorker DEF SyncInv, ExcusesOK
    <2> QED
      BY <1>1, <2>1, <2>2 DEF ExcusesOK
  <1> QED
    BY <1>11, <1>12, <1>13, <1>14, <1>15, <1>16 DEF SyncInv

(* The API deleted the playlist while the write was sent.                   *)
LEMMA GoneGoesOnKeeps ==
    ASSUME SyncInv, IInv, SettleGone
    PROVE  SyncInv'
  <1>1. /\ UNCHANGED <<youtube, youtubeSort, live, older, nextItem, stored, entries, base, nextEntry,
                       history, recent, unanswered>>
        /\ ~stored /\ worker.pc = "settle" /\ worker' \in {NextWrite, Idle}
    BY DEF SettleGone, youtubeVars
  <1>2. CASE worker' = Idle
    BY <1>1, <1>2, RestsKeeps DEF Rests
  <1>3. CASE worker' = NextWrite
    <2>1. worker'.pc = "push" /\ worker'.writes \in Seq(WritesOf(Videos))
      BY <1>1, <1>3, SettledWorker
    <2>2. ContentsOK' /\ StoreOK' /\ HistoryOK(history')
      BY <1>1 DEF SyncInv, ContentsOK, StoreOK
    <2>3. WorkOK'
      BY <2>1 DEF WorkOK, Phases
    <2>4. PushOK' /\ AnswerOK' /\ UnansweredOK' /\ ConfirmedOK'
      BY <1>1, <2>1 DEF SyncInv, PushOK, AnswerOK, UnansweredOK, ConfirmedOK, ContentsOK
    <2>5. ExcusesOK'
      BY <1>1, <1>3, SettledWorker DEF SyncInv, ExcusesOK
    <2> QED
      BY <2>2, <2>3, <2>4, <2>5 DEF SyncInv
  <1> QED
    BY <1>1, <1>2, <1>3

-----------------------------------------------------------------------------
(* An order replaced by one made of its entries and new ones: what an edit  *)
(* or a video refused leaves.                                               *)
ReordersTo(list) ==
    /\ Reorders(entries, list) /\ ReplaceOrder(list)
    /\ history' = [history EXCEPT !.editedAway = @ \cup EditedAway(entries, list)]
    /\ UNCHANGED <<base, nextItem>>

LEMMA ReorderedKeeps ==
    ASSUME StoreOK, HistoryOK(history), NEW list, ReordersTo(list)
    PROVE  /\ StoreOK' /\ HistoryOK(history') /\ GoesOn(history, history')
           /\ HeldBy(entries') \subseteq HeldBy(entries)
           /\ \A entry : WaitsOrGone(entries, history, entry) =>
                            WaitsOrGone(entries', history', entry)
           /\ \A item \in HeldBy(entries) \ HeldBy(entries') : Excused(history', item)
           /\ nextEntry <= nextEntry' /\ history'.made = history.made
           /\ history'.editedAway \subseteq history.editedAway \cup Range(entries)
           /\ \A i \in DOMAIN entries' : entries'[i].id \in 1..(nextEntry - 1) =>
                \E j \in DOMAIN entries : /\ entries'[i].id = entries[j].id
                                         /\ entries'[i].item = entries[j].item
  <1> DEFINE new == Numbered(list)
             next == nextEntry + NewUpTo(list, Len(list))
             away == EditedAway(entries, list)
  <1>1. /\ Reorders(entries, list) /\ entries' = new /\ nextEntry' = next
        /\ base' = base /\ nextItem' = nextItem
        /\ history' = [history EXCEPT !.editedAway = @ \cup away]
    BY DEF ReordersTo, ReplaceOrder
  <1>2. /\ entries \in OrdersOf(Videos) /\ Distinct(entries) /\ NewEntry \notin IdsOf(entries)
        /\ nextEntry \in Nat \ {0} /\ IdsOf(entries) \subseteq 1..(nextEntry - 1)
    BY DEF StoreOK, NewEntry
  <1>3. /\ IdsOf(list) \subseteq IdsOf(entries) \cup {NewEntry}
        /\ HeldBy(list) \subseteq HeldBy(entries)
        /\ \A i \in DOMAIN entries :
                (\E j \in DOMAIN list : list[j] = entries[i]) \/ entries[i] \in away
        /\ \A x \in HeldBy(entries) \ HeldBy(list) : \E e \in away : e.item = x
    BY <1>1, <1>2, ReordersKeeps
  <1>4. IdsOf(list) \subseteq 0..(nextEntry - 1)
    BY <1>2, <1>3 DEF NewEntry
  <1>5. list \in OrdersOf(Videos) /\ Distinct(list)
    BY <1>1 DEF Reorders
  <1>6. /\ new \in OrdersOf(Videos) /\ Distinct(new) /\ DOMAIN new = DOMAIN list
        /\ \A i \in DOMAIN list :
             /\ new[i].video = list[i].video
             /\ new[i].item = list[i].item
             /\ list[i].id # NewEntry => new[i].id = list[i].id
             /\ list[i].id = NewEntry => new[i].id \notin 0..(nextEntry - 1)
        /\ next \in Nat \ {0} /\ nextEntry <= next
        /\ IdsOf(new) \subseteq 1..(next - 1)
        /\ HeldBy(new) = HeldBy(list)
    <2>1. /\ Numbered(list) \in OrdersOf(Videos) /\ Distinct(Numbered(list))
          /\ DOMAIN Numbered(list) = DOMAIN list
          /\ \A i \in DOMAIN list :
               /\ Numbered(list)[i].video = list[i].video
               /\ Numbered(list)[i].item = list[i].item
               /\ list[i].id # NewEntry => Numbered(list)[i].id = list[i].id
               /\ list[i].id = NewEntry => Numbered(list)[i].id \notin 0..(nextEntry - 1)
          /\ NewUpTo(list, Len(list)) \in Nat
          /\ nextEntry + NewUpTo(list, Len(list)) \in Nat \ {0}
          /\ nextEntry <= nextEntry + NewUpTo(list, Len(list))
          /\ IdsOf(Numbered(list)) \subseteq 1..(nextEntry + NewUpTo(list, Len(list)) - 1)
          /\ HeldBy(Numbered(list)) = HeldBy(list)
      BY <1>2, <1>4, <1>5, NumberedKeeps
    <2> QED
      BY <1>2, <2>1
  <1> HIDE DEF new, next, away
  <1>7. /\ HistoryOK(history') /\ GoesOn(history, history')
        /\ history'.editedAway = history.editedAway \cup away
    BY <1>1 DEF HistoryOK, GoesOn
  <1>8. StoreOK'
    BY <1>1, <1>3, <1>6 DEF StoreOK
  <1>9. ASSUME NEW entry, WaitsOrGone(entries, history, entry)
        PROVE  WaitsOrGone(new, history', entry)
    <2>1. ASSUME NEW i \in DOMAIN new, new[i].id = entry
          PROVE  new[i].item = NoItem
      <3>1. CASE list[i].id = NewEntry
        <4>1. list[i] \notin Range(entries)
          BY <1>2, <3>1 DEF IdsOf, Range
        <4>2. list[i].item = NoItem
          BY <1>1, <1>6, <4>1 DEF Reorders
        <4> QED
          BY <1>6, <4>2
      <3>2. CASE list[i].id # NewEntry
        <4>1. PICK j \in DOMAIN entries : list[i] = entries[j]
          BY <1>1, <1>6, <3>2 DEF Reorders, Range
        <4>2. entries[j].id = entry
          BY <1>6, <2>1, <3>2, <4>1
        <4>3. entries[j].item = NoItem
          BY <1>9, <4>2 DEF WaitsOrGone
        <4> QED
          BY <1>6, <4>1, <4>3
      <3> QED
        BY <3>1, <3>2
    <2>2. entry \in IdsOf(new) \/ Gone(history', entry)
      <3>1. CASE entry \in IdsOf(entries)
        <4>1. PICK i \in DOMAIN entries : entries[i].id = entry
          BY <3>1 DEF IdsOf
        <4>2. CASE entries[i] \in away
          BY <1>7, <4>1, <4>2 DEF Gone
        <4>3. CASE \E j \in DOMAIN list : list[j] = entries[i]
          <5>1. PICK j \in DOMAIN list : list[j] = entries[i]
            BY <4>3
          <5>2. list[j].id # NewEntry
            BY <1>2, <5>1 DEF IdsOf
          <5>3. j \in DOMAIN new /\ new[j].id = entry
            BY <1>6, <4>1, <5>1, <5>2
          <5> QED
            BY <5>3 DEF IdsOf
        <4> QED
          BY <1>3, <4>2, <4>3
      <3>2. CASE Gone(history, entry)
        BY <1>7, <3>2, GoneStays
      <3> QED
        BY <1>9, <3>1, <3>2 DEF WaitsOrGone
    <2> QED
      BY <2>1, <2>2 DEF WaitsOrGone
  <1>10. ASSUME NEW item \in HeldBy(entries) \ HeldBy(new)
         PROVE  Excused(history', item)
    BY <1>3, <1>6, <1>7 DEF Excused
  <1>11. ASSUME NEW i \in DOMAIN new, new[i].id \in 1..(nextEntry - 1)
         PROVE  \E j \in DOMAIN entries : /\ new[i].id = entries[j].id
                                          /\ new[i].item = entries[j].item
    <2>1. list[i].id # NewEntry
      BY <1>2, <1>6, <1>11
    <2>2. PICK j \in DOMAIN entries : list[i] = entries[j]
      BY <1>1, <1>6, <2>1 DEF Reorders, Range
    <2> QED
      BY <1>6, <2>1, <2>2
  <1>12. history'.made = history.made /\ away \subseteq Range(entries)
    BY <1>1 DEF HistoryOK, away, EditedAway, Range
  <1> QED
    BY <1>1, <1>3, <1>6, <1>7, <1>8, <1>9, <1>10, <1>11, <1>12

LEMMA EditKeeps ==
    ASSUME SyncInv, NEW c \in Clients, NEW videos \in Orders, NEW any \in BOOLEAN,
           ReplaceItems(c, videos, any)
    PROVE  SyncInv'
  <1> DEFINE list == OrderedEntries(entries, videos)
  <1>1. /\ UNCHANGED <<youtube, live, older, nextItem, stored, base, recent, worker, unanswered>>
        /\ ReplaceOrder(list) /\ stored
        /\ history' = [history EXCEPT !.editedAway = @ \cup EditedAway(entries, list)]
    BY DEF ReplaceItems, youtubeVars
  <1>2. Reorders(entries, list)
    <2>1. /\ entries \in OrdersOf(Videos) /\ Distinct(entries) /\ NewEntry \notin IdsOf(entries)
          /\ videos \in Seq(Videos)
      BY PlaylistSyncAssumption DEF SyncInv, StoreOK, NewEntry
    <2> QED
      BY <2>1, OrderedReorders
  <1> HIDE DEF list
  <1>3. ReordersTo(list)
    BY <1>1, <1>2 DEF ReordersTo
  <1>4. /\ StoreOK' /\ HistoryOK(history') /\ GoesOn(history, history')
        /\ HeldBy(entries') \subseteq HeldBy(entries)
        /\ \A entry : WaitsOrGone(entries, history, entry) => WaitsOrGone(entries', history', entry)
        /\ \A item \in HeldBy(entries) \ HeldBy(entries') : Excused(history', item)
    BY <1>3, ReorderedKeeps DEF SyncInv
  <1>5. ContentsOK' /\ WorkOK' /\ ConfirmedOK'
    BY <1>1 DEF SyncInv, ContentsOK, WorkOK, ConfirmedOK, Absent
  <1>6. PushOK'
    <2>1. \A w : AskedFor(base, entries, history, w) => AskedFor(base, entries', history', w)
      BY <1>4 DEF AskedFor
    <2> QED
      BY <1>1, <2>1 DEF SyncInv, PushOK, Pushable
  <1>7. AnswerOK'
    BY <1>1, <1>4 DEF SyncInv, AnswerOK, Sent, GoesOn
  <1>8. UnansweredOK'
    BY <1>1, <1>4 DEF SyncInv, UnansweredOK
  <1>9. ExcusesOK'
    <2>1. \A item : Excused(history, item) => Excused(history', item)
      BY <1>4, ExcusedStays
    <2> QED
      BY <1>1, <1>4, <2>1 DEF SyncInv, ExcusesOK
  <1> QED
    BY <1>4, <1>5, <1>6, <1>7, <1>8, <1>9 DEF SyncInv

(* A video YouTube refuses to add leaves the order.                         *)
LEMMA VideoRefusedKeeps ==
    ASSUME SyncInv, SettleVideoRefused
    PROVE  SyncInv'
  <1> DEFINE list == Without(entries, Sent.entry)
  <1>1. /\ UNCHANGED <<youtube, live, older, nextItem, stored, base>>
        /\ ReplaceOrder(list) /\ stored /\ worker' = Idle /\ recent' = TRUE
        /\ unanswered' = NoWrite
        /\ history' = [history EXCEPT !.editedAway = @ \cup EditedAway(entries, list)]
    BY DEF SettleVideoRefused, Settling, Unanswered, youtubeVars, Without
  <1>2. Reorders(entries, list)
    BY DroppedReorders DEF SyncInv, StoreOK, NewEntry
  <1> HIDE DEF list
  <1>3. ReordersTo(list)
    BY <1>1, <1>2 DEF ReordersTo
  <1>4. /\ StoreOK' /\ HistoryOK(history') /\ GoesOn(history, history')
        /\ \A item \in HeldBy(entries) \ HeldBy(entries') : Excused(history', item)
    BY <1>3, ReorderedKeeps DEF SyncInv
  <1>5. ContentsOK' /\ ConfirmedOK'
    BY <1>1 DEF SyncInv, ContentsOK, ConfirmedOK, Idle
  <1>6. WorkOK' /\ PushOK' /\ AnswerOK' /\ UnansweredOK'
    BY <1>1 DEF WorkOK, PushOK, AnswerOK, UnansweredOK, Idle, Phases, NoWrite, Write, AddsItem
  <1>7. ExcusesOK'
    <2>1. \A item : Excused(history, item) => Excused(history', item)
      BY <1>4, ExcusedStays
    <2>2. \A item \in IdsOf(base') \ HeldBy(entries') : Excused(history', item)
      BY <1>1, <1>4, <2>1 DEF SyncInv, ExcusesOK
    <2>3. worker'.writes = <<>>
      BY <1>1 DEF Idle
    <2> QED
      BY <2>2, <2>3 DEF ExcusesOK
  <1> QED
    BY <1>4, <1>5, <1>6, <1>7 DEF SyncInv

-----------------------------------------------------------------------------
(* The merge, and the plan made from it.                                    *)
LEMMA PlannedIsPushable ==
    ASSUME NEW read \in ItemsOf(Videos), NEW list \in OrdersOf(Videos), Distinct(list),
           NewEntry \notin IdsOf(list), HeldBy(list) \subseteq IdsOf(read),
           NEW writes, writes = <<>> \/ Planned(Videos, read, list, writes), NEW past,
           NEW held, IdsOf(held) = IdsOf(read), Len(held) = Len(read)
    PROVE  /\ writes \in Seq(WritesOf(Videos)) /\ Pushable(held, list, past, writes)
           /\ \A n \in DOMAIN writes : writes[n].kind = "delete" =>
                    writes[n].item \in IdsOf(read) \ HeldBy(list)
  <1>1. CASE writes = <<>>
    <2>1. Len(held) \in Nat
      BY DEF ItemsOf
    <2>2. Fits(<<>>, Len(held), Len(held))
      BY <2>1, FitsNone
    <2> QED
      BY <1>1, <2>2 DEF Pushable, OneAddEach, OneDeleteEach, DeletesNoMoved
  <1>2. CASE Planned(Videos, read, list, writes)
    <2>1. \A n \in DOMAIN writes : /\ writes[n].kind = "delete" =>
                                        writes[n].item \in IdsOf(read) \ HeldBy(list)
                                   /\ writes[n].kind = "move" => writes[n].item \in HeldBy(list)
      BY <1>2 DEF Planned, DeletesOneOf, AddsOneOf, MovesOneOf, AddsItem
    <2>2. DeletesNoMoved(writes)
      BY <2>1 DEF DeletesNoMoved
    <2>3. ASSUME NEW n \in DOMAIN writes
          PROVE  AskedFor(held, list, past, writes[n])
      <3> DEFINE w == writes[n]
      <3>1. \/ DeletesOneOf(read, list, w)
            \/ AddsOneOf(list, Len(list), w)
            \/ MovesOneOf(list, w)
        BY <1>2 DEF Planned
      <3> HIDE DEF w
      <3>2. CASE DeletesOneOf(read, list, w)
        BY <3>2 DEF DeletesOneOf, AskedFor, w
      <3>3. CASE MovesOneOf(list, w)
        BY <3>3 DEF MovesOneOf, AskedFor, w
      <3>4. CASE AddsOneOf(list, Len(list), w)
        <4>1. DOMAIN list = 1..Len(list)
          BY DEF OrdersOf
        <4>2. PICK j \in DOMAIN list : list[j].item = NoItem /\ list[j].id = w.entry
          BY <3>4, <4>1 DEF AddsOneOf
        <4>3. \A i \in DOMAIN list : list[i].id = w.entry => list[i].item = NoItem
          BY <4>2 DEF Distinct, IdsOf
        <4>4. WaitsOrGone(list, past, w.entry)
          BY <4>2, <4>3 DEF WaitsOrGone, IdsOf
        <4>5. AddsItem(w)
          BY <3>4 DEF AddsOneOf
        <4> QED
          BY <4>4, <4>5 DEF AskedFor, w
      <3> QED
        BY <3>1, <3>2, <3>3, <3>4
    <2> QED
      BY <1>2, <2>1, <2>2, <2>3 DEF Planned, Pushable
  <1> QED
    BY <1>1, <1>2

(* The item of an unanswered insert is taken for nobody's only once an edit *)
(* removed the entry it was sent for.                                       *)
LEMMA TakenIsExcused ==
    ASSUME UnansweredOK, stored,
           LandedInsert(base, worker.read, entries, unanswered).madeHere # NoItem
    PROVE  Gone(history, unanswered.entry)
  <1> DEFINE landed == Landed(base, worker.read, entries, unanswered)
             waiting == {i \in DOMAIN entries :
                            /\ entries[i].id = unanswered.entry
                            /\ entries[i].item = NoItem}
  <1>1. landed # {} /\ waiting = {}
    BY DEF LandedInsert
  <1>2. AddsItem(unanswered)
    BY <1>1 DEF Landed, AddsItem
  <1>3. WaitsOrGone(entries, history, unanswered.entry)
    BY <1>2 DEF UnansweredOK
  <1> QED
    BY <1>1, <1>3 DEF WaitsOrGone, IdsOf

LEMMA MergeLeaves ==
    ASSUME SyncInv, MergeInto
    PROVE  /\ Known(worker.read, nextItem)
           /\ nextEntry' \in Nat \ {0} /\ IdsOf(entries') \subseteq 1..(nextEntry' - 1)
           /\ entries' \in OrdersOf(Videos) /\ Distinct(entries')
           /\ HeldBy(entries') \subseteq IdsOf(worker.read)
           /\ \A i \in DOMAIN entries :
                \/ entries[i].id \in IdsOf(entries')
                \/ entries[i].item \in IdsOf(base) \ IdsOf(worker.read)
           /\ IdsOf(worker.read) \ HeldBy(entries') \subseteq
                (IdsOf(base) \ HeldBy(entries)) \cup
                    {LandedInsert(base, worker.read, entries, unanswered).madeHere}
           /\ nextEntry <= nextEntry'
           /\ \A n \in DOMAIN entries' :
                entries'[n].item = NoItem /\ entries'[n].id \in 1..(nextEntry - 1) =>
                    \E k \in DOMAIN entries :
                        /\ entries[k].id = entries'[n].id /\ entries[k].item = NoItem
                        /\ \/ Landed(base, worker.read, entries, unanswered) = {}
                           \/ entries[k].id # unanswered.entry
  <1> DEFINE read == worker.read
             list == Merged(base, read, entries, unanswered, sort).entries
             made == LandedInsert(base, read, entries, unanswered).madeHere
             next == nextEntry + NewUpTo(list, Len(list))
             new == Numbered(list)
  <1>1. /\ worker.pc = "merge" /\ entries' = new /\ nextEntry' = next
    BY DEF MergeInto, ReplaceOrder, MergeResult
  <1>2. /\ Known(read, nextItem) /\ read \in ItemsOf(Videos)
        /\ entries \in OrdersOf(Videos) /\ Distinct(entries)
        /\ NoItem \notin IdsOf(base) /\ nextEntry \in Nat \ {0}
        /\ IdsOf(entries) \subseteq 1..(nextEntry - 1)
    BY <1>1 DEF SyncInv, WorkOK, StoreOK, NoItem, Known
  <1> HIDE DEF read
  <1>3. /\ list \in OrdersOf(Videos) /\ Distinct(list)
        /\ HeldBy(list) \subseteq IdsOf(read)
        /\ IdsOf(list) \subseteq IdsOf(entries) \cup {NewEntry}
        /\ \A i \in DOMAIN entries :
                \/ entries[i].id \in IdsOf(list)
                \/ entries[i].item \in IdsOf(base) \ IdsOf(read)
        /\ IdsOf(read) \ HeldBy(list) \subseteq (IdsOf(base) \ HeldBy(entries)) \cup {made}
    BY <1>2, MergedKeeps
  <1>7. \A n \in DOMAIN list : list[n].item = NoItem =>
            \E k \in DOMAIN entries :
                /\ entries[k].id = list[n].id /\ entries[k].item = NoItem
                /\ \/ Landed(base, read, entries, unanswered) = {}
                   \/ entries[k].id # unanswered.entry
    <2>1. NewEntry \notin IdsOf(entries) /\ HeldBy(entries) \subseteq IdsOf(base)
      BY <1>2 DEF SyncInv, StoreOK, NewEntry
    <2> QED
      BY <1>2, <2>1, MergedAwaits
  <1> HIDE DEF list, made
  <1>4. IdsOf(list) \subseteq 0..(nextEntry - 1)
    BY <1>2, <1>3 DEF NewEntry
  <1>5. /\ new \in OrdersOf(Videos) /\ Distinct(new) /\ DOMAIN new = DOMAIN list
        /\ \A i \in DOMAIN list : list[i].id # NewEntry => new[i].id = list[i].id
        /\ next \in Nat \ {0} /\ IdsOf(new) \subseteq 1..(next - 1)
        /\ HeldBy(new) = HeldBy(list) /\ nextEntry <= next
        /\ \A n \in DOMAIN list :
                /\ new[n].item = list[n].item
                /\ new[n].id \in 1..(nextEntry - 1) => new[n].id = list[n].id
    <2>1. /\ Numbered(list) \in OrdersOf(Videos) /\ Distinct(Numbered(list))
          /\ DOMAIN Numbered(list) = DOMAIN list
          /\ \A i \in DOMAIN list :
               /\ Numbered(list)[i].video = list[i].video
               /\ Numbered(list)[i].item = list[i].item
               /\ list[i].id # NewEntry => Numbered(list)[i].id = list[i].id
               /\ list[i].id = NewEntry => Numbered(list)[i].id \notin 0..(nextEntry - 1)
          /\ NewUpTo(list, Len(list)) \in Nat
          /\ nextEntry + NewUpTo(list, Len(list)) \in Nat \ {0}
          /\ nextEntry <= nextEntry + NewUpTo(list, Len(list))
          /\ IdsOf(Numbered(list)) \subseteq 1..(nextEntry + NewUpTo(list, Len(list)) - 1)
          /\ HeldBy(Numbered(list)) = HeldBy(list)
      BY <1>2, <1>3, <1>4, NumberedKeeps
    <2> QED
      BY <1>2, <2>1
  <1> HIDE DEF new, next
  <1>8. ASSUME NEW n \in DOMAIN new, new[n].item = NoItem, new[n].id \in 1..(nextEntry - 1)
        PROVE  \E k \in DOMAIN entries :
                    /\ entries[k].id = new[n].id /\ entries[k].item = NoItem
                    /\ \/ Landed(base, read, entries, unanswered) = {}
                       \/ entries[k].id # unanswered.entry
    BY <1>5, <1>7, <1>8
  <1>6. \A i \in DOMAIN entries :
            entries[i].id \in IdsOf(new) \/ entries[i].item \in IdsOf(base) \ IdsOf(read)
    <2> SUFFICES ASSUME NEW i \in DOMAIN entries, entries[i].id \in IdsOf(list)
                 PROVE  entries[i].id \in IdsOf(new)
      BY <1>3
    <2>1. PICK j \in DOMAIN list : list[j].id = entries[i].id
      BY DEF IdsOf
    <2>2. entries[i].id # NewEntry
      BY <1>2 DEF IdsOf, NewEntry
    <2>3. new[j].id = entries[i].id /\ j \in DOMAIN new
      BY <1>5, <2>1, <2>2
    <2> QED
      BY <2>3 DEF IdsOf
  <1> QED
    BY <1>1, <1>2, <1>3, <1>5, <1>6, <1>8 DEF read, made

LEMMA MergeKeeps ==
    ASSUME SyncInv, MergeInto
    PROVE  SyncInv'
  <1> DEFINE read == worker.read
             made == LandedInsert(base, read, entries, unanswered).madeHere
             writes == worker'.writes
  <1>1. /\ UNCHANGED <<youtube, live, older, nextItem, stored, recent>>
        /\ stored /\ base' = Unplaced(read) /\ unanswered' = NoWrite
        /\ history' = [history EXCEPT !.sinceBase = history.sinceRead,
                                      !.taken = @ \cup TakenForLost]
    BY DEF MergeInto, youtubeVars
  <1>2. /\ worker'.pc = "push" /\ worker'.base = Unplaced(read)
        /\ writes = <<>> \/ writes = PlanFor(sort, read, entries')
    BY DEF MergeInto, Idle
  <1>3. /\ Known(read, nextItem) /\ nextEntry' \in Nat \ {0}
        /\ IdsOf(entries') \subseteq 1..(nextEntry' - 1)
        /\ entries' \in OrdersOf(Videos) /\ Distinct(entries')
        /\ HeldBy(entries') \subseteq IdsOf(read)
        /\ IdsOf(read) \ HeldBy(entries') \subseteq (IdsOf(base) \ HeldBy(entries)) \cup {made}
    BY MergeLeaves
  <1>4. NewEntry \notin IdsOf(entries') /\ read \in ItemsOf(Videos)
    BY <1>3 DEF NewEntry, Known
  <1>5. base' \in Seq(BaseItem) /\ IdsOf(base') = IdsOf(read) /\ Len(base') = Len(read)
    BY <1>1, <1>4, UnplacedKeeps
  <1>6. /\ GoesOn(history, history') /\ HistoryOK(history')
        /\ TakenForLost \subseteq history'.taken
    BY <1>1 DEF SyncInv, HistoryOK, GoesOn
  <1>7. ASSUME NEW item \in IdsOf(read) \ HeldBy(entries')
        PROVE  Excused(history', item)
    <2>1. CASE item \in IdsOf(base) \ HeldBy(entries)
      <3>1. Excused(history, item)
        BY <1>1, <2>1 DEF SyncInv, ExcusesOK
      <3> QED
        BY <1>6, <3>1, ExcusedStays
    <2>2. CASE item = made
      <3>1. item # NoItem
        BY <1>3 DEF Known, NoItem
      <3>2. Gone(history, unanswered.entry)
        BY <1>1, <2>2, <3>1, TakenIsExcused DEF SyncInv
      <3>3. [entry |-> unanswered.entry, item |-> item] \in history'.taken
        BY <1>6, <2>2, <3>1 DEF TakenForLost
      <3>4. Gone(history', unanswered.entry)
        BY <1>6, <3>2, GoneStays
      <3> QED
        BY <3>3, <3>4 DEF Gone, Excused
    <2> QED
      BY <1>3, <2>1, <2>2
  <1> HIDE DEF read, made
  <1>8. /\ writes \in Seq(WritesOf(Videos)) /\ Pushable(base', entries', history', writes)
        /\ \A n \in DOMAIN writes : writes[n].kind = "delete" =>
                writes[n].item \in IdsOf(read) \ HeldBy(entries')
    <2>1. writes = <<>> \/ Planned(Videos, read, entries', writes)
      BY <1>2, <1>3, <1>4, PlanForKeeps
    <2> HIDE DEF writes
    <2> QED
      BY <1>3, <1>4, <1>5, <2>1, PlannedIsPushable
  <1>9. ContentsOK'
    BY <1>1 DEF SyncInv, ContentsOK
  <1>10. StoreOK'
    BY <1>1, <1>3, <1>5 DEF StoreOK, Known
  <1>11. WorkOK' /\ PushOK' /\ AnswerOK'
    BY <1>1, <1>2, <1>8 DEF WorkOK, PushOK, AnswerOK, Phases
  <1>12. UnansweredOK' /\ ConfirmedOK'
    BY <1>1, <1>2 DEF SyncInv, UnansweredOK, ConfirmedOK, NoWrite, Write, AddsItem
  <1>13. ExcusesOK'
    BY <1>1, <1>5, <1>7, <1>8 DEF ExcusesOK
  <1> QED
    BY <1>6, <1>9, <1>10, <1>11, <1>12, <1>13 DEF SyncInv

(* The steps, by what they touch.                                           *)
LEMMA StepsOf ==
    ASSUME [Next]_vars, SyncInv
    PROVE  \/ Rests \/ LagPasses \/ DeleteOnYouTube \/ DeleteStored \/ TakeUpGone
           \/ OwnerEdits \/ TakeUp \/ TakeUpMissing \/ ConfirmAbsences \/ MergeInto
           \/ BeginWrite
           \/ \E outcome, made : Answers(outcome, made)
           \/ SettleDone \/ SettleVideoRefused \/ SettleGone
           \/ \E c \in Clients, videos \in Orders, any \in BOOLEAN :
                    ReplaceItems(c, videos, any)
  <1> USE DEF youtubeVars, storeVars
  <1>1. CASE UNCHANGED vars
    BY <1>1 DEF vars, Rests
  <1>2. CASE ClientActions
    BY <1>2 DEF ClientActions, ClientRead, Rests
  <1>3. CASE LagPasses \/ RetryFires \/ DayPasses
    BY <1>3 DEF RetryFires, DayPasses, Rests
  <1>4. CASE WorkerActions
    <2>1. CASE TakeUpDeferred \/ TakeUpNotYet \/ SpentPass \/ MergeStops \/ PushStops
      BY <2>1 DEF TakeUpDeferred, TakeUpNotYet, SpentPass, MergeStops, PushStops, Rests
    <2>2. CASE SettleDeclined
      <3>1. unanswered' = NoWrite /\ worker.outcome \notin {"applied", "unanswered"}
        BY <2>2 DEF SettleDeclined, Unanswered
      <3>2. stored /\ worker.pc = "settle" /\ worker' = Idle /\ recent' = TRUE
        BY <2>2 DEF SettleDeclined, Settling
      <3> QED
        BY <2>2, <3>1, <3>2 DEF SettleDeclined, Rests
    <2>5. CASE SettleUnanswered
      BY <2>5 DEF SettleUnanswered, Unanswered, Rests
    <2>3. CASE SendApplied
      <3>1. Answers("applied", IF AddsItem(Sent) THEN nextItem ELSE NoItem)
        BY <2>3 DEF SendApplied, Answers, AddsItem
      <3> QED
        BY <3>1
    <2>4. CASE SendDeclined
      <3>1. Answers(YouTubeAnswer, NoItem)
        BY <2>4 DEF SendDeclined, Answers
      <3> QED
        BY <3>1
    <2> QED
      BY <1>4, <2>1, <2>2, <2>3, <2>4, <2>5 DEF WorkerActions
  <1>5. CASE Faults
    <2>1. CASE TakeUpFails \/ ConfirmFails \/ PushYields \/ SettleFails \/ Crash
      BY <2>1 DEF TakeUpFails, ConfirmFails, ReadFails, PushYields, SettleFails, Crash, Rests
    <2>2. CASE SendLost
      <3>1. Answers("unanswered", NoItem)
        BY <2>2 DEF SendLost, Answers
      <3> QED
        BY <3>1
    <2>3. CASE SendRefused
      <3>1. \E outcome : Answers(outcome, NoItem)
        BY <2>3 DEF SendRefused, Answers
      <3> QED
        BY <3>1
    <2> QED
      BY <1>5, <2>1, <2>2, <2>3 DEF Faults
  <1> QED
    BY <1>1, <1>2, <1>3, <1>4, <1>5 DEF Next, ClientActions

LEMMA SyncInvKept ==
    ASSUME SyncInv, IInv, [Next]_vars
    PROVE  SyncInv'
  <1>1. ASSUME NEW outcome, NEW made, Answers(outcome, made)
        PROVE  SyncInv'
    BY <1>1, AnswersKeep
  <1>2. ASSUME NEW c \in Clients, NEW videos \in Orders, NEW any \in BOOLEAN,
               ReplaceItems(c, videos, any)
        PROVE  SyncInv'
    BY <1>2, EditKeeps
  <1> QED
    BY <1>1, <1>2, StepsOf, RestsKeeps, LagPassesKeeps, DeletedOnYouTubeKeeps, DroppedKeeps,
       OwnerIsStill, TakesUpKeeps, ConfirmsKeeps, MergeKeeps, BeginsKeeps, SettlesKeep,
       VideoRefusedKeeps, GoneGoesOnKeeps

LEMMA SyncInvInit ==
    ASSUME Init
    PROVE  SyncInv
  <1> DEFINE n == Len(StartVideos)
             first == n + 1
  <1>1. /\ n \in Nat /\ DOMAIN StartVideos = 1..n /\ first \in Nat \ {0}
        /\ \A i \in 1..n : StartVideos[i] \in Videos /\ i \in 1..(first - 1) /\ i \in Nat \ {0}
    BY PlaylistSyncAssumption
  <1>2. /\ youtube = [i \in 1..n |-> [id |-> i, video |-> StartVideos[i]]]
        /\ entries = [i \in 1..n |-> Entry(i, StartVideos[i], i)]
        /\ base = Unplaced(youtube) /\ older = {} /\ live = TRUE /\ stored = TRUE
        /\ nextItem = first /\ nextEntry = first /\ unanswered = NoWrite /\ worker = Idle
        /\ DOMAIN history = {"made", "editedAway", "taken", "sinceBase", "sinceRead"}
    BY <1>1 DEF Init
  <1> HIDE DEF n, first
  <1>3. Known(youtube, nextItem) /\ IdsOf(youtube) = 1..n
    <2>1. youtube \in Seq([id : Nat \ {0}, video : Videos])
      BY <1>1, <1>2
    <2>2. DOMAIN youtube = 1..n /\ \A i \in 1..n : youtube[i].id = i
      BY <1>2
    <2>3. youtube \in ItemsOf(Videos)
      BY <2>1, <2>2 DEF ItemsOf
    <2>4. IdsOf(youtube) = 1..n
      BY <2>2 DEF IdsOf
    <2>5. 1..n \subseteq 1..(nextItem - 1)
      BY <1>1, <1>2
    <2> QED
      BY <2>3, <2>4, <2>5 DEF Known
  <1>4. base \in Seq(BaseItem) /\ IdsOf(base) = 1..n
    BY <1>2, <1>3, UnplacedKeeps DEF Known
  <1>5. /\ entries \in OrdersOf(Videos) /\ Distinct(entries)
        /\ IdsOf(entries) = 1..n /\ HeldBy(entries) = 1..n
    <2>1. entries \in OrdersOf(Videos)
      BY <1>1, <1>2 DEF Entry, OrdersOf
    <2>2. DOMAIN entries = 1..n /\ \A i \in 1..n : entries[i].id = i /\ entries[i].item = i
      BY <1>2 DEF Entry
    <2>3. Distinct(entries) /\ IdsOf(entries) = 1..n
      BY <2>2 DEF Distinct, IdsOf
    <2>4. HeldBy(entries) = 1..n
      BY <1>1, <2>2 DEF HeldBy, NoItem
    <2> QED
      BY <2>1, <2>3, <2>4
  <1>6. 1..n \subseteq 1..(first - 1)
    BY <1>1
  <1>7. ContentsOK /\ HistoryOK(history)
    BY <1>1, <1>2, <1>3 DEF ContentsOK, HistoryOK
  <1>8. StoreOK
    BY <1>1, <1>2, <1>4, <1>5, <1>6 DEF StoreOK
  <1>9. WorkOK /\ PushOK /\ AnswerOK
    BY <1>2 DEF WorkOK, PushOK, AnswerOK, Idle, Phases
  <1>10. UnansweredOK /\ ConfirmedOK
    BY <1>2 DEF UnansweredOK, ConfirmedOK, NoWrite, Write, AddsItem, Idle
  <1>11. ExcusesOK
    <2>1. worker.writes = <<>> /\ IdsOf(base) \ HeldBy(entries) = {}
      BY <1>2, <1>4, <1>5 DEF Idle
    <2> QED
      BY <2>1 DEF ExcusesOK
  <1> QED
    BY <1>7, <1>8, <1>9, <1>10, <1>11 DEF SyncInv

(* The flags, which the other parts say nothing of.                         *)
FlagsOK ==
    /\ youtubeSort \in {Manual, Automatic} /\ sort \in {Manual, Automatic}
    /\ recent \in BOOLEAN /\ quotaSpent \in BOOLEAN /\ edited \in BOOLEAN /\ retry \in BOOLEAN
    /\ refused \in {"none", "today", "earlier"}

LEMMA FlagsKept ==
    ASSUME FlagsOK, [Next]_vars
    PROVE  FlagsOK'
  <1> USE DEF FlagsOK, youtubeVars, storeVars
  <1>1. CASE UNCHANGED vars
    BY <1>1 DEF vars
  <1>2. CASE ClientActions
    <2>1. ASSUME NEW c \in Clients, NEW videos \in Orders, NEW any \in BOOLEAN,
                 ReplaceItems(c, videos, any)
          PROVE  FlagsOK'
      BY <2>1 DEF ReplaceItems, ReleasedByOrder
    <2>2. ASSUME NEW c \in Clients, ClientRead(c)
          PROVE  FlagsOK'
      BY <2>2 DEF ClientRead
    <2>3. CASE DeleteOnYouTube \/ DeleteStored
      BY <2>3 DEF DeleteOnYouTube, DeleteStored
    <2> QED
      BY <1>2, <2>1, <2>2, <2>3 DEF ClientActions
  <1>3. CASE OwnerEdits
    <2>1. ASSUME NEW v \in OwnerVideos, NEW place \in 1..(Len(youtube) + 1), OwnerAdds(v, place)
          PROVE  FlagsOK'
      BY <2>1 DEF OwnerAdds, Owner
    <2>2. ASSUME NEW place \in DOMAIN youtube, OwnerRemoves(place)
          PROVE  FlagsOK'
      BY <2>2 DEF OwnerRemoves, Owner
    <2>3. ASSUME NEW from \in DOMAIN youtube, NEW to \in DOMAIN youtube, OwnerMoves(from, to)
          PROVE  FlagsOK'
      BY <2>3 DEF OwnerMoves, Owner
    <2>4. CASE OwnerSorts
      <3>1. /\ youtubeSort' \in {Manual, Automatic}
            /\ UNCHANGED <<storeVars, edited, retry>>
        BY <2>4 DEF OwnerSorts, Owner
      <3> QED
        BY <3>1
    <2> QED
      BY <1>3, <2>1, <2>2, <2>3, <2>4 DEF OwnerEdits
  <1>4. CASE LagPasses \/ RetryFires \/ DayPasses
    BY <1>4 DEF LagPasses, RetryFires, DayPasses
  <1>5. CASE Faults
    <2>1. CASE TakeUpMissing
      BY <2>1 DEF TakeUpMissing, Reading
    <2>4. CASE TakeUpFails \/ ConfirmFails
      <3>1. /\ UNCHANGED <<youtubeSort, sort, refused, recent, retry>>
            /\ quotaSpent' \in BOOLEAN /\ edited' \in BOOLEAN
        BY <2>4 DEF TakeUpFails, ConfirmFails, ReadFails
      <3> QED
        BY <3>1
    <2>2. CASE PushYields \/ SendRefused \/ SettleFails \/ Crash
      BY <2>2 DEF PushYields, SendRefused, SettleFails, Crash
    <2>3. CASE SendLost
      BY <2>3 DEF SendLost, Lands
    <2> QED
      BY <1>5, <2>1, <2>2, <2>3, <2>4 DEF Faults
  <1>6. CASE WorkerActions
    <2>1. CASE TakeUp \/ TakeUpDeferred \/ TakeUpNotYet
      BY <2>1 DEF TakeUp, Reading, TakeUpDeferred, TakeUpNotYet
    <2>7. CASE TakeUpGone \/ SpentPass \/ ConfirmAbsences
      BY <2>7 DEF TakeUpGone, SpentPass, ConfirmAbsences
    <2>2. CASE MergeInto
      BY <2>2 DEF MergeInto, ReleasedByBase, ReleasedByOrder
    <2>3. CASE MergeStops \/ PushStops \/ BeginWrite
      BY <2>3 DEF MergeStops, PushStops, BeginWrite
    <2>8. CASE SendApplied \/ SendDeclined
      BY <2>8 DEF SendApplied, Lands, SendDeclined
    <2>4. CASE SettleDone
      BY <2>4 DEF SettleDone, ReleasedByBase
    <2>5. CASE SettleVideoRefused
      BY <2>5 DEF SettleVideoRefused, ReleasedByOrder
    <2>6. CASE SettleDeclined \/ SettleUnanswered \/ SettleGone
      BY <2>6 DEF SettleDeclined, SettleUnanswered, SettleGone
    <2> QED
      BY <1>6, <2>1, <2>2, <2>3, <2>4, <2>5, <2>6, <2>7, <2>8 DEF WorkerActions
  <1> QED
    BY <1>1, <1>2, <1>3, <1>4, <1>5, <1>6 DEF Next

LEMMA AlwaysSyncInv == Spec => [](IInv /\ SyncInv /\ FlagsOK)
  <1>1. Init => IInv /\ SyncInv /\ FlagsOK
    BY InitIInv, SyncInvInit DEF Init, FlagsOK
  <1>2. IInv /\ SyncInv /\ FlagsOK /\ [Next]_vars => (IInv /\ SyncInv /\ FlagsOK)'
    BY NextIInv, SyncInvKept, FlagsKept
  <1> QED
    BY <1>1, <1>2, PTL DEF Spec

-----------------------------------------------------------------------------
(* What the sync keeps in YouTube, in the store and in its own memory has   *)
(* the shape the code relies on: no item or entry of a number not yet       *)
(* given, no video and no phase it does not know.                           *)
THEOREM SyncIsTyped == Spec => []TypeOK
  <1>1. IInv /\ SyncInv /\ FlagsOK => TypeOK
    <2> SUFFICES ASSUME IInv, SyncInv, FlagsOK
                 PROVE  TypeOK
      OBVIOUS
    <2>1. \A i \in DOMAIN youtube : youtube[i].id \in 1..(nextItem - 1)
      BY DEF SyncInv, ContentsOK, Known, IdsOf
    <2>2. \A i \in DOMAIN entries : /\ entries[i].id \in 1..(nextEntry - 1)
                                    /\ entries[i].video \in Videos
                                    /\ entries[i].item \in 0..(nextItem - 1)
      <3> TAKE i \in DOMAIN entries
      <3>1. entries[i] \in [id : Nat, video : Videos, item : Nat]
        BY EntryTyped DEF SyncInv, StoreOK
      <3>2. entries[i].id \in 1..(nextEntry - 1)
        BY DEF SyncInv, StoreOK, IdsOf
      <3>3. entries[i].item = NoItem \/ entries[i].item \in 1..(nextItem - 1)
        BY DEF SyncInv, StoreOK, HeldBy
      <3>4. NoItem \in 0..(nextItem - 1)
        BY DEF SyncInv, ContentsOK, NoItem
      <3> QED
        BY <3>1, <3>2, <3>3, <3>4
    <2>3. {live, stored, recent, quotaSpent, edited, retry} \subseteq BOOLEAN
      BY DEF SyncInv, ContentsOK, FlagsOK
    <2>4. revision \in Nat /\ worker.pc \in Phases
      BY DEF IInv, SeenOK, SyncInv, WorkOK
    <2> QED
      BY <2>1, <2>2, <2>3, <2>4 DEF TypeOK, FlagsOK
  <1> QED
    BY AlwaysSyncInv, <1>1, PTL

(* Through any interleaving of edits, reads, merges, pushes, lost answers   *)
(* and restarts, an entry holds an item only while the base has it, and no  *)
(* two entries hold one.                                                    *)
THEOREM EntriesHoldTheBase == Spec => []EntriesHoldBaseItems
  <1>1. SyncInv => EntriesHoldBaseItems
    <2> SUFFICES ASSUME SyncInv
                 PROVE  EntriesHoldBaseItems
      OBVIOUS
    <2>1. HeldBy(entries) \subseteq IdsOf(base) /\ Distinct(entries) /\ NewEntry \notin IdsOf(entries)
      BY DEF SyncInv, StoreOK, NewEntry
    <2>2. HoldOneEach(entries)
      BY <2>1 DEF HoldOneEach, Distinct
    <2>3. Injective(ItemIds(entries))
      BY <2>1 DEF Injective, ItemIds, Distinct, IdsOf
    <2> QED
      BY <2>1, <2>2, <2>3 DEF EntriesHoldBaseItems
  <1> QED
    BY AlwaysSyncInv, <1>1, PTL

(* No delete reaches YouTube but for an item an edit here let go of,        *)
(* however old the read the push was planned from.                          *)
THEOREM PushDeletesOnlyEdits == Spec => []DeletesOnlyEdits
  <1>1. SyncInv => DeletesOnlyEdits
    <2> SUFFICES ASSUME SyncInv, worker.pc = "send", Sent.kind = "delete"
                 PROVE  Excused(history, Sent.item)
      BY DEF DeletesOnlyEdits, Excused
    <2>1. 1 \in DOMAIN worker.writes /\ Sent = worker.writes[1]
      BY HeadAndTail DEF SyncInv, WorkOK, Sent
    <2> QED
      BY <2>1 DEF SyncInv, ExcusesOK
  <1> QED
    BY AlwaysSyncInv, <1>1, PTL

(* Only the merge takes the worker from "merge" to the push.                *)
LEMMA OnlyMergePushes ==
    ASSUME SyncInv, [Next]_vars, worker.pc = "merge", worker'.pc = "push"
    PROVE  MergeInto
  <1>1. worker'.pc # "idle" /\ worker' # worker
    OBVIOUS
  <1>2. ~Rests
    BY <1>1 DEF Rests, Idle
  <1>3. ~(LagPasses \/ DeleteOnYouTube \/ DeleteStored \/ TakeUpGone)
    BY <1>1 DEF LagPasses, DeleteOnYouTube, DeleteStored, TakeUpGone
  <1>4. ~OwnerEdits
    BY <1>1 DEF OwnerEdits, OwnerAdds, OwnerRemoves, OwnerMoves, OwnerSorts, Owner
  <1>5. ~(TakeUp \/ TakeUpMissing \/ ConfirmAbsences \/ BeginWrite)
    BY DEF TakeUp, TakeUpMissing, Reading, TakesUp, ConfirmAbsences, BeginWrite
  <1>6. ~(SettleDone \/ SettleVideoRefused \/ SettleGone)
    BY DEF SettleDone, SettleVideoRefused, SettleGone, Settling
  <1>7. ~(\E outcome, made : Answers(outcome, made))
    BY DEF Answers
  <1>8. ~(\E c \in Clients, videos \in Orders, any \in BOOLEAN : ReplaceItems(c, videos, any))
    BY <1>1 DEF ReplaceItems
  <1> QED
    BY <1>2, <1>3, <1>4, <1>5, <1>6, <1>7, <1>8, StepsOf

(* An entry leaves the order in a merge only when YouTube does not have its *)
(* item at that very moment, whatever the read missed or was too old to     *)
(* show.                                                                    *)
THEOREM MergesDropOnlyGone == Spec => MergeDropsOnlyGone
  <1> DEFINE Drops == worker.pc = "merge" /\ worker'.pc = "push" =>
                        \A e \in EditedAway(entries, entries') : ~HasItem(youtube, e.item)
  <1>1. ASSUME SyncInv, [Next]_vars
        PROVE  [Drops]_vars
    <2> SUFFICES ASSUME worker.pc = "merge", worker'.pc = "push",
                        NEW e \in EditedAway(entries, entries')
                 PROVE  ~HasItem(youtube, e.item)
      OBVIOUS
    <2>1. MergeInto
      BY <1>1, OnlyMergePushes
    <2>2. PICK i \in DOMAIN entries : e = entries[i] /\ entries[i].id \notin IdsOf(entries')
      BY DEF EditedAway
    <2>3. e.item \in IdsOf(base) \ IdsOf(worker.read)
      BY <1>1, <2>1, <2>2, MergeLeaves
    <2>4. e.item \in Absent
      BY <2>1, <2>3 DEF MergeInto, Absent
    <2>5. e.item \notin IdsOf(youtube)
      <3>1. CASE live
        BY <1>1, <2>4, <3>1 DEF SyncInv, ConfirmedOK
      <3>2. CASE ~live
        BY <1>1, <3>2 DEF SyncInv, ContentsOK, IdsOf
      <3> QED
        BY <3>1, <3>2
    <2> QED
      BY <2>5 DEF HasItem, IdsOf
  <1> QED
    BY AlwaysSyncInv, <1>1, PTL DEF MergeDropsOnlyGone, Spec

-----------------------------------------------------------------------------
(***************************************************************************)
(* No video is added twice for one entry, where no read misses an item.    *)
(***************************************************************************)
WholeReads == \A scenario \in Scenarios : ~scenario.miss

NoMiss == "miss" \in DOMAIN left /\ ~left.miss

(* An item made for an entry is on YouTube.                                 *)
MadeFor(past, list, entry) ==
    \E m \in past.made, a \in Range(list) : m.entry = entry /\ a.id = m.item

MadeOK ==
    /\ \A m \in history.made : m.item \in 1..(nextItem - 1) /\ m.entry \in 1..(nextEntry - 1)
    /\ \A e \in history.editedAway : e.id \in 1..(nextEntry - 1)
    /\ NoDoubleAdd

(* An entry whose item is made and not stored is that of the insert nobody  *)
(* answered, the next merge's to account for.                               *)
MadeAwaited ==
    stored => \A i \in DOMAIN entries :
        entries[i].item = NoItem /\ MadeFor(history, youtube, entries[i].id) =>
            AddsItem(unanswered) /\ unanswered.entry = entries[i].id

(* A push has no add left for an entry whose item is made, but the one made. *)
MadeOnce ==
    stored /\ worker.pc \in {"push", "send", "settle"} =>
        \A n \in DOMAIN worker.writes :
            AddsItem(worker.writes[n]) /\ MadeFor(history, youtube, worker.writes[n].entry) =>
                n = 1 /\ worker.pc = "settle" /\ worker.outcome \in {"applied", "unanswered"}

AllAnswered == stored /\ worker.pc = "push" => unanswered = NoWrite

(* An item an unanswered insert made is one the merge takes for it.         *)
MadeIsKnown ==
    stored /\ AddsItem(unanswered) =>
        \A m \in history.made, a \in Range(youtube) :
            m.entry = unanswered.entry /\ a.id = m.item =>
                a.video = unanswered.video /\ a.id \notin IdsOf(base)

(* A read that is to be merged shows what was made.                         *)
MadeIsRead ==
    live /\ worker.pc \in {"confirm", "merge"} =>
        \A m \in history.made, a \in Range(youtube) :
            a.id = m.item => a \in Range(worker.read)

AddInv ==
    /\ NoMiss /\ MadeOK /\ MadeAwaited /\ MadeOnce /\ AllAnswered /\ MadeIsKnown
    /\ MadeIsRead

-----------------------------------------------------------------------------
(* Made items that leave YouTube break none of it, nor what a worker drops. *)
Fewer ==
    /\ UNCHANGED <<base, nextEntry>> /\ history'.made = history.made
    /\ history'.editedAway = history.editedAway
    /\ entries' = entries /\ (stored' => stored) /\ (live' => live)
    /\ nextItem' \in {nextItem, nextItem + 1}
    /\ \A a \in Range(youtube') : a \in Range(youtube) \/ a.id = nextItem
    /\ worker' \in {worker, Idle}
    /\ unanswered' = unanswered

LEMMA HasItemByRange ==
    ASSUME NEW list, NEW id
    PROVE  HasItem(list, id) <=> \E a \in Range(list) : a.id = id
  BY DEF HasItem, Range

LEMMA FewerKeeps ==
    ASSUME AddInv, SyncInv, NoMiss', Fewer
    PROVE  AddInv'
  <1> USE DEF AddInv, Fewer
  <1>1. nextItem' \in Nat /\ nextItem \in Nat \ {0}
    BY DEF SyncInv, ContentsOK
  <1>2. \A m \in history.made : m.item # nextItem /\ m.item \in 1..(nextItem' - 1)
    BY <1>1 DEF MadeOK
  <1>3. \A m \in history.made, a \in Range(youtube') : a.id = m.item => a \in Range(youtube)
    BY <1>2
  <1>4. \A entry : MadeFor(history', youtube', entry) => MadeFor(history, youtube, entry)
    BY <1>3 DEF MadeFor
  <1>5. MadeOK'
    <2>1. \A m \in history.made : HasItem(youtube', m.item) => HasItem(youtube, m.item)
      BY <1>3, HasItemByRange
    <2>2. NoDoubleAdd'
      BY <2>1 DEF MadeOK, NoDoubleAdd
    <2> QED
      BY <1>2, <2>2 DEF MadeOK
  <1>6. MadeAwaited'
    BY <1>4 DEF MadeAwaited
  <1>7. MadeOnce'
    BY <1>4 DEF MadeOnce, Idle
  <1>8. AllAnswered'
    BY DEF AllAnswered, Idle
  <1>9. MadeIsKnown'
    BY <1>3 DEF MadeIsKnown
  <1>10. MadeIsRead'
    BY <1>3 DEF MadeIsRead, Idle
  <1> QED
    BY <1>5, <1>6, <1>7, <1>8, <1>9, <1>10

LEMMA ClearingKeeps ==
    ASSUME AddInv, SyncInv, IInv, NoMiss', stored, worker.pc = "settle",
           worker.outcome \notin {"applied", "unanswered"}, unanswered' = NoWrite,
           worker' = Idle,
           UNCHANGED <<youtube, live, nextItem, stored, entries, base, nextEntry, history>>
    PROVE  AddInv'
  <1> USE DEF AddInv
  <1>1. Sent = worker.writes[1] /\ 1 \in DOMAIN worker.writes /\ Sent \in WritesOf(Videos)
    BY HeadAndTail DEF SyncInv, WorkOK, Sent
  <1>2. unanswered.kind = Sent.kind /\ unanswered.entry = Sent.entry
    BY <1>1, RecordedTyped DEF IInv, WorkerOK, WriteOnRecord
  <1>3. \A i \in DOMAIN entries :
            ~(entries[i].item = NoItem /\ MadeFor(history, youtube, entries[i].id))
    BY <1>1, <1>2 DEF MadeAwaited, MadeOnce, AddsItem
  <1>4. MadeOK' /\ MadeOnce' /\ AllAnswered' /\ MadeIsRead'
    BY DEF MadeOK, NoDoubleAdd, MadeOnce, AllAnswered, MadeIsRead, Idle
  <1>5. MadeAwaited'
    BY <1>3 DEF MadeAwaited
  <1>6. MadeIsKnown'
    BY DEF MadeIsKnown, AddsItem, NoWrite, Write
  <1> QED
    BY <1>4, <1>5, <1>6

(* The read and its confirmation.                                           *)
LEMMA TakeUpReadsMade ==
    ASSUME AddInv, SyncInv, TakeUp
    PROVE  AddInv'
  <1> USE DEF AddInv
  <1>1. /\ UNCHANGED <<youtube, live, nextItem, stored, entries, base, nextEntry, unanswered, left>>
        /\ history'.made = history.made /\ history'.editedAway = history.editedAway
        /\ ~recent /\ worker'.pc = "confirm"
        /\ live => worker'.read = youtube
    <2>1. PICK content \in Readable : Reading(content)
      BY DEF TakeUp
    <2>2. live => content = youtube
      BY <2>1 DEF Reading, ItemWritesSince, SyncInv, ConfirmedOK, Readable
    <2>3. /\ history'.made = history.made /\ history'.editedAway = history.editedAway
          /\ ~recent /\ worker'.pc = "confirm" /\ worker'.read = content
      BY <2>1 DEF Reading, ItemWritesSince, SyncInv, HistoryOK, Idle
    <2> QED
      BY <2>2, <2>3 DEF TakeUp, youtubeVars, storeVars
  <1>2. NoMiss' /\ MadeOK' /\ MadeAwaited' /\ MadeIsKnown'
    BY <1>1 DEF NoMiss, MadeOK, NoDoubleAdd, MadeAwaited, MadeIsKnown, MadeFor
  <1>3. MadeOnce' /\ AllAnswered' /\ MadeIsRead'
    BY <1>1 DEF MadeOnce, AllAnswered, MadeIsRead
  <1> QED
    BY <1>2, <1>3

LEMMA ConfirmReadsMade ==
    ASSUME AddInv, SyncInv, IInv, ConfirmAbsences
    PROVE  AddInv'
  <1> USE DEF AddInv
  <1>1. /\ UNCHANGED <<youtube, live, nextItem, stored, entries, base, nextEntry, unanswered,
                       left, history>>
        /\ worker.pc = "confirm"
        /\ worker' = Idle \/ worker' = [worker EXCEPT !.pc = "merge"]
    BY DEF ConfirmAbsences, youtubeVars, storeVars
  <1>2. \/ worker'.pc = "idle"
        \/ worker'.pc = "merge" /\ worker'.read = worker.read
    BY <1>1 DEF Idle, IInv, WorkerOK
  <1>3. NoMiss' /\ MadeOK' /\ MadeAwaited' /\ MadeIsKnown'
    BY <1>1 DEF NoMiss, MadeOK, NoDoubleAdd, MadeAwaited, MadeIsKnown, MadeFor
  <1>4. MadeOnce' /\ AllAnswered' /\ MadeIsRead'
    BY <1>1, <1>2 DEF MadeOnce, AllAnswered, MadeIsRead
  <1> QED
    BY <1>3, <1>4

(* The write goes on record, nothing of it made yet.                        *)
LEMMA BeginMadeOnce ==
    ASSUME AddInv, SyncInv, IInv, BeginWrite
    PROVE  AddInv'
  <1> USE DEF AddInv
  <1>1. /\ UNCHANGED <<youtube, live, nextItem, stored, entries, base, nextEntry, left, history>>
        /\ worker.pc = "push" /\ stored /\ worker.writes # <<>>
        /\ unanswered' = Recorded(Sent) /\ worker' = [worker EXCEPT !.pc = "send"]
    BY DEF BeginWrite, PushGoesOn, youtubeVars, Sent
  <1>2. worker'.pc = "send" /\ worker'.writes = worker.writes
    BY <1>1 DEF IInv, WorkerOK, Idle
  <1>3. Sent = worker.writes[1] /\ 1 \in DOMAIN worker.writes /\ Sent \in WritesOf(Videos)
    BY <1>1, HeadAndTail DEF SyncInv, WorkOK, Sent
  <1>4. unanswered'.kind = Sent.kind /\ unanswered'.entry = Sent.entry
    BY <1>1, <1>3, RecordedTyped
  <1>5. \A n \in DOMAIN worker.writes :
            ~(AddsItem(worker.writes[n]) /\ MadeFor(history, youtube, worker.writes[n].entry))
    BY <1>1 DEF MadeOnce
  <1>6. \A i \in DOMAIN entries :
            ~(entries[i].item = NoItem /\ MadeFor(history, youtube, entries[i].id))
    BY <1>1 DEF MadeAwaited, AllAnswered, AddsItem, NoWrite, Write
  <1>7. NoMiss' /\ MadeOK' /\ MadeAwaited'
    BY <1>1, <1>6 DEF NoMiss, MadeOK, NoDoubleAdd, MadeAwaited
  <1>8. MadeOnce' /\ AllAnswered' /\ MadeIsRead'
    BY <1>1, <1>2, <1>5 DEF MadeOnce, AllAnswered, MadeIsRead
  <1>9. MadeIsKnown'
    <2>1. AddsItem(unanswered') => ~MadeFor(history, youtube, unanswered'.entry)
      BY <1>3, <1>4, <1>5 DEF AddsItem
    <2> QED
      BY <1>1, <2>1 DEF MadeIsKnown, MadeFor
  <1> QED
    BY <1>7, <1>8, <1>9

(* What lands is known as its write is on record, and made for an entry of  *)
(* which YouTube had nothing.                                               *)
LEMMA LandsMadeOnce ==
    ASSUME AddInv, SyncInv, IInv, NoMiss', NEW outcome, NEW made, Answers(outcome, made)
    PROVE  AddInv'
  <1> USE DEF AddInv
  <1>1. /\ UNCHANGED <<stored, entries, base, nextEntry, unanswered>>
        /\ worker.pc = "send" /\ worker' = [worker EXCEPT !.pc = "settle", !.outcome = outcome,
                                                          !.made = made]
    BY DEF Answers, storeVars, Answered
  <1>2. worker'.pc = "settle" /\ worker'.writes = worker.writes /\ worker'.outcome = outcome
    BY <1>1 DEF IInv, WorkerOK, Idle
  <1>3. Sent = worker.writes[1] /\ 1 \in DOMAIN worker.writes /\ Sent \in WritesOf(Videos)
    BY <1>1, HeadAndTail DEF SyncInv, WorkOK, Sent
  <1>4. nextItem \in Nat \ {0} /\ nextItem \notin IdsOf(base)
    BY DEF SyncInv, ContentsOK, StoreOK
  <1>5. stored => \A n \in DOMAIN worker.writes :
            ~(AddsItem(worker.writes[n]) /\ MadeFor(history, youtube, worker.writes[n].entry))
    BY <1>1 DEF MadeOnce
  <1>6. AllAnswered' /\ MadeIsRead'
    BY <1>2 DEF AllAnswered, MadeIsRead
  <1>7. ASSUME nextItem' = nextItem, history' = history, Range(youtube') \subseteq Range(youtube)
        PROVE  AddInv'
    <2>1. \A entry : MadeFor(history', youtube', entry) => MadeFor(history, youtube, entry)
      BY <1>7 DEF MadeFor
    <2>2. \A m \in history.made : HasItem(youtube', m.item) => HasItem(youtube, m.item)
      BY <1>7, HasItemByRange
    <2>3. MadeOK'
      BY <1>1, <1>7, <2>2 DEF MadeOK, NoDoubleAdd
    <2>4. MadeAwaited' /\ MadeOnce' /\ MadeIsKnown'
      BY <1>1, <1>2, <1>5, <1>7, <2>1 DEF MadeAwaited, MadeOnce, MadeIsKnown
    <2> QED
      BY <1>6, <2>3, <2>4
  <1>8. CASE UNCHANGED <<youtube, live, older, nextItem, history>>
    BY <1>7, <1>8
  <1>9. CASE Lands /\ outcome \in {"applied", "unanswered"}
    <2> DEFINE new == [id |-> nextItem, video |-> Sent.video]
               one == [entry |-> Sent.entry, item |-> nextItem]
    <2>1. /\ stored
          /\ nextItem' = IF AddsItem(Sent) THEN nextItem + 1 ELSE nextItem
          /\ Range(youtube') \subseteq Range(youtube) \cup IF AddsItem(Sent) THEN {new} ELSE {}
          /\ history' = IF AddsItem(Sent) THEN [history EXCEPT !.made = @ \cup {one}] ELSE history
      BY <1>1, <1>9, LandsLeaves
    <2>2. CASE ~AddsItem(Sent)
      BY <1>7, <2>1, <2>2
    <2>3. CASE AddsItem(Sent)
      <3>1. /\ history'.made = history.made \cup {one}
            /\ history'.editedAway = history.editedAway
            /\ one.entry = Sent.entry /\ one.item = nextItem
            /\ new.id = nextItem /\ new.video = Sent.video
            /\ nextItem' = nextItem + 1
            /\ Range(youtube') \subseteq Range(youtube) \cup {new}
        BY <2>1, <2>3 DEF SyncInv, HistoryOK
      <3> HIDE DEF new, one
      <3>2. unanswered.kind = Sent.kind /\ unanswered.entry = Sent.entry
                /\ unanswered.video = Sent.video
        BY <1>1, <1>3, <2>1, <2>3, RecordedTyped DEF IInv, WorkerOK, WriteOnRecord
      <3>3. ~MadeFor(history, youtube, Sent.entry)
        BY <1>3, <1>5, <2>1, <2>3
      <3>4. /\ \A m \in history.made : m.item # nextItem
            /\ \A m \in history.made : m.item \in 1..(nextItem' - 1)
            /\ nextItem \in 1..(nextItem' - 1)
        BY <1>4, <3>1 DEF MadeOK
      <3>5. \A m \in history.made, a \in Range(youtube') : a.id = m.item => a \in Range(youtube)
        BY <3>1, <3>4
      <3>6. \A entry : MadeFor(history', youtube', entry) =>
                            entry = Sent.entry \/ MadeFor(history, youtube, entry)
        BY <3>1, <3>5 DEF MadeFor
      <3>7. MadeOK'
        <4>1. Sent.entry \in 1..(nextEntry - 1)
          <5>1. Sent.entry \in IdsOf(entries) \/ Gone(history, Sent.entry)
            BY <1>1, <1>3, <2>1, <2>3
               DEF SyncInv, PushOK, Pushable, AskedFor, WaitsOrGone, AddsItem
          <5> QED
            BY <5>1 DEF MadeOK, Gone, SyncInv, StoreOK
        <4>2. \A m \in history.made : HasItem(youtube', m.item) =>
                    HasItem(youtube, m.item) /\ m.entry # Sent.entry
          BY <3>3, <3>5, HasItemByRange DEF MadeFor
        <4>3. NoDoubleAdd'
          BY <3>1, <4>2 DEF MadeOK, NoDoubleAdd
        <4> QED
          BY <1>1, <3>1, <3>4, <4>1, <4>3 DEF MadeOK
      <3>8. MadeAwaited'
        BY <1>1, <2>3, <3>2, <3>6 DEF MadeAwaited, AddsItem
      <3>9. MadeOnce'
        <4>1. \A n \in DOMAIN worker.writes :
                AddsItem(worker.writes[n]) /\ worker.writes[n].entry = Sent.entry => n = 1
          BY <1>1, <1>3, <2>1, <2>3 DEF SyncInv, PushOK, Pushable, OneAddEach
        <4> QED
          BY <1>2, <1>5, <1>9, <2>1, <3>6, <4>1 DEF MadeOnce
      <3>10. MadeIsKnown'
        <4> SUFFICES ASSUME NEW m \in history'.made, NEW a \in Range(youtube'),
                            m.entry = unanswered.entry, a.id = m.item
                     PROVE  a.video = unanswered.video /\ a.id \notin IdsOf(base)
          BY <1>1 DEF MadeIsKnown
        <4>1. CASE m = one
          <5>1. a.id # nextItem \/ a = new
            BY <3>1 DEF SyncInv, ContentsOK, Known, IdsOf, Range
          <5> QED
            BY <1>4, <3>1, <3>2, <4>1, <5>1
        <4>2. CASE m \in history.made
          BY <3>2, <3>3, <3>5, <4>2 DEF MadeFor
        <4> QED
          BY <3>1, <4>1, <4>2
      <3> QED
        BY <1>6, <3>7, <3>8, <3>9, <3>10
    <2> QED
      BY <2>2, <2>3
  <1> QED
    BY <1>8, <1>9 DEF Answers

(* The settlement of a write that landed gives its item to its entry.       *)
LEMMA SettledMadeOnce ==
    ASSUME AddInv, SyncInv, IInv, SettleDone
    PROVE  AddInv'
  <1> USE DEF AddInv
  <1>1. /\ UNCHANGED <<youtube, live, nextItem, stored, nextEntry, left, history>>
        /\ worker.pc = "settle" /\ stored /\ Did /\ worker' = NextWrite
        /\ entries' = (IF worker.made = NoItem THEN entries
                       ELSE WithItem(entries, Sent.entry, worker.made))
        /\ unanswered' = Unanswered
    BY DEF SettleDone, Settling, youtubeVars
  <1>2. unanswered' = NoWrite
    BY <1>1 DEF Unanswered, Did
  <1>3. worker'.pc = "push" /\ worker'.writes = Tail(worker.writes)
    BY <1>1 DEF NextWrite, IInv, WorkerOK, Idle
  <1>4. /\ Sent = worker.writes[1] /\ 1 \in DOMAIN worker.writes /\ Sent \in WritesOf(Videos)
        /\ \A n \in DOMAIN worker'.writes :
            n + 1 \in DOMAIN worker.writes /\ n + 1 # 1 /\ worker'.writes[n] = worker.writes[n + 1]
    BY <1>1, <1>3, HeadAndTail DEF SyncInv, WorkOK, Sent
  <1>5. unanswered.kind = Sent.kind /\ unanswered.entry = Sent.entry
    BY <1>1, <1>4, RecordedTyped DEF IInv, WorkerOK, WriteOnRecord
  <1>6. worker.made = NoItem => ~AddsItem(Sent)
    BY <1>1 DEF SyncInv, AnswerOK, Did, AddsItem
  <1>7. ASSUME NEW i \in DOMAIN entries', entries'[i].item = NoItem,
               MadeFor(history, youtube, entries'[i].id)
        PROVE  FALSE
    <2>1. CASE worker.made = NoItem
      BY <1>1, <1>5, <1>6, <1>7, <2>1 DEF MadeAwaited, AddsItem
    <2>2. CASE worker.made # NoItem
      <3>1. i \in DOMAIN entries /\ entries'[i].id = entries[i].id
                /\ entries[i].id # Sent.entry /\ entries'[i].item = entries[i].item
        BY <1>1, <1>7, <2>2 DEF WithItem, Entry
      <3> QED
        BY <1>1, <1>5, <1>7, <3>1 DEF MadeAwaited
    <2> QED
      BY <2>1, <2>2
  <1>8. NoMiss' /\ MadeOK' /\ MadeAwaited'
    BY <1>1, <1>7 DEF NoMiss, MadeOK, NoDoubleAdd, MadeAwaited
  <1>9. MadeOnce'
    BY <1>1, <1>3, <1>4 DEF MadeOnce
  <1>10. AllAnswered' /\ MadeIsKnown' /\ MadeIsRead'
    BY <1>2, <1>3 DEF AllAnswered, MadeIsKnown, MadeIsRead, AddsItem, NoWrite, Write
  <1> QED
    BY <1>8, <1>9, <1>10

LEMMA GoneMadeOnce ==
    ASSUME AddInv, IInv, SettleGone
    PROVE  AddInv'
  <1> USE DEF AddInv
  <1>1. /\ UNCHANGED <<youtube, live, nextItem, stored, entries, base, nextEntry, left, history>>
        /\ ~stored /\ (worker' = NextWrite \/ worker' = Idle)
    BY DEF SettleGone, youtubeVars
  <1>2. NextWrite.pc = "push" /\ Idle.pc = "idle"
    BY DEF NextWrite, IInv, WorkerOK, Idle
  <1>3. worker'.pc \notin {"confirm", "merge"}
    BY <1>1, <1>2
  <1> QED
    BY <1>1, <1>3 DEF NoMiss, MadeOK, NoDoubleAdd, MadeAwaited, MadeOnce, AllAnswered,
                      MadeIsKnown, MadeIsRead

(* An order replaced: an entry of it that awaits its item did before, or is *)
(* new and nothing was made for it.                                         *)
LEMMA ReorderedMadeOnce ==
    ASSUME AddInv, SyncInv, NEW list, ReordersTo(list), UNCHANGED youtube
    PROVE  /\ MadeOK' /\ history'.made = history.made
           /\ \A i \in DOMAIN entries' :
                entries'[i].item = NoItem /\ MadeFor(history', youtube', entries'[i].id) =>
                    \E j \in DOMAIN entries :
                        /\ entries[j].id = entries'[i].id /\ entries[j].item = NoItem
                        /\ MadeFor(history, youtube, entries[j].id)
  <1> USE DEF AddInv
  <1>1. /\ StoreOK' /\ nextEntry <= nextEntry' /\ history'.made = history.made
        /\ history'.editedAway \subseteq history.editedAway \cup Range(entries)
        /\ \A i \in DOMAIN entries' : entries'[i].id \in 1..(nextEntry - 1) =>
                \E j \in DOMAIN entries : /\ entries'[i].id = entries[j].id
                                         /\ entries'[i].item = entries[j].item
    BY ReorderedKeeps DEF SyncInv
  <1>2. nextEntry \in Nat \ {0} /\ nextEntry' \in Nat \ {0} /\ nextItem' = nextItem
    BY <1>1 DEF SyncInv, StoreOK, ReordersTo
  <1>3. \A x \in 1..(nextEntry - 1) : x \in 1..(nextEntry' - 1)
    BY <1>1, <1>2
  <1>4. \A e \in Range(entries) : e.id \in 1..(nextEntry - 1)
    BY DEF SyncInv, StoreOK, IdsOf, Range
  <1>5. MadeOK'
    BY <1>1, <1>2, <1>3, <1>4 DEF MadeOK, NoDoubleAdd
  <1>6. \A id : MadeFor(history, youtube, id) => id \in 1..(nextEntry - 1)
    BY DEF MadeFor, MadeOK
  <1>7. \A id : MadeFor(history', youtube', id) <=> MadeFor(history, youtube, id)
    BY <1>1 DEF MadeFor
  <1> QED
    BY <1>1, <1>5, <1>6, <1>7

LEMMA EditMadeOnce ==
    ASSUME AddInv, SyncInv, NoMiss', NEW list, ReordersTo(list),
           UNCHANGED <<youtube, live, stored, worker, unanswered>>
    PROVE  AddInv'
  <1> USE DEF AddInv
  <1>1. /\ MadeOK' /\ history'.made = history.made
        /\ \A i \in DOMAIN entries' :
                entries'[i].item = NoItem /\ MadeFor(history', youtube', entries'[i].id) =>
                    \E j \in DOMAIN entries :
                        /\ entries[j].id = entries'[i].id /\ entries[j].item = NoItem
                        /\ MadeFor(history, youtube, entries[j].id)
    BY ReorderedMadeOnce
  <1>2. base' = base /\ nextItem' = nextItem
    BY DEF ReordersTo
  <1>3. \A id : MadeFor(history', youtube', id) <=> MadeFor(history, youtube, id)
    BY <1>1 DEF MadeFor
  <1>4. MadeAwaited' /\ MadeOnce' /\ AllAnswered'
    BY <1>1, <1>3 DEF MadeAwaited, MadeOnce, AllAnswered
  <1>5. MadeIsKnown' /\ MadeIsRead'
    BY <1>1, <1>2 DEF MadeIsKnown, MadeIsRead
  <1> QED
    BY <1>1, <1>4, <1>5

LEMMA RefusedMadeOnce ==
    ASSUME AddInv, SyncInv, IInv, NoMiss', NEW list, ReordersTo(list), stored,
           worker.pc = "settle", worker.outcome \notin {"applied", "unanswered"},
           worker' = Idle, unanswered' = NoWrite, UNCHANGED <<youtube, live, stored>>
    PROVE  AddInv'
  <1> USE DEF AddInv
  <1>1. /\ MadeOK' /\ history'.made = history.made
        /\ \A i \in DOMAIN entries' :
                entries'[i].item = NoItem /\ MadeFor(history', youtube', entries'[i].id) =>
                    \E j \in DOMAIN entries :
                        /\ entries[j].id = entries'[i].id /\ entries[j].item = NoItem
                        /\ MadeFor(history, youtube, entries[j].id)
    BY ReorderedMadeOnce
  <1>2. Sent = worker.writes[1] /\ 1 \in DOMAIN worker.writes /\ Sent \in WritesOf(Videos)
    BY HeadAndTail DEF SyncInv, WorkOK, Sent
  <1>3. unanswered.kind = Sent.kind /\ unanswered.entry = Sent.entry
    BY <1>2, RecordedTyped DEF IInv, WorkerOK, WriteOnRecord
  <1>4. \A j \in DOMAIN entries :
            ~(entries[j].item = NoItem /\ MadeFor(history, youtube, entries[j].id))
    BY <1>2, <1>3 DEF MadeAwaited, MadeOnce, AddsItem
  <1>5. MadeAwaited'
    BY <1>1, <1>4 DEF MadeAwaited
  <1>6. MadeOnce' /\ AllAnswered' /\ MadeIsRead' /\ MadeIsKnown'
    BY DEF MadeOnce, AllAnswered, MadeIsRead, MadeIsKnown, Idle, AddsItem, NoWrite, Write
  <1> QED
    BY <1>1, <1>5, <1>6

LEMMA PlannedAdds ==
    ASSUME NEW read, NEW list \in OrdersOf(Videos), NEW writes,
           Planned(Videos, read, list, writes)
    PROVE  \A n \in DOMAIN writes : AddsItem(writes[n]) =>
                \E j \in DOMAIN list : list[j].item = NoItem /\ list[j].id = writes[n].entry
  <1>1. DOMAIN list = 1..Len(list)
    BY DEF OrdersOf
  <1> QED
    BY <1>1 DEF Planned, DeletesOneOf, AddsOneOf, MovesOneOf, AddsItem

(* The merge gives an unanswered insert's item to its entry, which the read *)
(* shows, and plans an add of no entry that had one made.                   *)
LEMMA MergeMadeOnce ==
    ASSUME AddInv, SyncInv, MergeInto
    PROVE  AddInv'
  <1> USE DEF AddInv
  <1> DEFINE read == worker.read
             landed == Landed(base, read, entries, unanswered)
  <1>1. /\ UNCHANGED <<youtube, live, nextItem, stored, left>>
        /\ stored /\ worker.pc = "merge" /\ unanswered' = NoWrite
        /\ history'.made = history.made /\ history'.editedAway = history.editedAway
        /\ base' = Unplaced(read)
    BY DEF MergeInto, youtubeVars, SyncInv, HistoryOK
  <1>2. /\ worker'.pc = "push"
        /\ worker'.writes = <<>> \/ worker'.writes = PlanFor(sort, read, entries')
    BY DEF MergeInto, Idle
  <1>3. /\ Known(read, nextItem)
        /\ nextEntry' \in Nat \ {0} /\ IdsOf(entries') \subseteq 1..(nextEntry' - 1)
        /\ entries' \in OrdersOf(Videos) /\ Distinct(entries')
        /\ HeldBy(entries') \subseteq IdsOf(read)
        /\ nextEntry <= nextEntry'
        /\ \A n \in DOMAIN entries' :
                entries'[n].item = NoItem /\ entries'[n].id \in 1..(nextEntry - 1) =>
                    \E k \in DOMAIN entries :
                        /\ entries[k].id = entries'[n].id /\ entries[k].item = NoItem
                        /\ landed = {} \/ entries[k].id # unanswered.entry
    BY MergeLeaves
  <1> HIDE DEF landed
  <1>4. \A id : MadeFor(history, youtube, id) => id \in 1..(nextEntry - 1)
    BY DEF MadeFor, MadeOK
  <1>5. ASSUME NEW n \in DOMAIN entries', entries'[n].item = NoItem,
               MadeFor(history, youtube, entries'[n].id)
        PROVE  FALSE
    <2>1. PICK k \in DOMAIN entries :
                /\ entries[k].id = entries'[n].id /\ entries[k].item = NoItem
                /\ landed = {} \/ entries[k].id # unanswered.entry
      BY <1>3, <1>4, <1>5
    <2>2. AddsItem(unanswered) /\ unanswered.entry = entries'[n].id /\ landed = {}
      BY <1>1, <1>5, <2>1 DEF MadeAwaited
    <2>3. PICK m \in history.made, a \in Range(youtube) :
                m.entry = entries'[n].id /\ a.id = m.item
      BY <1>5 DEF MadeFor
    <2>4. live
      BY <2>3 DEF SyncInv, ContentsOK, Range
    <2>5. a \in Range(read)
      BY <1>1, <2>3, <2>4 DEF MadeIsRead
    <2>6. a.video = unanswered.video /\ a.id \notin IdsOf(base)
      BY <1>1, <2>2, <2>3 DEF MadeIsKnown
    <2>7. HeldBy(entries) \subseteq IdsOf(base)
      BY DEF SyncInv, StoreOK
    <2>8. PICK i \in DOMAIN read : read[i] = a
      BY <2>5 DEF Range
    <2>9. i \in landed
      BY <2>2, <2>6, <2>7, <2>8 DEF landed, Landed, AddsItem
    <2> QED
      BY <2>2, <2>9
  <1>6. MadeOK'
    <2>1. \A x \in 1..(nextEntry - 1) : x \in 1..(nextEntry' - 1)
      <3> DEFINE n == nextEntry
                 m == nextEntry'
      <3>1. n \in Nat /\ m \in Nat /\ n <= m
        BY <1>3 DEF SyncInv, StoreOK
      <3> HIDE DEF n, m
      <3>2. \A x \in 1..(n - 1) : x \in 1..(m - 1)
        BY <3>1
      <3> QED
        BY <3>2 DEF n, m
    <2> QED
      BY <1>1, <2>1 DEF MadeOK, NoDoubleAdd
  <1>7. \A id : MadeFor(history', youtube', id) <=> MadeFor(history, youtube, id)
    BY <1>1 DEF MadeFor
  <1>8. MadeOnce'
    <2>1. ASSUME worker'.writes = PlanFor(sort, read, entries')
          PROVE  \A n \in DOMAIN worker'.writes : AddsItem(worker'.writes[n]) =>
                    \E j \in DOMAIN entries' : /\ entries'[j].item = NoItem
                                              /\ entries'[j].id = worker'.writes[n].entry
      <3>1. read \in ItemsOf(Videos) /\ NewEntry \notin IdsOf(entries')
        BY <1>3 DEF Known, NewEntry
      <3>2. Planned(Videos, read, entries', PlanFor(sort, read, entries'))
        BY <1>3, <3>1, PlanForKeeps
      <3> QED
        BY <1>3, <2>1, <3>2, PlannedAdds
    <2> QED
      BY <1>2, <1>5, <1>7, <2>1 DEF MadeOnce
  <1>9. MadeAwaited'
    BY <1>5, <1>7 DEF MadeAwaited
  <1>10. NoMiss' /\ AllAnswered' /\ MadeIsKnown' /\ MadeIsRead'
    BY <1>1, <1>2 DEF NoMiss, AllAnswered, MadeIsKnown, MadeIsRead, AddsItem, NoWrite, Write
  <1> QED
    BY <1>6, <1>8, <1>9, <1>10

-----------------------------------------------------------------------------
LEMMA NoMissKept ==
    ASSUME NoMiss, [Next]_vars
    PROVE  NoMiss'
  <1> USE DEF NoMiss
  <1>1. CASE UNCHANGED vars
    BY <1>1 DEF vars
  <1>2. CASE ClientActions
    <2>1. ASSUME NEW c \in Clients, NEW videos \in Orders, NEW any \in BOOLEAN,
                 ReplaceItems(c, videos, any)
          PROVE  NoMiss'
      BY <2>1 DEF ReplaceItems
    <2>2. CASE (\E c \in Clients : ClientRead(c)) \/ DeleteOnYouTube \/ DeleteStored
      BY <2>2 DEF ClientRead, DeleteOnYouTube, DeleteStored
    <2> QED
      BY <1>2, <2>1, <2>2 DEF ClientActions
  <1>3. CASE OwnerEdits
    BY <1>3 DEF OwnerEdits, OwnerAdds, OwnerRemoves, OwnerMoves, OwnerSorts, Owner
  <1>4. CASE LagPasses \/ RetryFires \/ DayPasses
    BY <1>4 DEF LagPasses, RetryFires, DayPasses
  <1>5. CASE Faults
    BY <1>5 DEF Faults, Fault, TakeUpMissing, TakeUpFails, ConfirmFails, ReadFails, PushYields,
                SendLost, SendRefused, SettleFails, Crash
  <1>6. CASE WorkerActions
    BY <1>6 DEF WorkerActions, TakeUp, TakeUpDeferred, TakeUpNotYet, TakeUpGone, SpentPass,
                ConfirmAbsences, MergeInto, MergeStops, PushStops, BeginWrite, SendApplied,
                SendDeclined, SettleDone, SettleVideoRefused, SettleDeclined,
                SettleUnanswered, SettleGone
  <1> QED
    BY <1>1, <1>2, <1>3, <1>4, <1>5, <1>6 DEF Next

LEMMA AddInvKept ==
    ASSUME AddInv, SyncInv, IInv, [Next]_vars
    PROVE  AddInv'
  <1>1. NoMiss' /\ NoMiss
    BY NoMissKept DEF AddInv
  <1>2. CASE Rests
    <2>1. CASE unanswered' = unanswered
      BY <1>1, <1>2, <2>1, FewerKeeps DEF Rests, Fewer
    <2>2. CASE unanswered' # unanswered
      BY <1>1, <1>2, <2>2, ClearingKeeps DEF Rests
    <2> QED
      BY <2>1, <2>2
  <1>3. CASE LagPasses
    BY <1>1, <1>3, FewerKeeps DEF LagPasses, Fewer
  <1>4. CASE DeleteOnYouTube
    <2>1. Range(<<>>) = {}
      BY DEF Range
    <2>2. Fewer
      BY <1>4, <2>1 DEF DeleteOnYouTube, Fewer, storeVars
    <2> QED
      BY <1>1, <2>2, FewerKeeps
  <1>5. CASE DeleteStored \/ TakeUpGone
    BY <1>1, <1>5, FewerKeeps DEF DeleteStored, TakeUpGone, Fewer, youtubeVars
  <1>6. CASE OwnerEdits
    <2>1. OwnerLeaves
      BY <1>6, OwnerKeeps DEF SyncInv
    <2>2. /\ UNCHANGED <<live, stored, entries, base, nextEntry, worker, unanswered>>
          /\ \E kind : history' = [history EXCEPT !.sinceBase = @ \cup {kind},
                                                  !.sinceRead = @ \cup {kind}]
      BY <1>6 DEF OwnerEdits, OwnerAdds, OwnerRemoves, OwnerMoves, OwnerSorts, Owner, storeVars
    <2>3. history'.made = history.made /\ history'.editedAway = history.editedAway
      BY <2>2 DEF SyncInv, HistoryOK
    <2> QED
      BY <1>1, <2>1, <2>2, <2>3, FewerKeeps DEF Fewer, OwnerLeaves
  <1>7. CASE TakeUp
    BY <1>7, TakeUpReadsMade
  <1>8. ~TakeUpMissing
    BY <1>1 DEF NoMiss, TakeUpMissing
  <1>9. CASE ConfirmAbsences
    BY <1>9, ConfirmReadsMade
  <1>10. CASE MergeInto
    BY <1>10, MergeMadeOnce
  <1>11. CASE BeginWrite
    BY <1>11, BeginMadeOnce
  <1>12. ASSUME NEW outcome, NEW made, Answers(outcome, made)
         PROVE  AddInv'
    BY <1>1, <1>12, LandsMadeOnce
  <1>13. CASE SettleDone
    BY <1>13, SettledMadeOnce
  <1>14. CASE SettleVideoRefused
    <2> DEFINE list == Without(entries, Sent.entry)
    <2>1. /\ UNCHANGED <<youtube, live, nextItem, stored, base>>
          /\ ReplaceOrder(list) /\ stored /\ worker' = Idle /\ unanswered' = NoWrite
          /\ worker.pc = "settle" /\ worker.outcome = "video_refused"
          /\ history' = [history EXCEPT !.editedAway = @ \cup EditedAway(entries, list)]
      BY <1>14 DEF SettleVideoRefused, Settling, Unanswered, youtubeVars, Without
    <2>2. Reorders(entries, list)
      BY DroppedReorders DEF SyncInv, StoreOK, NewEntry
    <2> HIDE DEF list
    <2>3. ReordersTo(list)
      BY <2>1, <2>2 DEF ReordersTo
    <2> QED
      BY <1>1, <2>1, <2>3, RefusedMadeOnce
  <1>15. CASE SettleGone
    BY <1>15, GoneMadeOnce
  <1>16. ASSUME NEW c \in Clients, NEW videos \in Orders, NEW any \in BOOLEAN,
                ReplaceItems(c, videos, any)
         PROVE  AddInv'
    <2> DEFINE list == OrderedEntries(entries, videos)
    <2>1. /\ UNCHANGED <<youtube, live, nextItem, stored, base, worker, unanswered>>
          /\ ReplaceOrder(list)
          /\ history' = [history EXCEPT !.editedAway = @ \cup EditedAway(entries, list)]
      BY <1>16 DEF ReplaceItems, youtubeVars
    <2>2. Reorders(entries, list)
      <3>1. /\ entries \in OrdersOf(Videos) /\ Distinct(entries) /\ NewEntry \notin IdsOf(entries)
            /\ videos \in Seq(Videos)
        BY PlaylistSyncAssumption DEF SyncInv, StoreOK, NewEntry
      <3> QED
        BY <3>1, OrderedReorders
    <2> HIDE DEF list
    <2>3. ReordersTo(list)
      BY <2>1, <2>2 DEF ReordersTo
    <2> QED
      BY <1>1, <2>1, <2>3, EditMadeOnce
  <1> QED
    BY <1>2, <1>3, <1>4, <1>5, <1>6, <1>7, <1>8, <1>9, <1>10, <1>11, <1>12, <1>13, <1>14,
       <1>15, <1>16, StepsOf

LEMMA AddInvInit ==
    ASSUME WholeReads, Init
    PROVE  AddInv
  <1>1. NoMiss
    BY PlaylistSyncAssumption DEF WholeReads, Init, Scenario, NoMiss
  <1>2. /\ history.made = {} /\ history.editedAway = {} /\ worker.pc = "idle"
        /\ unanswered = NoWrite
    BY DEF Init, Idle
  <1> QED
    BY <1>1, <1>2 DEF AddInv, MadeOK, NoDoubleAdd, MadeAwaited, MadeFor, MadeOnce, AllAnswered,
                      MadeIsKnown, MadeIsRead

(* While no read misses an item, YouTube never holds two made for one entry: *)
(* whatever answers are lost, wherever the process stops and whatever is    *)
(* edited between, an insert is sent again only when the one before is not  *)
(* there.                                                                   *)
THEOREM NothingAddedTwice == WholeReads => (Spec => []NoDoubleAdd)
  <1>1. WholeReads /\ Init => AddInv
    BY AddInvInit
  <1>2. AddInv /\ IInv /\ SyncInv /\ FlagsOK /\ [Next]_vars => AddInv'
    BY AddInvKept
  <1>3. AddInv => NoDoubleAdd
    BY DEF AddInv, MadeOK
  <1> QED
    BY <1>1, <1>2, <1>3, AlwaysSyncInv, PTL DEF Spec

-----------------------------------------------------------------------------
(***************************************************************************)
(* The base is what YouTube holds, while nobody else writes there.         *)
(***************************************************************************)
LEMMA IdsRemoved ==
    ASSUME NEW S, NEW list \in Seq(S), ItemIds(list) \in Seq(Nat), NEW at \in 1..Len(list)
    PROVE  ItemIds(RemoveAt(list, at)) = RemoveAt(ItemIds(list), at)
  <1> DEFINE ids == ItemIds(list)
             less == RemoveAt(list, at)
             fewer == RemoveAt(ids, at)
             n == Len(list)
  <1>1. n \in Nat /\ DOMAIN list = 1..n /\ Len(ids) = n /\ \A j \in 1..n : ids[j] = list[j].id
    BY DEF ItemIds
  <1>2. /\ less \in Seq(S) /\ Len(less) = n - 1
        /\ \A j \in 1..(n - 1) : less[j] = IF j < at THEN list[j] ELSE list[j + 1]
    BY RemoveAtPlaces
  <1>3. ids \in Seq(Nat) /\ at \in 1..n
    OBVIOUS
  <1> HIDE DEF less, ids, n
  <1>8. /\ fewer \in Seq(Nat) /\ Len(fewer) = n - 1
        /\ \A j \in 1..(n - 1) : fewer[j] = IF j < at THEN ids[j] ELSE ids[j + 1]
    BY <1>1, <1>3, RemoveAtPlaces
  <1> HIDE DEF fewer
  <1>4. DOMAIN less = 1..(n - 1) /\ DOMAIN fewer = 1..(n - 1)
    BY <1>1, <1>2, <1>8
  <1>5. ASSUME NEW j \in 1..(n - 1)
        PROVE  less[j].id = fewer[j]
    <2>1. j \in 1..n /\ j + 1 \in 1..n
      BY <1>1
    <2> QED
      BY <1>1, <1>2, <1>8, <2>1
  <1>6. fewer = [j \in 1..(n - 1) |-> fewer[j]]
    BY <1>4, <1>8
  <1>7. ItemIds(less) = fewer
    BY <1>4, <1>5, <1>6 DEF ItemIds
  <1> QED
    BY <1>7 DEF less, fewer, ids

LEMMA IdsInserted ==
    ASSUME NEW S, NEW list \in Seq(S), ItemIds(list) \in Seq(Nat), NEW e \in S,
           e.id \in Nat, NEW at \in 1..(Len(list) + 1)
    PROVE  ItemIds(InsertAt(list, at, e)) = InsertAt(ItemIds(list), at, e.id)
  <1> DEFINE ids == ItemIds(list)
             more == InsertAt(list, at, e)
             id == e.id
             longer == InsertAt(ids, at, id)
             n == Len(list)
  <1>1. n \in Nat /\ DOMAIN list = 1..n /\ Len(ids) = n /\ \A j \in 1..n : ids[j] = list[j].id
    BY DEF ItemIds
  <1>2. /\ more \in Seq(S) /\ Len(more) = n + 1
        /\ \A j \in 1..(n + 1) :
                more[j] = IF j < at THEN list[j] ELSE IF j = at THEN e ELSE list[j - 1]
    BY InsertAtPlaces
  <1>3. ids \in Seq(Nat) /\ at \in 1..(n + 1) /\ id \in Nat
    OBVIOUS
  <1> HIDE DEF more, ids, n, id
  <1>9. at \in 1..(Len(ids) + 1)
    BY <1>1, <1>3
  <1>8. /\ longer \in Seq(Nat) /\ Len(longer) = n + 1
        /\ \A j \in 1..(n + 1) :
                longer[j] = IF j < at THEN ids[j] ELSE IF j = at THEN id ELSE ids[j - 1]
    <2>1. /\ InsertAt(ids, at, id) \in Seq(Nat)
          /\ Len(InsertAt(ids, at, id)) = Len(ids) + 1
          /\ \A j \in 1..(Len(ids) + 1) :
                InsertAt(ids, at, id)[j] =
                    IF j < at THEN ids[j] ELSE IF j = at THEN id ELSE ids[j - 1]
      BY <1>3, <1>9, InsertAtPlaces
    <2> QED
      BY <1>1, <2>1
  <1> HIDE DEF longer
  <1>4. DOMAIN more = 1..(n + 1) /\ DOMAIN longer = 1..(n + 1)
    BY <1>1, <1>2, <1>8
  <1>5. ASSUME NEW j \in 1..(n + 1)
        PROVE  more[j].id = longer[j]
    <2>1. (j < at => j \in 1..n) /\ (j > at => j - 1 \in 1..n)
      BY <1>1, <1>3
    <2> QED
      <3>1. more[j] = IF j < at THEN list[j] ELSE IF j = at THEN e ELSE list[j - 1]
        BY <1>2
      <3>2. longer[j] = IF j < at THEN ids[j] ELSE IF j = at THEN id ELSE ids[j - 1]
        BY <1>8
      <3>3. j < at \/ j = at \/ j > at
        BY <1>1, <1>3
      <3>4. CASE j < at
        BY <1>1, <2>1, <3>1, <3>2, <3>4
      <3>5. CASE j = at
        BY <1>3, <3>1, <3>2, <3>5 DEF id
      <3>6. CASE j > at
        BY <1>1, <1>3, <2>1, <3>1, <3>2, <3>6
      <3> QED
        BY <3>3, <3>4, <3>5, <3>6
  <1>6. longer = [j \in 1..(n + 1) |-> longer[j]]
    BY <1>4, <1>8
  <1>7. ItemIds(more) = longer
    BY <1>4, <1>5, <1>6 DEF ItemIds
  <1> QED
    BY <1>7 DEF more, longer, ids, id

LEMMA IdsAppended ==
    ASSUME NEW S, NEW list \in Seq(S), ItemIds(list) \in Seq(Nat), NEW e \in S, e.id \in Nat
    PROVE  ItemIds(Append(list, e)) = Append(ItemIds(list), e.id)
  <1> DEFINE ids == ItemIds(list)
             more == Append(list, e)
             longer == Append(ids, e.id)
             n == Len(list)
  <1>1. n \in Nat /\ DOMAIN list = 1..n /\ DOMAIN ids = 1..n /\ Len(ids) = n
            /\ \A j \in 1..n : ids[j] = list[j].id
    BY DEF ItemIds
  <1>2. /\ DOMAIN more = 1..(n + 1)
        /\ \A j \in 1..(n + 1) : more[j] = IF j = n + 1 THEN e ELSE list[j]
    BY <1>1
  <1>6. ids \in Seq(Nat)
    OBVIOUS
  <1> HIDE DEF more, ids, n
  <1>3. longer = [j \in 1..(n + 1) |-> IF j = n + 1 THEN e.id ELSE ids[j]]
    <2>1. /\ longer \in Seq(Nat) /\ Len(longer) = n + 1
          /\ \A j \in 1..(n + 1) : longer[j] = IF j = n + 1 THEN e.id ELSE ids[j]
      BY <1>1, <1>6
    <2> HIDE DEF longer
    <2>2. longer = [j \in 1..(n + 1) |-> longer[j]]
      BY <1>1, <2>1
    <2> QED
      BY <2>1, <2>2
  <1> HIDE DEF longer
  <1>4. \A j \in 1..(n + 1) : more[j].id = IF j = n + 1 THEN e.id ELSE ids[j]
    BY <1>1, <1>2
  <1>5. ItemIds(more) = longer
    BY <1>2, <1>3, <1>4 DEF ItemIds
  <1> QED
    BY <1>5 DEF more, longer, ids

LEMMA IdsUnplaced ==
    ASSUME NEW read
    PROVE  ItemIds(Unplaced(read)) = ItemIds(read)
  BY DEF ItemIds, Unplaced

(* The base and YouTube hold the same items, and in a playlist sorted by    *)
(* hand in the same order.                                                  *)
Agrees(held, list, sorted) ==
    /\ IsInjective(ItemIds(held))
    /\ IdsOf(held) = IdsOf(list) /\ Len(held) = Len(list)
    /\ sorted = Manual => ItemIds(held) = ItemIds(list)

LEMMA KnownIds ==
    ASSUME NEW list, NEW n, Known(list, n)
    PROVE  /\ list \in Seq(Items) /\ Len(list) \in Nat /\ DOMAIN list = 1..Len(list)
           /\ ItemIds(list) \in Seq(Nat) /\ IsInjective(ItemIds(list))
           /\ Range(ItemIds(list)) = IdsOf(list) /\ Len(ItemIds(list)) = Len(list)
           /\ IdsOf(list) \subseteq 1..(n - 1)
  <1>1. list \in ItemsOf(Videos)
    BY DEF Known
  <1>2. ItemIds(list) \in Seq(Nat \ {0})
    BY <1>1, ItemIdsOf
  <1>3. ItemIds(list) \in Seq(Nat)
    BY <1>2
  <1> QED
    BY <1>1, <1>3, ItemIdsOf, ItemsByRange DEF Known

LEMMA SameIdsAgree ==
    ASSUME NEW held \in Seq(BaseItem), NEW list, NEW n, Known(list, n), NEW sorted,
           ItemIds(held) = ItemIds(list)
    PROVE  Agrees(held, list, sorted)
  BY KnownIds, BaseByRange DEF Agrees

(* What a write does to the base it does to what YouTube holds, in a        *)
(* playlist sorted by hand.                                                 *)
LEMMA AppliedAsPerformed ==
    ASSUME NEW n \in Nat \ {0}, NEW list, Known(list, n), NEW held \in Seq(BaseItem),
           ItemIds(held) = ItemIds(list), NEW w \in WritesOf(Videos), NEW made \in Nat,
           AddsItem(w) => made = n, w.kind \in {"delete", "move"} => HasItem(list, w.item),
           AcceptsPosition(list, w)
    PROVE  ItemIds(Applied(held, w, made)) = ItemIds(Performed(list, w, n))
  <1> DEFINE ids == ItemIds(list)
             at == PlaceIn(ids, w.item)
             place == w.position + 1
             here == [id |-> made, video |-> w.video, placed |-> TRUE]
             there == [id |-> n, video |-> w.video]
  <1>1. /\ list \in Seq(Items) /\ Len(list) \in Nat /\ DOMAIN list = 1..Len(list)
        /\ ids \in Seq(Nat) /\ Range(ids) = IdsOf(list) /\ Len(ids) = Len(list)
    BY KnownIds
  <1>2. /\ Len(held) = Len(list) /\ DOMAIN held = 1..Len(held)
        /\ ItemIds(held) = ids
    BY <1>1, BaseByRange
  <1>3. /\ w.kind \in {"delete", "insert", "append", "move"} /\ w.position \in Nat
        /\ w.item \in Nat /\ (AddsItem(w) => w.video \in Videos)
    BY DEF WritesOf
  <1>4. w.kind \in {"delete", "move"} =>
            at \in 1..Len(list) /\ list[at].id = w.item /\ held[at].id = w.item
    <2> SUFFICES ASSUME w.kind \in {"delete", "move"}
                 PROVE  at \in 1..Len(list) /\ list[at].id = w.item /\ held[at].id = w.item
      OBVIOUS
    <2>1. w.item \in Range(ids)
      BY <1>1 DEF HasItem, IdsOf
    <2>2. at \in 1..Len(ids) /\ ids[at] = w.item
      BY <1>1, <2>1, PlaceInList
    <2> HIDE DEF at
    <2>3. ids[at] = list[at].id
      BY <1>1, <2>2 DEF ItemIds
    <2>4. ItemIds(held)[at] = held[at].id
      BY <1>1, <1>2, <2>2 DEF ItemIds
    <2> QED
      BY <1>1, <1>2, <2>2, <2>3, <2>4
  <1>5. AddsItem(w) => here \in BaseItem /\ there \in Items /\ here.id = n /\ there.id = n
    <2> SUFFICES ASSUME AddsItem(w)
                 PROVE  here \in BaseItem /\ there \in Items
      OBVIOUS
    <2>1. w.video \in Videos /\ made = n
      BY <1>3
    <2>2. w.video \in Nat
      BY <2>1, PlaylistSyncAssumption
    <2> QED
      BY <2>1, <2>2 DEF BaseItem, Items
  <1>6. CASE w.kind = "delete"
    <2>1. ItemIds(RemoveAt(held, at)) = RemoveAt(ids, at)
      BY <1>1, <1>2, <1>4, <1>6, IdsRemoved
    <2>2. ItemIds(RemoveAt(list, at)) = RemoveAt(ids, at)
      BY <1>1, <1>4, <1>6, IdsRemoved
    <2>3. at # 0
      BY <1>4, <1>6
    <2> HIDE DEF at
    <2>4. Applied(held, w, made) = RemoveAt(held, at)
      BY <1>2, <1>6, <2>3 DEF Applied, at
    <2>5. Performed(list, w, n) = RemoveAt(list, at)
      BY <1>6 DEF Performed, at
    <2> QED
      BY <2>1, <2>2, <2>4, <2>5
  <1>7. CASE w.kind = "insert"
    <2>1. place \in 1..(Len(list) + 1)
      BY <1>1, <1>3, <1>7 DEF AcceptsPosition
    <2>2. AddsItem(w)
      BY <1>7 DEF AddsItem
    <2>3. here \in BaseItem /\ there \in Items /\ here.id = n /\ there.id = n
      BY <1>5, <2>2
    <2>4. Applied(held, w, made) = InsertAt(held, place, here)
      BY <1>7 DEF Applied, PutAt
    <2>5. Performed(list, w, n) = InsertAt(list, place, there)
      BY <1>7 DEF Performed
    <2> HIDE DEF here, there, place
    <2>6. ItemIds(InsertAt(held, place, here)) = InsertAt(ids, place, n)
      BY <1>1, <1>2, <2>1, <2>3, IdsInserted
    <2>7. ItemIds(InsertAt(list, place, there)) = InsertAt(ids, place, n)
      BY <1>1, <2>1, <2>3, IdsInserted
    <2> QED
      BY <2>4, <2>5, <2>6, <2>7
  <1>8. CASE w.kind = "append"
    <2>1. AddsItem(w)
      BY <1>8 DEF AddsItem
    <2>2. here \in BaseItem /\ there \in Items /\ here.id = n /\ there.id = n
      BY <1>5, <2>1
    <2>3. Applied(held, w, made) = Append(held, here)
      BY <1>8 DEF Applied
    <2>4. Performed(list, w, n) = Append(list, there)
      BY <1>8 DEF Performed
    <2> HIDE DEF here, there
    <2>5. ItemIds(Append(held, here)) = Append(ids, n)
      BY <1>1, <1>2, <2>2, IdsAppended
    <2>6. ItemIds(Append(list, there)) = Append(ids, n)
      BY <1>1, <2>2, IdsAppended
    <2> QED
      BY <2>3, <2>4, <2>5, <2>6
  <1>9. CASE w.kind = "move"
    <2> DEFINE less == RemoveAt(held, at)
               others == RemoveAt(list, at)
               from == [held[at] EXCEPT !.placed = TRUE]
    <2>1. at \in 1..Len(list) /\ list[at].id = w.item /\ held[at].id = w.item
      BY <1>4, <1>9
    <2> HIDE DEF at
    <2>2. /\ less \in Seq(BaseItem) /\ Len(less) = Len(held) - 1
          /\ others \in Seq(Items) /\ Len(others) = Len(list) - 1
      BY <1>1, <1>2, <2>1, RemoveAtPlaces
    <2>3. ItemIds(less) = RemoveAt(ids, at) /\ ItemIds(others) = RemoveAt(ids, at)
            /\ RemoveAt(ids, at) \in Seq(Nat)
      BY <1>1, <1>2, <2>1, IdsRemoved, RemoveAtPlaces
    <2>4. from \in BaseItem /\ from.id = w.item
      BY <1>2, <2>1, BaseItemMoved
    <2>5. list[at] \in Items
      BY <1>1, <2>1
    <2>6. place \in 1..(Len(others) + 1) /\ place \in 1..(Len(less) + 1)
      BY <1>1, <1>2, <1>3, <1>9, <2>2 DEF AcceptsPosition
    <2>7. Applied(held, w, made) = InsertAt(less, place, from)
      BY <1>2, <1>9 DEF Applied, PutAt, at
    <2>8. Performed(list, w, n) = InsertAt(others, place, list[at])
      BY <1>9 DEF Performed, at
    <2> HIDE DEF less, others, from, place
    <2>9. ItemIds(InsertAt(less, place, from)) = InsertAt(RemoveAt(ids, at), place, w.item)
      BY <1>3, <2>2, <2>3, <2>4, <2>6, IdsInserted
    <2>10. ItemIds(InsertAt(others, place, list[at])) = InsertAt(RemoveAt(ids, at), place, w.item)
      BY <1>3, <2>1, <2>2, <2>3, <2>5, <2>6, IdsInserted
    <2> QED
      BY <2>7, <2>8, <2>9, <2>10
  <1> QED
    BY <1>3, <1>6, <1>7, <1>8, <1>9
(* In a playlist YouTube orders, where an append lands is its own affair.   *)
LEMMA DeletedAgrees ==
    ASSUME NEW held \in Seq(BaseItem), NEW list, NEW n, Known(list, n),
           Agrees(held, list, Automatic), NEW w \in WritesOf(Videos), w.kind = "delete",
           HasItem(list, w.item), NEW made, NEW m
    PROVE  Agrees(Applied(held, w, made), Performed(list, w, m), Automatic)
  <1> DEFINE ids == ItemIds(held)
             there == ItemIds(list)
             at == PlaceIn(ids, w.item)
             from == PlaceIn(there, w.item)
             less == RemoveAt(held, at)
             fewer == RemoveAt(list, from)
  <1>1. /\ list \in Seq(Items) /\ Len(list) \in Nat /\ there \in Seq(Nat)
        /\ IsInjective(there) /\ Range(there) = IdsOf(list) /\ Len(there) = Len(list)
    BY KnownIds
  <1>2. /\ Len(held) \in Nat /\ ids \in Seq(Nat) /\ Len(ids) = Len(held) /\ Range(ids) = IdsOf(held)
        /\ IsInjective(ids) /\ Range(ids) = Range(there) /\ Len(ids) = Len(there)
    BY <1>1, BaseByRange DEF Agrees
  <1>3. w.item \in Range(ids) /\ w.item \in Range(there)
    BY <1>1, <1>2 DEF HasItem, IdsOf
  <1>4. /\ at \in 1..Len(held) /\ ids[at] = w.item
        /\ from \in 1..Len(list) /\ there[from] = w.item
    BY <1>1, <1>2, <1>3, PlaceInList
  <1>5. at # 0
    BY <1>2, <1>4
  <1>6. Applied(held, w, made) = less
    BY <1>5 DEF Applied
  <1>7. Performed(list, w, m) = fewer
    BY DEF Performed
  <1> HIDE DEF at, from
  <1>8. ItemIds(less) = RemoveAt(ids, at) /\ ItemIds(fewer) = RemoveAt(there, from)
    BY <1>1, <1>2, <1>4, IdsRemoved
  <1>9. /\ Len(less) = Len(held) - 1 /\ Len(fewer) = Len(list) - 1
    BY <1>1, <1>4, RemoveAtPlaces
  <1> HIDE DEF less, fewer, ids, there
  <1>10. /\ IsInjective(RemoveAt(ids, at)) /\ Range(RemoveAt(ids, at)) = Range(ids) \ {w.item}
    <2>1. ids \in Seq(Nat) /\ at \in 1..Len(ids)
      BY <1>2, <1>4
    <2>2. /\ Range(RemoveAt(ids, at)) \subseteq Range(ids)
          /\ Range(ids) \subseteq Range(RemoveAt(ids, at)) \cup {ids[at]}
          /\ IsInjective(ids) =>
                IsInjective(RemoveAt(ids, at)) /\ ids[at] \notin Range(RemoveAt(ids, at))
      BY <2>1, RemoveAtKeeps
    <2> QED
      BY <1>2, <1>4, <2>2
  <1>11. Range(RemoveAt(there, from)) = Range(there) \ {w.item}
    <2>1. there \in Seq(Nat) /\ from \in 1..Len(there)
      BY <1>1, <1>4
    <2>2. /\ Range(RemoveAt(there, from)) \subseteq Range(there)
          /\ Range(there) \subseteq Range(RemoveAt(there, from)) \cup {there[from]}
          /\ IsInjective(there) => there[from] \notin Range(RemoveAt(there, from))
      BY <2>1, RemoveAtKeeps
    <2> QED
      BY <1>1, <1>4, <2>2
  <1>12. IdsOf(less) = Range(ItemIds(less)) /\ IdsOf(fewer) = Range(ItemIds(fewer))
    BY DEF IdsOf, ItemIds, Range
  <1>13. Agrees(less, fewer, Automatic)
    BY <1>1, <1>2, <1>8, <1>9, <1>10, <1>11, <1>12 DEF Agrees, Automatic, Manual
  <1> QED
    BY <1>6, <1>7, <1>13

LEMMA AppendedAgrees ==
    ASSUME NEW held \in Seq(BaseItem), NEW n \in Nat \ {0}, NEW list, Known(list, n),
           Agrees(held, list, Automatic), NEW w \in WritesOf(Videos), w.kind = "append",
           NEW place \in 1..(Len(list) + 1)
    PROVE  Agrees(Applied(held, w, n),
                  InsertAt(list, place, [id |-> n, video |-> w.video]), Automatic)
  <1> DEFINE ids == ItemIds(held)
             there == ItemIds(list)
             here == [id |-> n, video |-> w.video, placed |-> TRUE]
             new == [id |-> n, video |-> w.video]
             more == Append(held, here)
             longer == InsertAt(list, place, new)
  <1>1. /\ list \in Seq(Items) /\ Len(list) \in Nat /\ there \in Seq(Nat)
        /\ IsInjective(there) /\ Range(there) = IdsOf(list) /\ Len(there) = Len(list)
        /\ IdsOf(list) \subseteq 1..(n - 1)
    BY KnownIds
  <1>2. /\ Len(held) \in Nat /\ ids \in Seq(Nat) /\ Len(ids) = Len(held) /\ Range(ids) = IdsOf(held)
        /\ IsInjective(ids) /\ Range(ids) = Range(there) /\ Len(ids) = Len(there)
    BY <1>1, BaseByRange DEF Agrees
  <1>3. here \in BaseItem /\ new \in Items /\ here.id = n /\ new.id = n
    <2>1. w.video \in Videos
      BY DEF WritesOf, AddsItem
    <2>2. w.video \in Nat
      BY <2>1, PlaylistSyncAssumption
    <2> QED
      BY <2>1, <2>2 DEF BaseItem, Items
  <1>4. Applied(held, w, n) = more
    BY DEF Applied
  <1> HIDE DEF here, new
  <1>5. Len(more) = Len(held) + 1 /\ Len(longer) = Len(list) + 1
    <2>1. list \in Seq(Items) /\ place \in 1..(Len(list) + 1) /\ new \in Items
      BY <1>1, <1>3
    <2>2. longer \in Seq(Items) /\ Len(longer) = Len(list) + 1
      BY <2>1, InsertAtKeeps
    <2> QED
      BY <2>2
  <1>6. ItemIds(more) = Append(ids, n) /\ ItemIds(longer) = InsertAt(there, place, n)
    <2>1. ItemIds(Append(held, here)) = Append(ItemIds(held), here.id)
      <3>1. held \in Seq(BaseItem) /\ ItemIds(held) \in Seq(Nat) /\ here.id \in Nat
        BY <1>2, <1>3
      <3> QED
        BY <1>3, <3>1, IdsAppended
    <2>2. ItemIds(InsertAt(list, place, new)) = InsertAt(ItemIds(list), place, new.id)
      <3>1. ItemIds(list) \in Seq(Nat) /\ new.id \in Nat
        BY <1>1, <1>3
      <3> QED
        BY <1>1, <1>3, <3>1, IdsInserted
    <2> QED
      BY <1>3, <2>1, <2>2
  <1> HIDE DEF ids, there, more, longer
  <1>7. n \notin Range(ids) /\ n \notin Range(there)
    BY <1>1, <1>2
  <1>8. IsInjective(Append(ids, n)) /\ Range(Append(ids, n)) = Range(ids) \cup {n}
    <2>1. Append(ids, n) = InsertAt(ids, Len(ids) + 1, n)
      BY <1>2, AppendIsInsert
    <2>2. ids \in Seq(Nat) /\ Len(ids) + 1 \in 1..(Len(ids) + 1) /\ n \in Nat
      BY <1>2
    <2> DEFINE last == Len(ids) + 1
    <2> HIDE DEF last
    <2>3. ASSUME last \in 1..(Len(ids) + 1)
          PROVE  /\ Range(InsertAt(ids, last, n)) = Range(ids) \cup {n}
                 /\ IsInjective(ids) /\ n \notin Range(ids) => IsInjective(InsertAt(ids, last, n))
      BY <2>2, <2>3, InsertAtKeeps
    <2> QED
      BY <1>2, <1>7, <2>1, <2>2, <2>3 DEF last
  <1>9. Range(InsertAt(there, place, n)) = Range(there) \cup {n}
    <2>1. there \in Seq(Nat) /\ place \in 1..(Len(there) + 1) /\ n \in Nat
      BY <1>1
    <2>2. /\ Range(InsertAt(there, place, n)) = Range(there) \cup {n}
          /\ IsInjective(there) /\ n \notin Range(there) => IsInjective(InsertAt(there, place, n))
      BY <2>1, InsertAtKeeps
    <2> QED
      BY <2>2
  <1>10. IdsOf(more) = Range(ItemIds(more)) /\ IdsOf(longer) = Range(ItemIds(longer))
    BY DEF IdsOf, ItemIds, Range
  <1>11. Agrees(more, longer, Automatic)
    BY <1>1, <1>2, <1>5, <1>6, <1>8, <1>9, <1>10 DEF Agrees, Automatic, Manual
  <1> QED
    BY <1>4, <1>11 DEF longer, new
(* What a write does on YouTube it does to the base, answered as applied.   *)
LEMMA LandedIsApplied ==
    ASSUME SyncInv, FlagsOK, worker.pc = "send", Lands,
           Agrees(base, youtube, youtubeSort),
           NEW made \in Nat, made = IF AddsItem(Sent) THEN nextItem ELSE NoItem
    PROVE  Agrees(Applied(base, Sent, made), youtube', youtubeSort)
  <1>1. /\ Sent \in WritesOf(Videos) /\ worker.writes \in Seq(WritesOf(Videos))
        /\ worker.writes # <<>>
    BY HeadAndTail DEF SyncInv, WorkOK, Sent
  <1>2. /\ live /\ (Sent.kind \in {"delete", "move"} => HasItem(youtube, Sent.item))
        /\ AcceptsPosition(youtube, Sent)
        /\ youtubeSort = Automatic => Sent.kind \notin {"insert", "move"}
    BY DEF Lands, YouTubeAnswer, SyncInv, ContentsOK
  <1>3. stored /\ Known(youtube', nextItem')
    BY LandsLeaves
  <1>4. /\ nextItem \in Nat \ {0} /\ Known(youtube, nextItem) /\ base \in Seq(BaseItem)
    BY DEF SyncInv, ContentsOK, StoreOK
  <1>5. Sent.kind \in {"delete", "insert", "append", "move"}
    BY <1>1 DEF WritesOf
  <1>6. CASE youtubeSort = Automatic
    <2>1. CASE Sent.kind = "delete"
      <3>1. youtube' = Performed(youtube, Sent, nextItem)
        BY <2>1 DEF Lands
      <3> QED
        BY <1>1, <1>2, <1>4, <1>6, <2>1, <3>1, DeletedAgrees
    <2>2. CASE Sent.kind = "append"
      <3>1. PICK place \in 1..(Len(youtube) + 1) :
                youtube' = InsertAt(youtube, place, [id |-> nextItem, video |-> Sent.video])
        BY <1>6, <2>2 DEF Lands
      <3>2. made = nextItem
        BY <2>2 DEF AddsItem
      <3>3. Agrees(base, youtube, Automatic)
        BY <1>6
      <3>4. Agrees(Applied(base, Sent, nextItem),
                   InsertAt(youtube, place, [id |-> nextItem, video |-> Sent.video]), Automatic)
        BY <1>1, <1>4, <2>2, <3>3, AppendedAgrees
      <3> QED
        BY <1>6, <3>1, <3>2, <3>4
    <2> QED
      BY <1>2, <1>5, <1>6, <2>1, <2>2
  <1>7. CASE youtubeSort = Manual
    <2>1. youtube' = Performed(youtube, Sent, nextItem)
      BY <1>7 DEF Lands, Manual, Automatic
    <2>2. ItemIds(base) = ItemIds(youtube)
      BY <1>7 DEF Agrees
    <2>3. AddsItem(Sent) => made = nextItem
      OBVIOUS
    <2>4. ItemIds(Applied(base, Sent, made)) = ItemIds(youtube')
      BY <1>1, <1>2, <1>4, <2>1, <2>2, <2>3, AppliedAsPerformed
    <2>5. Applied(base, Sent, made) \in Seq(BaseItem)
      <3>1. Pushable(base, entries, history, worker.writes)
        BY <1>3 DEF SyncInv, PushOK
      <3>2. /\ entries \in OrdersOf(Videos) /\ Distinct(entries) /\ NewEntry \notin IdsOf(entries)
            /\ HeldBy(entries) \subseteq IdsOf(base)
        BY DEF SyncInv, StoreOK, NewEntry
      <3>3. /\ made # NoItem <=> AddsItem(Head(worker.writes))
            /\ made \notin IdsOf(base)
        BY <1>4, BaseByRange DEF Sent, NoItem, SyncInv, StoreOK
      <3> DEFINE writes == worker.writes
      <3>4. /\ writes \in Seq(WritesOf(Videos)) /\ writes # <<>>
            /\ Pushable(base, entries, history, writes)
            /\ made # NoItem <=> AddsItem(Head(writes))
            /\ Sent = Head(writes)
        BY <1>1, <3>1, <3>3 DEF Sent
      <3> HIDE DEF writes
      <3>5. Applied(base, Head(writes), made) \in Seq(BaseItem)
        BY <1>4, <3>2, <3>3, <3>4, PushableSettles
      <3> QED
        BY <3>4, <3>5
    <2> QED
      BY <1>3, <2>4, <2>5, SameIdsAgree
  <1> QED
    BY <1>6, <1>7 DEF FlagsOK

-----------------------------------------------------------------------------
(* The base and YouTube agree while the owner does nothing, but for a write *)
(* that may have landed and is not settled; what a settlement will store    *)
(* agrees with what landed; and a read nothing changed since is what        *)
(* YouTube holds.                                                           *)
BaseAgrees ==
    (/\ stored /\ live /\ history.sinceBase = {}
     /\ \/ unanswered = NoWrite
        \/ worker.pc = "send"
        \/ worker.pc = "settle" /\ worker.outcome \notin {"applied", "unanswered"})
        => Agrees(base, youtube, youtubeSort)

LandedAgrees ==
    (/\ stored /\ live /\ history.sinceBase = {}
     /\ worker.pc = "settle" /\ worker.outcome = "applied")
        => Agrees(NextBase, youtube, youtubeSort)

NotAbsent ==
    (/\ stored /\ live /\ history.sinceBase = {} /\ worker.pc = "settle")
        => worker.outcome # "absent"

ReadAgrees ==
    (/\ live /\ history.sinceRead = {} /\ worker.pc \in {"confirm", "merge"})
        => worker.read = youtube

BaseInv == BaseAgrees /\ LandedAgrees /\ NotAbsent /\ ReadAgrees

(* The steps that leave YouTube and the base alone.                         *)
LEMMA QuietKeeps ==
    ASSUME BaseInv, UNCHANGED <<youtube, youtubeSort, base, stored, live>>,
           history'.sinceBase = history.sinceBase, history'.sinceRead = history.sinceRead,
           \/ (worker' = worker \/ worker' = Idle) /\ unanswered' = unanswered
           \/ /\ unanswered' = NoWrite /\ worker' = Idle
              /\ worker.pc = "settle" /\ worker.outcome \notin {"applied", "unanswered"}
    PROVE  BaseInv'
  <1>1. CASE worker' = worker /\ unanswered' = unanswered
    BY <1>1 DEF BaseInv, BaseAgrees, LandedAgrees, NotAbsent, ReadAgrees, NextBase, Sent
  <1>2. CASE worker' = Idle
    <2>1. worker'.pc = "idle"
      BY <1>2 DEF Idle
    <2> QED
      BY <2>1 DEF BaseInv, BaseAgrees, LandedAgrees, NotAbsent, ReadAgrees
  <1> QED
    BY <1>1, <1>2

LEMMA NotLiveKeeps ==
    ASSUME ~live'
    PROVE  BaseInv'
  BY DEF BaseInv, BaseAgrees, LandedAgrees, NotAbsent, ReadAgrees

LEMMA AnswersAgree ==
    ASSUME BaseInv, SyncInv, IInv, FlagsOK, NEW outcome, NEW made, Answers(outcome, made)
    PROVE  BaseInv'
  <1> USE DEF BaseInv
  <1>1. /\ UNCHANGED <<stored, base, unanswered>> /\ worker.pc = "send"
        /\ worker' = [worker EXCEPT !.pc = "settle", !.outcome = outcome, !.made = made]
    BY DEF Answers, storeVars, Answered
  <1>2. /\ worker'.pc = "settle" /\ worker'.outcome = outcome /\ worker'.made = made
        /\ worker'.writes = worker.writes /\ worker'.base = worker.base
    BY <1>1 DEF IInv, WorkerOK, Idle
  <1>3. Sent \in WritesOf(Videos) /\ Sent = worker.writes[1] /\ 1 \in DOMAIN worker.writes
    BY <1>1, HeadAndTail DEF SyncInv, WorkOK, Sent
  <1>4. ReadAgrees'
    BY <1>2 DEF ReadAgrees
  <1>5. stored => worker.base = base
    BY <1>1 DEF SyncInv, PushOK
  <1>6. stored => unanswered # NoWrite
    <2>1. Sent.kind # "none"
      BY <1>3 DEF WritesOf
    <2>2. stored => unanswered.kind = Sent.kind
      BY <1>1, <1>3, RecordedTyped DEF IInv, WorkerOK, WriteOnRecord
    <2> QED
      BY <2>1, <2>2 DEF NoWrite, Write
  <1>7. CASE /\ UNCHANGED <<youtube, youtubeSort, live, older, nextItem, history>>
             /\ outcome # "applied" /\ made = NoItem
             /\ outcome = "absent" => YouTubeAnswer = "absent"
    <2>1. BaseAgrees' /\ LandedAgrees'
      BY <1>1, <1>2, <1>7 DEF BaseAgrees, LandedAgrees
    <2>2. NotAbsent'
      <3> SUFFICES ASSUME stored, live, history.sinceBase = {}, YouTubeAnswer = "absent"
                   PROVE  FALSE
        BY <1>1, <1>2, <1>7 DEF NotAbsent
      <3>1. Sent.kind \in {"delete", "move"} /\ ~HasItem(youtube, Sent.item)
        <4>1. CASE Sent.kind \in {"delete", "move"} /\ ~HasItem(youtube, Sent.item)
          BY <4>1
        <4>2. CASE ~(Sent.kind \in {"delete", "move"} /\ ~HasItem(youtube, Sent.item))
          BY <4>2 DEF YouTubeAnswer
        <4> QED
          BY <4>1, <4>2
      <3>2. AskedFor(base, entries, history, Sent)
        BY <1>1, <1>3 DEF SyncInv, PushOK, Pushable
      <3>3. Sent.item \in IdsOf(base)
        BY <3>1, <3>2 DEF AskedFor, AddsItem
      <3>4. IdsOf(base) = IdsOf(youtube)
        BY <1>1 DEF BaseAgrees, Agrees
      <3> QED
        BY <3>1, <3>3, <3>4 DEF HasItem, IdsOf
    <2> QED
      BY <1>4, <2>1, <2>2
  <1>8. CASE Lands /\ outcome = "unanswered"
    BY <1>1, <1>2, <1>4, <1>6, <1>8 DEF BaseAgrees, LandedAgrees, NotAbsent
  <1>9. CASE Lands /\ outcome = "applied" /\ made = (IF AddsItem(Sent) THEN nextItem ELSE NoItem)
    <2>1. BaseAgrees' /\ NotAbsent'
      BY <1>1, <1>2, <1>6, <1>9 DEF BaseAgrees, NotAbsent
    <2>2. live' = live /\ youtubeSort' = youtubeSort /\ history'.sinceBase = history.sinceBase
      <3>1. history' = IF AddsItem(Sent)
                       THEN [history EXCEPT !.made =
                                @ \cup {[entry |-> Sent.entry, item |-> nextItem]}]
                       ELSE history
        BY <1>1, <1>9, LandsLeaves
      <3>2. history'.sinceBase = history.sinceBase
        BY <3>1 DEF SyncInv, HistoryOK
      <3> QED
        BY <1>9, <3>2 DEF Lands
    <2>3. LandedAgrees'
      <3> SUFFICES ASSUME stored, live, history.sinceBase = {}
                   PROVE  Agrees(NextBase', youtube', youtubeSort)
        BY <1>1, <2>2 DEF LandedAgrees
      <3>1. NextBase' = Applied(base, Sent, made)
        BY <1>2, <1>5 DEF NextBase, Sent
      <3>2. Agrees(base, youtube, youtubeSort)
        BY <1>1 DEF BaseAgrees
      <3>3. made \in Nat
        BY <1>9 DEF SyncInv, ContentsOK, NoItem
      <3>4. Agrees(Applied(base, Sent, made), youtube', youtubeSort)
        BY <1>1, <1>9, <3>2, <3>3, LandedIsApplied
      <3> QED
        BY <3>1, <3>4
    <2> QED
      BY <1>4, <2>1, <2>3
  <1> QED
    BY <1>7, <1>8, <1>9 DEF Answers

LEMMA BaseInvKept ==
    ASSUME BaseInv, AddInv, SyncInv, IInv, FlagsOK, [Next]_vars
    PROVE  BaseInv'
  <1> USE DEF BaseInv
  <1>1. CASE Rests
    BY <1>1, QuietKeeps DEF Rests
  <1>2. CASE LagPasses
    BY <1>2, QuietKeeps DEF LagPasses
  <1>3. CASE DeleteOnYouTube
    BY <1>3, NotLiveKeeps DEF DeleteOnYouTube
  <1>4. CASE DeleteStored \/ TakeUpGone
    BY <1>4, NotLiveKeeps DEF DeleteStored, TakeUpGone, youtubeVars
  <1>5. CASE OwnerEdits
    <2>1. \E kind : history' = [history EXCEPT !.sinceBase = @ \cup {kind},
                                               !.sinceRead = @ \cup {kind}]
      BY <1>5 DEF OwnerEdits, OwnerAdds, OwnerRemoves, OwnerMoves, OwnerSorts, Owner
    <2>2. history'.sinceBase # {} /\ history'.sinceRead # {}
      BY <2>1 DEF SyncInv, HistoryOK
    <2> QED
      BY <2>2 DEF BaseAgrees, LandedAgrees, NotAbsent, ReadAgrees
  <1>6. CASE TakeUp
    <2>1. PICK content \in Readable : Reading(content)
      BY <1>6 DEF TakeUp
    <2>2. live => content = youtube
      BY <2>1 DEF Reading, ItemWritesSince, SyncInv, ConfirmedOK, Readable
    <2>3. /\ history'.sinceBase = history.sinceBase /\ worker.pc = "idle"
          /\ worker'.pc = "confirm" /\ worker'.read = content
      BY <2>1 DEF Reading, TakesUp, SyncInv, HistoryOK, Idle
    <2>4. UNCHANGED <<youtube, youtubeSort, live, stored, base, unanswered>>
      BY <1>6 DEF TakeUp, youtubeVars, storeVars
    <2> QED
      BY <2>2, <2>3, <2>4 DEF BaseAgrees, LandedAgrees, NotAbsent, ReadAgrees
  <1>7. ~TakeUpMissing
    BY DEF AddInv, NoMiss, TakeUpMissing
  <1>8. CASE ConfirmAbsences
    <2>1. /\ UNCHANGED <<youtube, youtubeSort, live, stored, base, unanswered, history>>
          /\ worker.pc = "confirm"
          /\ worker' = Idle \/ worker' = [worker EXCEPT !.pc = "merge"]
      BY <1>8 DEF ConfirmAbsences, youtubeVars, storeVars
    <2>2. \/ worker'.pc = "idle"
          \/ worker'.pc = "merge" /\ worker'.read = worker.read
      BY <2>1 DEF Idle, IInv, WorkerOK
    <2> QED
      BY <2>1, <2>2 DEF BaseAgrees, LandedAgrees, NotAbsent, ReadAgrees
  <1>9. CASE MergeInto
    <2>1. /\ UNCHANGED <<youtube, youtubeSort, live, stored>> /\ worker.pc = "merge"
          /\ base' = Unplaced(worker.read) /\ worker'.pc = "push"
      BY <1>9 DEF MergeInto, youtubeVars, Idle
    <2>2. history'.sinceBase = history.sinceRead
      BY <1>9 DEF MergeInto, SyncInv, HistoryOK
    <2>3. Known(worker.read, nextItem) /\ nextItem \in Nat \ {0}
      BY <2>1 DEF SyncInv, WorkOK, ContentsOK
    <2>4. base' \in Seq(BaseItem)
      BY <2>1, <2>3, UnplacedKeeps DEF Known
    <2>5. ItemIds(base') = ItemIds(worker.read)
      BY <2>1, IdsUnplaced
    <2>6. Agrees(base', worker.read, youtubeSort')
      BY <2>3, <2>4, <2>5, SameIdsAgree
    <2> QED
      BY <2>1, <2>2, <2>6 DEF BaseAgrees, LandedAgrees, NotAbsent, ReadAgrees
  <1>10. CASE BeginWrite
    <2>1. /\ UNCHANGED <<youtube, youtubeSort, live, stored, base, history>>
          /\ worker.pc = "push" /\ stored /\ worker'.pc = "send"
      BY <1>10 DEF BeginWrite, PushGoesOn, youtubeVars, IInv, WorkerOK, Idle
    <2>2. unanswered = NoWrite
      BY <2>1 DEF AddInv, AllAnswered
    <2> QED
      BY <2>1, <2>2 DEF BaseAgrees, LandedAgrees, NotAbsent, ReadAgrees
  <1>11. ASSUME NEW outcome, NEW made, Answers(outcome, made)
         PROVE  BaseInv'
    BY <1>11, AnswersAgree
  <1>12. CASE SettleDone
    <2>1. /\ UNCHANGED <<youtube, youtubeSort, live, stored, history>>
          /\ worker.pc = "settle" /\ stored /\ Did /\ base' = NextBase /\ worker' = NextWrite
      BY <1>12 DEF SettleDone, Settling, youtubeVars
    <2>2. worker'.pc = "push"
      BY <2>1 DEF NextWrite, IInv, WorkerOK, Idle
    <2>3. live /\ history.sinceBase = {} => worker.outcome = "applied"
      BY <2>1 DEF Did, NotAbsent
    <2> QED
      BY <2>1, <2>2, <2>3 DEF BaseAgrees, LandedAgrees, NotAbsent, ReadAgrees
  <1>13. CASE SettleVideoRefused
    <2>1. /\ UNCHANGED <<youtube, youtubeSort, live, stored, base>>
          /\ worker' = Idle /\ unanswered' = NoWrite
          /\ worker.pc = "settle" /\ worker.outcome = "video_refused"
      BY <1>13 DEF SettleVideoRefused, Settling, Unanswered, youtubeVars
    <2>2. history'.sinceBase = history.sinceBase /\ history'.sinceRead = history.sinceRead
      BY <1>13 DEF SettleVideoRefused, SyncInv, HistoryOK
    <2> QED
      BY <2>1, <2>2, QuietKeeps
  <1>14. CASE SettleGone
    <2>1. /\ ~stored /\ stored' = stored /\ (worker' = NextWrite \/ worker' = Idle)
      BY <1>14 DEF SettleGone
    <2>2. NextWrite.pc = "push" /\ Idle.pc = "idle"
      BY DEF NextWrite, IInv, WorkerOK, Idle
    <2>3. worker'.pc \notin {"confirm", "merge"}
      BY <2>1, <2>2
    <2> QED
      BY <2>1, <2>3 DEF BaseAgrees, LandedAgrees, NotAbsent, ReadAgrees
  <1>15. ASSUME NEW c \in Clients, NEW videos \in Orders, NEW any \in BOOLEAN,
                ReplaceItems(c, videos, any)
         PROVE  BaseInv'
    <2>1. UNCHANGED <<youtube, youtubeSort, live, stored, base, worker, unanswered>>
      BY <1>15 DEF ReplaceItems, youtubeVars
    <2>2. history'.sinceBase = history.sinceBase /\ history'.sinceRead = history.sinceRead
      BY <1>15 DEF ReplaceItems, SyncInv, HistoryOK
    <2> QED
      BY <2>1, <2>2, QuietKeeps
  <1> QED
    BY <1>1, <1>2, <1>3, <1>4, <1>5, <1>6, <1>7, <1>8, <1>9, <1>10, <1>11, <1>12, <1>13,
       <1>14, <1>15, StepsOf

LEMMA BaseInvInit ==
    ASSUME Init
    PROVE  BaseInv
  <1>1. SyncInv
    BY SyncInvInit
  <1>2. worker.pc = "idle" /\ base = Unplaced(youtube)
    BY DEF Init, Idle
  <1>3. base \in Seq(BaseItem) /\ Known(youtube, nextItem)
    BY <1>1 DEF SyncInv, StoreOK, ContentsOK
  <1>4. Agrees(base, youtube, youtubeSort)
    BY <1>2, <1>3, IdsUnplaced, SameIdsAgree
  <1> QED
    BY <1>2, <1>4 DEF BaseInv, BaseAgrees, LandedAgrees, NotAbsent, ReadAgrees

(* While no read misses an item, the base is what YouTube holds as long as  *)
(* the owner does nothing and no write is unanswered, in the same order if  *)
(* the playlist is sorted by hand: through every write of a push, answered  *)
(* or refused, and every restart, what /sync/status counts as pending is    *)
(* what a push would write.                                                 *)
THEOREM BaseMatchesYouTube == WholeReads => (Spec => []BaseIsYouTube)
  <1>1. WholeReads /\ Init => AddInv
    BY AddInvInit
  <1>2. AddInv /\ IInv /\ SyncInv /\ FlagsOK /\ [Next]_vars => AddInv'
    BY AddInvKept
  <1>3. Init => BaseInv
    BY BaseInvInit
  <1>4. BaseInv /\ AddInv /\ IInv /\ SyncInv /\ FlagsOK /\ [Next]_vars => BaseInv'
    BY BaseInvKept
  <1>5. BaseInv => BaseIsYouTube
    BY DEF BaseInv, BaseAgrees, Agrees, BaseIsYouTube
  <1> QED
    BY <1>1, <1>2, <1>3, <1>4, <1>5, AlwaysSyncInv, PTL DEF Spec

-----------------------------------------------------------------------------
(***************************************************************************)
(* A merge takes YouTube's order only after the owner moved something.     *)
(***************************************************************************)
NextKeepsOrder(S, a, b) == \A x, y \in S : Before(b, x, y) => Before(a, x, y)

LEMMA OrderFollows ==
    ASSUME NEW S, NEW a, NEW b, NEW c, NEW T, S \subseteq T, SameOrder(T, a, b)
    PROVE  /\ NextKeepsOrder(S, b, c) => SameOrder(S, a, c)
           /\ NextKeepsOrder(S, a, c) => SameOrder(S, c, b)
           /\ SameOrder(S, a, b)
  BY DEF NextKeepsOrder, SameOrder

LEMMA OwnOrder ==
    ASSUME NEW T, NEW list \in Seq(T), IsInjective(list), NEW S
    PROVE  SameOrder(S, list, list)
  BY BeforeOnce DEF SameOrder

LEMMA ShorterOrder ==
    ASSUME NEW T, NEW list \in Seq(T), ItemIds(list) \in Seq(Nat), NEW at \in 1..Len(list), NEW S
    PROVE  NextKeepsOrder(S, ItemIds(list), ItemIds(RemoveAt(list, at)))
  <1> DEFINE ids == ItemIds(list)
  <1>1. Len(ids) = Len(list) /\ ItemIds(RemoveAt(list, at)) = RemoveAt(ids, at)
    BY IdsRemoved DEF ItemIds
  <1>2. ids \in Seq(Nat) /\ at \in 1..Len(ids)
    BY <1>1
  <1> HIDE DEF ids
  <1>3. ASSUME NEW x, NEW y, Before(RemoveAt(ids, at), x, y)
        PROVE  Before(ids, x, y)
    BY <1>2, <1>3, RemovedBefore
  <1> QED
    BY <1>1, <1>3 DEF NextKeepsOrder, ids

LEMMA LongerOrder ==
    ASSUME NEW T, NEW list \in Seq(T), ItemIds(list) \in Seq(Nat), NEW e \in T, e.id \in Nat,
           NEW at \in 1..(Len(list) + 1), NEW S, e.id \notin S
    PROVE  NextKeepsOrder(S, ItemIds(list), ItemIds(InsertAt(list, at, e)))
  <1> DEFINE ids == ItemIds(list)
             id == e.id
  <1>1. Len(ids) = Len(list) /\ ItemIds(InsertAt(list, at, e)) = InsertAt(ids, at, id)
    <2>1. Len(ids) = Len(list)
      BY DEF ItemIds
    <2>2. ItemIds(InsertAt(list, at, e)) = InsertAt(ItemIds(list), at, e.id)
      BY IdsInserted
    <2> QED
      BY <2>1, <2>2
  <1>2. ids \in Seq(Nat) /\ at \in 1..(Len(ids) + 1) /\ id \in Nat /\ id \notin S
    BY <1>1
  <1> HIDE DEF ids, id
  <1>3. ASSUME NEW x \in S, NEW y \in S, Before(InsertAt(ids, at, id), x, y)
        PROVE  Before(ids, x, y)
    BY <1>2, <1>3, InsertedBefore
  <1> QED
    BY <1>1, <1>3 DEF NextKeepsOrder, ids

-----------------------------------------------------------------------------
(* The base: where YouTube put what no write placed.                        *)
LEMMA PlacedByRange ==
    ASSUME NEW list \in Seq(BaseItem), NEW w
    PROVE  /\ \A x : x \in PlacedByYouTube(list, w) <=>
                /\ \E b \in Range(list) : b.id = x /\ ~b.placed
                /\ ~(w.kind = "move" /\ x = w.item)
           /\ PlacedByYouTube(list, w) \subseteq IdsOf(list)
           /\ PlacedByYouTube(list, w) \subseteq PlacedByYouTube(list, NoWrite)
  <1>1. NoWrite.kind = "none"
    BY DEF NoWrite, Write
  <1>2. \A x : x \in PlacedByYouTube(list, w) <=>
            /\ \E j \in DOMAIN list : ~list[j].placed /\ list[j].id = x
            /\ ~(w.kind = "move" /\ x = w.item)
    BY DEF PlacedByYouTube
  <1>3. \A x : (\E j \in DOMAIN list : ~list[j].placed /\ list[j].id = x) <=>
               (\E b \in Range(list) : b.id = x /\ ~b.placed)
    BY DEF Range
  <1>4. PlacedByYouTube(list, w) \subseteq IdsOf(list)
    BY <1>2 DEF IdsOf
  <1>5. PlacedByYouTube(list, w) \subseteq PlacedByYouTube(list, NoWrite)
    BY <1>1 DEF PlacedByYouTube
  <1>6. ASSUME NEW x
        PROVE  x \in PlacedByYouTube(list, w) <=>
                    /\ \E b \in Range(list) : b.id = x /\ ~b.placed
                    /\ ~(w.kind = "move" /\ x = w.item)
    <2>1. x \in PlacedByYouTube(list, w) <=>
            /\ \E j \in DOMAIN list : ~list[j].placed /\ list[j].id = x
            /\ ~(w.kind = "move" /\ x = w.item)
      BY <1>2
    <2>2. (\E j \in DOMAIN list : ~list[j].placed /\ list[j].id = x) <=>
               (\E b \in Range(list) : b.id = x /\ ~b.placed)
      BY <1>3
    <2> QED
      BY <2>1, <2>2
  <1> QED
    BY <1>4, <1>5, <1>6

LEMMA DroppedOrder ==
    ASSUME NEW list \in Seq(BaseItem), IsInjective(ItemIds(list)), NEW at \in 1..Len(list)
    PROVE  LET less == RemoveAt(list, at)
           IN  /\ less \in Seq(BaseItem) /\ Len(less) = Len(list) - 1
               /\ IsInjective(ItemIds(less)) /\ IdsOf(less) \subseteq IdsOf(list) \ {list[at].id}
               /\ PlacedByYouTube(less, NoWrite) \subseteq PlacedByYouTube(list, NoWrite)
               /\ \A S : NextKeepsOrder(S, ItemIds(list), ItemIds(less))
  <1> DEFINE less == RemoveAt(list, at)
             ids == ItemIds(list)
  <1>1. /\ ids \in Seq(Nat) /\ Len(ids) = Len(list) /\ Range(ids) = IdsOf(list)
        /\ Len(list) \in Nat /\ DOMAIN list = 1..Len(list)
    BY BaseByRange
  <1>2. /\ less \in Seq(BaseItem) /\ Len(less) = Len(list) - 1
        /\ Range(less) \subseteq Range(list)
    BY RemoveAtKeeps
  <1>3. ItemIds(less) = RemoveAt(ids, at)
    BY <1>1, IdsRemoved
  <1>4. ids[at] = list[at].id /\ IsInjective(ids) /\ at \in 1..Len(ids)
    BY <1>1 DEF ItemIds
  <1>5. \A S : NextKeepsOrder(S, ItemIds(list), ItemIds(less))
    BY <1>1, ShorterOrder
  <1> HIDE DEF less, ids
  <1>6. /\ IsInjective(ItemIds(less)) /\ ids[at] \notin Range(ItemIds(less))
        /\ Range(ItemIds(less)) \subseteq Range(ids)
    BY <1>1, <1>3, <1>4, RemoveAtKeeps
  <1>7. Range(ItemIds(less)) = IdsOf(less)
    BY <1>2, BaseByRange
  <1>8. PlacedByYouTube(less, NoWrite) \subseteq PlacedByYouTube(list, NoWrite)
    BY <1>2, PlacedByRange
  <1>9. IdsOf(less) \subseteq IdsOf(list) \ {list[at].id}
    BY <1>1, <1>4, <1>6, <1>7
  <1> QED
    BY <1>2, <1>5, <1>6, <1>8, <1>9 DEF less

LEMMA PutOrder ==
    ASSUME NEW list \in Seq(BaseItem), IsInjective(ItemIds(list)),
           NEW at \in 1..(Len(list) + 1), NEW one \in BaseItem, one.placed,
           one.id \notin IdsOf(list)
    PROVE  LET more == InsertAt(list, at, one)
           IN  /\ IsInjective(ItemIds(more))
               /\ PlacedByYouTube(more, NoWrite) \subseteq PlacedByYouTube(list, NoWrite)
               /\ NextKeepsOrder(IdsOf(list), ItemIds(list), ItemIds(more))
  <1> DEFINE more == InsertAt(list, at, one)
             ids == ItemIds(list)
             id == one.id
  <1>1. /\ ids \in Seq(Nat) /\ Len(ids) = Len(list) /\ Range(ids) = IdsOf(list)
    BY BaseByRange
  <1>2. more \in Seq(BaseItem) /\ Range(more) = Range(list) \cup {one}
    BY InsertAtKeeps
  <1>3. id \in Nat
    BY DEF BaseItem
  <1>4. ItemIds(more) = InsertAt(ids, at, id)
    BY <1>1, <1>3, IdsInserted
  <1>5. NextKeepsOrder(IdsOf(list), ItemIds(list), ItemIds(more))
    BY <1>1, <1>3, LongerOrder
  <1>6. at \in 1..(Len(ids) + 1) /\ id \notin Range(ids) /\ IsInjective(ids)
    BY <1>1
  <1> HIDE DEF more, ids, id
  <1>7. IsInjective(ItemIds(more))
    BY <1>1, <1>3, <1>4, <1>6, InsertAtKeeps
  <1>8. PlacedByYouTube(more, NoWrite) \subseteq PlacedByYouTube(list, NoWrite)
    BY <1>2, PlacedByRange
  <1> QED
    BY <1>5, <1>7, <1>8 DEF more

(* What a write does to the base turns none of those YouTube placed but the *)
(* one it moves, which it marks as placed.                                  *)
LEMMA AppliedOrder ==
    ASSUME NEW list \in Seq(BaseItem), IsInjective(ItemIds(list)), NEW w \in WritesOf(Videos),
           NEW made \in Nat, AddsItem(w) => made # NoItem /\ made \notin IdsOf(list),
           NEW next, WriteFits(w, Len(list), next),
           w.kind \in {"delete", "move"} => w.item \in IdsOf(list)
    PROVE  LET new == Applied(list, w, made)
           IN  /\ IsInjective(ItemIds(new))
               /\ PlacedByYouTube(new, NoWrite) \subseteq PlacedByYouTube(list, w)
               /\ NextKeepsOrder(PlacedByYouTube(list, w), ItemIds(list), ItemIds(new))
  <1> DEFINE at == PlaceIn(ItemIds(list), w.item)
             new == [id |-> made, video |-> w.video, placed |-> TRUE]
             result == Applied(list, w, made)
             place == w.position + 1
             kept == PlacedByYouTube(list, w)
  <1>1. /\ Len(list) \in Nat /\ DOMAIN list = 1..Len(list)
        /\ ItemIds(list) \in Seq(Nat) /\ Len(ItemIds(list)) = Len(list)
        /\ Range(ItemIds(list)) = IdsOf(list)
    BY BaseByRange
  <1>2. /\ w.kind \in {"delete", "insert", "append", "move"} /\ w.position \in Nat
        /\ w.item \in Nat /\ (AddsItem(w) => w.video \in Videos)
    BY DEF WritesOf
  <1>3. w.kind \in {"delete", "move"} => at \in 1..Len(list) /\ list[at].id = w.item
    <2> SUFFICES ASSUME w.kind \in {"delete", "move"}
                 PROVE  at \in 1..Len(list) /\ list[at].id = w.item
      OBVIOUS
    <2>1. at \in 1..Len(ItemIds(list)) /\ ItemIds(list)[at] = w.item
      BY <1>1, PlaceInList
    <2> HIDE DEF at
    <2> QED
      BY <1>1, <2>1 DEF ItemIds
  <1>4. AddsItem(w) => new \in BaseItem
    <2> SUFFICES ASSUME AddsItem(w)
                 PROVE  new \in BaseItem
      OBVIOUS
    <2> DEFINE v == w.video
    <2>1. made \in Nat \ {0}
      BY DEF NoItem
    <2>2. v \in Nat
      <3>1. w.video \in Videos
        BY <1>2 DEF AddsItem
      <3>2. Videos \subseteq Nat
        BY PlaylistSyncAssumption
      <3> QED
        BY <3>1, <3>2
    <2> HIDE DEF v
    <2>3. [id |-> made, video |-> v, placed |-> TRUE] \in BaseItem
      BY <2>1, <2>2 DEF BaseItem
    <2> QED
      BY <2>3 DEF v
  <1>5. new.id = made /\ new.placed = TRUE
    OBVIOUS
  <1>6. w.kind # "move" => kept = PlacedByYouTube(list, NoWrite)
    BY DEF PlacedByYouTube, NoWrite, Write
  <1>7. kept \subseteq IdsOf(list)
    BY PlacedByRange
  <1>8. CASE w.kind = "delete"
    <2>1. result = RemoveAt(list, at)
      BY <1>1, <1>3, <1>8 DEF Applied
    <2> HIDE DEF at, result, kept
    <2>2. /\ IsInjective(ItemIds(result))
          /\ PlacedByYouTube(result, NoWrite) \subseteq PlacedByYouTube(list, NoWrite)
          /\ \A S : NextKeepsOrder(S, ItemIds(list), ItemIds(result))
      BY <1>3, <1>8, <2>1, DroppedOrder
    <2> QED
      BY <1>6, <1>8, <2>2 DEF result, kept
  <1>9. CASE AddsItem(w)
    <2>1. w.kind # "move"
      BY <1>9 DEF AddsItem
    <2>2. PICK p \in 1..(Len(list) + 1) : result = InsertAt(list, p, new)
      <3>1. CASE w.kind = "append"
        <4>1. result = Append(list, new)
          BY <3>1 DEF Applied
        <4> HIDE DEF new, result
        <4>2. result = InsertAt(list, Len(list) + 1, new)
          BY <1>4, <1>9, <4>1, AppendIsInsert
        <4>3. Len(list) + 1 \in 1..(Len(list) + 1)
          BY <1>1
        <4> QED
          BY <4>2, <4>3
      <3>2. CASE w.kind = "insert"
        <4>1. result = InsertAt(list, place, new)
          BY <3>2 DEF Applied, PutAt
        <4>2. place \in 1..(Len(list) + 1)
          BY <1>1, <1>2, <3>2 DEF WriteFits
        <4> HIDE DEF place, result
        <4> QED
          BY <4>1, <4>2
      <3> QED
        BY <1>9, <3>1, <3>2 DEF AddsItem
    <2> HIDE DEF new, result, kept
    <2>3. new \in BaseItem /\ new.placed /\ new.id \notin IdsOf(list)
      BY <1>4, <1>5, <1>9
    <2>4. /\ IsInjective(ItemIds(result))
          /\ PlacedByYouTube(result, NoWrite) \subseteq PlacedByYouTube(list, NoWrite)
          /\ NextKeepsOrder(IdsOf(list), ItemIds(list), ItemIds(result))
      BY <2>2, <2>3, PutOrder
    <2> QED
      BY <1>6, <1>7, <2>1, <2>4 DEF result, kept, NextKeepsOrder
  <1>10. CASE w.kind = "move"
    <2> DEFINE less == RemoveAt(list, at)
               one == [list[at] EXCEPT !.placed = TRUE]
    <2>1. result = InsertAt(less, place, one) /\ place \in 1..Len(list)
      BY <1>1, <1>2, <1>10 DEF Applied, PutAt, WriteFits
    <2>2. list[at] \in BaseItem
      <3> HIDE DEF at
      <3> QED
        BY <1>3, <1>10
    <2>3. one \in BaseItem /\ one.id = w.item /\ one.placed
      BY <1>3, <1>10, <2>2, BaseItemMoved DEF BaseItem
    <2> HIDE DEF at, result, place, one, kept
    <2>4. /\ less \in Seq(BaseItem) /\ Len(less) = Len(list) - 1
          /\ IsInjective(ItemIds(less)) /\ IdsOf(less) \subseteq IdsOf(list) \ {w.item}
          /\ PlacedByYouTube(less, NoWrite) \subseteq PlacedByYouTube(list, NoWrite)
          /\ \A S : NextKeepsOrder(S, ItemIds(list), ItemIds(less))
      BY <1>3, <1>10, DroppedOrder
    <2> HIDE DEF less
    <2>5. place \in 1..(Len(less) + 1) /\ one.id \notin IdsOf(less)
      BY <1>1, <2>1, <2>3, <2>4
    <2>6. /\ IsInjective(ItemIds(result))
          /\ PlacedByYouTube(result, NoWrite) \subseteq PlacedByYouTube(less, NoWrite)
          /\ NextKeepsOrder(IdsOf(less), ItemIds(less), ItemIds(result))
      BY <2>1, <2>3, <2>4, <2>5, PutOrder
    <2>7. PlacedByYouTube(less, NoWrite) \subseteq IdsOf(less)
      BY <2>4, PlacedByRange
    <2>8. kept = PlacedByYouTube(list, NoWrite) \ {w.item}
      BY <1>10 DEF kept, PlacedByYouTube, NoWrite, Write
    <2>9. PlacedByYouTube(result, NoWrite) \subseteq kept
      BY <2>4, <2>6, <2>7, <2>8
    <2>10. kept \subseteq IdsOf(less)
      <3>1. IdsOf(list) \subseteq IdsOf(less) \cup {w.item}
        <4>1. Range(list) \subseteq Range(less) \cup {list[at]}
          BY <1>3, <1>10, RemoveAtKeeps DEF less
        <4>2. IdsOf(list) = {b.id : b \in Range(list)} /\ IdsOf(less) = {b.id : b \in Range(less)}
          BY <2>4, BaseByRange
        <4> QED
          BY <1>3, <1>10, <4>1, <4>2
      <3> QED
        BY <1>7, <2>8, <3>1
    <2>11. NextKeepsOrder(kept, ItemIds(list), ItemIds(result))
      BY <2>4, <2>6, <2>10 DEF NextKeepsOrder
    <2> QED
      BY <2>6, <2>9, <2>11 DEF result, kept
  <1> QED
    BY <1>2, <1>8, <1>9, <1>10 DEF AddsItem

-----------------------------------------------------------------------------
(* YouTube: what lands turns no two items but the one it moves, and the     *)
(* owner turns none without a move.                                         *)
OldItems == 1..(nextItem - 1)

LEMMA LandsOrder ==
    ASSUME SyncInv, worker.pc = "send", Lands, NEW S, S \subseteq OldItems,
           Sent.kind = "move" => Sent.item \notin S
    PROVE  NextKeepsOrder(S, ItemIds(youtube), ItemIds(youtube'))
  <1> DEFINE ids == ItemIds(youtube)
             at == PlaceIn(ids, Sent.item)
             new == [id |-> nextItem, video |-> Sent.video]
             place == Sent.position + 1
             one == youtube[at]
             less == RemoveAt(youtube, at)
  <1>1. /\ live /\ (Sent.kind \in {"delete", "move"} => HasItem(youtube, Sent.item))
        /\ AcceptsPosition(youtube, Sent)
    BY DEF Lands, YouTubeAnswer, SyncInv, ContentsOK
  <1>2. Sent \in WritesOf(Videos)
    BY HeadAndTail DEF SyncInv, WorkOK, Sent
  <1>3. nextItem \in Nat \ {0} /\ Known(youtube, nextItem)
    BY DEF SyncInv, ContentsOK
  <1>4. /\ youtube \in Seq(Items) /\ Len(youtube) \in Nat /\ DOMAIN youtube = 1..Len(youtube)
        /\ ids \in Seq(Nat) /\ Range(ids) = IdsOf(youtube) /\ Len(ids) = Len(youtube)
    BY <1>3, KnownIds
  <1>5. /\ Sent.kind \in {"delete", "insert", "append", "move"} /\ Sent.position \in Nat
        /\ Sent.item \in Nat /\ (AddsItem(Sent) => Sent.video \in Videos)
    BY <1>2 DEF WritesOf
  <1>6. Sent.kind \in {"delete", "move"} =>
            at \in 1..Len(youtube) /\ one.id = Sent.item /\ one \in Items
    <2> SUFFICES ASSUME Sent.kind \in {"delete", "move"}
                 PROVE  at \in 1..Len(youtube) /\ one.id = Sent.item /\ one \in Items
      OBVIOUS
    <2>1. Sent.item \in Range(ids)
      BY <1>1, <1>4 DEF HasItem, IdsOf
    <2>2. at \in 1..Len(ids) /\ ids[at] = Sent.item
      BY <1>4, <2>1, PlaceInList
    <2> HIDE DEF at
    <2>3. ids[at] = youtube[at].id
      BY <1>4, <2>2 DEF ItemIds
    <2> QED
      BY <1>4, <2>2, <2>3
  <1>7. nextItem \notin S /\ nextItem \in Nat
    BY <1>3 DEF OldItems
  <1>8. CASE AddsItem(Sent)
    <2>1. new \in Items /\ new.id = nextItem
      BY <1>3, <1>5, <1>8 DEF Items
    <2>2. PICK p \in 1..(Len(youtube) + 1) : youtube' = InsertAt(youtube, p, new)
      <3>1. CASE youtubeSort = Automatic /\ Sent.kind = "append"
        BY <3>1 DEF Lands
      <3>2. CASE ~(youtubeSort = Automatic /\ Sent.kind = "append")
        <4>1. youtube' = Performed(youtube, Sent, nextItem)
          BY <3>2 DEF Lands
        <4>2. CASE Sent.kind = "append"
          <5>1. youtube' = Append(youtube, new)
            BY <4>1, <4>2 DEF Performed
          <5> HIDE DEF new
          <5>2. youtube' = InsertAt(youtube, Len(youtube) + 1, new)
            BY <1>4, <2>1, <5>1, AppendIsInsert
          <5>3. Len(youtube) + 1 \in 1..(Len(youtube) + 1)
            BY <1>4
          <5> QED
            BY <5>2, <5>3
        <4>3. CASE Sent.kind = "insert"
          <5>1. youtube' = InsertAt(youtube, place, new)
            BY <4>1, <4>3 DEF Performed
          <5>2. place \in 1..(Len(youtube) + 1)
            BY <1>1, <1>4, <1>5, <4>3 DEF AcceptsPosition
          <5> HIDE DEF place, new
          <5> QED
            BY <5>1, <5>2
        <4> QED
          BY <1>8, <4>2, <4>3 DEF AddsItem
      <3> QED
        BY <3>1, <3>2
    <2>3. new.id \in Nat /\ new.id \notin S
      BY <1>7, <2>1
    <2> HIDE DEF new
    <2>4. NextKeepsOrder(S, ids, ItemIds(InsertAt(youtube, p, new)))
      BY <1>4, <2>1, <2>2, <2>3, LongerOrder
    <2> QED
      BY <2>2, <2>4
  <1>9. CASE Sent.kind \in {"delete", "move"}
    <2>1. youtube' = Performed(youtube, Sent, nextItem)
      BY <1>9 DEF Lands
    <2> HIDE DEF at, ids
    <2>2. NextKeepsOrder(S, ids, ItemIds(less))
      BY <1>4, <1>6, <1>9, ShorterOrder DEF ids
    <2>3. CASE Sent.kind = "delete"
      <3>1. youtube' = less
        BY <2>1, <2>3 DEF Performed, at, ids
      <3> QED
        BY <2>2, <3>1 DEF ids
    <2>4. CASE Sent.kind = "move"
      <3>1. youtube' = InsertAt(less, place, one)
        BY <2>1, <2>4 DEF Performed, at, ids
      <3>2. place \in 1..Len(youtube)
        BY <1>1, <1>4, <1>5, <2>4 DEF AcceptsPosition
      <3>3. less \in Seq(Items) /\ Len(less) = Len(youtube) - 1
        BY <1>4, <1>6, <1>9, RemoveAtKeeps
      <3>4. ItemIds(less) \in Seq(Nat)
        <4>1. ItemIds(less) = RemoveAt(ids, at)
          BY <1>4, <1>6, <1>9, IdsRemoved DEF ids
        <4>2. at \in 1..Len(ids)
          BY <1>4, <1>6, <1>9
        <4> QED
          BY <1>4, <4>1, <4>2, RemoveAtKeeps
      <3>5. one \in Items /\ one.id \in Nat /\ one.id \notin S
        BY <1>5, <1>6, <2>4
      <3> HIDE DEF less, one, place
      <3>6. place \in 1..(Len(less) + 1)
        BY <1>4, <3>2, <3>3
      <3>7. NextKeepsOrder(S, ItemIds(less), ItemIds(InsertAt(less, place, one)))
        BY <3>3, <3>4, <3>5, <3>6, LongerOrder
      <3> QED
        BY <2>2, <3>1, <3>7 DEF NextKeepsOrder, ids
    <2> QED
      BY <1>9, <2>3, <2>4
  <1> QED
    BY <1>5, <1>8, <1>9 DEF AddsItem

LEMMA OwnerOrder ==
    ASSUME ContentsOK, OwnerEdits
    PROVE  \/ \E kind : /\ kind = "move"
                        /\ history' = [history EXCEPT !.sinceBase = @ \cup {kind},
                                                      !.sinceRead = @ \cup {kind}]
           \/ NextKeepsOrder(OldItems, ItemIds(youtube), ItemIds(youtube'))
  <1>1. nextItem \in Nat \ {0} /\ Known(youtube, nextItem)
    BY DEF ContentsOK
  <1>2. /\ youtube \in Seq(Items) /\ Len(youtube) \in Nat /\ DOMAIN youtube = 1..Len(youtube)
        /\ ItemIds(youtube) \in Seq(Nat)
    BY <1>1, KnownIds
  <1>3. ASSUME NEW video \in OwnerVideos, NEW place \in 1..(Len(youtube) + 1),
               OwnerAdds(video, place)
        PROVE  NextKeepsOrder(OldItems, ItemIds(youtube), ItemIds(youtube'))
    <2> DEFINE new == [id |-> nextItem, video |-> video]
    <2>1. video \in Videos
      BY PlaylistSyncAssumption
    <2>2. new \in Items /\ new.id \in Nat /\ new.id \notin OldItems
      BY <1>1, <2>1 DEF Items, OldItems
    <2>3. youtube' = InsertAt(youtube, place, new)
      BY <1>3 DEF OwnerAdds
    <2> HIDE DEF new
    <2>4. NextKeepsOrder(OldItems, ItemIds(youtube), ItemIds(InsertAt(youtube, place, new)))
      BY <1>2, <2>2, LongerOrder
    <2> QED
      BY <2>3, <2>4
  <1>4. ASSUME NEW place \in DOMAIN youtube, OwnerRemoves(place)
        PROVE  NextKeepsOrder(OldItems, ItemIds(youtube), ItemIds(youtube'))
    <2>1. youtube' = RemoveAt(youtube, place)
      BY <1>4 DEF OwnerRemoves
    <2>2. NextKeepsOrder(OldItems, ItemIds(youtube), ItemIds(RemoveAt(youtube, place)))
      BY <1>2, ShorterOrder
    <2> QED
      BY <2>1, <2>2
  <1>5. CASE OwnerSorts \/ \E from, to \in DOMAIN youtube : OwnerMoves(from, to)
    BY <1>5 DEF OwnerSorts, OwnerMoves, Owner
  <1> QED
    BY <1>3, <1>4, <1>5 DEF OwnerEdits

-----------------------------------------------------------------------------
(* The base is in YouTube's order, but for what a write placed or may have  *)
(* moved, and so is a read that is to be merged: until the owner moves      *)
(* something.                                                               *)
MayHaveLanded ==
    IF \/ worker.pc = "send"
       \/ worker.pc = "settle" /\ worker.outcome \notin {"applied", "unanswered"}
    THEN NoWrite ELSE unanswered

BaseInOrder ==
    stored /\ "move" \notin history.sinceBase =>
        \A content \in older \cup {youtube} :
            SameOrder(PlacedByYouTube(base, MayHaveLanded), ItemIds(base), ItemIds(content))

ReadInOrder ==
    worker.pc \in {"confirm", "merge"} /\ "move" \notin history.sinceRead =>
        \A content \in older \cup {youtube} :
            SameOrder(IdsOf(worker.read), ItemIds(worker.read), ItemIds(content))

BaseAsRead ==
    worker.pc \in {"confirm", "merge"} /\ "move" \notin history.sinceBase =>
        SameOrder(PlacedByYouTube(base, unanswered), ItemIds(base), ItemIds(worker.read))

HeldOnce == IsInjective(ItemIds(base))

(* A read outside a write's lag shows one content at the most.              *)
OneContent == ~recent => \E content : older \subseteq {content}

OrderInv ==
    /\ BaseInOrder /\ ReadInOrder /\ BaseAsRead /\ HeldOnce /\ OneContent /\ AllAnswered

(* The steps that leave the base alone, and YouTube's order but for a move. *)
OrderStays ==
    /\ base' = base /\ (stored' => stored)
    /\ history.sinceBase \subseteq history'.sinceBase
    /\ history.sinceRead \subseteq history'.sinceRead
    /\ \/ "move" \in history'.sinceBase /\ "move" \in history'.sinceRead
       \/ \A now \in older' \cup {youtube'} : \E content \in older \cup {youtube} :
                NextKeepsOrder(OldItems, ItemIds(content), ItemIds(now))
    /\ \/ unanswered' = unanswered /\ (worker' = worker \/ worker' = Idle)
       \/ /\ unanswered' = NoWrite /\ worker' = Idle
          /\ worker.pc = "settle" /\ worker.outcome \notin {"applied", "unanswered"}

LEMMA OrderStaysKept ==
    ASSUME OrderInv, SyncInv, OrderStays
    PROVE  BaseInOrder' /\ ReadInOrder' /\ BaseAsRead' /\ HeldOnce' /\ AllAnswered'
  <1> USE DEF OrderInv, OrderStays
  <1>1. base \in Seq(BaseItem) /\ IdsOf(base) \subseteq OldItems
    BY DEF SyncInv, StoreOK, OldItems
  <1>2. PlacedByYouTube(base, MayHaveLanded') \subseteq PlacedByYouTube(base, MayHaveLanded)
    <2>1. CASE unanswered' = unanswered /\ worker' = worker
      BY <2>1 DEF MayHaveLanded
    <2>2. CASE unanswered' = unanswered /\ worker' = Idle
      <3>1. MayHaveLanded' = unanswered
        BY <2>2 DEF MayHaveLanded, Idle
      <3>2. MayHaveLanded = unanswered \/ MayHaveLanded = NoWrite
        BY DEF MayHaveLanded
      <3> QED
        BY <1>1, <3>1, <3>2, PlacedByRange
    <2>3. CASE /\ unanswered' = NoWrite /\ worker' = Idle
               /\ worker.pc = "settle" /\ worker.outcome \notin {"applied", "unanswered"}
      <3>1. MayHaveLanded' = NoWrite /\ MayHaveLanded = NoWrite
        BY <2>3 DEF MayHaveLanded, Idle
      <3> QED
        BY <3>1
    <2> QED
      BY <2>1, <2>2, <2>3
  <1>3. PlacedByYouTube(base, MayHaveLanded') \subseteq OldItems
    BY <1>1, <1>2, PlacedByRange
  <1>4. BaseInOrder'
    <2> SUFFICES ASSUME stored', "move" \notin history'.sinceBase,
                        NEW now \in older' \cup {youtube'}
                 PROVE  SameOrder(PlacedByYouTube(base, MayHaveLanded'), ItemIds(base), ItemIds(now))
      BY DEF BaseInOrder
    <2>1. PICK content \in older \cup {youtube} :
                NextKeepsOrder(OldItems, ItemIds(content), ItemIds(now))
      OBVIOUS
    <2>2. SameOrder(PlacedByYouTube(base, MayHaveLanded), ItemIds(base), ItemIds(content))
      BY DEF BaseInOrder
    <2> QED
      BY <1>2, <1>3, <2>1, <2>2 DEF SameOrder, NextKeepsOrder
  <1>5. ReadInOrder'
    <2> SUFFICES ASSUME worker'.pc \in {"confirm", "merge"}, "move" \notin history'.sinceRead,
                        NEW now \in older' \cup {youtube'}
                 PROVE  SameOrder(IdsOf(worker'.read), ItemIds(worker'.read), ItemIds(now))
      BY DEF ReadInOrder
    <2>1. worker' = worker
      BY DEF Idle
    <2>2. PICK content \in older \cup {youtube} :
                NextKeepsOrder(OldItems, ItemIds(content), ItemIds(now))
      OBVIOUS
    <2>3. SameOrder(IdsOf(worker.read), ItemIds(worker.read), ItemIds(content))
      BY <2>1 DEF ReadInOrder
    <2>4. IdsOf(worker.read) \subseteq OldItems
      BY <2>1 DEF SyncInv, WorkOK, Known, OldItems
    <2> QED
      BY <2>1, <2>2, <2>3, <2>4 DEF SameOrder, NextKeepsOrder
  <1>6. BaseAsRead'
    <2> SUFFICES ASSUME worker'.pc \in {"confirm", "merge"}, "move" \notin history'.sinceBase
                 PROVE  SameOrder(PlacedByYouTube(base, unanswered'), ItemIds(base),
                                  ItemIds(worker'.read))
      BY DEF BaseAsRead
    <2>1. worker' = worker /\ unanswered' = unanswered
      BY DEF Idle
    <2> QED
      BY <2>1 DEF BaseAsRead
  <1>7. HeldOnce' /\ AllAnswered'
    BY DEF HeldOnce, AllAnswered, Idle
  <1> QED
    BY <1>4, <1>5, <1>6, <1>7

LEMMA ReadingOrder ==
    ASSUME OrderInv, SyncInv, TakeUp \/ TakeUpMissing
    PROVE  OrderInv'
  <1> USE DEF OrderInv
  <1>1. /\ UNCHANGED <<youtube, live, older, stored, base, unanswered, recent>>
        /\ worker.pc = "idle" /\ ~recent /\ stored
        /\ history' = [history EXCEPT !.sinceRead = {}]
    BY DEF TakeUp, TakeUpMissing, Reading, TakesUp, ItemWritesSince, youtubeVars, storeVars
  <1>2. PICK content \in Readable :
            Reading(content) \/ \E place \in DOMAIN content : Reading(RemoveAt(content, place))
    BY DEF TakeUp, TakeUpMissing
  <1>3. Known(content, nextItem)
    BY DEF SyncInv, ContentsOK, Readable
  <1>4. /\ content \in Seq(Items) /\ DOMAIN content = 1..Len(content)
        /\ ItemIds(content) \in Seq(Nat) /\ IsInjective(ItemIds(content))
    BY <1>3, KnownIds
  <1>5. /\ worker'.pc = "confirm"
        /\ \/ worker'.read = content
           \/ \E place \in 1..Len(content) : worker'.read = RemoveAt(content, place)
    <2>1. ASSUME NEW read, Reading(read)
          PROVE  worker'.pc = "confirm" /\ worker'.read = read
      BY <2>1 DEF Reading, Idle
    <2>2. CASE Reading(content)
      BY <2>1, <2>2
    <2>3. CASE \E place \in DOMAIN content : Reading(RemoveAt(content, place))
      BY <1>4, <2>1, <2>3
    <2> QED
      BY <1>2, <2>2, <2>3
  <1>6. \A S : NextKeepsOrder(S, ItemIds(content), ItemIds(worker'.read))
    <2>1. CASE worker'.read = content
      BY <2>1 DEF NextKeepsOrder
    <2>2. CASE \E place \in 1..Len(content) : worker'.read = RemoveAt(content, place)
      BY <1>4, <2>2, ShorterOrder
    <2> QED
      BY <1>5, <2>1, <2>2
  <1>7. \A other \in older \cup {youtube} : other = content \/ other = <<>>
    <2>1. CASE live
      BY <1>1, <2>1 DEF SyncInv, ConfirmedOK, Readable
    <2>2. CASE ~live
      <3>1. youtube = <<>> /\ content \in older
        BY <2>2 DEF SyncInv, ContentsOK, Readable
      <3> QED
        BY <1>1, <3>1 DEF OneContent
    <2> QED
      BY <2>1, <2>2
  <1>8. history'.sinceBase = history.sinceBase
    BY <1>1 DEF SyncInv, HistoryOK
  <1>9. BaseInOrder'
    <2>1. MayHaveLanded' = MayHaveLanded
      BY <1>1, <1>5 DEF MayHaveLanded
    <2> QED
      BY <1>1, <1>8, <2>1 DEF BaseInOrder
  <1>10. ReadInOrder'
    <2> DEFINE S == IdsOf(worker'.read)
    <2>1. ASSUME NEW other \in older \cup {youtube}
          PROVE  SameOrder(S, ItemIds(worker'.read), ItemIds(other))
      <3>1. CASE other = content
        <4>1. SameOrder(S, ItemIds(content), ItemIds(content))
          BY <1>4, OwnOrder
        <4> QED
          BY <1>6, <3>1, <4>1 DEF SameOrder, NextKeepsOrder
      <3>2. CASE other = <<>>
        <4>1. \A x, y : ~Before(ItemIds(<<>>), x, y)
          BY DEF Before, ItemIds
        <4> QED
          BY <3>2, <4>1 DEF SameOrder
      <3> QED
        BY <1>7, <3>1, <3>2
    <2> QED
      BY <1>1, <2>1 DEF ReadInOrder
  <1>11. BaseAsRead'
    <2> SUFFICES ASSUME "move" \notin history.sinceBase
                 PROVE  SameOrder(PlacedByYouTube(base, unanswered), ItemIds(base),
                                  ItemIds(worker'.read))
      BY <1>1, <1>8 DEF BaseAsRead
    <2>1. MayHaveLanded = unanswered
      BY <1>1 DEF MayHaveLanded
    <2>2. content \in older \cup {youtube}
      BY DEF Readable
    <2>3. SameOrder(PlacedByYouTube(base, unanswered), ItemIds(base), ItemIds(content))
      BY <1>1, <2>1, <2>2 DEF BaseInOrder
    <2> QED
      BY <1>6, <2>3 DEF SameOrder, NextKeepsOrder
  <1>12. HeldOnce' /\ OneContent' /\ AllAnswered'
    BY <1>1, <1>5 DEF HeldOnce, OneContent, AllAnswered
  <1> QED
    BY <1>9, <1>10, <1>11, <1>12

LEMMA ConfirmingOrder ==
    ASSUME OrderInv, IInv, ConfirmAbsences
    PROVE  OrderInv'
  <1> USE DEF OrderInv
  <1>1. /\ UNCHANGED <<youtube, older, stored, base, unanswered, recent, history>>
        /\ worker.pc = "confirm"
        /\ worker' = Idle \/ worker' = [worker EXCEPT !.pc = "merge"]
    BY DEF ConfirmAbsences, youtubeVars, storeVars
  <1>2. \/ worker'.pc = "idle"
        \/ worker'.pc = "merge" /\ worker'.read = worker.read
    BY <1>1 DEF Idle, IInv, WorkerOK
  <1>3. MayHaveLanded' = MayHaveLanded
    BY <1>1, <1>2 DEF MayHaveLanded
  <1>4. BaseInOrder' /\ HeldOnce' /\ OneContent' /\ AllAnswered'
    BY <1>1, <1>2, <1>3 DEF BaseInOrder, HeldOnce, OneContent, AllAnswered
  <1>5. ReadInOrder' /\ BaseAsRead'
    BY <1>1, <1>2 DEF ReadInOrder, BaseAsRead
  <1> QED
    BY <1>4, <1>5

LEMMA MergingOrder ==
    ASSUME OrderInv, SyncInv, MergeInto
    PROVE  OrderInv'
  <1> USE DEF OrderInv
  <1>1. /\ UNCHANGED <<youtube, older, stored, recent>> /\ worker.pc = "merge"
        /\ base' = Unplaced(worker.read) /\ worker'.pc = "push" /\ unanswered' = NoWrite
    BY DEF MergeInto, youtubeVars, Idle
  <1>2. history'.sinceBase = history.sinceRead
    BY DEF MergeInto, SyncInv, HistoryOK
  <1>3. Known(worker.read, nextItem)
    BY <1>1 DEF SyncInv, WorkOK
  <1>4. ItemIds(base') = ItemIds(worker.read) /\ IsInjective(ItemIds(worker.read))
    BY <1>1, <1>3, IdsUnplaced, KnownIds
  <1>5. base' \in Seq(BaseItem) /\ IdsOf(base') = IdsOf(worker.read)
    BY <1>1, <1>3, UnplacedKeeps DEF Known
  <1>6. \A w : PlacedByYouTube(base', w) \subseteq IdsOf(worker.read)
    BY <1>5, PlacedByRange
  <1>7. BaseInOrder'
    <2> SUFFICES ASSUME "move" \notin history.sinceRead, NEW content \in older \cup {youtube}
                 PROVE  SameOrder(PlacedByYouTube(base', MayHaveLanded'), ItemIds(base'),
                                  ItemIds(content))
      BY <1>1, <1>2 DEF BaseInOrder
    <2>1. SameOrder(IdsOf(worker.read), ItemIds(worker.read), ItemIds(content))
      BY <1>1 DEF ReadInOrder
    <2> QED
      BY <1>4, <1>6, <2>1 DEF SameOrder
  <1>8. ReadInOrder' /\ BaseAsRead'
    BY <1>1 DEF ReadInOrder, BaseAsRead
  <1>9. HeldOnce' /\ OneContent' /\ AllAnswered'
    BY <1>1, <1>4 DEF HeldOnce, OneContent, AllAnswered
  <1> QED
    BY <1>7, <1>8, <1>9

LEMMA BeginningOrder ==
    ASSUME OrderInv, IInv, BeginWrite
    PROVE  OrderInv'
  <1> USE DEF OrderInv
  <1>1. /\ UNCHANGED <<youtube, older, stored, base, history>> /\ recent' = TRUE
        /\ worker.pc = "push" /\ stored /\ worker'.pc = "send"
    BY DEF BeginWrite, PushGoesOn, youtubeVars, IInv, WorkerOK, Idle
  <1>2. MayHaveLanded = NoWrite /\ MayHaveLanded' = NoWrite
    BY <1>1 DEF AllAnswered, MayHaveLanded
  <1>3. BaseInOrder'
    BY <1>1, <1>2 DEF BaseInOrder
  <1>4. ReadInOrder' /\ BaseAsRead' /\ HeldOnce' /\ OneContent' /\ AllAnswered'
    BY <1>1 DEF ReadInOrder, BaseAsRead, HeldOnce, OneContent, AllAnswered
  <1> QED
    BY <1>3, <1>4

LEMMA RecordedItem ==
    ASSUME NEW w \in WritesOf(Videos), NEW held
    PROVE  PlacedByYouTube(held, Recorded(w)) = PlacedByYouTube(held, w)
  <1>1. Recorded(w).kind = w.kind /\ Recorded(w).item = w.item
    BY DEF WritesOf, Recorded
  <1> QED
    BY <1>1 DEF PlacedByYouTube

LEMMA AnsweringOrder ==
    ASSUME OrderInv, SyncInv, IInv, NEW outcome, NEW made, Answers(outcome, made)
    PROVE  OrderInv'
  <1> USE DEF OrderInv
  <1>1. /\ UNCHANGED <<stored, base, unanswered, recent>> /\ worker.pc = "send"
        /\ worker' = [worker EXCEPT !.pc = "settle", !.outcome = outcome, !.made = made]
    BY DEF Answers, storeVars, Answered
  <1>2. worker'.pc = "settle" /\ worker'.outcome = outcome
    BY <1>1 DEF IInv, WorkerOK, Idle
  <1>3. Sent \in WritesOf(Videos)
    BY <1>1, HeadAndTail DEF SyncInv, WorkOK, Sent
  <1>4. base \in Seq(BaseItem) /\ IdsOf(base) \subseteq OldItems
    BY DEF SyncInv, StoreOK, OldItems
  <1>5. MayHaveLanded = NoWrite
    BY <1>1 DEF MayHaveLanded
  <1>6. MayHaveLanded' = NoWrite \/ MayHaveLanded' = unanswered
    BY <1>1 DEF MayHaveLanded
  <1>7. PlacedByYouTube(base, MayHaveLanded') \subseteq PlacedByYouTube(base, NoWrite)
    BY <1>4, <1>6, PlacedByRange
  <1>8. ReadInOrder' /\ BaseAsRead' /\ HeldOnce' /\ AllAnswered'
    BY <1>1, <1>2 DEF ReadInOrder, BaseAsRead, HeldOnce, AllAnswered
  <1>9. CASE UNCHANGED <<youtube, youtubeSort, live, older, nextItem, history>>
    <2>1. BaseInOrder'
      BY <1>1, <1>5, <1>7, <1>9 DEF BaseInOrder, SameOrder
    <2>2. OneContent'
      BY <1>1, <1>9 DEF OneContent
    <2> QED
      BY <1>8, <2>1, <2>2
  <1>10. CASE Lands /\ outcome \in {"applied", "unanswered"}
    <2>1. /\ stored /\ older' = older \cup {youtube}
          /\ history' = IF AddsItem(Sent)
                        THEN [history EXCEPT !.made =
                                @ \cup {[entry |-> Sent.entry, item |-> nextItem]}]
                        ELSE history
      BY <1>1, <1>10, LandsLeaves
    <2>2. history'.sinceBase = history.sinceBase
      BY <2>1 DEF SyncInv, HistoryOK
    <2>3. recent /\ unanswered = Recorded(Sent)
      BY <1>1, <2>1 DEF IInv, WorkerOK, WriteOnRecord, Sent
    <2>4. MayHaveLanded' = unanswered
      BY <1>1, <1>2, <1>10 DEF MayHaveLanded
    <2> DEFINE S == PlacedByYouTube(base, unanswered)
    <2>5. /\ S = PlacedByYouTube(base, Sent) /\ S \subseteq OldItems
          /\ S \subseteq PlacedByYouTube(base, NoWrite)
      BY <1>3, <1>4, <2>3, RecordedItem, PlacedByRange
    <2>6. Sent.kind = "move" => Sent.item \notin S
      BY <1>4, <2>5, PlacedByRange
    <2> HIDE DEF S
    <2>7. NextKeepsOrder(S, ItemIds(youtube), ItemIds(youtube'))
      BY <1>1, <1>10, <2>5, <2>6, LandsOrder
    <2>8. BaseInOrder'
      <3> SUFFICES ASSUME "move" \notin history.sinceBase,
                          NEW now \in older \cup {youtube} \cup {youtube'}
                   PROVE  SameOrder(S, ItemIds(base), ItemIds(now))
        BY <1>1, <2>1, <2>2, <2>4 DEF BaseInOrder, S
      <3>1. \A content \in older \cup {youtube} :
                SameOrder(S, ItemIds(base), ItemIds(content))
        BY <1>5, <2>1, <2>5 DEF BaseInOrder, SameOrder
      <3> QED
        BY <2>7, <3>1 DEF SameOrder, NextKeepsOrder
    <2>9. OneContent'
      BY <1>1, <2>3 DEF OneContent
    <2> QED
      BY <1>8, <2>8, <2>9
  <1> QED
    BY <1>9, <1>10 DEF Answers

LEMMA SettlingOrder ==
    ASSUME OrderInv, SyncInv, IInv, SettleDone
    PROVE  OrderInv'
  <1> USE DEF OrderInv
  <1> DEFINE w == Sent
             made == worker.made
  <1>1. /\ UNCHANGED <<youtube, older, stored, history>> /\ recent' = TRUE
        /\ stored /\ Did /\ worker.pc = "settle" /\ worker' = NextWrite
        /\ base' = NextBase /\ unanswered' = NoWrite
    BY DEF SettleDone, Settling, youtubeVars, Unanswered, Did
  <1>2. /\ worker.base = base /\ Pushable(base, entries, history, worker.writes)
    BY <1>1 DEF SyncInv, PushOK
  <1>3. /\ worker.writes \in Seq(WritesOf(Videos)) /\ worker.writes # <<>>
    BY <1>1 DEF SyncInv, WorkOK
  <1>4. w \in WritesOf(Videos) /\ w = worker.writes[1] /\ 1 \in DOMAIN worker.writes
    BY <1>3, HeadAndTail DEF Sent
  <1>5. /\ made # NoItem <=> worker.outcome = "applied" /\ AddsItem(w)
        /\ made # NoItem => made \in 1..(nextItem - 1) /\ made \notin IdsOf(base)
    BY <1>1 DEF SyncInv, AnswerOK
  <1>6. made \in Nat /\ (AddsItem(w) => made # NoItem /\ made \notin IdsOf(base))
    <2>1. AddsItem(w) => made # NoItem
      BY <1>1, <1>5 DEF Did, AddsItem
    <2>2. made \in Nat
      BY <1>5 DEF NoItem
    <2> QED
      BY <1>5, <2>1, <2>2
  <1>7. base \in Seq(BaseItem) /\ IsInjective(ItemIds(base))
    BY DEF SyncInv, StoreOK, HeldOnce
  <1>8. PICK next : WriteFits(w, Len(base), next)
    BY <1>2, <1>4 DEF Pushable, Fits, SizesFit
  <1>9. AskedFor(base, entries, history, w)
    BY <1>2, <1>4 DEF Pushable
  <1>10. w.kind \in {"delete", "move"} => w.item \in IdsOf(base)
    BY <1>9 DEF AskedFor, AddsItem
  <1>11. base' = Applied(base, w, made)
    BY <1>1, <1>2 DEF NextBase
  <1>12. unanswered = Recorded(w)
    BY <1>1 DEF IInv, WorkerOK, WriteOnRecord, Sent
  <1>13. worker'.pc = "push"
    BY <1>1, SettledWorker
  <1>14. w.kind = "move" => worker.outcome = "applied"
    BY <1>1 DEF Did
  <1> HIDE DEF w, made
  <1> DEFINE new == Applied(base, w, made)
             S == PlacedByYouTube(base, w)
  <1>15. /\ IsInjective(ItemIds(new)) /\ PlacedByYouTube(new, NoWrite) \subseteq S
         /\ NextKeepsOrder(S, ItemIds(base), ItemIds(new))
    BY <1>4, <1>6, <1>7, <1>8, <1>10, AppliedOrder
  <1>16. S = PlacedByYouTube(base, MayHaveLanded)
    <2>1. CASE w.kind = "move"
      <3>1. MayHaveLanded = unanswered
        BY <1>1, <1>14, <2>1 DEF MayHaveLanded
      <3> QED
        BY <1>4, <1>12, <3>1, RecordedItem
    <2>2. CASE w.kind # "move"
      <3>1. MayHaveLanded = unanswered \/ MayHaveLanded = NoWrite
        BY DEF MayHaveLanded
      <3>2. S = PlacedByYouTube(base, NoWrite)
        BY <2>2 DEF PlacedByYouTube, NoWrite, Write
      <3>3. S = PlacedByYouTube(base, unanswered)
        BY <1>4, <1>12, RecordedItem
      <3> QED
        BY <3>1, <3>2, <3>3
    <2> QED
      BY <2>1, <2>2
  <1> HIDE DEF new, S
  <1>17. BaseInOrder'
    <2>1. MayHaveLanded' = NoWrite
      BY <1>1, <1>13 DEF MayHaveLanded
    <2> SUFFICES ASSUME "move" \notin history.sinceBase, NEW content \in older \cup {youtube}
                 PROVE  SameOrder(PlacedByYouTube(new, NoWrite), ItemIds(new), ItemIds(content))
      BY <1>1, <1>11, <2>1 DEF BaseInOrder, new
    <2>2. SameOrder(S, ItemIds(base), ItemIds(content))
      BY <1>1, <1>16 DEF BaseInOrder
    <2> QED
      BY <1>15, <2>2 DEF SameOrder, NextKeepsOrder
  <1>18. ReadInOrder' /\ BaseAsRead' /\ OneContent' /\ AllAnswered'
    BY <1>1, <1>13 DEF ReadInOrder, BaseAsRead, OneContent, AllAnswered
  <1>19. HeldOnce'
    BY <1>11, <1>15 DEF HeldOnce, new
  <1> QED
    BY <1>17, <1>18, <1>19

LEMMA OrderInvKept ==
    ASSUME OrderInv, SyncInv, IInv, [Next]_vars
    PROVE  OrderInv'
  <1> USE DEF OrderInv
  <1>1. CASE Rests
    <2>1. OrderStays
      BY <1>1 DEF Rests, OrderStays, NextKeepsOrder
    <2>2. OneContent'
      BY <1>1 DEF Rests, OneContent
    <2> QED
      BY <2>1, <2>2, OrderStaysKept
  <1>2. CASE LagPasses
    <2>1. OrderStays
      BY <1>2 DEF LagPasses, OrderStays, NextKeepsOrder
    <2>2. OneContent'
      BY <1>2 DEF LagPasses, OneContent
    <2> QED
      BY <2>1, <2>2, OrderStaysKept
  <1>3. CASE DeleteOnYouTube
    <2>1. /\ youtube' = <<>> /\ older' = older \cup {youtube} /\ live
          /\ UNCHANGED <<stored, base, recent, unanswered, worker, history>>
      BY <1>3 DEF DeleteOnYouTube, storeVars
    <2>2. \A content : NextKeepsOrder(OldItems, ItemIds(content), ItemIds(<<>>))
      BY DEF NextKeepsOrder, Before, ItemIds
    <2>3. OrderStays
      BY <2>1, <2>2 DEF OrderStays, NextKeepsOrder
    <2>4. OneContent'
      BY <2>1 DEF OneContent, SyncInv, ConfirmedOK
    <2> QED
      BY <2>3, <2>4, OrderStaysKept
  <1>4. CASE DeleteStored \/ TakeUpGone
    <2>1. /\ UNCHANGED <<youtube, older, base, recent, unanswered, worker, history>>
          /\ stored' = FALSE /\ stored
      BY <1>4 DEF DeleteStored, TakeUpGone, TakesUp, youtubeVars
    <2>2. OrderStays
      BY <2>1 DEF OrderStays, NextKeepsOrder
    <2>3. OneContent'
      BY <2>1 DEF OneContent
    <2> QED
      BY <2>2, <2>3, OrderStaysKept
  <1>5. CASE OwnerEdits
    <2>1. /\ UNCHANGED <<older, stored, base, recent, unanswered, worker>>
          /\ \E kind : history' = [history EXCEPT !.sinceBase = @ \cup {kind},
                                                  !.sinceRead = @ \cup {kind}]
      BY <1>5 DEF OwnerEdits, OwnerAdds, OwnerRemoves, OwnerMoves, OwnerSorts, Owner, storeVars
    <2>2. /\ history.sinceBase \subseteq history'.sinceBase
          /\ history.sinceRead \subseteq history'.sinceRead
      BY <2>1 DEF SyncInv, HistoryOK
    <2>3. \/ "move" \in history'.sinceBase /\ "move" \in history'.sinceRead
          \/ NextKeepsOrder(OldItems, ItemIds(youtube), ItemIds(youtube'))
      <3>1. (\E kind : /\ kind = "move"
                       /\ history' = [history EXCEPT !.sinceBase = @ \cup {kind},
                                                     !.sinceRead = @ \cup {kind}])
                => "move" \in history'.sinceBase /\ "move" \in history'.sinceRead
        BY DEF SyncInv, HistoryOK
      <3> QED
        BY <1>5, <3>1, OwnerOrder DEF SyncInv
    <2>4. OrderStays
      BY <2>1, <2>2, <2>3 DEF OrderStays, NextKeepsOrder
    <2>5. OneContent'
      BY <2>1 DEF OneContent
    <2> QED
      BY <2>4, <2>5, OrderStaysKept
  <1>6. CASE TakeUp \/ TakeUpMissing
    BY <1>6, ReadingOrder
  <1>7. CASE ConfirmAbsences
    BY <1>7, ConfirmingOrder
  <1>8. CASE MergeInto
    BY <1>8, MergingOrder
  <1>9. CASE BeginWrite
    BY <1>9, BeginningOrder
  <1>10. ASSUME NEW outcome, NEW made, Answers(outcome, made)
         PROVE  OrderInv'
    BY <1>10, AnsweringOrder
  <1>11. CASE SettleDone
    BY <1>11, SettlingOrder
  <1>12. CASE SettleVideoRefused
    <2>1. /\ UNCHANGED <<youtube, older, stored, base>> /\ recent' = TRUE
          /\ worker' = Idle /\ unanswered' = NoWrite
          /\ worker.pc = "settle" /\ worker.outcome = "video_refused"
      BY <1>12 DEF SettleVideoRefused, Settling, Unanswered, youtubeVars
    <2>2. history'.sinceBase = history.sinceBase /\ history'.sinceRead = history.sinceRead
      BY <1>12 DEF SettleVideoRefused, SyncInv, HistoryOK
    <2>3. OrderStays
      BY <2>1, <2>2 DEF OrderStays, NextKeepsOrder
    <2>4. OneContent'
      BY <2>1 DEF OneContent
    <2> QED
      BY <2>3, <2>4, OrderStaysKept
  <1>13. CASE SettleGone
    <2>1. /\ UNCHANGED <<older, stored, base, recent>> /\ ~stored
          /\ worker' = NextWrite \/ worker' = Idle
      BY <1>13 DEF SettleGone, youtubeVars
    <2>2. NextWrite.pc = "push" /\ Idle.pc = "idle"
      BY DEF NextWrite, IInv, WorkerOK, Idle
    <2>3. worker'.pc \notin {"confirm", "merge"}
      BY <2>1, <2>2
    <2> QED
      BY <2>1, <2>3 DEF BaseInOrder, ReadInOrder, BaseAsRead, HeldOnce, OneContent, AllAnswered
  <1>14. ASSUME NEW c \in Clients, NEW videos \in Orders, NEW any \in BOOLEAN,
                ReplaceItems(c, videos, any)
         PROVE  OrderInv'
    <2>1. UNCHANGED <<youtube, older, stored, base, recent, worker, unanswered>>
      BY <1>14 DEF ReplaceItems, youtubeVars
    <2>2. history'.sinceBase = history.sinceBase /\ history'.sinceRead = history.sinceRead
      BY <1>14 DEF ReplaceItems, SyncInv, HistoryOK
    <2>3. OrderStays
      BY <2>1, <2>2 DEF OrderStays, NextKeepsOrder
    <2>4. OneContent'
      BY <2>1 DEF OneContent
    <2> QED
      BY <2>3, <2>4, OrderStaysKept
  <1> QED
    BY <1>1, <1>2, <1>3, <1>4, <1>5, <1>6, <1>7, <1>8, <1>9, <1>10, <1>11, <1>12, <1>13,
       <1>14, StepsOf

LEMMA OrderInvInit ==
    ASSUME Init
    PROVE  OrderInv
  <1>1. SyncInv
    BY SyncInvInit
  <1>2. /\ worker.pc = "idle" /\ base = Unplaced(youtube) /\ older = {} /\ unanswered = NoWrite
    BY DEF Init, Idle
  <1>3. Known(youtube, nextItem)
    BY <1>1 DEF SyncInv, ContentsOK
  <1>4. ItemIds(base) = ItemIds(youtube)
    BY <1>2, IdsUnplaced
  <1>5. ItemIds(youtube) \in Seq(Nat) /\ IsInjective(ItemIds(youtube))
    BY <1>3, KnownIds
  <1>6. \A S : SameOrder(S, ItemIds(youtube), ItemIds(youtube))
    BY <1>5, OwnOrder
  <1>7. BaseInOrder
    BY <1>2, <1>4, <1>6 DEF BaseInOrder
  <1> QED
    BY <1>2, <1>4, <1>5, <1>7
       DEF OrderInv, ReadInOrder, BaseAsRead, HeldOnce, OneContent, AllAnswered

(* The merge of a base in the read's order is the server's order, but for   *)
(* what it drops and adds.                                                  *)
LEMMA MergeInOrder ==
    ASSUME OrderInv, SyncInv, MergeInto, sort = Manual, "move" \notin history.sinceBase
    PROVE  NextKeepsOrder(IdsOf(entries), ItemIds(entries), ItemIds(entries'))
  <1> DEFINE shared == PlacedByYouTube(base, unanswered) \cap IdsOf(worker.read)
             new == MergeResult.entries
  <1>1. /\ worker.pc = "merge" /\ entries' = Numbered(new)
    BY DEF MergeInto, ReplaceOrder
  <1>2. /\ worker.read \in ItemsOf(Videos) /\ worker.read \in Seq(Items)
        /\ ItemIds(worker.read) \in Seq(Nat) /\ IsInjective(ItemIds(worker.read))
        /\ Range(ItemIds(worker.read)) = IdsOf(worker.read)
    BY <1>1, KnownIds DEF SyncInv, WorkOK, Known
  <1>3. /\ base \in Seq(BaseItem) /\ ItemIds(base) \in Seq(Nat)
        /\ Range(ItemIds(base)) = IdsOf(base) /\ NoItem \notin IdsOf(base)
    BY BaseByRange DEF SyncInv, StoreOK, NoItem
  <1>4. ~Reordered(base, worker.read, unanswered)
    <2>1. SameOrder(PlacedByYouTube(base, unanswered), ItemIds(base), ItemIds(worker.read))
      BY <1>1 DEF OrderInv, BaseAsRead
    <2>2. shared \subseteq IdsOf(base) /\ shared \subseteq IdsOf(worker.read)
      BY <1>3, PlacedByRange
    <2>3. SameOrder(shared, ItemIds(base), ItemIds(worker.read))
      BY <2>1 DEF SameOrder
    <2>4. IsInjective(ItemIds(base))
      BY DEF OrderInv, HeldOnce
    <2> HIDE DEF shared
    <2>5. Only(ItemIds(base), shared) = Only(ItemIds(worker.read), shared)
      BY SMTT(30), <1>2, <1>3, <2>2, <2>3, <2>4, OnlySame
    <2> QED
      BY <2>5 DEF Reordered, shared
  <1>5. /\ entries \in OrdersOf(Videos) /\ Distinct(entries) /\ nextEntry \in Nat \ {0}
        /\ IdsOf(entries) \subseteq 1..(nextEntry - 1)
    BY DEF SyncInv, StoreOK
  <1>6. NewEntry \notin IdsOf(entries)
    BY <1>5 DEF NewEntry
  <1>7. /\ new \in OrdersOf(Videos) /\ Distinct(new)
        /\ IdsOf(new) \subseteq IdsOf(entries) \cup {NewEntry}
    BY <1>2, <1>3, <1>5, MergedKeeps DEF MergeResult
  <1>8. sort # Automatic
    BY DEF Manual, Automatic
  <1>9. \A x, y \in IdsOf(entries) \ {NewEntry} :
            Before(ItemIds(new), x, y) => Before(ItemIds(entries), x, y)
    BY <1>2, <1>4, <1>5, <1>8, MergedOrders DEF MergeResult
  <1> HIDE DEF new, shared
  <1>10. IdsOf(new) \subseteq 0..(nextEntry - 1)
    BY <1>5, <1>7 DEF NewEntry
  <1>11. /\ DOMAIN Numbered(new) = DOMAIN new
         /\ \A i \in DOMAIN new :
                /\ new[i].id # NewEntry => Numbered(new)[i].id = new[i].id
                /\ new[i].id = NewEntry => Numbered(new)[i].id \notin 0..(nextEntry - 1)
    BY <1>5, <1>7, <1>10, NumberedKeeps
  <1>12. ASSUME NEW x \in IdsOf(entries), NEW y \in IdsOf(entries), Before(ItemIds(entries'), x, y)
         PROVE  Before(ItemIds(entries), x, y)
    <2>1. PICK i \in DOMAIN new, j \in DOMAIN new :
                i < j /\ Numbered(new)[i].id = x /\ Numbered(new)[j].id = y
      BY <1>1, <1>11, <1>12 DEF Before, ItemIds
    <2>2. x \in 0..(nextEntry - 1) /\ y \in 0..(nextEntry - 1)
      BY <1>5
    <2>3. new[i].id = x /\ new[j].id = y
      BY <1>11, <2>1, <2>2
    <2>4. Before(ItemIds(new), x, y)
      BY <2>1, <2>3 DEF Before, ItemIds
    <2> QED
      BY <1>6, <1>9, <2>4
  <1> QED
    BY <1>12 DEF NextKeepsOrder

LEMMA EntryIdsOnce ==
    ASSUME NEW list \in OrdersOf(Videos), Distinct(list), NewEntry \notin IdsOf(list)
    PROVE  /\ ItemIds(list) \in Seq(Nat) /\ IsInjective(ItemIds(list))
           /\ Range(ItemIds(list)) = IdsOf(list)
  <1> DEFINE T == [id : Nat, video : Videos, item : Nat]
  <1>1. /\ list \in Seq(T) /\ DOMAIN list = 1..Len(list) /\ Len(list) \in Nat
    BY DEF OrdersOf
  <1>2. ItemIds(list) \in Seq(Nat) /\ DOMAIN ItemIds(list) = DOMAIN list
    <2> DEFINE n == Len(list)
    <2>1. \A e \in T : e.id \in Nat
      OBVIOUS
    <2>2. \A i \in 1..n : list[i].id \in Nat
      <3> HIDE DEF T
      <3> QED
        BY <1>1, <2>1
    <2>3. ItemIds(list) = [i \in 1..n |-> list[i].id] /\ n \in Nat /\ DOMAIN list = 1..n
      BY <1>1 DEF ItemIds
    <2> HIDE DEF n
    <2> QED
      BY <2>2, <2>3
  <1>3. \A i \in DOMAIN list : ItemIds(list)[i] = list[i].id /\ list[i].id # NewEntry
    BY DEF ItemIds, IdsOf
  <1>4. IsInjective(ItemIds(list))
    BY <1>2, <1>3 DEF IsInjective, Distinct
  <1>5. Range(ItemIds(list)) = IdsOf(list)
    BY <1>2, <1>3 DEF Range, IdsOf
  <1> QED
    BY <1>2, <1>4, <1>5

(* The merge takes YouTube's order of a playlist sorted by hand only after  *)
(* the owner moved something there: nothing a push added, moved or removed, *)
(* answered or not, and nothing the owner added or removed, turns two       *)
(* entries of the server's order.                                           *)
THEOREM OrderTakenOnlyAfterMoves == Spec => OrderOnlyFromOwner
  <1> DEFINE Takes == worker.pc = "merge" /\ worker'.pc = "push"
                            /\ sort = Manual /\ "move" \notin history.sinceBase =>
                        LET both == IdsOf(entries) \cap IdsOf(entries')
                        IN  Only(ItemIds(entries), both) = Only(ItemIds(entries'), both)
  <1>1. ASSUME OrderInv, SyncInv, SyncInv', [Next]_vars
        PROVE  [Takes]_vars
    <2> DEFINE both == IdsOf(entries) \cap IdsOf(entries')
               old == ItemIds(entries)
               now == ItemIds(entries')
    <2> SUFFICES ASSUME worker.pc = "merge", worker'.pc = "push",
                        sort = Manual, "move" \notin history.sinceBase
                 PROVE  Only(old, both) = Only(now, both)
      OBVIOUS
    <2>1. MergeInto
      BY <1>1, OnlyMergePushes
    <2>2. NextKeepsOrder(IdsOf(entries), old, now)
      BY <1>1, <2>1, MergeInOrder
    <2>3. /\ entries \in OrdersOf(Videos) /\ Distinct(entries) /\ NewEntry \notin IdsOf(entries)
      BY <1>1 DEF SyncInv, StoreOK, NewEntry
    <2>4. PICK list : /\ list = entries'
                      /\ list \in OrdersOf(Videos) /\ Distinct(list) /\ NewEntry \notin IdsOf(list)
      BY <1>1 DEF SyncInv, StoreOK, NewEntry
    <2>5. /\ old \in Seq(Nat) /\ IsInjective(old) /\ Range(old) = IdsOf(entries)
      BY <2>3, EntryIdsOnce
    <2>6. /\ ItemIds(list) \in Seq(Nat) /\ IsInjective(ItemIds(list))
          /\ Range(ItemIds(list)) = IdsOf(list)
      BY <2>4, EntryIdsOnce
    <2>7. /\ now \in Seq(Nat) /\ IsInjective(now) /\ Range(now) = IdsOf(entries')
      BY <2>4, <2>6
    <2>8. both \subseteq Range(old) /\ both \subseteq Range(now) /\ both \subseteq IdsOf(entries)
      BY <2>5, <2>7
    <2> HIDE DEF both, old, now
    <2>9. SameOrder(both, old, now)
      <3>1. ASSUME NEW x \in both, NEW y \in both, Before(old, x, y), Before(now, y, x)
            PROVE  FALSE
        <4>1. Before(old, y, x)
          BY <2>2, <2>8, <3>1 DEF NextKeepsOrder
        <4> QED
          BY <2>5, <3>1, <4>1, BeforeOnce
      <3> QED
        BY <3>1 DEF SameOrder
    <2> QED
      BY <2>5, <2>7, <2>8, <2>9, OnlySame
  <1>2. Init => OrderInv
    BY OrderInvInit
  <1>3. OrderInv /\ SyncInv /\ IInv /\ [Next]_vars => OrderInv'
    BY OrderInvKept
  <1> QED
    BY AlwaysSyncInv, <1>1, <1>2, <1>3, PTL DEF OrderOnlyFromOwner, Spec
=============================================================================
