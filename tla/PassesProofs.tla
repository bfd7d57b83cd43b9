---------------------------- MODULE PassesProofs ----------------------------
(***************************************************************************)
(* For any playlists and bounds: an edit in the list is never left without *)
(* what takes it, and what the API deleted is not stored again.            *)
(***************************************************************************)
EXTENDS Passes, MergeProofs

(***************************************************************************)
(* NoLostWake is not inductive: a pass may end at any job but the one it   *)
(* takes the list before, and then what was listed while the job ran has   *)
(* to have left its own signal.                                            *)
(***************************************************************************)
Signaled == pending # <<>> => wake \/ signaling # {} \/ pc = "next"

LEMMA SignaledFromInit == Init => Signaled
  BY DEF Init, Signaled

LEMMA BeginsSignaled ==
    ASSUME NEW jobs, Begins(jobs)
    PROVE  Signaled'
  BY DEF Begins, Signaled

(* The steps that change neither the list nor its signal, and do not leave  *)
(* the step that takes the list.                                            *)
LEMMA QuietSteps ==
    ASSUME Signaled, UNCHANGED <<pending, wake, signaling>>, pc # "next" \/ pc' = pc
    PROVE  Signaled'
  BY DEF Signaled

LEMMA SignaledByNext ==
    ASSUME Signaled, [Next]_vars
    PROVE  Signaled'
  <1>1. ASSUME NEW p \in Playlists, Edited(p) \/ RetryFires(p)
        PROVE  Signaled'
    BY <1>1 DEF Edited, RetryFires, ListEdited, Signaled
  <1>2. ASSUME NEW p \in Playlists, Signal(p)
        PROVE  Signaled'
    BY <1>2 DEF Signal, Signaled
  <1>3. ASSUME NEW p \in Playlists,
               \/ Commit(p) \/ DeleteOnYouTube(p) \/ DeleteStored(p)
               \/ OwnerEdits(p) \/ OwnerDeletes(p) \/ LagPasses(p) \/ DeleteShows(p)
        PROVE  Signaled'
    <2>1. UNCHANGED <<pending, wake, signaling, pc>>
      BY <1>3 DEF Commit, DeleteOnYouTube, DeleteStored, OwnerEdits, OwnerDeletes,
                  LagPasses, DeleteShows, editVars
    <2> QED
      BY <2>1, QuietSteps
  <1>4. CASE RoomChanges \/ DayPasses
    <2>1. UNCHANGED <<pending, wake, signaling, pc>>
      BY <1>4 DEF RoomChanges, DayPasses, editVars
    <2> QED
      BY <2>1, QuietSteps
  <1>5. CASE Run \/ Tick \/ Woken \/ EnrichmentRefused
    BY <1>5, BeginsSignaled DEF Run, Tick, Woken, EnrichmentRefused
  <1>6. CASE NextJob
    BY <1>6 DEF NextJob, Signaled
  <1>7. CASE List \/ QueueListed \/ ReadLengths \/ ListFails \/ QuotaRefused \/ Sync
    <2>1. pc # "next" /\ UNCHANGED <<pending, wake, signaling>>
      BY <1>7 DEF List, QueueListed, ReadLengths, ListFails, QuotaRefused, Sync,
                  SyncWaits, SyncNobody, SyncNotFound, SyncFails, SyncRead,
                  MergeDeleted, MergeDeferred, MergeFindsNoRow, MergeStored,
                  PushEnds, WriteApplied, WriteReplans, WriteStops, ReadsItems,
                  editVars
    <2> QED
      BY <2>1, QuietSteps
  <1>8. CASE Crash
    BY <1>8 DEF Crash, Signaled
  <1>9. CASE UNCHANGED vars
    BY <1>9, QuietSteps DEF vars, editVars
  <1> QED
    BY <1>1, <1>2, <1>3, <1>4, <1>5, <1>6, <1>7, <1>8, <1>9
    DEF Next, API, Owner, Time, Pass

(* An edit in the list always has what will take it: a signal in the         *)
(* channel or about to be, or a pass that has yet to take the list.  Edited   *)
(* and take run at once with the worker, and the channel holds one signal.   *)
THEOREM EditsAreSignaled == Spec => []NoLostWake
  <1>1. Signaled => NoLostWake
    BY DEF Signaled, NoLostWake
  <1> QED
    BY <1>1, SignaledFromInit, SignaledByNext, PTL DEF Spec

-----------------------------------------------------------------------------
LEMMA DeletedFromInit == Init => DeletedStaysDeleted
  BY DEF Init, DeletedStaysDeleted

(* A sync stores no playlist the API deleted.                                *)
LEMMA SyncStoresNoneDeleted ==
    ASSUME DeletedStaysDeleted, Sync
    PROVE  DeletedStaysDeleted'
  <1> USE DEF DeletedStaysDeleted
  <1>1. ASSUME NEW again, SyncEnds(again), UNCHANGED deleted
        PROVE  DeletedStaysDeleted'
    BY <1>1 DEF SyncEnds, Upserts
  <1>2. CASE SyncNobody \/ SyncFails \/ MergeDeleted \/ MergeDeferred
    BY <1>1, <1>2 DEF SyncNobody, SyncFails, MergeDeleted, MergeDeferred, deleteVars
  <1>3. CASE SyncNotFound
    <2>1. CASE Syncing \in deleted
      BY <1>1, <1>3, <2>1 DEF SyncNotFound, deleteVars
    <2>2. CASE Syncing \notin deleted
      BY <1>3, <2>2 DEF SyncNotFound, Dropped, deleteVars
    <2> QED
      BY <2>1, <2>2
  <1>4. CASE MergeStored
    BY <1>4 DEF MergeStored, Upserts, deleteVars
  <1>5. CASE \/ SyncWaits \/ SyncRead \/ MergeFindsNoRow \/ PushEnds
             \/ WriteApplied \/ WriteReplans \/ WriteStops
    BY <1>5 DEF SyncWaits, SyncRead, MergeFindsNoRow, PushEnds, WriteApplied,
                WriteReplans, WriteStops, storeVars, deleteVars
  <1> QED
    BY <1>2, <1>3, <1>4, <1>5 DEF Sync

LEMMA DeletedByNext ==
    ASSUME DeletedStaysDeleted, [Next]_vars
    PROVE  DeletedStaysDeleted'
  <1> USE DEF DeletedStaysDeleted
  <1>1. ASSUME NEW p \in Playlists, DeleteStored(p)
        PROVE  DeletedStaysDeleted'
    BY <1>1 DEF DeleteStored, Dropped
  <1>2. ASSUME NEW p \in Playlists, DeleteShows(p)
        PROVE  DeletedStaysDeleted'
    BY <1>2 DEF DeleteShows, storeVars
  <1>3. ASSUME NEW p \in Playlists,
               \/ Commit(p) \/ Edited(p) \/ Signal(p) \/ DeleteOnYouTube(p)
               \/ OwnerEdits(p) \/ OwnerDeletes(p) \/ LagPasses(p) \/ RetryFires(p)
        PROVE  DeletedStaysDeleted'
    BY <1>3 DEF Commit, Edited, Signal, DeleteOnYouTube, OwnerEdits, OwnerDeletes,
                LagPasses, RetryFires, storeVars, deleteVars
  <1>4. CASE RoomChanges \/ DayPasses \/ Crash
    BY <1>4 DEF RoomChanges, DayPasses, Crash, storeVars, deleteVars
  <1>5. CASE Run \/ Tick \/ Woken \/ EnrichmentRefused
    BY <1>5 DEF Run, Tick, Woken, EnrichmentRefused, Begins, storeVars, deleteVars
  <1>6. CASE NextJob \/ List \/ ReadLengths \/ ListFails \/ QuotaRefused
    BY <1>6 DEF NextJob, List, ReadLengths, ListFails, QuotaRefused, storeVars,
                deleteVars
  <1>7. CASE QueueListed
    BY <1>7 DEF QueueListed, deleteVars
  <1>8. CASE Sync
    BY <1>8, SyncStoresNoneDeleted
  <1>9. CASE UNCHANGED vars
    BY <1>9 DEF vars, storeVars, deleteVars
  <1> QED
    BY <1>1, <1>2, <1>3, <1>4, <1>5, <1>6, <1>7, <1>8, <1>9
    DEF Next, API, Owner, Time, Pass

(* A playlist the API deleted is not stored again while a listing or a read  *)
(* may still show it, whatever a pass has listed, queued or read of it.      *)
THEOREM DeletedPlaylistsStayDeleted == Spec => []DeletedStaysDeleted
  BY DeletedFromInit, DeletedByNext, PTL DEF Spec

-----------------------------------------------------------------------------
(***************************************************************************)
(* The order of a pass's queue.  Add's own promise is one lemma, and what   *)
(* any number of Adds keep another.                                        *)
(***************************************************************************)
Jobs ==
    [kind : {"sync"}, priority : Nat, playlist : Playlists, full : BOOLEAN]
        \cup [kind : {"probe", "lengths", "none"}, priority : Nat,
              playlist : {NoPlaylist}, full : BOOLEAN]

(* A queue in order, with one sync of a playlist and no sweep of those read. *)
Ordered(queue) ==
    \A i, j \in 1..Len(queue) : i < j =>
        /\ queue[i].priority <= queue[j].priority
        /\ queue[i].kind = "sync" => queue[i].playlist # queue[j].playlist

SweepsNone(queue, synced) ==
    \A i \in 1..Len(queue) :
        queue[i].priority = PrioritySweep => queue[i].playlist \notin synced

Queues(synced) == {q \in Seq(Jobs) : Ordered(q) /\ SweepsNone(q, synced)}

NoSyncOf(queue, p) ==
    \A i \in 1..Len(queue) : ~ (queue[i].kind = "sync" /\ queue[i].playlist = p)

LEMMA JobFacts ==
    ASSUME NEW j \in Jobs
    PROVE  /\ j.priority \in Nat
           /\ j.playlist \in Playlists <=> j.kind = "sync"
           /\ j.playlist \in Playlists \cup {NoPlaylist}
           /\ j.kind \in {"sync", "probe", "lengths", "none"}
  BY PassesAssumption DEF Jobs

(* Put before the first job behind its priority, or last.                    *)
LEMMA InsertOrdered ==
    ASSUME NEW synced, NEW rest \in Queues(synced), NEW j \in Jobs,
           NoSyncOf(rest, j.playlist),
           j.priority = PrioritySweep => j.playlist \notin synced,
           NEW at \in 1..(Len(rest) + 1),
           \A i \in 1..(at - 1) : rest[i].priority <= j.priority,
           at <= Len(rest) => rest[at].priority > j.priority
    PROVE  InsertAt(rest, at, j) \in Queues(synced)
  <1> DEFINE q == InsertAt(rest, at, j)
             Earlier(k) == IF k < at THEN k ELSE k - 1
  <1>1. Len(rest) \in Nat /\ \A k \in 1..Len(rest) : rest[k] \in Jobs
    BY LenProperties DEF Queues
  <1>2. /\ q \in Seq(Jobs) /\ Len(q) = Len(rest) + 1
        /\ \A k \in 1..(Len(rest) + 1) :
                q[k] = IF k < at THEN rest[k] ELSE IF k = at THEN j ELSE rest[k - 1]
    BY InsertAtPlaces DEF Queues
  <1> HIDE DEF q
  <1>3. \A k \in 1..(Len(rest) + 1) : k # at => Earlier(k) \in 1..Len(rest) /\ q[k] = rest[Earlier(k)]
    BY <1>1, <1>2
  <1>4. q[at] = j
    BY <1>2
  <1>5. \A k \in 1..Len(rest) : k >= at => rest[k].priority > j.priority
    <2> TAKE k \in 1..Len(rest)
    <2>1. CASE k = at
      BY <2>1
    <2>2. CASE k > at
      <3>1. at \in 1..Len(rest) /\ rest[at].priority <= rest[k].priority
        BY <1>1, <2>2 DEF Queues, Ordered
      <3>2. rest[at].priority > j.priority
        BY <3>1
      <3>3. rest[at].priority \in Nat /\ rest[k].priority \in Nat /\ j.priority \in Nat
        BY <1>1, <3>1, JobFacts
      <3> QED
        BY <3>1, <3>2, <3>3
    <2> QED
      BY <1>1, <2>1, <2>2
  <1>6. \A k \in 1..Len(rest) : rest[k].priority \in Nat /\ j.priority \in Nat
    BY <1>1, JobFacts
  <1> HIDE DEF Earlier
  <1>7. ASSUME NEW k \in 1..Len(q), NEW l \in 1..Len(q), k < l
        PROVE  /\ q[k].priority <= q[l].priority
               /\ q[k].kind = "sync" => q[k].playlist # q[l].playlist
    <2>1. CASE k # at /\ l # at
      <3>1. Earlier(k) \in 1..Len(rest) /\ Earlier(l) \in 1..Len(rest) /\ Earlier(k) < Earlier(l)
        BY <1>1, <1>2, <1>3, <1>7, <2>1 DEF Earlier
      <3>2. q[k] = rest[Earlier(k)] /\ q[l] = rest[Earlier(l)]
        BY <1>2, <1>3, <2>1
      <3>3. /\ rest[Earlier(k)].priority <= rest[Earlier(l)].priority
            /\ rest[Earlier(k)].kind = "sync" =>
                    rest[Earlier(k)].playlist # rest[Earlier(l)].playlist
        BY <3>1 DEF Queues, Ordered
      <3> QED
        BY <3>2, <3>3
    <2>2. CASE k = at
      <3>1. Earlier(l) \in 1..Len(rest) /\ q[l] = rest[Earlier(l)] /\ Earlier(l) >= at
        BY <1>1, <1>2, <1>3, <1>7, <2>2 DEF Earlier
      <3>2. q[k] = j
        BY <1>4, <2>2
      <3>3. j.priority <= rest[Earlier(l)].priority
        BY <1>5, <1>6, <3>1
      <3>4. j.kind = "sync" => j.playlist # rest[Earlier(l)].playlist
        BY <1>1, <3>1, JobFacts DEF NoSyncOf
      <3> QED
        BY <3>1, <3>2, <3>3, <3>4
    <2>3. CASE l = at
      <3>1. k \in 1..Len(rest) /\ q[k] = rest[k] /\ k \in 1..(at - 1)
        BY <1>1, <1>2, <1>7, <2>3
      <3>2. q[l] = j
        BY <1>4, <2>3
      <3>3. rest[k].priority <= j.priority
        BY <3>1
      <3>4. rest[k].kind = "sync" => rest[k].playlist # j.playlist
        BY <3>1 DEF NoSyncOf
      <3> QED
        BY <3>1, <3>2, <3>3, <3>4
    <2> QED
      BY <2>1, <2>2, <2>3
  <1>8. ASSUME NEW k \in 1..Len(q), q[k].priority = PrioritySweep
        PROVE  q[k].playlist \notin synced
    <2>1. CASE k = at
      BY <1>4, <1>8, <2>1
    <2>2. CASE k # at
      <3>1. Earlier(k) \in 1..Len(rest) /\ q[k] = rest[Earlier(k)]
        BY <1>2, <1>3, <2>2
      <3> QED
        BY <1>8, <3>1 DEF Queues, SweepsNone
    <2> QED
      BY <2>1, <2>2
  <1>9. q \in Queues(synced)
    BY <1>2, <1>7, <1>8 DEF Queues, Ordered, SweepsNone
  <1> QED
    BY <1>9 DEF q

LEMMA AddOrdered ==
    ASSUME NEW synced, NEW queue \in Queues(synced), NEW j \in Jobs,
           j.priority = PrioritySweep => j.playlist \notin synced
    PROVE  Add(queue, j) \in Queues(synced)
  <1> DEFINE syncs == {i \in 1..Len(queue) :
                            queue[i].kind = "sync" /\ queue[i].playlist = j.playlist}
             queued == IF syncs # {} THEN Min(syncs) ELSE 0
             rest == IF queued = 0 THEN queue ELSE RemoveAt(queue, queued)
             later == {i \in 1..Len(rest) : rest[i].priority > j.priority}
             behind == IF later # {} THEN Min(later) ELSE 0
             at == IF behind = 0 THEN Len(rest) + 1 ELSE behind
  <1>1. Add(queue, j) = IF queued # 0 /\ queue[queued].priority <= j.priority
                        THEN queue
                        ELSE InsertAt(rest, at, j)
    BY DEF Add, SelectInSeq
  <1>2. Len(queue) \in Nat /\ queue \in Seq(Jobs) /\ \A i \in 1..Len(queue) : queue[i] \in Jobs
    BY LenProperties DEF Queues
  <1> HIDE DEF rest, queued
  <1>3. rest \in Queues(synced) /\ NoSyncOf(rest, j.playlist)
    <2>1. CASE syncs = {}
      <3>1. rest = queue
        BY <2>1 DEF rest, queued
      <3> QED
        BY <2>1, <3>1 DEF NoSyncOf
    <2>2. CASE syncs # {}
      <3>1. queued \in syncs
        BY <1>2, <2>2, MinOfSome DEF queued
      <3>2. queued # 0 /\ queued \in 1..Len(queue)
        BY <3>1
      <3>3. rest = RemoveAt(queue, queued)
        BY <3>2 DEF rest
      <3>4. /\ rest \in Seq(Jobs) /\ Len(rest) = Len(queue) - 1
            /\ \A k \in 1..(Len(queue) - 1) :
                    rest[k] = IF k < queued THEN queue[k] ELSE queue[k + 1]
        BY <1>2, <3>2, <3>3, RemoveAtPlaces
      <3> DEFINE From(k) == IF k < queued THEN k ELSE k + 1
      <3>5. \A k \in 1..Len(rest) :
                rest[k] = queue[From(k)] /\ From(k) \in 1..Len(queue) /\ From(k) # queued
        BY <1>2, <3>2, <3>4
      <3>6. \A k, l \in 1..Len(rest) : k < l => From(k) < From(l)
        BY <1>2, <3>2, <3>4
      <3> HIDE DEF From
      <3>7. Ordered(rest) /\ SweepsNone(rest, synced)
        BY <3>5, <3>6 DEF Queues, Ordered, SweepsNone
      <3>8. \A k \in 1..Len(queue) :
                k # queued => ~ (queue[k].kind = "sync" /\ queue[k].playlist = j.playlist)
        <4> SUFFICES ASSUME NEW k \in 1..Len(queue), k # queued,
                            queue[k].kind = "sync", queue[k].playlist = j.playlist
                     PROVE  FALSE
          OBVIOUS
        <4>1. queue[queued].kind = "sync" /\ queue[queued].playlist = j.playlist
          BY <3>1
        <4>2. CASE k < queued
          BY <3>2, <4>1, <4>2 DEF Queues, Ordered
        <4>3. CASE queued < k
          BY <3>2, <4>1, <4>3 DEF Queues, Ordered
        <4> QED
          BY <1>2, <3>2, <4>2, <4>3
      <3> QED
        BY <3>4, <3>5, <3>7, <3>8 DEF Queues, NoSyncOf
    <2> QED
      BY <2>1, <2>2
  <1>4. Len(rest) \in Nat /\ \A i \in 1..Len(rest) : rest[i] \in Jobs
    BY <1>3, LenProperties DEF Queues
  <1>5. /\ at \in 1..(Len(rest) + 1)
        /\ \A i \in 1..(at - 1) : rest[i].priority <= j.priority
        /\ at <= Len(rest) => rest[at].priority > j.priority
    <2>1. \A i \in 1..Len(rest) : i \notin later => rest[i].priority <= j.priority
      BY <1>4, JobFacts
    <2>2. CASE later = {}
      BY <1>4, <2>1, <2>2
    <2>3. CASE later # {}
      <3>1. Min(later) \in later /\ \A i \in later : Min(later) <= i
        BY <1>4, <2>3, MinOfSome
      <3>2. at = Min(later)
        BY <2>3, <3>1
      <3>3. \A i \in 1..(at - 1) : i \in 1..Len(rest) /\ i \notin later
        BY <1>4, <3>1, <3>2
      <3>4. at <= Len(rest) /\ rest[at].priority > j.priority
        BY <3>1, <3>2
      <3>5. at \in 1..(Len(rest) + 1)
        BY <1>4, <3>1, <3>2
      <3> HIDE DEF at, later
      <3> QED
        BY <2>1, <3>3, <3>4, <3>5
    <2> QED
      BY <2>2, <2>3
  <1> HIDE DEF at
  <1>6. InsertAt(rest, at, j) \in Queues(synced)
    BY <1>3, <1>5, InsertOrdered
  <1> QED
    BY <1>1, <1>6

(* Adding jobs one after the other is a fold, which the library defines by   *)
(* choice.                                                                  *)
LEMMA AddAllOrdered ==
    ASSUME NEW synced, NEW queue \in Queues(synced), NEW js \in Seq(Jobs),
           \A i \in 1..Len(js) : js[i].priority = PrioritySweep => js[i].playlist \notin synced
    PROVE  AddAll(queue, js) \in Queues(synced)
  <1> DEFINE n == Len(js)
             Q == Queues(synced)
             Adding(it) == it = [s \in SUBSET (1..n) |->
                                IF s = {} THEN queue
                                ELSE Add(it[s \ {Max(s)}], js[Max(s)])]
             it == CHOOSE it : Adding(it)
             G == [step \in (1..n) \X Q |-> Add(step[2], js[step[1]])]
  <1>1. n \in Nat /\ DOMAIN js = 1..n /\ \A i \in 1..n : js[i] \in Jobs
    BY LenProperties
  <1>2. AddAll(queue, js) = it[1..n]
    BY <1>1 DEF AddAll, FoldLeft, MapThenFoldSet
  <1>3. G \in [(1..n) \X Q -> Q]
    BY <1>1, AddOrdered
  <1>4. PICK g \in [SUBSET (1..n) -> Q] : IsFold(n, queue, G, g)
    BY <1>1, <1>3, FoldExists
  <1>5. \A s \in SUBSET (1..n) : s # {} => Max(s) \in s
    BY <1>1, MaxOfSome
  <1>6. Adding(g)
    <2>1. \A s \in SUBSET (1..n) :
                g[s] = IF s = {} THEN queue ELSE Add(g[s \ {Max(s)}], js[Max(s)])
      BY <1>4, <1>5 DEF IsFold
    <2> QED
      BY <2>1
  <1>7. Adding(it)
    BY <1>6
  <1> HIDE DEF it
  <1> DEFINE S == {k \in Nat : k <= n => it[1..k] \in Q}
  <1>8. 0 \in S
    BY <1>7, 1..0 = {}
  <1>9. ASSUME NEW k \in Nat, k \in S
        PROVE  k + 1 \in S
    <2> SUFFICES ASSUME k + 1 <= n
                 PROVE  it[1..(k + 1)] \in Q
      OBVIOUS
    <2>1. 1..(k + 1) \in SUBSET (1..n) /\ 1..(k + 1) # {} /\ k + 1 \in 1..n
      <3>1. k + 1 \in 1..(k + 1) /\ k + 1 \in 1..n
        BY <1>1
      <3>2. \A i \in 1..(k + 1) : i \in 1..n
        BY <1>1
      <3> QED
        BY <3>1, <3>2
    <2>2. Max(1..(k + 1)) = k + 1
      <3>1. /\ Max(1..(k + 1)) \in 1..(k + 1)
            /\ \A i \in 1..(k + 1) : i <= Max(1..(k + 1))
        BY <1>1, <2>1, MaxOfSome
      <3>2. k + 1 <= Max(1..(k + 1))
        BY <3>1
      <3> QED
        BY <3>1, <3>2
    <2>3. (1..(k + 1)) \ {k + 1} = 1..k
      OBVIOUS
    <2>4. it[1..(k + 1)] = Add(it[1..k], js[k + 1])
      BY <1>7, <2>1, <2>2, <2>3
    <2>5. it[1..k] \in Q
      BY <1>1, <1>9, <2>1
    <2> QED
      BY <1>1, <2>1, <2>4, <2>5, AddOrdered
  <1>10. n \in S
    <2> HIDE DEF S
    <2> QED
      BY <1>1, <1>8, <1>9, Induct
  <1> QED
    BY <1>2, <1>10

(***************************************************************************)
(* The job a pass is at has left its queue: what it is at when it records a *)
(* playlist as read is why no sweep of that playlist can be waiting.       *)
(***************************************************************************)
Fields == {"queue", "job", "listed", "flagged", "later", "synced", "retry", "fresh", "touched"}

Typed ==
    /\ stored \subseteq Playlists /\ has \subseteq Playlists /\ moved \subseteq Playlists
    /\ deleting \subseteq Playlists /\ deleted \subseteq Playlists
    /\ pending \in Seq(Playlists) /\ reads \in Seq(Playlists)
    /\ DOMAIN pass = Fields
    /\ pass.job \in Jobs
    /\ pass.listed \subseteq Playlists /\ pass.flagged \subseteq Playlists
    /\ pass.synced \subseteq Playlists

TakenFromQueue ==
    /\ pc \in {"sync", "merge", "push"} => pass.job.kind = "sync"
    /\ pass.job.kind = "sync" => NoSyncOf(pass.queue, pass.job.playlist)

QueueKept == pass.queue \in Queues(pass.synced)

PassInv == Typed /\ TakenFromQueue /\ QueueKept

LEMMA EmptyKept == ASSUME NEW synced PROVE <<>> \in Queues(synced)
  BY DEF Queues, Ordered, SweepsNone

LEMMA NewPassKept ==
    ASSUME stored \subseteq Playlists, has \subseteq Playlists, moved \subseteq Playlists,
           deleting \subseteq Playlists, deleted \subseteq Playlists,
           pending \in Seq(Playlists), reads \in Seq(Playlists),
           pass = NewPass, pc \in {"starting", "idle"}
    PROVE  PassInv
  <1>1. /\ DOMAIN pass = Fields /\ pass.queue = <<>> /\ pass.job = NoJob
        /\ pass.listed = {} /\ pass.flagged = {} /\ pass.synced = {}
    BY DEF NewPass, Fields
  <1>2. NoJob \in Jobs /\ NoJob.kind = "none"
    BY DEF NoJob, Job, Jobs, PriorityEdit
  <1> QED
    BY <1>1, <1>2, EmptyKept DEF PassInv, Typed, TakenFromQueue, QueueKept

LEMMA PassFromInit == Init => PassInv
  <1> SUFFICES ASSUME Init PROVE PassInv
    OBVIOUS
  <1>1. left.playlists \subseteq Playlists /\ has = left.playlists
    BY PassesAssumption DEF Init, Scenario
  <1>2. PICK read \in SUBSET has :
            /\ stored = read /\ reads = SetToSeq(read)
            /\ moved = has \ read
    BY DEF Init
  <1>3. IsFiniteSet(read)
    BY <1>1, FS_Subset, PassesAssumption
  <1>4. SetToSeq(read) \in Seq(read)
    BY <1>3, SetToSeqType
  <1>5. reads \in Seq(Playlists)
    BY <1>1, <1>2, <1>4, SeqMonotonic
  <1>6. pending \in Seq(Playlists)
    BY DEF Init
  <1> QED
    BY <1>1, <1>2, <1>5, <1>6, NewPassKept DEF Init

(* What every step keeps of the types but the pass's.                        *)
Sets == /\ stored \subseteq Playlists /\ has \subseteq Playlists /\ moved \subseteq Playlists
        /\ deleting \subseteq Playlists /\ deleted \subseteq Playlists
        /\ pending \in Seq(Playlists) /\ reads \in Seq(Playlists)

(* A pass that is over leaves a new one.                                     *)
LEMMA EndKept ==
    ASSUME Sets', pass' = NewPass, pc' \in {"starting", "idle"}
    PROVE  PassInv'
  <1>1. /\ DOMAIN pass' = Fields /\ pass'.queue = <<>> /\ pass'.job = NoJob
        /\ pass'.listed = {} /\ pass'.flagged = {} /\ pass'.synced = {}
    BY DEF NewPass, Fields
  <1>2. NoJob \in Jobs /\ NoJob.kind = "none"
    BY DEF NoJob, Job, Jobs, PriorityEdit
  <1> QED
    BY <1>1, <1>2, EmptyKept DEF PassInv, Typed, Sets, TakenFromQueue, QueueKept

(* A step that leaves the queue: it stays at its job, or is done with it, and *)
(* may have read the playlist of the job's sync.                            *)
LEMMA StepKept ==
    ASSUME PassInv, Sets', DOMAIN pass' = Fields, pass'.queue = pass.queue,
           pass'.listed \subseteq Playlists, pass'.flagged \subseteq Playlists,
           \/ pass'.job = NoJob /\ pc' \notin {"sync", "merge", "push"}
           \/ /\ pass'.job = pass.job
              /\ pc' \in {"sync", "merge", "push"} => pc \in {"sync", "merge", "push"},
           \/ pass'.synced = pass.synced
           \/ /\ pc \in {"sync", "merge", "push"}
              /\ pass'.synced = pass.synced \cup {Syncing}
    PROVE  PassInv'
  <1>1. NoJob \in Jobs /\ NoJob.kind = "none"
    BY DEF NoJob, Job, Jobs, PriorityEdit
  <1>2. pass.job \in Jobs /\ pass.synced \subseteq Playlists
    BY DEF PassInv, Typed
  <1>3. CASE pass'.synced = pass.synced
    BY <1>1, <1>2, <1>3 DEF PassInv, Typed, Sets, TakenFromQueue, QueueKept
  <1>4. CASE /\ pc \in {"sync", "merge", "push"}
             /\ pass'.synced = pass.synced \cup {Syncing}
    <2>1. pass.job.kind = "sync" /\ NoSyncOf(pass.queue, Syncing) /\ Syncing \in Playlists
      BY <1>2, <1>4, JobFacts DEF PassInv, TakenFromQueue, Syncing
    <2>2. pass.queue \in Seq(Jobs) /\ Ordered(pass.queue) /\ SweepsNone(pass.queue, pass.synced)
      BY DEF PassInv, QueueKept, Queues
    <2>3. \A i \in 1..Len(pass.queue) : pass.queue[i].playlist # Syncing
      <3>1. \A i \in 1..Len(pass.queue) : pass.queue[i] \in Jobs
        BY <2>2, LenProperties
      <3> QED
        BY <2>1, <3>1, JobFacts DEF NoSyncOf
    <2>4. SweepsNone(pass.queue, pass.synced \cup {Syncing})
      BY <2>2, <2>3 DEF SweepsNone
    <2>5. QueueKept'
      BY <1>4, <2>2, <2>4 DEF QueueKept, Queues
    <2> QED
      BY <1>1, <1>2, <1>4, <2>1, <2>5 DEF PassInv, Typed, Sets, TakenFromQueue
  <1> QED
    BY <1>3, <1>4

LEMMA ListedTyped ==
    ASSUME NEW p \in Playlists, Sets, ListEdited(p)
    PROVE  pending' \in Seq(Playlists)
  BY AppendProperties DEF ListEdited, Sets

LEMMA ReadLastTyped ==
    ASSUME NEW p \in Playlists, Sets
    PROVE  ReadLast(p) \in Seq(Playlists)
  <1> DEFINE at == {i \in 1..Len(reads) : reads[i] = p}
  <1>1. Len(reads) \in Nat
    BY LenProperties DEF Sets
  <1>2. Without(p) \in Seq(Playlists)
    <2>1. CASE at = {}
      BY <2>1 DEF Without, RemoveFirst, ListPlaylistReads, Sets
    <2>2. CASE at # {}
      <3>1. Min(at) \in 1..Len(reads)
        BY <1>1, <2>2, MinOfSome
      <3>2. Without(p) = RemoveAt(reads, Min(at))
        BY <2>2 DEF Without, RemoveFirst, ListPlaylistReads, SelectInSeq
      <3> QED
        BY <3>1, <3>2, RemoveAtPlaces DEF Sets
    <2> QED
      BY <2>1, <2>2
  <1> QED
    BY <1>2, AppendProperties DEF ReadLast

LEMMA PassTyped ==
    ASSUME PassInv
    PROVE  /\ Sets /\ DOMAIN pass = Fields /\ pass.job \in Jobs
           /\ pass.listed \subseteq Playlists /\ pass.flagged \subseteq Playlists
           /\ pc \in {"sync", "merge", "push"} => Syncing \in Playlists
  BY JobFacts DEF PassInv, Typed, Sets, TakenFromQueue, Syncing

(* The steps of the API, of YouTube's owner and of time.                     *)
LEMMA OthersKept ==
    ASSUME PassInv,
           \/ \E p \in Playlists :
                \/ Commit(p) \/ Edited(p) \/ Signal(p)
                \/ DeleteOnYouTube(p) \/ DeleteStored(p)
                \/ OwnerEdits(p) \/ OwnerDeletes(p)
                \/ LagPasses(p) \/ DeleteShows(p) \/ RetryFires(p)
           \/ RoomChanges \/ DayPasses \/ UNCHANGED vars
    PROVE  PassInv'
  <1> USE PassTyped
  <1>1. ASSUME NEW p \in Playlists, Edited(p) \/ RetryFires(p)
        PROVE  PassInv'
    <2>1. pending' \in Seq(Playlists)
      BY <1>1, ListedTyped DEF Edited, RetryFires
    <2>2. Sets' /\ UNCHANGED <<pass, pc>>
      BY <1>1, <2>1 DEF Edited, RetryFires, Sets, storeVars, youtubeVars, deleteVars
    <2> QED
      BY <2>2, StepKept
  <1>2. ASSUME NEW p \in Playlists,
               Signal(p) \/ DeleteOnYouTube(p) \/ OwnerDeletes(p) \/ LagPasses(p) \/ DeleteShows(p)
        PROVE  PassInv'
    <2>1. Sets' /\ UNCHANGED <<pass, pc>>
      BY <1>2 DEF Signal, DeleteOnYouTube, OwnerDeletes, LagPasses, DeleteShows, Sets,
                  storeVars, youtubeVars, editVars, deleteVars
    <2> QED
      BY <2>1, StepKept
  <1>3. CASE RoomChanges \/ DayPasses \/ UNCHANGED vars
    <2>1. Sets' /\ UNCHANGED <<pass, pc>>
      BY <1>3 DEF RoomChanges, DayPasses, vars, Sets, storeVars, youtubeVars, editVars,
                  deleteVars
    <2> QED
      BY <2>1, StepKept
  <1>4. ASSUME NEW p \in Playlists, Commit(p) \/ DeleteStored(p) \/ OwnerEdits(p)
        PROVE  PassInv'
    <2>1. Sets' /\ pc' = pc
      BY <1>4 DEF Commit, DeleteStored, Dropped, OwnerEdits, Sets, storeVars, youtubeVars,
                  editVars, deleteVars
    <2>2. /\ DOMAIN pass' = Fields /\ pass'.queue = pass.queue /\ pass'.job = pass.job
          /\ pass'.listed = pass.listed /\ pass'.flagged = pass.flagged
          /\ pass'.synced = pass.synced
      BY <1>4 DEF Commit, DeleteStored, OwnerEdits, Fields
    <2> QED
      BY <2>1, <2>2, StepKept
  <1> QED
    BY <1>1, <1>2, <1>3, <1>4

LEMMA SyncsTyped ==
    ASSUME NEW playlists \in Seq(Playlists), NEW priority \in Nat
    PROVE  /\ Syncs(playlists, priority) \in Seq(Jobs)
           /\ Len(Syncs(playlists, priority)) = Len(playlists)
           /\ \A i \in 1..Len(playlists) : Syncs(playlists, priority)[i] = SyncOf(playlists[i], priority)
  <1>1. Len(playlists) \in Nat /\ DOMAIN playlists = 1..Len(playlists)
    BY LenProperties
  <1>2. \A i \in 1..Len(playlists) : SyncOf(playlists[i], priority) \in Jobs
    BY DEF SyncOf, Job, Jobs
  <1>3. Syncs(playlists, priority) \in [1..Len(playlists) -> Jobs]
    BY <1>1, <1>2 DEF Syncs
  <1>4. [1..Len(playlists) -> Jobs] \subseteq Seq(Jobs)
    BY <1>1, SeqDef
  <1>5. Len(Syncs(playlists, priority)) = Len(playlists)
    BY <1>1, <1>3
  <1> QED
    BY <1>1, <1>3, <1>4, <1>5 DEF Syncs

LEMMA Priorities ==
    /\ PriorityEdit = 0 /\ PriorityChanged = 1 /\ PriorityUnfinished = 2
    /\ PrioritySweep = 3 /\ PriorityLengths = 4
  BY DEF PriorityEdit, PriorityChanged, PriorityUnfinished, PrioritySweep, PriorityLengths

LEMMA OtherJobs ==
    /\ \A full \in BOOLEAN : ProbeJob(full) \in Jobs /\ ProbeJob(full).priority = PriorityChanged
    /\ LengthsJob \in Jobs /\ LengthsJob.priority = PriorityLengths
    /\ NoJob \in Jobs /\ NoJob.kind = "none"
  BY Priorities DEF ProbeJob, LengthsJob, NoJob, Job, Jobs

LEMMA OneOrTwo ==
    ASSUME NEW i \in Jobs, NEW j \in Jobs
    PROVE  <<>> \in Seq(Jobs) /\ <<i>> \in Seq(Jobs) /\ <<i, j>> \in Seq(Jobs)
  OBVIOUS

(* A pass begins: nothing is read yet, so any jobs make a queue in order.    *)
LEMMA BeginsKept ==
    ASSUME PassInv, NEW jobs, jobs \in Seq(Jobs), Begins(jobs)
    PROVE  PassInv'
  <1>1. pending' \in Seq(Playlists)
    <2>1. pending' = pending \/ pending' = <<>>
      BY DEF Begins
    <2>2. <<>> \in Seq(Playlists) /\ pending \in Seq(Playlists)
      BY PassTyped DEF Sets
    <2> QED
      BY <2>1, <2>2
  <1>2. Sets'
    BY <1>1, PassTyped DEF Begins, Sets, storeVars, youtubeVars, deleteVars
  <1>3. CASE spent
    BY <1>2, <1>3, EndKept DEF Begins
  <1>4. CASE ~spent
    <2>1. AddAll(<<>>, jobs) \in Queues({})
      BY EmptyKept, AddAllOrdered
    <2>2. /\ DOMAIN pass' = Fields /\ pass'.queue = AddAll(<<>>, jobs) /\ pass'.job = NoJob
          /\ pass'.listed = {} /\ pass'.flagged = {} /\ pass'.synced = {} /\ pc' = "next"
      BY <1>4 DEF Begins, NewPass, Fields
    <2> QED
      BY <1>2, <2>1, <2>2, OtherJobs DEF PassInv, Typed, Sets, TakenFromQueue, QueueKept
  <1> QED
    BY <1>3, <1>4

LEMMA BeginningsKept ==
    ASSUME PassInv, Run \/ Tick \/ Woken \/ EnrichmentRefused
    PROVE  PassInv'
  <1>1. CASE Run
    <2>1. <<ProbeJob(TRUE), LengthsJob>> \in Seq(Jobs)
      BY OtherJobs, OneOrTwo
    <2> QED
      BY <1>1, <2>1, BeginsKept DEF Run
  <1>2. CASE Tick
    <2>1. PICK due \in BOOLEAN :
            Begins(<<ProbeJob(FALSE)>> \o (IF due THEN <<LengthsJob>> ELSE <<>>)
                        \o Syncs(Unfinished, PriorityUnfinished))
      BY <1>2 DEF Tick
    <2>2. Unfinished \in Seq(Playlists)
      <3> DEFINE S == {p \in stored \ held : plan[p] > 0}
      <3>1. S \subseteq Playlists /\ IsFiniteSet(S)
        BY PassTyped, FS_Subset, PassesAssumption DEF Sets
      <3>2. SetToSeq(S) \in Seq(S)
        BY <3>1, SetToSeqType
      <3> QED
        BY <3>1, <3>2, SeqMonotonic DEF Unfinished
    <2>3. Syncs(Unfinished, PriorityUnfinished) \in Seq(Jobs)
      BY <2>2, SyncsTyped, Priorities
    <2>4. <<ProbeJob(FALSE)>> \in Seq(Jobs) /\ <<LengthsJob>> \in Seq(Jobs) /\ <<>> \in Seq(Jobs)
      BY OtherJobs, OneOrTwo
    <2>5. <<ProbeJob(FALSE)>> \o (IF due THEN <<LengthsJob>> ELSE <<>>) \in Seq(Jobs)
      BY <2>4, ConcatProperties
    <2>6. <<ProbeJob(FALSE)>> \o (IF due THEN <<LengthsJob>> ELSE <<>>)
                \o Syncs(Unfinished, PriorityUnfinished) \in Seq(Jobs)
      BY <2>3, <2>5, ConcatProperties
    <2> QED
      BY <2>1, <2>6, BeginsKept
  <1>3. CASE Woken \/ EnrichmentRefused
    <2>1. <<>> \in Seq(Jobs)
      OBVIOUS
    <2> QED
      BY <1>3, <2>1, BeginsKept DEF Woken, EnrichmentRefused
  <1> QED
    BY <1>1, <1>2, <1>3

(* The pass takes the edits, and its first job off what is then its queue.   *)
LEMMA NextJobKept ==
    ASSUME PassInv, NextJob
    PROVE  PassInv'
  <1> DEFINE queue == AddAll(pass.queue, Syncs(Taken, PriorityEdit))
  <1>1. pending' \in Seq(Playlists)
    BY DEF NextJob
  <1>2. Sets'
    BY <1>1, PassTyped DEF NextJob, Sets, storeVars, youtubeVars, deleteVars
  <1>3. queue \in Queues(pass.synced)
    <2> DEFINE js == Syncs(Taken, PriorityEdit)
    <2>1. Taken \in Seq(Playlists)
      BY PassTyped DEF Taken, Sets
    <2>2. js \in Seq(Jobs) /\ \A i \in 1..Len(js) : js[i].priority = PriorityEdit
      <3>1. PriorityEdit \in Nat
        BY Priorities
      <3>2. /\ js \in Seq(Jobs) /\ Len(js) = Len(Taken)
            /\ \A i \in 1..Len(Taken) : js[i] = SyncOf(Taken[i], PriorityEdit)
        BY <2>1, <3>1, SyncsTyped
      <3>3. \A p : SyncOf(p, PriorityEdit).priority = PriorityEdit
        BY DEF SyncOf, Job
      <3> HIDE DEF js
      <3> QED
        BY <3>2, <3>3
    <2>3. pass.queue \in Queues(pass.synced)
      BY DEF PassInv, QueueKept
    <2> HIDE DEF js
    <2>4. AddAll(pass.queue, js) \in Queues(pass.synced)
      BY <2>2, <2>3, AddAllOrdered, Priorities
    <2> QED
      BY <2>4 DEF js
  <1>4. CASE queue = <<>>
    BY <1>2, <1>4, EndKept DEF NextJob, Ends
  <1>5. CASE queue # <<>>
    <2>1. /\ pass' = [pass EXCEPT !.queue = Tail(queue), !.job = Head(queue)]
          /\ pc' = Head(queue).kind
      BY <1>5 DEF NextJob
    <2> HIDE DEF queue
    <2>2. queue \in Seq(Jobs) /\ Ordered(queue) /\ SweepsNone(queue, pass.synced)
      BY <1>3 DEF Queues
    <2>3. Len(queue) \in Nat /\ Len(queue) > 0 /\ \A i \in 1..Len(queue) : queue[i] \in Jobs
      BY <1>5, <2>2, LenProperties, EmptySeq
    <2>4. /\ Tail(queue) \in Seq(Jobs) /\ Len(Tail(queue)) = Len(queue) - 1
          /\ \A i \in 1..Len(Tail(queue)) : Tail(queue)[i] = queue[i + 1]
          /\ Head(queue) = queue[1]
      BY <1>5, <2>2, HeadTailProperties
    <2>5. \A i \in 1..Len(Tail(queue)) : i + 1 \in 1..Len(queue)
      BY <2>3, <2>4
    <2>6. Ordered(Tail(queue)) /\ SweepsNone(Tail(queue), pass.synced)
      BY <2>2, <2>3, <2>4, <2>5 DEF Ordered, SweepsNone
    <2>7. /\ DOMAIN pass' = Fields /\ pass'.queue = Tail(queue) /\ pass'.job = queue[1]
          /\ pass'.listed = pass.listed /\ pass'.flagged = pass.flagged
          /\ pass'.synced = pass.synced
      BY <2>1, <2>4, PassTyped DEF Fields
    <2>8. QueueKept'
      BY <2>4, <2>6, <2>7 DEF QueueKept, Queues
    <2>9. ASSUME queue[1].kind = "sync"
          PROVE  NoSyncOf(Tail(queue), queue[1].playlist)
      <3>1. ASSUME NEW i \in 1..Len(Tail(queue))
            PROVE  queue[1].playlist # Tail(queue)[i].playlist
        <4>1. 1 \in 1..Len(queue) /\ i + 1 \in 1..Len(queue) /\ 1 < i + 1
          BY <2>3, <2>5
        <4> QED
          BY <2>2, <2>4, <2>9, <4>1 DEF Ordered
      <3> QED
        BY <3>1 DEF NoSyncOf
    <2>10. TakenFromQueue'
      <3>1. pc' \in {"sync", "merge", "push"} => pass'.job.kind = "sync"
        <4>1. pc' = queue[1].kind /\ queue[1] \in Jobs
          BY <2>1, <2>3, <2>4
        <4> QED
          BY <2>7, <4>1, JobFacts
      <3> QED
        BY <2>7, <2>9, <3>1 DEF TakenFromQueue
    <2> QED
      BY <1>2, <2>3, <2>7, <2>8, <2>10, PassTyped DEF PassInv, Typed, Sets
  <1> QED
    BY <1>4, <1>5

(* What a sweep adds is of a playlist the pass has not read.                 *)
LEMMA SweepTyped ==
    ASSUME PassInv, NEW queue
    PROVE  /\ FirstToSweep(reads, queue) \in Seq(Jobs)
           /\ \A i \in 1..Len(FirstToSweep(reads, queue)) :
                FirstToSweep(reads, queue)[i].playlist \notin pass.synced
  <1> DEFINE due == {i \in DOMAIN reads : /\ reads[i] \in (stored \cap pass.listed) \ pass.synced
                                          /\ ~Holds(queue, reads[i])}
  <1>1. Len(reads) \in Nat /\ DOMAIN reads = 1..Len(reads)
    BY PassTyped, LenProperties DEF Sets
  <1>2. CASE due = {}
    BY <1>2 DEF FirstToSweep
  <1>3. CASE due # {}
    <2>1. Min(due) \in due
      BY <1>1, <1>3, MinOfSome
    <2>2. PICK p : p = reads[Min(due)]
      OBVIOUS
    <2>3. p \in Playlists /\ p \notin pass.synced
      BY <2>1, <2>2, PassTyped DEF Sets
    <2>4. FirstToSweep(reads, queue) = <<SyncOf(p, PrioritySweep)>>
      BY <1>3, <2>2 DEF FirstToSweep
    <2>5. SyncOf(p, PrioritySweep) \in Jobs /\ SyncOf(p, PrioritySweep).playlist = p
      BY <2>3, Priorities DEF SyncOf, Job, Jobs
    <2> QED
      BY <2>3, <2>4, <2>5
  <1> QED
    BY <1>2, <1>3

LEMMA QueueListedKept ==
    ASSUME PassInv, QueueListed
    PROVE  PassInv'
  <1> DEFINE changed == IF pass.job.full THEN pass.listed
                        ELSE pass.flagged \cup (pass.listed \ stored)
             js == Syncs(SetToSeq(changed), PriorityChanged)
             queue == AddAll(pass.queue, js)
             sweep == IF pass.job.full THEN <<>> ELSE FirstToSweep(reads, queue)
             last == AddAll(queue, sweep)
  <1>1. changed \subseteq Playlists /\ IsFiniteSet(changed)
    <2>1. changed \subseteq Playlists
      BY PassTyped
    <2> QED
      BY <2>1, FS_Subset, PassesAssumption
  <1>2. SetToSeq(changed) \in Seq(Playlists)
    <2>1. SetToSeq(changed) \in Seq(changed)
      BY <1>1, SetToSeqType
    <2> QED
      BY <1>1, <2>1, SeqMonotonic
  <1>3. js \in Seq(Jobs) /\ \A i \in 1..Len(js) : js[i].priority # PrioritySweep
    <2> DEFINE playlists == SetToSeq(changed)
    <2>1. PriorityChanged \in Nat
      BY Priorities
    <2>2. /\ js \in Seq(Jobs) /\ Len(js) = Len(playlists)
          /\ \A i \in 1..Len(playlists) : js[i] = SyncOf(playlists[i], PriorityChanged)
      BY <1>2, <2>1, SyncsTyped
    <2>3. \A p : SyncOf(p, PriorityChanged).priority # PrioritySweep
      BY Priorities DEF SyncOf, Job
    <2> HIDE DEF js
    <2> QED
      BY <2>2, <2>3
  <1>4. queue \in Queues(pass.synced)
    <2>1. pass.queue \in Queues(pass.synced)
      BY DEF PassInv, QueueKept
    <2> HIDE DEF js
    <2> QED
      BY <1>3, <2>1, AddAllOrdered
  <1>5. /\ sweep \in Seq(Jobs)
        /\ \A i \in 1..Len(sweep) : sweep[i].playlist \notin pass.synced
    <2>1. <<>> \in Seq(Jobs) /\ Len(<<>>) = 0
      OBVIOUS
    <2> HIDE DEF queue
    <2> QED
      BY <2>1, SweepTyped
  <1>6. last \in Queues(pass.synced)
    <2> HIDE DEF queue, sweep
    <2> QED
      BY <1>4, <1>5, AddAllOrdered
  <1>7. JobDone([pass EXCEPT !.queue = last, !.flagged = {}])
    BY DEF QueueListed, ListPlaylistReads
  <1>8. Sets'
    BY PassTyped DEF QueueListed, Sets, youtubeVars, editVars, deleteVars
  <1> HIDE DEF last
  <1>9. /\ DOMAIN pass' = Fields /\ pass'.queue = last /\ pass'.job = NoJob
        /\ pass'.listed = pass.listed /\ pass'.flagged = {} /\ pass'.synced = pass.synced
        /\ pc' = "next"
    BY <1>7, PassTyped DEF JobDone, Fields
  <1>10. pass'.synced \subseteq Playlists
    BY <1>9 DEF PassInv, Typed
  <1> QED
    BY <1>6, <1>8, <1>9, <1>10, PassTyped, OtherJobs
    DEF PassInv, Typed, Sets, TakenFromQueue, QueueKept

(* The rest of the probe, and what ends a pass.                              *)
LEMMA ProbeKept ==
    ASSUME PassInv, List \/ ReadLengths \/ ListFails \/ QuotaRefused \/ Crash
    PROVE  PassInv'
  <1> USE PassTyped
  <1>1. CASE List
    <2>1. /\ DOMAIN pass' = Fields /\ pass'.queue = pass.queue /\ pass'.job = pass.job
          /\ pass'.listed \subseteq Playlists /\ pass'.flagged \subseteq Playlists
          /\ pass'.synced = pass.synced /\ pc' = "queue"
      BY <1>1 DEF List, Fields, Sets
    <2>2. Sets'
      BY <1>1 DEF List, Sets, storeVars, youtubeVars, editVars, deleteVars
    <2> QED
      BY <2>1, <2>2, StepKept
  <1>2. CASE ReadLengths
    <2>1. /\ DOMAIN pass' = Fields /\ pass'.queue = pass.queue /\ pass'.job = NoJob
          /\ pass'.listed = pass.listed /\ pass'.flagged = pass.flagged
          /\ pass'.synced = pass.synced /\ pc' = "next"
      BY <1>2 DEF ReadLengths, JobDone, Fields
    <2>2. Sets'
      BY <1>2 DEF ReadLengths, Sets, storeVars, youtubeVars, editVars, deleteVars
    <2> QED
      BY <2>1, <2>2, StepKept
  <1>3. CASE ListFails \/ QuotaRefused
    <2>1. Sets' /\ pass' = NewPass /\ pc' = "idle"
      BY <1>3 DEF ListFails, QuotaRefused, Ends, Sets, storeVars, youtubeVars, deleteVars
    <2> QED
      BY <2>1, EndKept
  <1>4. CASE Crash
    <2>1. pending' \in Seq(Playlists)
      BY <1>4 DEF Crash
    <2>2. Sets' /\ pass' = NewPass /\ pc' = "starting"
      BY <1>4, <2>1 DEF Crash, Sets, storeVars, youtubeVars
    <2> QED
      BY <2>2, EndKept
  <1> QED
    BY <1>1, <1>2, <1>3, <1>4

(* The steps of a sync: those that record the read are at a sync.            *)
LEMMA SyncKept ==
    ASSUME PassInv, Sync
    PROVE  PassInv'
  <1> USE PassTyped
  <1>1. ASSUME pc \in {"sync", "merge", "push"}
        PROVE  ReadLast(Syncing) \in Seq(Playlists)
    BY <1>1, ReadLastTyped
  <1>2. ASSUME NEW again, SyncEnds(again), pc \in {"sync", "merge", "push"},
               UNCHANGED <<youtubeVars, editVars, deleteVars>>
        PROVE  PassInv'
    <2>1. reads' \in Seq(Playlists)
      BY <1>1, <1>2 DEF SyncEnds, Sets
    <2>2. Sets'
      BY <1>2, <2>1 DEF SyncEnds, Upserts, Sets, youtubeVars, editVars, deleteVars
    <2>3. /\ DOMAIN pass' = Fields /\ pass'.queue = pass.queue /\ pass'.job = NoJob
          /\ pass'.listed = pass.listed /\ pass'.flagged = pass.flagged
          /\ pass'.synced = pass.synced \cup {Syncing} /\ pc' = "next"
      BY <1>2 DEF SyncEnds, JobDone, Fields
    <2> QED
      BY <1>2, <2>2, <2>3, StepKept
  <1>3. CASE SyncNobody \/ SyncFails \/ MergeDeleted \/ MergeDeferred
    BY <1>2, <1>3 DEF SyncNobody, SyncFails, ReadsItems, MergeDeleted, MergeDeferred
  <1>4. CASE SyncNotFound
    <2>1. CASE Syncing \in deleted
      BY <1>2, <1>4, <2>1 DEF SyncNotFound, ReadsItems
    <2>2. CASE Syncing \notin deleted
      <3>1. Sets'
        BY <1>4, <2>2 DEF SyncNotFound, Dropped, Sets, youtubeVars, editVars, deleteVars
      <3>2. /\ DOMAIN pass' = Fields /\ pass'.queue = pass.queue /\ pass'.job = NoJob
            /\ pass'.listed = pass.listed /\ pass'.flagged = pass.flagged
            /\ pass'.synced = pass.synced \cup {Syncing} /\ pc' = "next"
            /\ pc = "sync"
        BY <1>4, <2>2 DEF SyncNotFound, ReadsItems, JobDone, Fields
      <3> QED
        BY <3>1, <3>2, StepKept
    <2> QED
      BY <2>1, <2>2
  <1>5. CASE SyncRead
    <2>1. Sets'
      BY <1>5 DEF SyncRead, Sets, storeVars, youtubeVars, editVars, deleteVars
    <2>2. /\ DOMAIN pass' = Fields /\ pass'.queue = pass.queue /\ pass'.job = pass.job
          /\ pass'.listed = pass.listed /\ pass'.flagged = pass.flagged
          /\ pass'.synced = pass.synced \cup {Syncing} /\ pc' = "merge"
          /\ pc = "sync"
      BY <1>5 DEF SyncRead, ReadsItems, Fields
    <2> QED
      BY <2>1, <2>2, StepKept
  <1>6. CASE MergeFindsNoRow
    <2>1. Sets' /\ pass' = NewPass /\ pc' = "idle"
      BY <1>6 DEF MergeFindsNoRow, Ends, Sets, storeVars, youtubeVars, deleteVars
    <2> QED
      BY <2>1, EndKept
  <1>7. CASE MergeStored
    <2>1. Sets'
      BY <1>1, <1>7 DEF MergeStored, SetPlaylistReadCount, Sets, editVars, deleteVars
    <2>2. /\ DOMAIN pass' = Fields /\ pass'.queue = pass.queue /\ pass'.job = pass.job
          /\ pass'.listed = pass.listed /\ pass'.flagged = pass.flagged
          /\ pass'.synced = pass.synced /\ pc' = "push" /\ pc = "merge"
      BY <1>7 DEF MergeStored, Fields
    <2> QED
      BY <2>1, <2>2, StepKept
  <1>8. CASE SyncWaits \/ PushEnds \/ WriteReplans \/ WriteStops
    <2>1. Sets'
      BY <1>8 DEF SyncWaits, PushEnds, WriteReplans, WriteStops, Sets, storeVars,
                  youtubeVars, editVars, deleteVars
    <2>2. /\ DOMAIN pass' = Fields /\ pass'.queue = pass.queue /\ pass'.job = NoJob
          /\ pass'.listed = pass.listed /\ pass'.flagged = pass.flagged
          /\ pass'.synced = pass.synced /\ pc' = "next"
      BY <1>8 DEF SyncWaits, PushEnds, WriteReplans, WriteStops, JobDone, Fields
    <2> QED
      BY <2>1, <2>2, StepKept
  <1>9. CASE WriteApplied
    <2>1. Sets' /\ pc' = pc /\ pc = "push"
      BY <1>9 DEF WriteApplied, Sets, editVars, deleteVars
    <2>2. /\ DOMAIN pass' = Fields /\ pass'.queue = pass.queue /\ pass'.job = pass.job
          /\ pass'.listed = pass.listed /\ pass'.flagged = pass.flagged
          /\ pass'.synced = pass.synced
      BY <1>9 DEF WriteApplied, Fields
    <2> QED
      BY <2>1, <2>2, StepKept
  <1> QED
    BY <1>3, <1>4, <1>5, <1>6, <1>7, <1>8, <1>9 DEF Sync

LEMMA PassByNext ==
    ASSUME PassInv, [Next]_vars
    PROVE  PassInv'
  BY OthersKept, BeginningsKept, NextJobKept, QueueListedKept, ProbeKept, SyncKept
  DEF Next, API, Owner, Time, Pass

(* A pass goes through its jobs by priority, an edit's listed while it runs   *)
(* before what it had left, and syncs no playlist twice for what was queued  *)
(* at two priorities.                                                       *)
THEOREM QueuesStayInOrder == Spec => []QueueInOrder
  <1>1. PassInv => QueueInOrder
    <2> SUFFICES ASSUME PassInv PROVE QueueInOrder
      OBVIOUS
    <2>1. Ordered(pass.queue) /\ DOMAIN pass.queue = 1..Len(pass.queue)
      BY LenProperties DEF PassInv, QueueKept, Queues
    <2> QED
      BY <2>1 DEF Ordered, QueueInOrder
  <1> QED
    BY <1>1, PassFromInit, PassByNext, PTL DEF Spec

(* The sweep's read is never of a playlist the pass has read: the sweep is    *)
(* chosen once the edits before the probe are done, and a later edit takes   *)
(* its place in the queue.                                                  *)
THEOREM SweepsReadOnce == Spec => []SweptOnce
  <1>1. PassInv => SweptOnce
    <2> SUFFICES ASSUME PassInv PROVE SweptOnce
      OBVIOUS
    <2>1. SweepsNone(pass.queue, pass.synced) /\ DOMAIN pass.queue = 1..Len(pass.queue)
      BY LenProperties DEF PassInv, QueueKept, Queues
    <2> QED
      BY <2>1 DEF SweepsNone, SweptOnce
  <1> QED
    BY <1>1, PassFromInit, PassByNext, PTL DEF Spec
=============================================================================
