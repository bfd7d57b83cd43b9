--------------------------- MODULE LibraryProofs ---------------------------
(***************************************************************************)
(* Proof that a play's handle names it for good and that no deleted play   *)
(* comes back.  A new handle is past every one taken because the handles   *)
(* taken, those of deleted plays with them, are 1..n; and an id is refused *)
(* once deleted because what is kept of it is never dropped.               *)
(* Then that a delete takes what was shown, that a listen is kept once,    *)
(* and that a list read page by page misses nothing.                       *)
(***************************************************************************)
EXTENDS Library, MergeProofs

(* Every handle given is kept, with a play or with what is left of it.      *)
NamedIsKept ==
    history.named = {<<plays[id].handle, id>> : id \in DOMAIN plays}
                        \cup {<<d.handle, d.id>> : d \in deleted}

HandlesAreCounted == \E n \in Nat : TakenHandles = 1..n

HandlesKept ==
    /\ history = [named |-> history.named, removed |-> history.removed]
    /\ history.removed = {d.id : d \in deleted}
    /\ NamedIsKept
    /\ HandlesAreCounted
    /\ PlayNamesForGood

(* What follows the handles 1..n is n + 1.                                  *)
LEMMA AfterCounted == \A n \in Nat : After(1..n) = n + 1
<1>1. SUFFICES ASSUME NEW n \in Nat PROVE After(1..n) = n + 1
  OBVIOUS
<1>2. CASE n = 0
  BY <1>2 DEF After
<1>3. CASE n # 0
  <2>1. n \in 1..n /\ \A y \in 1..n : n >= y
    BY <1>3
  <2>2. \A x \in 1..n : (\A y \in 1..n : x >= y) => x = n
    BY <2>1
  <2>3. Max(1..n) = n
    BY <2>1, <2>2 DEF Max
  <2> QED
    BY <1>3, <2>1, <2>3 DEF After
<1> QED
  BY <1>2, <1>3

(* The handles given are taken.                                             *)
LEMMA NamedAreTaken ==
    NamedIsKept => \A a \in history.named : a[1] \in TakenHandles
<1>1. SUFFICES ASSUME NamedIsKept, NEW a \in history.named PROVE a[1] \in TakenHandles
  OBVIOUS
<1>2. CASE \E id \in DOMAIN plays : a = <<plays[id].handle, id>>
  BY <1>2 DEF TakenHandles, PlayHandles
<1>3. CASE \E d \in deleted : a = <<d.handle, d.id>>
  BY <1>3 DEF TakenHandles
<1> QED
  BY <1>1, <1>2, <1>3 DEF NamedIsKept

LEMMA InitKept == Init => HandlesKept
<1>1. SUFFICES ASSUME Init PROVE HandlesKept
  OBVIOUS
<1>2. /\ plays = left.plays /\ deleted = {} /\ left \in Scenarios
      /\ history.named = {<<plays[id].handle, id>> : id \in DOMAIN plays}
      /\ history.removed = {}
      /\ history = [named |-> history.named, removed |-> history.removed]
  BY <1>1 DEF Init
<1>3. NamedIsKept
  BY <1>2 DEF NamedIsKept
<1>4. HandlesAreCounted
  <2>1. \E n \in 0..Cardinality(DOMAIN plays) : PlayHandles = 1..n
    <3>1. left \in Scenarios /\ plays = left.plays
      BY <1>2
    <3>2. \E n \in 0..Cardinality(DOMAIN left.plays) :
                {left.plays[id].handle : id \in DOMAIN left.plays} = 1..n
      BY <3>1, LibraryAssumption
    <3> QED
      BY <3>1, <3>2 DEF PlayHandles
  <2>2. TakenHandles = PlayHandles
    BY <1>2 DEF TakenHandles
  <2>3. \E n \in Nat : PlayHandles = 1..n
    <3>1. PICK n \in 0..Cardinality(DOMAIN plays) : PlayHandles = 1..n
      BY <2>1
    <3>2. n \in Nat
      BY <3>1
    <3> QED
      BY <3>1, <3>2
  <2> QED
    BY <2>2, <2>3 DEF HandlesAreCounted
<1>5. \A id, other \in DOMAIN plays : plays[id].handle = plays[other].handle => id = other
  BY <1>2, LibraryAssumption
<1>6. PlayNamesForGood
  BY <1>2, <1>5 DEF PlayNamesForGood
<1> QED
  BY <1>2, <1>3, <1>4, <1>6 DEF HandlesKept

LEMMA UntouchedKept == HandlesKept /\ UNCHANGED <<plays, deleted, history>> => HandlesKept'
BY DEF HandlesKept, NamedIsKept, HandlesAreCounted, TakenHandles, PlayHandles, PlayNamesForGood

(* A play recorded, or answered with what is stored.                        *)
LEMMA CreateKept ==
    ASSUME HandlesKept, NEW id, NEW video, NEW at, CreatePlay(id, video, at), deleted' = deleted
    PROVE  HandlesKept'
<1>1. CASE PlayAnswer(id, video, at) # "created"
  BY <1>1, UntouchedKept DEF CreatePlay
<1>2. CASE PlayAnswer(id, video, at) = "created"
  <2> DEFINE ts == IF at = Arrival THEN clock ELSE at
             row == [handle |-> NextHandle, video |-> video, ts |-> ts]
  <2>1. /\ plays' = [i \in DOMAIN plays \cup {id} |->
                        IF i \in DOMAIN plays THEN plays[i] ELSE row]
        /\ history' = [history EXCEPT !.named = @ \cup {<<NextHandle, id>>}]
    BY <1>2 DEF CreatePlay, InsertPlay
  <2>2. id \notin DOMAIN plays /\ ~IsPlayDeleted(id)
    BY <1>2 DEF PlayAnswer
  <2>3. PICK n \in Nat : TakenHandles = 1..n
    BY DEF HandlesKept, HandlesAreCounted
  <2>4. NextHandle = n + 1
    BY <2>3, AfterCounted DEF NextHandle
  <2>5. /\ DOMAIN plays' = DOMAIN plays \cup {id}
        /\ \A i \in DOMAIN plays : plays'[i] = plays[i]
        /\ plays'[id].handle = n + 1
    BY <2>1, <2>2, <2>4
  <2>6. /\ history'.named = history.named \cup {<<n + 1, id>>}
        /\ history'.removed = history.removed
        /\ history' = [named |-> history'.named, removed |-> history'.removed]
    BY <2>1, <2>4 DEF HandlesKept
  <2>7. NamedIsKept'
    BY <2>5, <2>6 DEF HandlesKept, NamedIsKept
  <2>8. HandlesAreCounted'
    <3>1. TakenHandles' = TakenHandles \cup {n + 1}
      <4>1. PlayHandles' = PlayHandles \cup {n + 1}
        BY <2>5 DEF PlayHandles
      <4> QED
        BY <4>1 DEF TakenHandles
    <3>2. TakenHandles' = 1..(n + 1)
      BY <2>3, <3>1
    <3> QED
      BY <3>2 DEF HandlesAreCounted
  <2>9. PlayNamesForGood'
    <3>1. \A a \in history.named : a[1] # n + 1
      BY <2>3, NamedAreTaken DEF HandlesKept
    <3>2. \A a \in history.named : a[2] # id
      BY <2>2 DEF HandlesKept, NamedIsKept, IsPlayDeleted
    <3>3. \A a, b \in history'.named : a[1] = b[1] <=> a[2] = b[2]
      BY <2>6, <3>1, <3>2 DEF HandlesKept, PlayNamesForGood
    <3>4. history'.removed \cap DOMAIN plays' = {}
      BY <2>2, <2>5, <2>6 DEF HandlesKept, PlayNamesForGood, IsPlayDeleted
    <3> QED
      BY <3>3, <3>4 DEF PlayNamesForGood
  <2>10. history'.removed = {d.id : d \in deleted'}
    BY <2>6 DEF HandlesKept
  <2> QED
    BY <2>6, <2>7, <2>8, <2>9, <2>10 DEF HandlesKept
<1> QED
  BY <1>1, <1>2

LEMMA NamedAreStored == ASSUME NEW ref PROVE Named(ref) \subseteq DOMAIN plays
<1>1. SUFFICES ASSUME NEW id \in Named(ref) PROVE id \in DOMAIN plays
  OBVIOUS
<1> DEFINE ById == UNION {GetPlay(i) : i \in ref.ids}
           ByHandle == UNION {GetPlayByHandle(handle) : handle \in ref.handles}
           ByTail == UNION {ListPlaysByTail(tail) : tail \in ref.tails}
<1>2. id \in ById => id \in DOMAIN plays
  BY DEF GetPlay
<1>3. id \in ByHandle => id \in DOMAIN plays
  BY DEF GetPlayByHandle
<1>4. id \in ByTail => id \in DOMAIN plays
  BY DEF ListPlaysByTail
<1>5. id \in ById \cup ByHandle \cup ByTail
  BY <1>1 DEF Named
<1> HIDE DEF ById, ByHandle, ByTail
<1> QED
  BY <1>2, <1>3, <1>4, <1>5

(* The play a reference names deleted, or none.                             *)
LEMMA DeleteKept ==
    ASSUME HandlesKept, NEW ref, DeletePlayNamed(ref)
    PROVE  HandlesKept'
<1>1. CASE ShowPlay(ref) = {}
  BY <1>1, UntouchedKept DEF DeletePlayNamed
<1>2. CASE ShowPlay(ref) # {}
  <2>1. PICK id \in ShowPlay(ref) : DeleteNamed(id)
    BY <1>2 DEF DeletePlayNamed
  <2>2. id \in DOMAIN plays
    BY NamedAreStored DEF ShowPlay
  <2> DEFINE d == [id |-> id, handle |-> plays[id].handle]
  <2>3. /\ deleted' = deleted \cup {d}
        /\ plays' = [i \in DOMAIN plays \ {id} |-> plays[i]]
        /\ history'.removed = history.removed \cup {id}
        /\ history'.named = history.named
        /\ history' = [named |-> history'.named, removed |-> history'.removed]
    BY <2>1 DEF DeleteNamed, KeepDeletedPlay, DeletePlay, HandlesKept
  <2>4. /\ DOMAIN plays' = DOMAIN plays \ {id}
        /\ \A i \in DOMAIN plays' : plays'[i] = plays[i]
    BY <2>3
  <2>5. NamedIsKept'
    <3>1. {<<plays[i].handle, i>> : i \in DOMAIN plays} =
            {<<plays'[i].handle, i>> : i \in DOMAIN plays'} \cup {<<plays[id].handle, id>>}
      BY <2>2, <2>4
    <3>2. {<<e.handle, e.id>> : e \in deleted'} =
            {<<e.handle, e.id>> : e \in deleted} \cup {<<plays[id].handle, id>>}
      <4>1. d.handle = plays[id].handle /\ d.id = id
        OBVIOUS
      <4> HIDE DEF d
      <4> QED
        BY <2>3, <4>1
    <3> QED
      BY <2>3, <3>1, <3>2 DEF HandlesKept, NamedIsKept
  <2>6. HandlesAreCounted'
    <3>1. TakenHandles' = TakenHandles
      <4>1. PlayHandles = PlayHandles' \cup {plays[id].handle}
        BY <2>2, <2>4 DEF PlayHandles
      <4>2. {e.handle : e \in deleted'} = {e.handle : e \in deleted} \cup {plays[id].handle}
        <5>1. d.handle = plays[id].handle
          OBVIOUS
        <5> HIDE DEF d
        <5> QED
          BY <2>3, <5>1
      <4> QED
        BY <4>1, <4>2 DEF TakenHandles
    <3> QED
      BY <3>1 DEF HandlesKept, HandlesAreCounted
  <2>7. PlayNamesForGood'
    BY <2>3, <2>4 DEF HandlesKept, PlayNamesForGood
  <2>8. history'.removed = {e.id : e \in deleted'}
    <3>1. d.id = id
      OBVIOUS
    <3> HIDE DEF d
    <3> QED
      BY <2>3, <3>1 DEF HandlesKept
  <2> QED
    BY <2>3, <2>5, <2>6, <2>7, <2>8 DEF HandlesKept
<1> QED
  BY <1>1, <1>2

LEMMA NextKept == HandlesKept /\ [Next]_vars => HandlesKept'
<1>1. SUFFICES ASSUME HandlesKept, [Next]_vars PROVE HandlesKept'
  OBVIOUS
<1>2. CASE UNCHANGED vars
  BY <1>1, <1>2, UntouchedKept DEF vars
<1>3. CASE Playback
  <2>1. ASSUME NEW video \in Videos, Sent(video) PROVE HandlesKept'
    BY <1>1, <2>1, CreateKept DEF Sent
  <2>2. CASE ~ \E video \in Videos : Sent(video)
    BY <1>1, <1>3, <2>2, UntouchedKept
       DEF Playback, PlaysSome, Plays, Counts, Resends, SentUnanswered, Exits, Reports
  <2> QED
    BY <2>1, <2>2
<1>4. CASE Commands
  <2>1. ASSUME NEW id, NEW video, NEW at, Adds(id, video, at) PROVE HandlesKept'
    BY <1>1, <2>1, CreateKept DEF Adds
  <2>2. ASSUME NEW u \in Users, Confirms(u) PROVE HandlesKept'
    BY <1>1, <2>2, DeleteKept DEF Confirms, DeleteBy
  <2>3. ASSUME NEW u \in Users, (\E ref \in References : Asks(u, ref))
                                \/ ConfirmsUnanswered(u) \/ Declines(u)
        PROVE  HandlesKept'
    BY <1>1, <2>3, UntouchedKept DEF Asks, ConfirmsUnanswered, Declines
  <2>4. ASSUME NEW video \in Videos, Rates(video) PROVE HandlesKept'
    BY <1>1, <2>4, UntouchedKept DEF Rates
  <2>5. ASSUME NEW tail \in Tails, DeletesRating(tail) PROVE HandlesKept'
    BY <1>1, <2>5, UntouchedKept DEF DeletesRating
  <2> QED
    BY <1>4, <2>1, <2>2, <2>3, <2>4, <2>5 DEF Commands, AddsSome
<1>5. CASE Listing
  BY <1>1, <1>5, UntouchedKept DEF Listing, ListsSome, Lists, ReadsPage, LosesCursor
<1>6. CASE \E r \in late : Lands(r)
  <2>1. PICK r \in late : Lands(r)
    BY <1>6
  <2>2. CASE r.op = "play"
    BY <1>1, <2>1, <2>2, CreateKept DEF Lands
  <2>3. CASE r.op # "play"
    BY <1>1, <2>1, <2>3, DeleteKept DEF Lands
  <2> QED
    BY <2>2, <2>3
<1>7. CASE SecondPasses
  BY <1>1, <1>7, UntouchedKept DEF SecondPasses
<1> QED
  BY <1>1, <1>2, <1>3, <1>4, <1>5, <1>6, <1>7 DEF Next

(* A handle names one play for good and a deleted play stays deleted, for    *)
(* any number of users, plays and requests under way.                       *)
THEOREM HandlesNamePlaysForGood == Spec => []PlayNamesForGood
<1>1. HandlesKept => PlayNamesForGood
  BY DEF HandlesKept
<1> QED
  BY InitKept, NextKept, <1>1, PTL DEF Spec

(***************************************************************************)
(* What a person is shown before `ypl plays delete` goes on is what it     *)
(* deletes: a confirmed delete names a play by its id, never again by the  *)
(* reference the person gave.                                              *)
(***************************************************************************)
Asked ==
    /\ asking = [u \in Users |-> asking[u]]
    /\ DeletesWhatWasShown

(* An id names its play or none.                                            *)
LEMMA IdNamesItself == ASSUME NEW id PROVE Named(TheId(id)) \subseteq {id}
  BY DEF Named, TheId, GetPlay

(* Only the play shown goes.                                                *)
LEMMA OneGoes ==
    ASSUME NEW id, DeletePlayNamed(TheId(id)), DOMAIN plays' # DOMAIN plays
    PROVE  (CHOOSE i \in DOMAIN plays : i \notin DOMAIN plays') = id
<1>1. ShowPlay(TheId(id)) # {}
  BY DEF DeletePlayNamed
<1>2. PICK i \in ShowPlay(TheId(id)) : DeleteNamed(i)
  BY <1>1 DEF DeletePlayNamed
<1>3. i = id /\ i \in DOMAIN plays
  BY IdNamesItself, NamedAreStored DEF ShowPlay
<1>4. DOMAIN plays' = DOMAIN plays \ {i}
  BY <1>2 DEF DeleteNamed, DeletePlay
<1> QED
  BY <1>3, <1>4

LEMMA NextAsked == Asked /\ [Next]_vars => Asked'
<1>1. SUFFICES ASSUME Asked, [Next]_vars PROVE Asked'
  OBVIOUS
<1>2. ASSUME asking' = asking PROVE Asked'
  BY <1>1, <1>2 DEF Asked, DeletesWhatWasShown
<1>3. ASSUME NEW u \in Users, NEW a, asking' = [asking EXCEPT ![u] = a],
             a.took \in {0, a.shown}
      PROVE  Asked'
  BY <1>1, <1>3 DEF Asked, DeletesWhatWasShown
<1>4. ASSUME NEW u \in Users, Confirms(u) PROVE Asked'
  <2> DEFINE took == IF DOMAIN plays' = DOMAIN plays THEN 0
                     ELSE CHOOSE id \in DOMAIN plays : id \notin DOMAIN plays'
             a == [pc |-> "answered", ref |-> asking[u].ref,
                   shown |-> asking[u].shown, took |-> took]
  <2>1. took \in {0, asking[u].shown}
    BY <1>4, OneGoes DEF Confirms, DeleteBy
  <2>2. asking' = [asking EXCEPT ![u] = a]
    BY <1>4 DEF Confirms
  <2> HIDE DEF took
  <2> QED
    BY <1>3, <2>1, <2>2
<1>5. ASSUME NEW u \in Users, NEW ref \in References, Asks(u, ref) PROVE Asked'
  <2>1. PICK id \in ShowPlay(ref) :
          asking' = [asking EXCEPT ![u] = [pc |-> "asked", ref |-> ref, shown |-> id, took |-> 0]]
    BY <1>5 DEF Asks
  <2> QED
    BY <1>3, <2>1
<1>6. ASSUME NEW u \in Users, ConfirmsUnanswered(u) \/ Declines(u) PROVE Asked'
  BY <1>3, <1>6 DEF ConfirmsUnanswered, Declines, NotAsking
<1>7. CASE UNCHANGED vars
  BY <1>2, <1>7 DEF vars
<1>8. CASE Playback \/ Listing \/ (\E r \in late : Lands(r)) \/ SecondPasses
  BY <1>2, <1>8
     DEF Playback, PlaysSome, Plays, Counts, Sent, Resends, SentUnanswered, Exits, Reports,
         Listing, ListsSome, Lists, ReadsPage, LosesCursor, Lands, SecondPasses
<1>9. CASE Commands
  <2>1. CASE AddsSome \/ (\E video \in Videos : Rates(video))
                      \/ (\E tail \in Tails : DeletesRating(tail))
    BY <1>2, <2>1 DEF AddsSome, Adds, Rates, DeletesRating
  <2> QED
    BY <1>4, <1>5, <1>6, <1>9, <2>1 DEF Commands
<1> QED
  BY <1>1, <1>7, <1>8, <1>9 DEF Next

(* A delete takes the play the person was shown or none, for any number of   *)
(* people deleting and adding at once.                                       *)
THEOREM DeletesTakeWhatWasShown == Spec => []DeletesWhatWasShown
<1>1. Init => Asked
  BY DEF Init, Asked, NotAsking, DeletesWhatWasShown
<1>2. Asked => DeletesWhatWasShown
  BY DEF Asked
<1> QED
  BY <1>1, <1>2, NextAsked, PTL DEF Spec

(***************************************************************************)
(* A listen is stored once.  Every attempt at a video of a playback is     *)
(* under the one id it got when it was counted, and it is pending until an *)
(* answer says that this id is stored, or was and is deleted.              *)
(***************************************************************************)
Pending == DOMAIN player.pending

IsPlayer ==
    player = [pc |-> player.pc, queue |-> player.queue, counted |-> player.counted,
              pending |-> player.pending, todo |-> player.todo, stored |-> player.stored,
              unsent |-> player.unsent, sent |-> player.sent]

OneIdEach ==
    /\ \A s \in player.sent : s = <<s[1], s[2]>> /\ s[1] \in player.counted
    /\ \A s, t \in player.sent : s[1] = t[1] => s[2] = t[2]
    /\ \A s \in player.sent : s[1] \in Pending => s[2] = player.pending[s[1]]

ListensFollowed ==
    /\ IsPlayer
    /\ player.todo \subseteq Pending /\ Pending \subseteq player.counted
    /\ OneIdEach
    /\ \A video \in player.counted \ Pending :
            \E s \in player.sent : s[1] = video /\ EverStored(s[2])
    /\ player.pc = "done" => player.unsent = Pending

LEMMA InitFollowed == Init => ListensFollowed
<1>1. SUFFICES ASSUME Init PROVE ListensFollowed
  OBVIOUS
<1>2. player = NoPlayer /\ DOMAIN <<>> = {}
  BY <1>1 DEF Init
<1> QED
  BY <1>2 DEF NoPlayer, ListensFollowed, IsPlayer, Pending, OneIdEach

(* What was stored once is stored, or kept as deleted.                       *)
LEMMA CreateKeepsStored ==
    ASSUME NEW id, NEW video, NEW at, CreatePlay(id, video, at), deleted' = deleted
    PROVE  /\ \A i : EverStored(i) => EverStored(i)'
           /\ PlayAnswer(id, video, at) \in {"created", "stored", "play_deleted"}
                => EverStored(id)'
<1>1. DOMAIN plays \subseteq DOMAIN plays'
      /\ (PlayAnswer(id, video, at) = "created" => id \in DOMAIN plays')
  BY DEF CreatePlay, InsertPlay
<1>2. PlayAnswer(id, video, at) = "stored" => id \in DOMAIN plays
  BY DEF PlayAnswer
<1>3. PlayAnswer(id, video, at) = "play_deleted" => IsPlayDeleted(id)
  BY DEF PlayAnswer
<1> QED
  BY <1>1, <1>2, <1>3 DEF EverStored, IsPlayDeleted

LEMMA DeleteKeepsStored ==
    ASSUME NEW ref, DeletePlayNamed(ref)
    PROVE  \A i : EverStored(i) => EverStored(i)'
<1>1. CASE UNCHANGED <<plays, deleted, history>>
  BY <1>1 DEF EverStored, IsPlayDeleted
<1>2. CASE \E id \in ShowPlay(ref) : DeleteNamed(id)
  <2>1. PICK id \in ShowPlay(ref) : DeleteNamed(id)
    BY <1>2
  <2> DEFINE d == [id |-> id, handle |-> plays[id].handle]
  <2>2. deleted' = deleted \cup {d} /\ DOMAIN plays' = DOMAIN plays \ {id}
    BY <2>1 DEF DeleteNamed, KeepDeletedPlay, DeletePlay
  <2>3. d.id = id
    OBVIOUS
  <2> HIDE DEF d
  <2> QED
    BY <2>2, <2>3 DEF EverStored, IsPlayDeleted
<1> QED
  BY <1>1, <1>2 DEF DeletePlayNamed

LEMMA StoredStays == [Next]_vars => \A i : EverStored(i) => EverStored(i)'
<1>1. SUFFICES ASSUME [Next]_vars PROVE \A i : EverStored(i) => EverStored(i)'
  OBVIOUS
<1>2. ASSUME UNCHANGED <<plays, deleted>> PROVE \A i : EverStored(i) => EverStored(i)'
  BY <1>2 DEF EverStored, IsPlayDeleted
<1>3. CASE Playback
  BY <1>2, <1>3, CreateKeepsStored
     DEF Playback, PlaysSome, Plays, Counts, Resends, Sent, SentUnanswered, Exits, Reports
<1>4. CASE Commands
  <2>1. ASSUME NEW id, NEW video, NEW at, Adds(id, video, at)
        PROVE  \A i : EverStored(i) => EverStored(i)'
    BY <2>1, CreateKeepsStored DEF Adds
  <2>2. ASSUME NEW u \in Users, Confirms(u)
        PROVE  \A i : EverStored(i) => EverStored(i)'
    BY <2>2, DeleteKeepsStored DEF Confirms
  <2>3. ASSUME NEW u \in Users, (\E ref \in References : Asks(u, ref))
                                \/ ConfirmsUnanswered(u) \/ Declines(u)
        PROVE  \A i : EverStored(i) => EverStored(i)'
    BY <1>2, <2>3 DEF Asks, ConfirmsUnanswered, Declines
  <2>4. ASSUME (\E video \in Videos : Rates(video)) \/ (\E tail \in Tails : DeletesRating(tail))
        PROVE  \A i : EverStored(i) => EverStored(i)'
    BY <1>2, <2>4 DEF Rates, DeletesRating
  <2> QED
    BY <1>4, <2>1, <2>2, <2>3, <2>4 DEF Commands, AddsSome
<1>5. CASE Listing \/ SecondPasses \/ UNCHANGED vars
  BY <1>2, <1>5 DEF Listing, ListsSome, Lists, ReadsPage, LosesCursor, SecondPasses, vars
<1>6. CASE \E r \in late : Lands(r)
  BY <1>6, CreateKeepsStored, DeleteKeepsStored DEF Lands
<1> QED
  BY <1>1, <1>3, <1>4, <1>5, <1>6 DEF Next

(* A video counted now has an id of its own, and no attempt before it.       *)
LEMMA CountsFollowed ==
    ASSUME ListensFollowed, NEW video, Counts(video), \A i : EverStored(i) => EverStored(i)'
    PROVE  ListensFollowed'
<1> DEFINE pending == [v \in Pending \cup {video} |->
                         IF v = video THEN NewId ELSE player.pending[v]]
<1>1. /\ video \notin player.counted /\ player.pc = "playing"
      /\ player' = [player EXCEPT !.counted = @ \cup {video}, !.pending = pending,
                                  !.todo = DOMAIN pending]
  BY DEF Counts, Pending
<1>2. /\ DOMAIN pending = Pending \cup {video}
      /\ \A v \in Pending : v # video => pending[v] = player.pending[v]
  OBVIOUS
<1> HIDE DEF pending
<1>3. /\ player'.counted = player.counted \cup {video} /\ player'.pending = pending
      /\ player'.todo = DOMAIN pending /\ player'.sent = player.sent
      /\ player'.pc = "playing" /\ IsPlayer'
  BY <1>1 DEF ListensFollowed, IsPlayer
<1> QED
  BY <1>1, <1>2, <1>3 DEF ListensFollowed, OneIdEach, Pending

(* An attempt, answered or not: of the id the video is pending under.        *)
LEMMA AttemptFollowed ==
    ASSUME ListensFollowed, NEW video, Sent(video) \/ SentUnanswered(video),
           \A i : EverStored(i) => EverStored(i)'
    PROVE  ListensFollowed'
<1>0. PICK id : id = player.pending[video]
  OBVIOUS
<1>1. video \in Pending /\ video \in player.todo /\ player.pc # "done"
  BY DEF Sent, SentUnanswered, ListensFollowed
<1>2. /\ IsPlayer' /\ player'.pc = player.pc /\ player'.counted = player.counted
      /\ player'.todo = player.todo \ {video}
      /\ player'.sent = player.sent \cup {<<video, id>>}
      /\ \/ player'.pending = player.pending
         \/ player'.pending = NotPending(video) /\ EverStored(id)'
  <2>1. CASE SentUnanswered(video)
    BY <1>0, <2>1 DEF SentUnanswered, IdSent, ListensFollowed, IsPlayer
  <2>2. CASE Sent(video)
    <3>1. PlayAnswer(id, video, Arrival) \in {"created", "stored", "play_deleted"}
            => EverStored(id)'
      <4>1. CreatePlay(id, video, Arrival) /\ deleted' = deleted
        BY <1>0, <2>2 DEF Sent, IdSent
      <4> QED
        BY <4>1, CreateKeepsStored
    <3> QED
      BY <1>0, <2>2, <3>1 DEF Sent, IdSent, ListensFollowed, IsPlayer
  <2> QED
    BY <2>1, <2>2
<1>3. /\ DOMAIN NotPending(video) = Pending \ {video}
      /\ \A v \in Pending \ {video} : NotPending(video)[v] = player.pending[v]
  BY DEF NotPending, Pending
<1>4. OneIdEach'
  <2>1. \A s \in player.sent : s[1] = video => s[2] = id
    BY <1>0, <1>1 DEF ListensFollowed, OneIdEach
  <2>2. <<video, id>>[1] = video /\ <<video, id>>[2] = id /\ video \in player.counted
    BY <1>1 DEF ListensFollowed
  <2>3. Pending' \subseteq Pending /\ \A v \in Pending' : player'.pending[v] = player.pending[v]
    BY <1>2, <1>3 DEF Pending
  <2>4. ASSUME NEW s \in player'.sent
        PROVE  /\ s = <<s[1], s[2]>> /\ s[1] \in player.counted
               /\ s \in player.sent \/ (s[1] = video /\ s[2] = id)
    BY <1>2, <2>2, <2>4 DEF ListensFollowed, OneIdEach
  <2>5. \A s, t \in player'.sent : s[1] = t[1] => s[2] = t[2]
    BY <2>1, <2>4 DEF ListensFollowed, OneIdEach
  <2>6. \A s \in player'.sent : s[1] \in Pending' => s[2] = player'.pending[s[1]]
    BY <1>0, <2>3, <2>4 DEF ListensFollowed, OneIdEach
  <2> QED
    BY <1>2, <2>4, <2>5, <2>6 DEF OneIdEach
<1>5. \A v \in player'.counted \ Pending' : \E s \in player'.sent : s[1] = v /\ EverStored(s[2])'
  <2>1. SUFFICES ASSUME NEW v \in player'.counted \ Pending'
                 PROVE  \E s \in player'.sent : s[1] = v /\ EverStored(s[2])'
    OBVIOUS
  <2>2. CASE v \notin Pending
    BY <1>2, <2>1, <2>2 DEF ListensFollowed
  <2>3. CASE v \in Pending
    <3>1. v = video /\ EverStored(id)'
      BY <1>2, <1>3, <2>1, <2>3 DEF Pending
    <3>2. <<video, id>>[1] = video /\ <<video, id>>[2] = id /\ <<video, id>> \in player'.sent
      BY <1>2
    <3>3. <<video, id>>[1] = v /\ EverStored(<<video, id>>[2])'
      BY <3>1, <3>2
    <3> QED
      BY <3>2, <3>3
  <2> QED
    BY <2>2, <2>3
<1> QED
  BY <1>1, <1>2, <1>3, <1>4, <1>5 DEF ListensFollowed, Pending

LEMMA NextFollowed == ListensFollowed /\ [Next]_vars => ListensFollowed'
<1>1. SUFFICES ASSUME ListensFollowed, [Next]_vars PROVE ListensFollowed'
  OBVIOUS
<1>2. \A i : EverStored(i) => EverStored(i)'
  BY <1>1, StoredStays
<1>3. CASE player' = player
  BY <1>1, <1>2, <1>3 DEF ListensFollowed, IsPlayer, Pending, OneIdEach
<1>4. CASE PlaysSome
  <2>1. PICK queue : player' = [NoPlayer EXCEPT !.pc = "playing", !.queue = queue]
    BY <1>4 DEF PlaysSome, Plays
  <2>2. DOMAIN <<>> = {}
    OBVIOUS
  <2> QED
    BY <2>1, <2>2 DEF NoPlayer, ListensFollowed, IsPlayer, Pending, OneIdEach
<1>5. CASE Resends \/ Exits \/ Reports
  <2>1. /\ player'.counted = player.counted /\ player'.pending = player.pending
        /\ player'.sent = player.sent /\ IsPlayer' /\ player'.todo \in {player.todo, Pending}
        /\ player'.pc = "done" => player'.unsent = Pending
    BY <1>1, <1>5 DEF Resends, Exits, Reports, ListensFollowed, IsPlayer, Pending
  <2> QED
    BY <1>1, <1>2, <2>1 DEF ListensFollowed, OneIdEach, Pending
<1>6. CASE \E video \in Videos : Counts(video)
  BY <1>1, <1>2, <1>6, CountsFollowed
<1>7. CASE \E video \in Videos : Sent(video) \/ SentUnanswered(video)
  BY <1>1, <1>2, <1>7, AttemptFollowed
<1>8. CASE UNCHANGED vars \/ Commands \/ Listing \/ (\E r \in late : Lands(r)) \/ SecondPasses
  <2>1. player' = player
    BY <1>8 DEF vars, Commands, AddsSome, Adds, Asks, Confirms, ConfirmsUnanswered, Declines,
                Rates, DeletesRating, Listing, ListsSome, Lists, ReadsPage, LosesCursor, Lands,
                SecondPasses
  <2> QED
    BY <1>3, <2>1
<1> QED
  BY <1>1, <1>4, <1>5, <1>6, <1>7, <1>8 DEF Next, Playback

(* A listen is stored once, however often it was sent and whatever became of *)
(* its answers, and one that is not by the end of the playback is named to   *)
(* the person, for any videos, faults and deletes.                           *)
THEOREM ListensAreKeptOnce == Spec => []ListensKeptOnce
<1>1. ListensFollowed => ListensKeptOnce
  <2>1. SUFFICES ASSUME ListensFollowed, NEW video \in player.counted
                 PROVE  LET kept == {s \in player.sent : s[1] = video /\ EverStored(s[2])}
                        IN  /\ Cardinality(kept) <= 1
                            /\ player.pc = "done" /\ kept = {} => video \in player.unsent
    BY DEF ListensKeptOnce
  <2> DEFINE kept == {s \in player.sent : s[1] = video /\ EverStored(s[2])}
  <2>2. \A s, t \in kept : s = t
    BY <2>1 DEF ListensFollowed, OneIdEach
  <2>3. kept = {} \/ \E s : kept = {s}
    BY <2>2
  <2>4. Cardinality(kept) <= 1
    <3>1. CASE kept = {}
      BY <3>1, FS_EmptySet
    <3>2. CASE \E s : kept = {s}
      <4>1. PICK s : kept = {s}
        BY <3>2
      <4>2. Cardinality({s}) = 1
        BY FS_Singleton
      <4> QED
        BY <4>1, <4>2
    <3> QED
      BY <2>3, <3>1, <3>2
  <2>5. player.pc = "done" /\ kept = {} => video \in player.unsent
    BY <2>1 DEF ListensFollowed
  <2> QED
    BY <2>4, <2>5
<1> QED
  BY InitFollowed, NextFollowed, <1>1, PTL DEF Spec


(***************************************************************************)
(* A list read page by page misses nothing.  Rows are in one order, that   *)
(* of their times and ids, in which a finite set of them can be listed; a  *)
(* page is the first of what follows the last row read, so what is not yet *)
(* read follows it still, whatever is added and deleted meanwhile: a row   *)
(* never changes, and one deleted does not come back.                      *)
(***************************************************************************)
Rows == [id : Int, ts : Int]

InNewOrder(rows) == \A i, j \in DOMAIN rows : i < j => Newer(rows[i], rows[j])

LEMMA NewerOrders ==
    \A a, b, c \in Rows :
        /\ ~ Newer(a, a)
        /\ Newer(a, b) /\ Newer(b, c) => Newer(a, c)
        /\ a = b \/ Newer(a, b) \/ Newer(b, a)
<1>1. \A a \in Rows : a.id \in Int /\ a.ts \in Int /\ a = [id |-> a.id, ts |-> a.ts]
  BY DEF Rows
<1>2. ASSUME NEW a \in Rows, NEW b \in Rows, a.id = b.id, a.ts = b.ts PROVE a = b
  BY <1>1, <1>2
<1> QED
  BY <1>1, <1>2 DEF Newer

(* Of some rows, finitely many, one is the oldest.                          *)
LEMMA OldestRow ==
    ASSUME NEW S \in SUBSET Rows, IsFiniteSet(S), S # {}
    PROVE  \E x \in S : \A y \in S \ {x} : Newer(y, x)
<1> DEFINE Some(R) == \E x \in R : \A y \in R \ {x} : Newer(y, x)
           P == {n \in Nat : \A R \in SUBSET Rows :
                    IsFiniteSet(R) /\ Cardinality(R) = n /\ R # {} => Some(R)}
<1>1. 0 \in P
  BY FS_EmptySet
<1>2. ASSUME NEW n \in Nat, n \in P PROVE n + 1 \in P
  <2>1. SUFFICES ASSUME NEW R \in SUBSET Rows, IsFiniteSet(R), Cardinality(R) = n + 1, R # {}
                 PROVE  Some(R)
    OBVIOUS
  <2>2. PICK z \in R : TRUE
    BY <2>1
  <2> DEFINE Q == R \ {z}
  <2>3. IsFiniteSet(Q) /\ Cardinality(Q) = n /\ Q \in SUBSET Rows
    <3>1. IsFiniteSet(Q) /\ Cardinality(Q) = Cardinality(R) - 1
      BY <2>1, FS_RemoveElement
    <3> HIDE DEF Q
    <3>2. Cardinality(Q) = n
      BY <2>1, <3>1
    <3> QED
      BY <2>1, <3>1, <3>2 DEF Q
  <2>4. CASE Q = {}
    BY <2>2, <2>4
  <2>5. CASE Q # {}
    <3>1. Some(Q)
      BY <1>2, <2>3, <2>5
    <3>2. PICK x \in Q : \A y \in Q \ {x} : Newer(y, x)
      BY <3>1
    <3>3. CASE Newer(z, x)
      <4>1. \A y \in R \ {x} : Newer(y, x)
        BY <3>2, <3>3
      <4> QED
        BY <3>2, <4>1
    <3>4. CASE Newer(x, z)
      <4>1. \A y \in R \ {z} : Newer(y, z)
        BY <2>1, <3>2, <3>4, NewerOrders
      <4> QED
        BY <4>1
    <3>5. z # x /\ z \in Rows /\ x \in Rows
      BY <2>1, <3>2
    <3> QED
      BY <3>3, <3>4, <3>5, NewerOrders
  <2> QED
    BY <2>4, <2>5
<1>3. Nat \subseteq P
  <2> HIDE DEF P
  <2> QED
    BY <1>1, <1>2, Induct
<1>4. Cardinality(S) \in Nat
  BY FS_CardinalityType
<1> QED
  BY <1>3, <1>4

(* Rows, finitely many, can be listed newest first.                         *)
LEMMA RowsAreListed ==
    ASSUME NEW S \in SUBSET Rows, IsFiniteSet(S)
    PROVE  \E list \in [1..Cardinality(S) -> S] : InNewOrder(list)
<1> DEFINE Listed(R) == \E list \in [1..Cardinality(R) -> R] : InNewOrder(list)
           P == {n \in Nat : \A R \in SUBSET Rows :
                    IsFiniteSet(R) /\ Cardinality(R) = n => Listed(R)}
<1>1. 0 \in P
  <2>1. SUFFICES ASSUME NEW R \in SUBSET Rows, IsFiniteSet(R), Cardinality(R) = 0
                 PROVE  Listed(R)
    OBVIOUS
  <2> DEFINE list == [i \in 1..0 |-> i]
  <2>2. list \in [1..Cardinality(R) -> R] /\ DOMAIN list = {}
    BY <2>1
  <2>3. InNewOrder(list)
    BY <2>2 DEF InNewOrder
  <2> HIDE DEF list
  <2> QED
    BY <2>2, <2>3
<1>2. ASSUME NEW n \in Nat, n \in P PROVE n + 1 \in P
  <2>1. SUFFICES ASSUME NEW R \in SUBSET Rows, IsFiniteSet(R), Cardinality(R) = n + 1
                 PROVE  Listed(R)
    OBVIOUS
  <2>2. R # {}
    BY <2>1, FS_EmptySet
  <2>3. PICK x \in R : \A y \in R \ {x} : Newer(y, x)
    BY <2>1, <2>2, OldestRow
  <2> DEFINE Q == R \ {x}
  <2>4. IsFiniteSet(Q) /\ Cardinality(Q) = n /\ Q \in SUBSET Rows
    <3>1. IsFiniteSet(Q) /\ Cardinality(Q) = Cardinality(R) - 1
      BY <2>1, FS_RemoveElement
    <3> HIDE DEF Q
    <3>2. Cardinality(Q) = n
      BY <2>1, <3>1
    <3> QED
      BY <2>1, <3>1, <3>2 DEF Q
  <2>5. Listed(Q)
    BY <1>2, <2>4
  <2>6. PICK list \in [1..n -> Q] : InNewOrder(list)
    BY <2>4, <2>5
  <2> DEFINE more == [i \in 1..(n + 1) |-> IF i = n + 1 THEN x ELSE list[i]]
  <2>7. more \in [1..(n + 1) -> R] /\ DOMAIN more = 1..(n + 1)
    OBVIOUS
  <2>8. ASSUME NEW i \in 1..(n + 1), NEW j \in 1..(n + 1), i < j
        PROVE  Newer(more[i], more[j])
    <3>1. i \in 1..n /\ more[i] = list[i] /\ list[i] \in Q
      BY <2>8
    <3>2. CASE j = n + 1
      BY <2>3, <3>1, <3>2
    <3>3. CASE j # n + 1
      <4>1. j \in 1..n /\ more[j] = list[j]
        BY <3>3
      <4> HIDE DEF more
      <4> QED
        BY <2>6, <2>8, <3>1, <4>1 DEF InNewOrder
    <3> QED
      BY <3>2, <3>3
  <2> HIDE DEF more
  <2>9. InNewOrder(more)
    BY <2>7, <2>8 DEF InNewOrder
  <2> QED
    BY <2>1, <2>7, <2>9
<1>3. Nat \subseteq P
  <2> HIDE DEF P
  <2> QED
    BY <1>1, <1>2, Induct
<1>4. Cardinality(S) \in Nat
  BY FS_CardinalityType
<1> QED
  BY <1>3, <1>4

LEMMA NewestFirstLists ==
    ASSUME NEW S \in SUBSET Rows, IsFiniteSet(S)
    PROVE  /\ NewestFirst(S) \in [1..Cardinality(S) -> S] /\ Cardinality(S) \in Nat
           /\ InNewOrder(NewestFirst(S))
           /\ \A r \in S : \E i \in 1..Cardinality(S) : NewestFirst(S)[i] = r
<1> DEFINE list == NewestFirst(S)
           n == Cardinality(S)
<1>1. n \in Nat
  BY FS_CardinalityType
<1>2. \E l \in [1..n -> S] : \A i, j \in DOMAIN l : i < j => Newer(l[i], l[j])
  BY RowsAreListed DEF InNewOrder
<1>3. list \in [1..n -> S] /\ \A i, j \in DOMAIN list : i < j => Newer(list[i], list[j])
  BY <1>2 DEF NewestFirst
<1> HIDE DEF list, n
<1>4. list \in Seq(S) /\ Len(list) = n /\ DOMAIN list = 1..n
  BY <1>1, <1>3
<1>5. IsInjective(list)
  <2>1. SUFFICES ASSUME NEW i \in 1..n, NEW j \in 1..n, list[i] = list[j] PROVE i = j
    BY <1>4 DEF IsInjective
  <2>2. list[i] \in Rows /\ list[j] \in Rows
    BY <1>3
  <2>3. ~ i < j /\ ~ j < i
    BY <1>3, <1>4, <2>1, <2>2, NewerOrders
  <2> QED
    BY <1>1, <2>3
<1>6. IsFiniteSet(Range(list)) /\ Cardinality(Range(list)) = n
  BY <1>4, <1>5, LengthIsCount
<1>7. Range(list) \in SUBSET S
  BY <1>3, <1>4 DEF Range
<1>8. Range(list) = S
  BY <1>6, <1>7, FS_Subset DEF n
<1>9. \A r \in S : \E i \in 1..n : list[i] = r
  BY <1>4, <1>8 DEF Range
<1> QED
  BY <1>1, <1>3, <1>9 DEF list, n, InNewOrder

(* A page holds the first rows, and what it does not hold follows it.       *)
LEMMA PageKeeps ==
    ASSUME NEW S \in SUBSET Rows, IsFiniteSet(S), NEW limit \in Nat \ {0}
    PROVE  LET page == PageOf(S, limit)
           IN  /\ page.data \in Seq(S) /\ page.more \in BOOLEAN
               /\ Len(page.data) <= limit
               /\ InNewOrder(page.data)
               /\ page.more => Len(page.data) = limit
               /\ \A r \in S : \/ \E i \in DOMAIN page.data : page.data[i] = r
                               \/ page.more /\ Newer(page.data[limit], r)
<1> DEFINE sorted == NewestFirst(S)
           n == Cardinality(S)
           m == IF limit < n THEN limit ELSE n
           data == SubSeq(sorted, 1, m)
<1>1. /\ sorted \in [1..n -> S] /\ n \in Nat
      /\ InNewOrder(sorted)
      /\ \A r \in S : \E i \in 1..n : sorted[i] = r
  BY NewestFirstLists
<1> HIDE DEF sorted, n
<1>2. sorted \in Seq(S) /\ Len(sorted) = n /\ DOMAIN sorted = 1..n
  BY <1>1
<1>3. PageOf(S, limit) = [data |-> data, more |-> n > limit]
  BY <1>2 DEF PageOf, sorted
<1>4. m \in 0..n /\ m <= limit /\ (n > limit => m = limit) /\ (n <= limit => m = n)
  BY <1>1
<1> HIDE DEF m
<1>5. data \in Seq(S) /\ Len(data) = m /\ DOMAIN data = 1..m
      /\ \A i \in 1..m : data[i] = sorted[i]
  BY <1>2, <1>4
<1> HIDE DEF data
<1>6. InNewOrder(data)
  BY <1>1, <1>2, <1>4, <1>5 DEF InNewOrder
<1>7. ASSUME NEW r \in S
      PROVE  \/ \E i \in DOMAIN data : data[i] = r
             \/ n > limit /\ Newer(data[limit], r)
  <2>1. PICK i \in 1..n : sorted[i] = r
    BY <1>1
  <2>2. CASE i <= m
    BY <1>5, <2>1, <2>2
  <2>3. CASE i > m
    <3>1. n > limit /\ m = limit /\ limit \in 1..n /\ limit < i
      BY <1>1, <1>4, <2>1, <2>3
    <3>2. Newer(sorted[limit], sorted[i])
      BY <1>1, <1>2, <2>1, <3>1 DEF InNewOrder
    <3> QED
      BY <1>5, <2>1, <3>1, <3>2
  <2> QED
    BY <1>1, <1>4, <2>2, <2>3
<1> DEFINE page == PageOf(S, limit)
<1>8. page.data = data /\ page.more \in BOOLEAN /\ (page.more <=> n > limit)
  <2> DEFINE more == n > limit
  <2>1. page = [data |-> data, more |-> more]
    BY <1>3
  <2> HIDE DEF page, more
  <2>2. page.data = data /\ page.more = more
    BY <2>1, Zenon
  <2>3. more \in BOOLEAN /\ (more <=> n > limit)
    BY DEF more
  <2>4. page.more \in BOOLEAN /\ (page.more <=> more)
    BY <2>2, <2>3, Zenon
  <2> QED
    BY <2>2, <2>3, <2>4, Zenon
<1> HIDE DEF page
<1>9. /\ page.data \in Seq(S) /\ Len(page.data) <= limit /\ InNewOrder(page.data)
      /\ page.more \in BOOLEAN /\ (page.more => Len(page.data) = limit)
  BY <1>4, <1>5, <1>6, <1>8
<1>10. ASSUME NEW r \in S
       PROVE  \/ \E i \in DOMAIN page.data : page.data[i] = r
              \/ page.more /\ Newer(page.data[limit], r)
  <2>1. CASE \E i \in DOMAIN data : data[i] = r
    BY <1>8, <2>1
  <2>2. CASE n > limit /\ Newer(data[limit], r)
    <3>1. page.more /\ page.data = data
      BY <1>8, <2>2, Zenon
    <3> QED
      BY <2>2, <3>1, Zenon
  <2> QED
    BY <1>7, <2>1, <2>2
<1> QED
  BY <1>9, <1>10 DEF page

(***************************************************************************)
(* What the store and a playback hold, for the lists.                      *)
(***************************************************************************)
TablesTyped ==
    /\ made \in Nat /\ clock \in Nat
    /\ DOMAIN plays \subseteq 1..made /\ DOMAIN ratings \subseteq 1..made
    /\ \A d \in deleted : d.id \in 1..made
    /\ \A id \in DOMAIN plays : plays[id].ts \in Int
    /\ \A id \in DOMAIN ratings : ratings[id].ts \in Int
    /\ \A video \in Pending : player.pending[video] \in 1..made
    /\ \A r \in late : r.op = "play" => r.id \in 1..made

(* What a step does to the rows: one there was is kept as it is or deleted, *)
(* and one that is new was never there.                                     *)
RowsStay ==
    /\ made' \in Nat /\ made <= made'
    /\ \A id \in DOMAIN plays' :
            \/ id \in DOMAIN plays /\ plays'[id] = plays[id]
            \/ ~ EverStored(id)
    /\ \A id \in DOMAIN ratings' :
            \/ id \in DOMAIN ratings /\ ratings'[id] = ratings[id]
            \/ id \notin 1..made

LEMMA InitTables == Init => TablesTyped
<1>1. SUFFICES ASSUME Init PROVE TablesTyped
  OBVIOUS
<1>2. /\ left \in Scenarios /\ plays = left.plays /\ ratings = left.ratings
      /\ deleted = {} /\ clock = left.clock /\ late = {} /\ player = NoPlayer
      /\ made = Cardinality(DOMAIN plays \cup DOMAIN ratings)
  BY <1>1 DEF Init
<1>3. PICK n \in 0..Cardinality(DOMAIN plays \cup DOMAIN ratings) :
            DOMAIN plays \cup DOMAIN ratings = 1..n
  BY <1>2, LibraryAssumption
<1>4. n \in Nat
  <2>1. n \in Int /\ 0 <= n
    BY <1>3
  <2> QED
    BY <2>1
<1>5. Cardinality(1..n) = n
  BY <1>4, FS_Interval
<1>6. made = n
  BY <1>2, <1>3, <1>5
<1>7. Pending = {}
  BY <1>2 DEF Pending, NoPlayer
<1> QED
  BY <1>2, <1>3, <1>4, <1>6, <1>7, LibraryAssumption DEF TablesTyped

(* A play recorded has an id that no play had.                              *)
LEMMA CreatedRows ==
    ASSUME NEW id, NEW video, NEW at \in Int, CreatePlay(id, video, at), clock \in Int
    PROVE  \A i \in DOMAIN plays' :
                \/ i \in DOMAIN plays /\ plays'[i] = plays[i]
                \/ i = id /\ ~ EverStored(i) /\ plays'[i].ts \in Int
<1>1. CASE PlayAnswer(id, video, at) # "created"
  BY <1>1 DEF CreatePlay
<1>2. CASE PlayAnswer(id, video, at) = "created"
  <2> DEFINE row == [handle |-> NextHandle, video |-> video,
                     ts |-> IF at = Arrival THEN clock ELSE at]
  <2>1. plays' = [i \in DOMAIN plays \cup {id} |-> IF i \in DOMAIN plays THEN plays[i] ELSE row]
    BY <1>2 DEF CreatePlay, InsertPlay
  <2>2. row.ts \in Int
    OBVIOUS
  <2>3. ~ EverStored(id)
    BY <1>2 DEF PlayAnswer, EverStored
  <2> HIDE DEF row
  <2> QED
    BY <2>1, <2>2, <2>3
<1> QED
  BY <1>1, <1>2

LEMMA DeletedRows ==
    ASSUME NEW ref, DeletePlayNamed(ref)
    PROVE  /\ \A i \in DOMAIN plays' : i \in DOMAIN plays /\ plays'[i] = plays[i]
           /\ \A d \in deleted' : d \in deleted \/ d.id \in DOMAIN plays
<1>1. CASE UNCHANGED <<plays, deleted, history>>
  BY <1>1
<1>2. CASE \E id \in ShowPlay(ref) : DeleteNamed(id)
  <2>1. PICK id \in ShowPlay(ref) : DeleteNamed(id)
    BY <1>2
  <2> DEFINE d == [id |-> id, handle |-> plays[id].handle]
  <2>2. deleted' = deleted \cup {d} /\ plays' = [i \in DOMAIN plays \ {id} |-> plays[i]]
    BY <2>1 DEF DeleteNamed, KeepDeletedPlay, DeletePlay
  <2>3. d.id = id /\ id \in DOMAIN plays
    BY NamedAreStored DEF ShowPlay
  <2> HIDE DEF d
  <2> QED
    BY <2>2, <2>3
<1> QED
  BY <1>1, <1>2 DEF DeletePlayNamed

LEMMA NextTables ==
    TablesTyped /\ ListensFollowed /\ [Next]_vars => TablesTyped' /\ RowsStay
<1>1. SUFFICES ASSUME TablesTyped, ListensFollowed, [Next]_vars PROVE TablesTyped' /\ RowsStay
  OBVIOUS
<1>2. /\ made \in Nat /\ clock \in Nat /\ player.todo \subseteq Pending
      /\ \A video \in player.todo : IdSent(video) \in 1..made
  BY <1>1 DEF TablesTyped, ListensFollowed, IdSent
<1>3. ASSUME \A i \in DOMAIN plays' :
                \/ i \in DOMAIN plays /\ plays'[i] = plays[i]
                \/ i \in 1..made' /\ ~ EverStored(i) /\ plays'[i].ts \in Int,
             \A i \in DOMAIN ratings' :
                \/ i \in DOMAIN ratings /\ ratings'[i] = ratings[i]
                \/ i \in 1..made' /\ i \notin 1..made /\ ratings'[i].ts \in Int,
             \A d \in deleted' : d \in deleted \/ d.id \in DOMAIN plays,
             made' \in {made, made + 1}, clock' \in Nat,
             \A video \in Pending' : player'.pending[video] \in 1..made',
             \A r \in late' : r.op = "play" => r.id \in 1..made'
      PROVE  TablesTyped' /\ RowsStay
  <2>1. made' \in Nat /\ made <= made' /\ 1..made \subseteq 1..made'
    BY <1>2, <1>3
  <2>2. \A id \in DOMAIN plays' : id \in 1..made' /\ plays'[id].ts \in Int
    BY <1>1, <1>3, <2>1 DEF TablesTyped
  <2>3. \A id \in DOMAIN ratings' : id \in 1..made' /\ ratings'[id].ts \in Int
    BY <1>1, <1>3, <2>1 DEF TablesTyped
  <2>4. \A d \in deleted' : d.id \in 1..made'
    BY <1>1, <1>3, <2>1 DEF TablesTyped
  <2> QED
    BY <1>3, <2>1, <2>2, <2>3, <2>4 DEF TablesTyped, RowsStay
<1>4. \A n \in {made, made + 1} : 1..made \subseteq 1..n
  BY <1>2
<1>5. ASSUME UNCHANGED <<player, late>>, made' \in {made, made + 1}
      PROVE  /\ \A video \in Pending' : player'.pending[video] \in 1..made'
             /\ \A r \in late' : r.op = "play" => r.id \in 1..made'
  BY <1>1, <1>4, <1>5 DEF TablesTyped, Pending
<1>6. CASE UNCHANGED vars \/ Listing \/ SecondPasses
  <2>1. UNCHANGED <<plays, deleted, ratings, made, late, player>> /\ clock' \in {clock, clock + 1}
    BY <1>6 DEF vars, Listing, ListsSome, Lists, ReadsPage, LosesCursor, SecondPasses
  <2>2. clock' \in Nat
    BY <1>2, <2>1
  <2> QED
    BY <1>2, <1>3, <1>5, <2>1, <2>2
<1>7. CASE Playback
  <2>1. ASSUME NEW video \in Videos, Counts(video) PROVE TablesTyped' /\ RowsStay
    <3> DEFINE pending == [v \in Pending \cup {video} |->
                             IF v = video THEN NewId ELSE player.pending[v]]
    <3>1. player'.pending = pending /\ made' = made + 1
      BY <1>1, <2>1 DEF Counts, Pending, NewId, ListensFollowed, IsPlayer
    <3>2. \A v \in DOMAIN pending : pending[v] \in 1..(made + 1)
      BY <1>1, <1>2 DEF TablesTyped, NewId
    <3>3. UNCHANGED <<plays, deleted, ratings, clock, late>>
      BY <2>1 DEF Counts
    <3>4. \A r \in late' : r.op = "play" => r.id \in 1..made'
      BY <1>1, <1>4, <3>1, <3>3 DEF TablesTyped
    <3>5. \A v \in Pending' : player'.pending[v] \in 1..made'
      BY <3>1, <3>2 DEF Pending
    <3> QED
      BY <1>2, <1>3, <3>1, <3>3, <3>4, <3>5
  <2>2. ASSUME NEW video \in Videos, Sent(video) PROVE TablesTyped' /\ RowsStay
    <3>1. /\ CreatePlay(IdSent(video), video, Arrival) /\ IdSent(video) \in 1..made
          /\ UNCHANGED <<deleted, ratings, clock, made, late>>
      BY <1>2, <2>2 DEF Sent
    <3>2. \A i \in DOMAIN plays' :
                \/ i \in DOMAIN plays /\ plays'[i] = plays[i]
                \/ i = IdSent(video) /\ ~ EverStored(i) /\ plays'[i].ts \in Int
      <4>1. Arrival \in Int /\ clock \in Int
        BY <1>2 DEF Arrival
      <4> QED
        BY <3>1, <4>1, CreatedRows
    <3>3. \A v \in Pending' : v \in Pending /\ player'.pending[v] = player.pending[v]
      BY <1>1, <2>2 DEF Sent, NotPending, Pending, ListensFollowed, IsPlayer
    <3>4. \A v \in Pending' : player'.pending[v] \in 1..made'
      BY <1>1, <3>1, <3>3 DEF TablesTyped
    <3>5. \A r \in late' : r.op = "play" => r.id \in 1..made'
      BY <1>1, <3>1 DEF TablesTyped
    <3> QED
      BY <1>2, <1>3, <3>1, <3>2, <3>4, <3>5
  <2>3. ASSUME NEW video \in Videos, SentUnanswered(video) PROVE TablesTyped' /\ RowsStay
    <3> DEFINE r == [op |-> "play", id |-> IdSent(video), video |-> video]
    <3>1. /\ late' = late \cup {r} /\ r.id \in 1..made
          /\ UNCHANGED <<plays, deleted, ratings, clock, made>>
          /\ player'.pending = player.pending
      BY <1>1, <1>2, <2>3 DEF SentUnanswered, ListensFollowed, IsPlayer
    <3> HIDE DEF r
    <3>2. \A q \in late' : q.op = "play" => q.id \in 1..made'
      BY <1>1, <3>1 DEF TablesTyped
    <3>3. \A v \in Pending' : player'.pending[v] \in 1..made'
      BY <1>1, <3>1 DEF TablesTyped, Pending
    <3> QED
      BY <1>2, <1>3, <3>1, <3>2, <3>3
  <2>4. CASE PlaysSome \/ Resends \/ Exits \/ Reports
    <3>1. UNCHANGED <<plays, deleted, ratings, clock, made, late>>
      BY <2>4 DEF PlaysSome, Plays, Resends, Exits, Reports
    <3>2. player'.pending = player.pending \/ DOMAIN player'.pending = {}
      <4>1. CASE PlaysSome
        <5>1. PICK queue : player' = [NoPlayer EXCEPT !.pc = "playing", !.queue = queue]
          BY <4>1 DEF PlaysSome, Plays
        <5> QED
          BY <5>1 DEF NoPlayer
      <4>2. CASE Resends \/ Exits \/ Reports
        BY <1>1, <4>2 DEF Resends, Exits, Reports, ListensFollowed, IsPlayer
      <4> QED
        BY <2>4, <4>1, <4>2
    <3>3. \A v \in Pending' : player'.pending[v] \in 1..made'
      BY <1>1, <3>1, <3>2 DEF TablesTyped, Pending
    <3>4. \A r \in late' : r.op = "play" => r.id \in 1..made'
      BY <1>1, <3>1 DEF TablesTyped
    <3> QED
      BY <1>2, <1>3, <3>1, <3>3, <3>4
  <2> QED
    BY <1>7, <2>1, <2>2, <2>3, <2>4 DEF Playback
<1>8. CASE Commands
  <2>1. ASSUME NEW id, NEW video, NEW at \in Int, Adds(id, video, at), id \in 1..made \cup {NewId}
        PROVE  TablesTyped' /\ RowsStay
    <3>1. /\ CreatePlay(id, video, at) /\ made' = (IF id = NewId THEN NewId ELSE made)
          /\ UNCHANGED <<deleted, ratings, clock, late, player>>
      BY <2>1 DEF Adds
    <3>2. made' \in {made, made + 1} /\ id \in 1..made'
      BY <1>2, <2>1, <3>1 DEF NewId
    <3>3. \A i \in DOMAIN plays' :
                \/ i \in DOMAIN plays /\ plays'[i] = plays[i]
                \/ i = id /\ ~ EverStored(i) /\ plays'[i].ts \in Int
      <4>1. clock \in Int
        BY <1>2
      <4> QED
        BY <3>1, <4>1, CreatedRows
    <3> QED
      BY <1>2, <1>3, <1>5, <3>1, <3>2, <3>3
  <2>2. CASE AddsSome
    <3>1. ASSUME NEW video \in Videos, Adds(NewId, video, Arrival) PROVE TablesTyped' /\ RowsStay
      <4>1. Arrival \in Int /\ NewId \in 1..made \cup {NewId}
        BY DEF Arrival
      <4> QED
        BY <2>1, <3>1, <4>1
    <3>2. ASSUME NEW id \in DOMAIN plays \cup {d.id : d \in deleted}, NEW video \in Library,
                 NEW at \in {Arrival} \cup 0..(clock + ClockSkew + 1), Adds(id, video, at)
          PROVE  TablesTyped' /\ RowsStay
      <4>1. at \in Int /\ id \in 1..made \cup {NewId}
        BY <1>1 DEF Arrival, TablesTyped
      <4> QED
        BY <2>1, <3>2, <4>1
    <3> QED
      BY <2>2, <3>1, <3>2 DEF AddsSome
  <2>3. ASSUME NEW u \in Users, Confirms(u) PROVE TablesTyped' /\ RowsStay
    BY <1>2, <1>3, <1>5, <2>3, DeletedRows DEF Confirms, DeleteBy
  <2>4. ASSUME NEW u \in Users, (\E ref \in References : Asks(u, ref)) \/ Declines(u)
        PROVE  TablesTyped' /\ RowsStay
    BY <1>2, <1>3, <1>5, <2>4 DEF Asks, Declines
  <2>5. ASSUME NEW u \in Users, ConfirmsUnanswered(u) PROVE TablesTyped' /\ RowsStay
    <3> DEFINE r == [op |-> "delete", id |-> asking[u].shown]
    <3>1. /\ late' = late \cup {r} /\ r.op # "play"
          /\ UNCHANGED <<plays, deleted, ratings, clock, made, player>>
      BY <2>5 DEF ConfirmsUnanswered
    <3> HIDE DEF r
    <3>2. \A q \in late' : q.op = "play" => q.id \in 1..made'
      BY <1>1, <3>1 DEF TablesTyped
    <3>3. \A v \in Pending' : player'.pending[v] \in 1..made'
      BY <1>1, <3>1 DEF TablesTyped, Pending
    <3> QED
      BY <1>2, <1>3, <3>1, <3>2, <3>3
  <2>6. ASSUME NEW video \in Videos, Rates(video) PROVE TablesTyped' /\ RowsStay
    <3> DEFINE row == [video |-> video, ts |-> clock]
    <3>1. /\ made' = made + 1 /\ UNCHANGED <<plays, deleted, clock, late, player>>
          /\ \/ ratings' = ratings
             \/ ratings' = [i \in DOMAIN ratings \cup {made + 1} |->
                                IF i \in DOMAIN ratings THEN ratings[i] ELSE row]
      BY <2>6 DEF Rates, CreateRating, InsertRating, NewId
    <3>2. row.ts \in Int
      BY <1>2
    <3>3. made + 1 \in 1..(made + 1) /\ made + 1 \notin 1..made
      BY <1>2
    <3> HIDE DEF row
    <3> QED
      BY <1>2, <1>3, <1>5, <3>1, <3>2, <3>3
  <2>7. ASSUME NEW tail \in Tails, DeletesRating(tail) PROVE TablesTyped' /\ RowsStay
    <3>1. UNCHANGED <<plays, deleted, clock, made, late, player>>
      BY <2>7 DEF DeletesRating
    <3>2. PICK id : ratings' = [i \in DOMAIN ratings \ {id} |-> ratings[i]]
      BY <2>7 DEF DeletesRating, DeleteRatingNamed, DeleteRating
    <3> QED
      BY <1>2, <1>3, <1>5, <3>1, <3>2
  <2> QED
    BY <1>8, <2>2, <2>3, <2>4, <2>5, <2>6, <2>7 DEF Commands
<1>9. CASE \E r \in late : Lands(r)
  <2>1. PICK r \in late : Lands(r)
    BY <1>9
  <2>2. /\ late' = late \ {r} /\ UNCHANGED <<ratings, clock, made, player>>
    BY <2>1 DEF Lands
  <2>3. /\ \A v \in Pending' : player'.pending[v] \in 1..made'
        /\ \A q \in late' : q.op = "play" => q.id \in 1..made'
    BY <1>1, <2>2 DEF TablesTyped, Pending
  <2>4. CASE r.op = "play"
    <3>1. CreatePlay(r.id, r.video, Arrival) /\ deleted' = deleted /\ r.id \in 1..made
      BY <1>1, <2>1, <2>4 DEF Lands, TablesTyped
    <3>2. Arrival \in Int /\ clock \in Int
      BY <1>2 DEF Arrival
    <3>3. \A i \in DOMAIN plays' :
                \/ i \in DOMAIN plays /\ plays'[i] = plays[i]
                \/ i = r.id /\ ~ EverStored(i) /\ plays'[i].ts \in Int
      BY <3>1, <3>2, CreatedRows
    <3> QED
      BY <1>2, <1>3, <2>2, <2>3, <3>1, <3>3
  <2>5. CASE r.op # "play"
    <3>1. DeletePlayNamed(TheId(r.id))
      BY <2>1, <2>5 DEF Lands
    <3> QED
      BY <1>2, <1>3, <2>2, <2>3, <3>1, DeletedRows
  <2> QED
    BY <2>4, <2>5
<1> QED
  BY <1>1, <1>6, <1>7, <1>8, <1>9 DEF Next

(***************************************************************************)
(* A list while it is read.                                                *)
(***************************************************************************)
IsListing ==
    listing = [pc |-> listing.pc, kind |-> listing.kind, of |-> listing.of,
               limit |-> listing.limit, rows |-> listing.rows, more |-> listing.more,
               before |-> listing.before]

ReadIds == {listing.rows[i].id : i \in DOMAIN listing.rows}

(* What was held from the start is read, or follows the last row read.      *)
RestFollows ==
    \A id \in listing.before \cap DOMAIN Table :
        id \in ReadIds \/ listing.rows = <<>> \/ Newer(Last(listing.rows), Row(Table, id))

ListRead ==
    /\ IsListing
    /\ listing.pc \in {"idle", "reading", "listed"}
    /\ listing.pc # "idle" =>
        /\ listing.kind \in {"plays", "ratings"}
        /\ listing.limit \in Nat
        /\ listing.rows \in Seq(Rows) /\ InNewOrder(listing.rows)
        /\ listing.kind = "plays" => \A id \in listing.before : EverStored(id)
        /\ listing.kind = "ratings" =>
            \A id \in listing.before :
                /\ id \in 1..made
                /\ id \in DOMAIN ratings => ratings[id].video \in listing.of
    /\ listing.pc = "reading" => Len(listing.rows) < listing.limit /\ RestFollows
    /\ PagesMissNothing

(* A row held from the start stays as it was, or is deleted.                *)
LEMMA ListStays ==
    ASSUME ListRead, TablesTyped, RowsStay, \A id : EverStored(id) => EverStored(id)',
           listing' = listing
    PROVE  ListRead'
<1>1. CASE listing.pc = "idle"
  BY <1>1 DEF ListRead, IsListing, PagesMissNothing
<1>2. CASE listing.pc # "idle"
  <2>1. ASSUME NEW id \in listing.before, id \in DOMAIN Table'
        PROVE  id \in DOMAIN Table /\ Table'[id] = Table[id] /\ Row(Table, id)' = Row(Table, id)
    <3>1. CASE listing.kind = "plays"
      <4>1. EverStored(id) /\ Table = plays /\ Table' = plays'
        BY <1>2, <3>1 DEF ListRead, Table
      <4>2. id \in DOMAIN plays /\ plays'[id] = plays[id]
        BY <2>1, <4>1 DEF RowsStay
      <4> QED
        BY <4>1, <4>2 DEF Row
    <3>2. CASE listing.kind # "plays"
      <4>1. id \in 1..made /\ Table = ratings /\ Table' = ratings'
        BY <1>2, <3>2 DEF ListRead, Table
      <4>2. id \in DOMAIN ratings /\ ratings'[id] = ratings[id]
        BY <2>1, <4>1 DEF RowsStay
      <4> QED
        BY <4>1, <4>2 DEF Row
    <3> QED
      BY <3>1, <3>2
  <2>2. listing.kind = "ratings" =>
            \A id \in listing.before :
                /\ id \in 1..made'
                /\ id \in DOMAIN ratings' => ratings'[id].video \in listing.of
    <3>1. SUFFICES ASSUME listing.kind = "ratings", NEW id \in listing.before
                   PROVE  /\ id \in 1..made'
                          /\ id \in DOMAIN ratings' => ratings'[id].video \in listing.of
      OBVIOUS
    <3>2. id \in 1..made /\ (id \in DOMAIN ratings => ratings[id].video \in listing.of)
      BY <1>2, <3>1 DEF ListRead
    <3>3. id \in 1..made'
      BY <3>2 DEF RowsStay, TablesTyped
    <3>4. id \in DOMAIN ratings' => id \in DOMAIN ratings /\ ratings'[id] = ratings[id]
      BY <3>2 DEF RowsStay
    <3> QED
      BY <3>2, <3>3, <3>4
  <2>3. RestFollows => RestFollows'
    BY <2>1 DEF RestFollows, ReadIds
  <2>4. PagesMissNothing'
    BY <2>1 DEF ListRead, PagesMissNothing
  <2> QED
    BY <1>2, <2>2, <2>3, <2>4 DEF ListRead, IsListing
<1> QED
  BY <1>1, <1>2

LEMMA ListStarts ==
    ASSUME TablesTyped, NEW kind \in {"plays", "ratings"}, NEW of, NEW limit \in 1..3,
           Lists(kind, of, limit)
    PROVE  ListRead'
<1>1. /\ listing' = [pc |-> "reading", kind |-> kind, of |-> of, limit |-> limit,
                     rows |-> <<>>, more |-> FALSE, before |-> Held(kind, of)]
      /\ UNCHANGED <<plays, deleted, ratings, made>>
  BY DEF Lists, NotListing
<1>2. /\ listing'.pc = "reading" /\ listing'.kind = kind /\ listing'.of = of
      /\ listing'.limit = limit /\ listing'.rows = <<>> /\ listing'.before = Held(kind, of)
      /\ IsListing'
  BY <1>1 DEF IsListing
<1>3. <<>> \in Seq(Rows) /\ InNewOrder(<<>>) /\ Len(<<>>) = 0
  BY DEF InNewOrder
<1>4. kind = "plays" => \A id \in Held(kind, of) : EverStored(id)'
  BY <1>1 DEF Held, EverStored
<1>5. kind = "ratings" => \A id \in Held(kind, of) : id \in 1..made /\ ratings[id].video \in of
  BY DEF Held, TablesTyped
<1>6. RestFollows' /\ PagesMissNothing'
  BY <1>2 DEF RestFollows, PagesMissNothing
<1> QED
  BY <1>1, <1>2, <1>3, <1>4, <1>5, <1>6 DEF ListRead

(* What a page is taken from: the rows after the last one read, and every   *)
(* one held from the start that is still to read.                           *)
LEMMA RowsToRead ==
    ASSUME TablesTyped, ListRead, listing.pc = "reading"
    PROVE  /\ ListedRows \in SUBSET Rows /\ IsFiniteSet(ListedRows)
           /\ listing.rows # <<>> => \A r \in ListedRows : Newer(Last(listing.rows), r)
           /\ \A id \in listing.before \cap DOMAIN Table :
                id \in ReadIds \/ Row(Table, id) \in ListedRows
<1>1. /\ \A id : Row(Table, id).id = id /\ Row(Table, id).ts = Table[id].ts
      /\ \A id \in DOMAIN Table : id \in 1..made /\ Row(Table, id) \in Rows
  BY DEF TablesTyped, Row, Table, Rows
<1>2. \A r : r \in ListedRows =>
            /\ \E id \in DOMAIN Table : r = Row(Table, id)
            /\ \A cursor \in Cursors : Newer(cursor, r)
  <2>1. CASE listing.kind = "plays"
    <3>1. Table = plays /\ listing.kind # "ratings"
      BY <2>1 DEF Table
    <3>2. CASE Cursors = {}
      BY <3>1, <3>2 DEF ListedRows, ListNewestPlays
    <3>3. CASE Cursors # {}
      <4>1. PICK cursor : Cursors = {cursor}
        BY <3>3 DEF Cursors
      <4>2. ListedRows = ListPlaysBefore(cursor)
        BY <3>1, <4>1 DEF ListedRows
      <4> QED
        BY <3>1, <4>1, <4>2 DEF ListPlaysBefore, Follows
    <3> QED
      BY <3>2, <3>3
  <2>2. CASE listing.kind = "ratings"
    BY <2>2 DEF ListedRows, ListRatings, Follows, Table
  <2> QED
    BY <2>1, <2>2 DEF ListRead
<1>3. ListedRows \in SUBSET Rows
  BY <1>1, <1>2
<1>4. IsFiniteSet(ListedRows)
  <2> DEFINE L == ListedRows
             I == 1..made
             f == [r \in L |-> r.id]
  <2>1. \A r \in L : r.id \in I /\ r = Row(Table, r.id)
    BY <1>1, <1>2
  <2>2. f \in [L -> I] /\ \A r \in L : f[r] = r.id
    BY <2>1
  <2>3. \A r, s \in L : f[r] = f[s] => r = s
    BY <2>1, <2>2
  <2>4. IsFiniteSet(I)
    BY FS_Interval DEF TablesTyped
  <2> HIDE DEF L, I, f
  <2>5. f \in Injection(L, I)
    BY <2>2, <2>3 DEF Injection, IsInjective
  <2>6. IsFiniteSet(L)
    BY <2>4, <2>5, FS_Injection
  <2> QED
    BY <2>6 DEF L
<1>5. listing.rows # <<>> => Cursors = {Last(listing.rows)}
  BY DEF Cursors
<1>6. ASSUME NEW id \in listing.before \cap DOMAIN Table, id \notin ReadIds
      PROVE  Row(Table, id) \in ListedRows
  <2>1. \A cursor \in Cursors : Newer(cursor, Row(Table, id))
    BY <1>6 DEF ListRead, RestFollows, Cursors
  <2>2. CASE listing.kind = "plays"
    BY <1>6, <2>1, <2>2 DEF ListedRows, ListNewestPlays, ListPlaysBefore, Follows, Table, Cursors
  <2>3. CASE listing.kind = "ratings"
    <3>1. id \in DOMAIN ratings /\ ratings[id].video \in listing.of
      BY <1>6, <2>3 DEF ListRead, Table
    <3> QED
      BY <2>1, <2>3, <3>1 DEF ListedRows, ListRatings, Follows, Table
  <2> QED
    BY <2>2, <2>3 DEF ListRead
<1> QED
  BY <1>2, <1>3, <1>4, <1>5, <1>6

LEMMA PageRead ==
    ASSUME TablesTyped, ListRead, ReadsPage
    PROVE  ListRead'
<1> DEFINE wanted == listing.limit - Len(listing.rows)
           limit == IF wanted < PageSize THEN wanted ELSE PageSize
           page == PageOf(ListedRows, limit)
           data == page.data
           before == listing.rows
           rows == before \o data
           S == ListedRows
<1>1. /\ listing.pc = "reading" /\ UNCHANGED <<plays, deleted, ratings, made>>
      /\ listing' = [listing EXCEPT !.rows = rows, !.more = page.more,
                        !.pc = IF page.more /\ Len(rows) < listing.limit
                               THEN "reading" ELSE "listed"]
  BY DEF ReadsPage
<1>2. /\ before \in Seq(Rows) /\ Len(before) \in Nat /\ listing.limit \in Nat
      /\ Len(before) < listing.limit /\ InNewOrder(before)
      /\ listing.kind \in {"plays", "ratings"}
  BY <1>1 DEF ListRead
<1>3. limit \in Nat \ {0} /\ limit <= wanted
  BY <1>2, LibraryAssumption
<1>4. /\ S \in SUBSET Rows /\ IsFiniteSet(S)
      /\ before # <<>> => \A r \in S : Newer(Last(before), r)
      /\ \A id \in listing.before \cap DOMAIN Table : id \in ReadIds \/ Row(Table, id) \in S
  BY <1>1, RowsToRead
<1>5. /\ data \in Seq(S) /\ page.more \in BOOLEAN
      /\ Len(data) <= limit
      /\ InNewOrder(data)
      /\ page.more => Len(data) = limit
      /\ \A r \in S : \/ \E i \in DOMAIN data : data[i] = r
                      \/ page.more /\ Newer(data[limit], r)
  <2> HIDE DEF limit, S
  <2>1. LET p == PageOf(S, limit)
        IN  /\ p.data \in Seq(S) /\ p.more \in BOOLEAN
            /\ Len(p.data) <= limit
            /\ InNewOrder(p.data)
            /\ p.more => Len(p.data) = limit
            /\ \A r \in S : \/ \E i \in DOMAIN p.data : p.data[i] = r
                            \/ p.more /\ Newer(p.data[limit], r)
    BY <1>3, <1>4, PageKeeps
  <2> QED
    BY <2>1 DEF S
<1>6. /\ listing'.rows = rows /\ listing'.more = page.more /\ listing'.kind = listing.kind
      /\ listing'.of = listing.of /\ listing'.limit = listing.limit
      /\ listing'.before = listing.before /\ IsListing'
      /\ listing'.pc = (IF page.more /\ Len(rows) < listing.limit THEN "reading" ELSE "listed")
  BY <1>1 DEF ListRead, IsListing
<1> HIDE DEF limit, page, data, S, before
<1>7. data \in Seq(Rows) /\ Len(data) \in Nat /\ DOMAIN data = 1..Len(data)
  BY <1>4, <1>5
<1>8. /\ rows \in Seq(Rows) /\ Len(rows) = Len(before) + Len(data)
      /\ DOMAIN rows = 1..(Len(before) + Len(data)) /\ DOMAIN before = 1..Len(before)
      /\ \A i \in 1..Len(before) : rows[i] = before[i]
      /\ \A i \in 1..Len(data) : rows[Len(before) + i] = data[i]
  BY <1>2, <1>7
<1> HIDE DEF rows
<1>9. Len(rows) <= listing.limit
  <2>1. wanted = listing.limit - Len(before)
    BY DEF before
  <2> HIDE DEF wanted
  <2>2. Len(data) <= wanted
    <3>1. Len(data) <= limit /\ limit <= wanted /\ limit \in Nat
      BY <1>3, <1>5
    <3>2. wanted \in Int /\ Len(data) \in Nat
      BY <1>2, <1>7, <2>1
    <3> QED
      BY <3>1, <3>2
  <2>3. Len(rows) = Len(before) + Len(data)
    BY <1>8
  <2> QED
    BY <1>2, <1>7, <2>1, <2>2, <2>3
<1>10. Len(data) > 0 => rows # <<>> /\ Last(rows) = data[Len(data)]
  BY <1>2, <1>7, <1>8 DEF Last
<1>11. \A i \in 1..Len(data) : data[i] \in S
  BY <1>5, <1>7
<1>12. InNewOrder(rows)
  <2>1. SUFFICES ASSUME NEW i \in DOMAIN rows, NEW j \in DOMAIN rows, i < j
                 PROVE  Newer(rows[i], rows[j])
    BY DEF InNewOrder
  <2>2. CASE j <= Len(before)
    <3>1. i \in 1..Len(before) /\ j \in 1..Len(before)
      BY <1>2, <1>7, <1>8, <2>1, <2>2
    <3>2. Newer(before[i], before[j])
      BY <1>2, <1>8, <2>1, <3>1 DEF InNewOrder
    <3> QED
      BY <1>8, <3>1, <3>2
  <2>3. CASE i > Len(before)
    <3>1. PICK k \in 1..Len(data) : i = Len(before) + k
      <4>1. i - Len(before) \in 1..Len(data)
        BY <1>2, <1>7, <1>8, <2>1, <2>3
      <4> QED
        BY <1>2, <1>7, <1>8, <4>1
    <3>2. PICK l \in 1..Len(data) : j = Len(before) + l
      <4>1. j - Len(before) \in 1..Len(data)
        BY <1>2, <1>7, <1>8, <2>1, <2>3
      <4> QED
        BY <1>2, <1>7, <1>8, <4>1
    <3>3. k < l
      BY <1>2, <2>1, <3>1, <3>2
    <3>4. Newer(data[k], data[l])
      BY <1>5, <1>7, <3>3 DEF InNewOrder
    <3>5. rows[i] = data[k] /\ rows[j] = data[l]
      BY <1>8, <3>1, <3>2
    <3> QED
      BY <3>4, <3>5
  <2>4. CASE i <= Len(before) /\ j > Len(before)
    <3>1. PICK l \in 1..Len(data) : j = Len(before) + l
      <4>1. j - Len(before) \in 1..Len(data)
        BY <1>2, <1>7, <1>8, <2>1, <2>4
      <4> QED
        BY <1>2, <1>7, <1>8, <4>1
    <3>2. i \in 1..Len(before) /\ before # <<>> /\ Len(before) \in 1..Len(before)
      BY <1>2, <1>8, <2>4
    <3>3. Newer(Last(before), data[l]) /\ Last(before) = before[Len(before)]
      BY <1>4, <1>11, <3>1, <3>2 DEF Last
    <3>4. i = Len(before) \/ Newer(before[i], Last(before))
      <4>1. i = Len(before) \/ i < Len(before)
        BY <1>2, <3>2
      <4>2. i < Len(before) => Newer(before[i], before[Len(before)])
        BY <1>2, <1>8, <3>2 DEF InNewOrder
      <4> QED
        BY <3>3, <4>1, <4>2
    <3>5. before[i] \in Rows /\ Last(before) \in Rows /\ data[l] \in Rows
      BY <1>2, <1>7, <1>8, <3>2, <3>3
    <3>6. Newer(before[i], data[l])
      BY <3>3, <3>4, <3>5, NewerOrders
    <3> QED
      BY <1>8, <3>1, <3>2, <3>6
  <2> QED
    BY <1>2, <1>7, <1>8, <2>2, <2>3, <2>4
<1>13. Table' = Table /\ \A id : Row(Table, id)' = Row(Table, id) /\ Row(Table, id).id = id
  BY <1>1, <1>6 DEF Table, Row
<1>14. ReadIds \subseteq ReadIds' /\ \A i \in 1..Len(data) : data[i].id \in ReadIds'
  <2>1. /\ ReadIds = {before[i].id : i \in DOMAIN before}
        /\ ReadIds' = {rows[i].id : i \in DOMAIN rows}
    BY <1>6 DEF ReadIds, before
  <2>2. \A i \in 1..Len(before) : i \in DOMAIN rows
    BY <1>2, <1>7, <1>8
  <2>3. \A i \in 1..Len(data) : Len(before) + i \in DOMAIN rows
    BY <1>2, <1>7, <1>8
  <2> QED
    BY <1>8, <2>1, <2>2, <2>3
<1>15. \A id \in listing.before \cap DOMAIN Table :
            \/ id \in ReadIds'
            \/ page.more /\ rows # <<>> /\ Newer(Last(rows), Row(Table, id))
  <2>1. SUFFICES ASSUME NEW id \in listing.before \cap DOMAIN Table, id \notin ReadIds'
                 PROVE  page.more /\ rows # <<>> /\ Newer(Last(rows), Row(Table, id))
    OBVIOUS
  <2>2. Row(Table, id) \in S /\ Row(Table, id).id = id
    BY <1>4, <1>13, <1>14, <2>1
  <2>3. page.more /\ Newer(data[limit], Row(Table, id))
    BY <1>5, <1>7, <1>14, <2>1, <2>2
  <2> QED
    BY <1>3, <1>5, <1>10, <2>3
<1>16. RestFollows'
  BY <1>6, <1>13, <1>15 DEF RestFollows
<1>17. PagesMissNothing'
  <2>1. SUFFICES ASSUME listing'.pc = "listed"
                 PROVE  /\ \A i, j \in DOMAIN rows : i < j => Newer(rows[i], rows[j])
                        /\ \A id \in listing.before \cap DOMAIN Table :
                             \/ id \in ReadIds'
                             \/ /\ page.more /\ Len(rows) = listing.limit
                                /\ Newer(Last(rows), Row(Table, id))
    BY <1>6, <1>13 DEF PagesMissNothing, ReadIds
  <2>2. page.more => Len(rows) = listing.limit
    <3>1. page.more => ~ Len(rows) < listing.limit
      BY <1>6, <2>1
    <3>2. Len(rows) \in Nat
      BY <1>2, <1>7, <1>8
    <3> QED
      BY <1>2, <1>9, <3>1, <3>2
  <2> QED
    BY <1>12, <1>15, <2>2 DEF InNewOrder
<1>18. /\ listing.kind = "plays" => \A id \in listing.before : EverStored(id)'
       /\ listing.kind = "ratings" =>
            \A id \in listing.before :
                /\ id \in 1..made
                /\ id \in DOMAIN ratings => ratings[id].video \in listing.of
  BY <1>1 DEF ListRead, EverStored, IsPlayDeleted
<1> QED
  BY <1>1, <1>2, <1>6, <1>8, <1>12, <1>16, <1>17, <1>18 DEF ListRead

LEMMA NextRead ==
    ListRead /\ TablesTyped /\ ListensFollowed /\ [Next]_vars => ListRead'
<1>1. SUFFICES ASSUME ListRead, TablesTyped, ListensFollowed, [Next]_vars PROVE ListRead'
  OBVIOUS
<1>2. RowsStay /\ \A id : EverStored(id) => EverStored(id)'
  BY <1>1, NextTables, StoredStays
<1>3. CASE listing' = listing
  BY <1>1, <1>2, <1>3, ListStays
<1>4. CASE ListsSome
  BY <1>1, <1>4, ListStarts DEF ListsSome
<1>5. CASE ReadsPage
  BY <1>1, <1>5, PageRead
<1>6. CASE LosesCursor
  <2>1. listing' = NotListing
    BY <1>6 DEF LosesCursor
  <2> QED
    BY <2>1 DEF NotListing, ListRead, IsListing, PagesMissNothing
<1>7. CASE UNCHANGED vars \/ Playback \/ Commands \/ (\E r \in late : Lands(r)) \/ SecondPasses
  <2>1. listing' = listing
    BY <1>7 DEF vars, Playback, PlaysSome, Plays, Counts, Resends, Sent, SentUnanswered, Exits,
                Reports, Commands, AddsSome, Adds, Asks, Confirms, ConfirmsUnanswered, Declines,
                Rates, DeletesRating, Lands, SecondPasses
  <2> QED
    BY <1>3, <2>1
<1> QED
  BY <1>1, <1>4, <1>5, <1>6, <1>7 DEF Next, Listing

(* A list read over pages holds every row there was from its start to its    *)
(* end, once, newest first, up to its limit, whatever is added and deleted   *)
(* between the pages.                                                        *)
THEOREM ListsMissNothing == Spec => []PagesMissNothing
<1> DEFINE IInv == ListRead /\ TablesTyped /\ ListensFollowed
<1>1. Init => IInv
  <2>1. Init => ListRead
    BY DEF Init, NotListing, ListRead, IsListing, PagesMissNothing
  <2> QED
    BY <2>1, InitTables, InitFollowed
<1>2. IInv /\ [Next]_vars => IInv'
  BY NextRead, NextTables, NextFollowed
<1>3. IInv => PagesMissNothing
  BY DEF ListRead
<1> HIDE DEF IInv
<1> QED
  BY <1>1, <1>2, <1>3, PTL DEF Spec

=============================================================================
