------------------------ MODULE PlaylistWritesProofs ------------------------
(***************************************************************************)
(* Proofs that a playlist whose delete is on record is not stored again,   *)
(* and that the store holds what the API's recorded writes made.           *)
(***************************************************************************)
EXTENDS PlaylistWrites, TLAPS

USE DEF GetPlaylist, UpsertPlaylist, UpdatePlaylistDetails, DeletePlaylist,
        LatestPlaylistWriteSettledAfter, WriteNewerThanRead

Playlist == [live : BOOLEAN, title : Nat, description : Nat]
Method == {"none", "create", "update", "delete"}
RequestState ==
    [pc : {"idle", "wait", "read", "merge", "send", "settle"},
     op : {"none", "create", "title", "description", "delete"},
     had : Playlist, view : Playlist, since : Method, details : Playlist,
     outcome : {"none", "applied", "absent", "refused", "unanswered"}]
ListingState ==
    [pc : {"idle", "listed", "gone", "merge"}, view : Playlist, since : Method,
     sinceRead : Method]

TypeInv ==
    /\ youtube \in Playlist
    /\ older \in SUBSET Playlist
    /\ row \in Playlist
    /\ lately \in Method
    /\ request \in [Clients -> RequestState]
    /\ listing \in ListingState
    /\ happened \in [writes : Nat, owner : Nat, faults : Nat]
    /\ history \in [made : BOOLEAN, deleted : BOOLEAN, lost : BOOLEAN]

(* Writes take turns.                                                       *)
OneTurn == \A c, d \in Clients : HasTurn(c) /\ HasTurn(d) => c = d

(* No playlist anywhere, and no request but the one given.                  *)
Nowhere(others) ==
    /\ ~youtube.live /\ ~row.live /\ ~listing.view.live
    /\ \A view \in older : ~view.live
    /\ \A d \in others : request[d].pc = "idle"
    /\ ~history.deleted

NoneMade == ~history.made => Nowhere(Clients)

(* A create is the first of all, and nothing is deleted while it lasts.     *)
Creating(c) == request[c].pc # "idle" /\ request[c].op = "create"
CreateFirst == \A c \in Clients : Creating(c) =>
    /\ history.made /\ ~history.deleted
    /\ request[c].pc \in {"wait", "send", "settle"}
    /\ request[c].pc # "settle" => Nowhere(Clients \ {c})

(* A delete sends and stores nothing live, and is there once answered.      *)
DeleteDeletes == \A c \in Clients : request[c].op = "delete" =>
    /\ request[c].pc \notin {"read", "merge"}
    /\ request[c].pc \in {"send", "settle"} => ~request[c].details.live
    /\ request[c].pc = "settle" /\ request[c].outcome \in {"applied", "absent"}
          => ~youtube.live

MergesListed == listing.pc = "merge" => listing.view.live

(* What still shows the playlist is known to be older than the delete.      *)
StaysDeleted == history.deleted =>
    /\ history.made /\ ~youtube.live /\ ~row.live
    /\ \A c \in Clients : ~HasTurn(c)
    /\ (\E view \in older : view.live) => lately # "none"
    /\ listing.pc # "idle" /\ listing.view.live => listing.since # "none"

DeletedInv ==
    TypeInv /\ OneTurn /\ NoneMade /\ CreateFirst /\ DeleteDeletes
    /\ MergesListed /\ StaysDeleted

-----------------------------------------------------------------------------
LEMMA ConstantsTyped ==
    /\ Absent \in Playlist /\ Details(0, 0) \in Playlist
    /\ NoRequest \in RequestState /\ NoListing \in ListingState
  <1>1. Absent \in Playlist /\ Details(0, 0) \in Playlist
    BY DEF Absent, Details, Playlist
  <1> QED
    BY <1>1 DEF NoRequest, NoListing, RequestState, ListingState, Method

LEMMA TypesFromInit == PlaylistWritesInit => TypeInv
  <1> SUFFICES ASSUME PlaylistWritesInit PROVE TypeInv
    OBVIOUS
  <1>1. youtube.live \in BOOLEAN
    BY ConstantsTyped DEF PlaylistWritesInit, Playlist
  <1>2. /\ happened \in [writes : Nat, owner : Nat, faults : Nat]
        /\ history \in [made : BOOLEAN, deleted : BOOLEAN, lost : BOOLEAN]
    BY <1>1 DEF PlaylistWritesInit
  <1> QED
    BY <1>2, ConstantsTyped DEF PlaylistWritesInit, TypeInv, Method

LEMMA DeletedFromInit == PlaylistWritesInit => DeletedInv
  BY TypesFromInit
  DEF PlaylistWritesInit, DeletedInv, OneTurn, NoneMade, CreateFirst,
      DeleteDeletes, MergesListed, StaysDeleted, Nowhere, Creating, HasTurn,
      Absent, Details, NoRequest, NoListing

(* What a request becomes.                                                  *)
LEMMA RequestBecomes ==
    ASSUME TypeInv, NEW c \in Clients, NEW r \in RequestState,
           request' = [request EXCEPT ![c] = r]
    PROVE  request' \in [Clients -> RequestState]
  BY DEF TypeInv

LEMMA FaultCounted ==
    ASSUME TypeInv, Fails
    PROVE  happened' \in [writes : Nat, owner : Nat, faults : Nat]
  BY DEF TypeInv, Fails

LEMMA VersionTyped ==
    ASSUME TypeInv
    PROVE  Details(NextVersion, NextVersion) \in Playlist /\ NextVersion \in Nat
  BY DEF TypeInv, Details, NextVersion, Playlist

(* Every step keeps the types.                                              *)
LEMMA RequestsTyped ==
    ASSUME TypeInv, NEW c \in Clients,
           \/ \E op \in {"create", "title", "description", "delete"} : Ask(c, op)
           \/ GoesAway(c) \/ TakeWriteTurn(c) \/ ReadDetails(c) \/ MergeDetails(c)
           \/ NothingWritten(c)
    PROVE  TypeInv'
  <1> USE ConstantsTyped, VersionTyped DEF TypeInv
  <1>1. ASSUME NEW op \in {"create", "title", "description", "delete"}, Ask(c, op)
        PROVE  TypeInv'
    <2>1. [NoRequest EXCEPT !.pc = "wait", !.op = op] \in RequestState
      BY DEF RequestState, NoRequest
    <2>2. request' \in [Clients -> RequestState]
      BY <1>1, <2>1, RequestBecomes DEF Ask
    <2>3. happened' \in [writes : Nat, owner : Nat, faults : Nat]
      BY <1>1 DEF Ask
    <2>4. history' \in [made : BOOLEAN, deleted : BOOLEAN, lost : BOOLEAN]
      BY <1>1 DEF Ask
    <2> QED
      BY <1>1, <2>2, <2>3, <2>4 DEF Ask
  <1>2. CASE GoesAway(c) \/ NothingWritten(c)
    BY <1>2, RequestBecomes, FaultCounted DEF GoesAway, NothingWritten
  <1>3. CASE TakeWriteTurn(c)
    <2> DEFINE d == IF request[c].op = "create"
                    THEN Details(NextVersion, NextVersion) ELSE Absent
    <2> DEFINE taken == [request[c] EXCEPT !.pc = IF Renames(c) THEN "read" ELSE "send",
                                           !.had = row, !.details = d]
    <2>1. d \in Playlist
      OBVIOUS
    <2> HIDE DEF d
    <2>2. taken \in RequestState
      BY <2>1 DEF RequestState
    <2>3. request' = [request EXCEPT ![c] = IF ~FindsRow(c) THEN NoRequest ELSE taken]
      BY <1>3 DEF TakeWriteTurn, d
    <2> HIDE DEF taken
    <2>4. request' \in [Clients -> RequestState]
      BY <2>2, <2>3, RequestBecomes
    <2> QED
      BY <1>3, <2>4 DEF TakeWriteTurn
  <1>4. CASE ReadDetails(c)
    <2>1. PICK view \in Views : request' = [request EXCEPT ![c] =
                [request[c] EXCEPT !.pc = "merge", !.view = view, !.since = lately]]
      BY <1>4 DEF ReadDetails
    <2>2. view \in Playlist /\ lately \in Method /\ request[c] \in RequestState
      BY DEF Views
    <2>3. [request[c] EXCEPT !.pc = "merge", !.view = view, !.since = lately] \in RequestState
      BY <2>2 DEF RequestState
    <2>4. request' \in [Clients -> RequestState]
      BY <2>1, <2>3, RequestBecomes
    <2> QED
      BY <1>4, <2>4 DEF ReadDetails
  <1>5. CASE MergeDetails(c)
    <2> DEFINE current == CurrentDetails(request[c])
               set == IF request[c].op = "title"
                      THEN [current EXCEPT !.title = NextVersion]
                      ELSE [current EXCEPT !.description = NextVersion]
    <2>1. current \in Playlist
      BY DEF CurrentDetails, RequestState
    <2>2. set \in Playlist
      BY <2>1 DEF Playlist
    <2>3. \/ request' = [request EXCEPT ![c] =
                  [request[c] EXCEPT !.pc = "send", !.details = set]] /\ row' = row
          \/ request' = [request EXCEPT ![c] = NoRequest] /\ row' = Absent
      BY <1>5 DEF MergeDetails
    <2> HIDE DEF set
    <2>4. [request[c] EXCEPT !.pc = "send", !.details = set] \in RequestState
      BY <2>2 DEF RequestState
    <2>5. request' \in [Clients -> RequestState] /\ row' \in Playlist
      BY <2>3, <2>4, RequestBecomes
    <2> QED
      BY <1>5, <2>5 DEF MergeDetails
  <1> QED
    BY <1>1, <1>2, <1>3, <1>4, <1>5

LEMMA SendsTyped ==
    ASSUME TypeInv, NEW c \in Clients,
           \/ SendApplied(c) \/ SendAbsent(c) \/ SendRefused(c) \/ SendLost(c)
           \/ SettleWrite(c) \/ SettleFails(c)
    PROVE  TypeInv'
  <1> USE ConstantsTyped DEF TypeInv
  <1>1. ASSUME NEW o \in {"applied", "absent", "refused", "unanswered"}, Answered(c, o)
        PROVE  request' \in [Clients -> RequestState]
    <2>1. [request[c] EXCEPT !.pc = "settle", !.outcome = o] \in RequestState
      BY DEF RequestState
    <2>2. request' = [request EXCEPT ![c] =
                [request[c] EXCEPT !.pc = "settle", !.outcome = o]]
      BY <1>1 DEF Answered
    <2> QED
      BY <2>1, <2>2, RequestBecomes
  <1>2. Made(c) => youtube' \in Playlist /\ older' \in SUBSET Playlist
    BY DEF Made, Changes, Views, RequestState
  <1>3. CASE SendApplied(c)
    BY <1>1, <1>2, <1>3 DEF SendApplied
  <1>4. CASE SendAbsent(c)
    BY <1>1, <1>4 DEF SendAbsent
  <1>5. CASE SendRefused(c)
    BY <1>1, <1>5, FaultCounted DEF SendRefused
  <1>6. CASE SendLost(c)
    BY <1>1, <1>2, <1>6, FaultCounted DEF SendLost
  <1>7. CASE SettleWrite(c)
    <2>1. lately' \in Method /\ listing' \in ListingState
      <3>1. SettledMethod(c) \in Method
        BY DEF SettledMethod, Renames, Method, RequestState
      <3>2. [listing EXCEPT !.since = SettledMethod(c), !.sinceRead = SettledMethod(c)]
                \in ListingState
        BY <3>1 DEF ListingState
      <3> QED
        BY <1>7, <3>1, <3>2 DEF SettleWrite
    <2>2. row' \in Playlist
      BY <1>7 DEF SettleWrite, RequestState, IsMade, Renames, Stored
    <2>3. request' \in [Clients -> RequestState]
      BY <1>7, RequestBecomes DEF SettleWrite
    <2>4. IsMade(request[c]) \in BOOLEAN
      BY DEF IsMade
    <2>5. history' \in [made : BOOLEAN, deleted : BOOLEAN, lost : BOOLEAN]
      BY <1>7, <2>4 DEF SettleWrite
    <2> QED
      BY <1>7, <2>1, <2>2, <2>3, <2>5 DEF SettleWrite
  <1>8. CASE SettleFails(c)
    BY <1>8, FaultCounted, RequestBecomes DEF SettleFails
  <1> QED
    BY <1>3, <1>4, <1>5, <1>6, <1>7, <1>8

LEMMA TypesByNext ==
    ASSUME TypeInv, [PlaylistWritesNext]_playlistWritesVars
    PROVE  TypeInv'
  <1> USE ConstantsTyped DEF TypeInv
  <1>1. CASE Requests
    BY <1>1, RequestsTyped, SendsTyped DEF Requests, GoesOn
  <1>2. CASE List
    <2>1. PICK view \in Views : listing' =
                [NoListing EXCEPT !.pc = "listed", !.view = view, !.since = lately]
      BY <1>2 DEF List
    <2>2. view \in Playlist /\ lately \in Method
      BY DEF Views
    <2>3. listing' \in ListingState
      BY <2>1, <2>2 DEF ListingState
    <2> QED
      BY <1>2, <2>3 DEF List
  <1>3. CASE ReadFinds
    BY <1>3 DEF ReadFinds, Views, ListingState
  <1>4. CASE DeleteGone \/ StoreDetails \/ NothingListed
    BY <1>4 DEF DeleteGone, StoreDetails, NothingListed, ListedDetails, ListingState
  <1>5. CASE PassFails
    BY <1>5, FaultCounted DEF PassFails
  <1>6. CASE OwnerWrites
    <2>1. [youtube EXCEPT !.title = NextVersion] \in Playlist
          /\ [youtube EXCEPT !.description = NextVersion] \in Playlist
      BY VersionTyped DEF Playlist
    <2>2. youtube' \in Playlist /\ older' \in SUBSET Playlist
      BY <1>6, <2>1 DEF OwnerWrites, Changes, Views
    <2>3. happened' \in [writes : Nat, owner : Nat, faults : Nat]
      BY <1>6 DEF OwnerWrites
    <2>4. history' \in [made : BOOLEAN, deleted : BOOLEAN, lost : BOOLEAN]
      BY <1>6 DEF OwnerWrites
    <2> QED
      BY <1>6, <2>2, <2>3, <2>4 DEF OwnerWrites
  <1>7. CASE YouTubeShows \/ ReadLagPasses
    BY <1>7 DEF YouTubeShows, ReadLagPasses, Method
  <1>8. CASE Stops
    BY <1>8, FaultCounted DEF Stops
  <1>9. CASE UNCHANGED playlistWritesVars
    BY <1>9 DEF playlistWritesVars
  <1> QED
    BY <1>1, <1>2, <1>3, <1>4, <1>5, <1>6, <1>7, <1>8, <1>9
    DEF PlaylistWritesNext, Listing

(***************************************************************************)
(* Every step keeps the other conjuncts.                                   *)
(***************************************************************************)
NeverStoredAgain == OneTurn /\ NoneMade /\ CreateFirst /\ DeleteDeletes /\ MergesListed
          /\ StaysDeleted

LEMMA AskSafe ==
    ASSUME DeletedInv, NEW c \in Clients,
           NEW op \in {"create", "title", "description", "delete"}, Ask(c, op)
    PROVE  NeverStoredAgain'
  <1> USE DEF DeletedInv, TypeInv, Nowhere, Creating, HasTurn
  <1>0. request' = [request EXCEPT ![c] = [NoRequest EXCEPT !.pc = "wait", !.op = op]]
    BY DEF Ask
  <1>1. /\ request'[c].pc = "wait" /\ request'[c].op = op /\ request[c].pc = "idle"
        /\ \A d \in Clients \ {c} : request'[d] = request[d]
        /\ history'.made /\ history'.deleted = history.deleted
        /\ op = "create" => ~history.made
        /\ op # "create" => row.live
        /\ UNCHANGED <<youtube, older, row, lately, listing>>
    BY DEF Ask, NoRequest, Stored
  <1>2. OneTurn'
    BY <1>1 DEF OneTurn
  <1>3. NoneMade'
    BY <1>1 DEF NoneMade
  <1>4. CreateFirst'
    BY <1>1 DEF CreateFirst, NoneMade
  <1>5. DeleteDeletes'
    BY <1>1 DEF DeleteDeletes
  <1>6. MergesListed'
    BY <1>1 DEF MergesListed
  <1>7. StaysDeleted'
    BY <1>1 DEF StaysDeleted, NoneMade
  <1> QED
    BY <1>2, <1>3, <1>4, <1>5, <1>6, <1>7 DEF NeverStoredAgain

(* A request that ends, or goes on with the same operation and nothing live *)
(* in a delete, and changes nothing else.                                   *)
LEMMA RequestGoesOn ==
    ASSUME DeletedInv, TypeInv', NEW c \in Clients, NEW r \in RequestState,
           request' = [request EXCEPT ![c] = r],
           UNCHANGED <<youtube, older, row, lately, listing>>,
           history'.made = history.made, history'.deleted = history.deleted,
           \/ r = NoRequest
           \/ /\ request[c].pc \notin {"idle", "settle"} /\ r.op = request[c].op
              /\ r.pc \in {"send", "settle"} /\ r.op = "delete" => ~r.details.live
              /\ r.pc = "settle" => request[c].pc = "send"
              /\ r.pc = "settle" /\ r.op = "delete" /\ r.outcome \in {"applied", "absent"}
                    => ~youtube.live
              /\ r.pc \in {"read", "merge", "send", "settle"}
              /\ r.op \in {"create", "delete"} => r.pc \in {"send", "settle"}
              /\ \A d \in Clients \ {c} : ~HasTurn(d)
              /\ ~history.deleted
    PROVE  NeverStoredAgain'
  <1> USE DEF DeletedInv, TypeInv, Nowhere, Creating, HasTurn
  <1>1. \A d \in Clients : request'[d] = IF d = c THEN r ELSE request[d]
    OBVIOUS
  <1>2. OneTurn'
    BY <1>1 DEF OneTurn, NoRequest
  <1>3. NoneMade'
    BY <1>1 DEF NoneMade, NoRequest
  <1>4. CreateFirst'
    BY <1>1 DEF CreateFirst, NoRequest
  <1>5. DeleteDeletes'
    BY <1>1 DEF DeleteDeletes, NoRequest
  <1>6. MergesListed'
    BY DEF MergesListed
  <1>7. StaysDeleted'
    BY <1>1 DEF StaysDeleted, NoRequest
  <1> QED
    BY <1>2, <1>3, <1>4, <1>5, <1>6, <1>7 DEF NeverStoredAgain

LEMMA RequestsSafe ==
    ASSUME DeletedInv, TypeInv', NEW c \in Clients,
           GoesAway(c) \/ TakeWriteTurn(c) \/ ReadDetails(c) \/ MergeDetails(c)
           \/ NothingWritten(c)
    PROVE  NeverStoredAgain'
  <1> USE DEF DeletedInv
  <1>1. ASSUME request' = [request EXCEPT ![c] = NoRequest],
               UNCHANGED <<youtube, older, row, lately, listing, history>>
        PROVE  NeverStoredAgain'
    BY <1>1, ConstantsTyped, RequestGoesOn
  <1>2. CASE GoesAway(c) \/ NothingWritten(c)
    BY <1>1, <1>2 DEF GoesAway, NothingWritten
  <1>3. CASE TakeWriteTurn(c)
    <2>1. CASE ~FindsRow(c)
      BY <1>1, <1>3, <2>1 DEF TakeWriteTurn
    <2>2. CASE FindsRow(c)
      <3>1. request'[c] \in RequestState
        BY DEF TypeInv
      <3>2. /\ request' = [request EXCEPT ![c] = request'[c]]
            /\ request'[c].op = request[c].op
            /\ request'[c].pc = IF Renames(c) THEN "read" ELSE "send"
            /\ request'[c].details = IF request[c].op = "create"
                    THEN Details(NextVersion, NextVersion) ELSE Absent
        BY <1>3, <2>2 DEF TakeWriteTurn, TypeInv, RequestState
      <3>3. /\ request[c].op \in {"create", "delete"} => ~Renames(c)
            /\ request[c].op = "create" => ~history.deleted
        BY <1>3 DEF Renames, CreateFirst, Creating, TakeWriteTurn
      <3>4. history.deleted => request[c].op = "create"
        BY <2>2 DEF FindsRow, Stored, StaysDeleted
      <3>5. /\ request[c].pc = "wait" /\ \A d \in Clients : ~HasTurn(d)
            /\ UNCHANGED <<youtube, older, row, lately, listing, history>>
        BY <1>3 DEF TakeWriteTurn, HasTurn
      <3> QED
        BY <3>1, <3>2, <3>3, <3>4, <3>5, RequestGoesOn DEF Absent
    <2> QED
      BY <2>1, <2>2
  <1>4. ASSUME request[c].pc \in {"read", "merge"}
        PROVE  request[c].op # "create" /\ ~history.deleted
               /\ \A d \in Clients \ {c} : ~HasTurn(d)
    BY <1>4 DEF CreateFirst, Creating, StaysDeleted, OneTurn, HasTurn
  <1>5. CASE ReadDetails(c)
    <2>1. request'[c] \in RequestState
      BY DEF TypeInv
    <2>2. PICK view \in Views : request' = [request EXCEPT ![c] =
                [request[c] EXCEPT !.pc = "merge", !.view = view, !.since = lately]]
      BY <1>5 DEF ReadDetails
    <2>3. /\ request' = [request EXCEPT ![c] = request'[c]]
          /\ request'[c].op = request[c].op
          /\ request'[c].pc = "merge"
      BY <2>2 DEF TypeInv, RequestState
    <2>4. request[c].op # "delete"
      BY <1>5 DEF ReadDetails, DeleteDeletes
    <2> QED
      BY <1>4, <1>5, <2>1, <2>3, <2>4, RequestGoesOn DEF ReadDetails
  <1>6. CASE MergeDetails(c)
    <2>1. CASE CurrentDetails(request[c]).live
      <3>1. request'[c] \in RequestState
        BY DEF TypeInv
      <3>2. /\ request' = [request EXCEPT ![c] = request'[c]]
            /\ request'[c].op = request[c].op
            /\ request'[c].pc = "send" /\ row' = row
        BY <1>6, <2>1 DEF MergeDetails, TypeInv, RequestState
      <3>3. request[c].op # "delete"
        BY <1>6 DEF MergeDetails, DeleteDeletes
      <3> QED
        BY <1>4, <1>6, <3>1, <3>2, <3>3, RequestGoesOn DEF MergeDetails
    <2>2. CASE ~CurrentDetails(request[c]).live
      <3>1. /\ request' = [request EXCEPT ![c] = NoRequest] /\ ~row'.live
            /\ UNCHANGED <<youtube, older, lately, listing, history>>
        BY <1>6, <2>2 DEF MergeDetails, Absent
      <3> QED
        BY <3>1 DEF NeverStoredAgain, TypeInv, OneTurn, NoneMade, CreateFirst,
            DeleteDeletes, MergesListed, StaysDeleted, Nowhere, Creating, HasTurn,
            NoRequest
    <2> QED
      BY <2>1, <2>2
  <1> QED
    BY <1>2, <1>3, <1>5, <1>6

(* YouTube makes a write.                                                   *)
LEMMA MadeSafe ==
    ASSUME DeletedInv, TypeInv', NEW c \in Clients, request[c].pc = "send",
           Made(c) \/ UNCHANGED <<youtube, older>>,
           Answered(c, "applied") \/ Answered(c, "unanswered"),
           UNCHANGED <<row, lately, listing>>,
           Answered(c, "applied") => Made(c),
           history'.made = history.made, history'.deleted = history.deleted
    PROVE  NeverStoredAgain'
  <1> USE DEF DeletedInv, TypeInv, Nowhere, Creating, HasTurn
  <1>1. /\ request'[c].pc = "settle" /\ request'[c].op = request[c].op
        /\ request'[c].details = request[c].details
        /\ request'[c].outcome = "applied" => Made(c)
        /\ request'[c].outcome # "absent"
        /\ \A d \in Clients \ {c} : request'[d] = request[d]
    BY DEF Answered, RequestState
  <1>2. ~history.deleted
    BY DEF StaysDeleted
  <1>3. history.made
    BY DEF NoneMade
  <1>4. \A d \in Clients \ {c} : ~HasTurn(d) /\ (Creating(d) => FALSE)
    BY DEF OneTurn, CreateFirst
  <1>5. OneTurn' /\ NoneMade' /\ MergesListed' /\ StaysDeleted'
    BY <1>1, <1>2, <1>3, <1>4 DEF OneTurn, NoneMade, MergesListed, StaysDeleted
  <1>6. CreateFirst'
    BY <1>1, <1>2, <1>3, <1>4 DEF CreateFirst
  <1>7. DeleteDeletes'
    BY <1>1, <1>4 DEF DeleteDeletes, Made, Changes
  <1> QED
    BY <1>5, <1>6, <1>7 DEF NeverStoredAgain

LEMMA SendsSafe ==
    ASSUME DeletedInv, TypeInv', NEW c \in Clients,
           \/ SendApplied(c) \/ SendAbsent(c) \/ SendRefused(c) \/ SendLost(c)
           \/ SettleFails(c)
    PROVE  NeverStoredAgain'
  <1>1. CASE SendApplied(c)
    BY <1>1, MadeSafe DEF SendApplied
  <1>2. CASE SendLost(c)
    <2>1. ~Answered(c, "applied")
      <3>1. request'[c].outcome = "unanswered"
        BY <1>2 DEF SendLost, Answered, DeletedInv, TypeInv, RequestState
      <3>2. Answered(c, "applied") => request'[c].outcome = "applied"
        BY DEF Answered, DeletedInv, TypeInv, RequestState
      <3> QED
        BY <3>1, <3>2
    <2>2. history'.made = history.made /\ history'.deleted = history.deleted
      BY <1>2 DEF SendLost, DeletedInv, TypeInv
    <2>3. Answered(c, "unanswered") /\ request[c].pc = "send"
          /\ (Made(c) \/ UNCHANGED <<youtube, older>>) /\ UNCHANGED <<row, lately, listing>>
      BY <1>2 DEF SendLost
    <2> QED
      BY <2>1, <2>2, <2>3, MadeSafe
  <1>3. CASE SendAbsent(c) \/ SendRefused(c)
    <2>1. request'[c] \in RequestState
      BY DEF TypeInv
    <2>2. /\ request' = [request EXCEPT ![c] = request'[c]]
          /\ request'[c].pc = "settle" /\ request'[c].op = request[c].op
          /\ request'[c].details = request[c].details
          /\ request'[c].outcome = "absent" => ~youtube.live
          /\ request'[c].outcome # "applied"
      BY <1>3 DEF SendAbsent, SendRefused, Answered, DeletedInv, TypeInv, RequestState
    <2>3. request[c].pc = "send" /\ UNCHANGED <<youtube, older, row, lately, listing, history>>
      BY <1>3 DEF SendAbsent, SendRefused
    <2>4. ~history.deleted /\ \A d \in Clients \ {c} : ~HasTurn(d)
      BY <2>3 DEF DeletedInv, StaysDeleted, OneTurn, HasTurn
    <2>5. request[c].op = "delete" => ~request[c].details.live
      BY <2>3 DEF DeletedInv, DeleteDeletes
    <2> QED
      BY <2>1, <2>2, <2>3, <2>4, <2>5, RequestGoesOn
  <1>4. CASE SettleFails(c)
    <2>1. history'.made = history.made /\ history'.deleted = history.deleted
      BY <1>4 DEF SettleFails, DeletedInv, TypeInv
    <2> QED
      BY <1>4, <2>1, ConstantsTyped, RequestGoesOn DEF SettleFails
  <1> QED
    BY <1>1, <1>2, <1>3, <1>4

(* The settlement: of a delete, it is newer than the listing under way.     *)
LEMMA SettleSafe ==
    ASSUME DeletedInv, TypeInv', NEW c \in Clients, SettleWrite(c)
    PROVE  NeverStoredAgain'
  <1> USE DEF DeletedInv, TypeInv, Nowhere, Creating, HasTurn
  <1>1. /\ request[c].pc = "settle" /\ request'[c].pc = "idle" /\ request'[c].op = "none"
        /\ \A d \in Clients \ {c} : request'[d] = request[d]
        /\ UNCHANGED <<youtube, older>>
        /\ listing'.pc = listing.pc /\ listing'.view = listing.view
        /\ history'.made = history.made
    BY DEF SettleWrite, NoRequest, ListingState
  <1>2. ~history.deleted /\ history.made
    BY <1>1 DEF StaysDeleted, NoneMade
  <1>3. \A d \in Clients \ {c} : ~HasTurn(d) /\ ~Creating(d)
    BY <1>1 DEF OneTurn, CreateFirst
  <1>4. OneTurn' /\ NoneMade' /\ CreateFirst' /\ MergesListed'
    BY <1>1, <1>2, <1>3 DEF OneTurn, NoneMade, CreateFirst, MergesListed
  <1>5. DeleteDeletes'
    BY <1>1, <1>3 DEF DeleteDeletes
  <1>6. StaysDeleted'
    <2>1. SUFFICES ASSUME history'.deleted PROVE StaysDeleted'
      BY DEF StaysDeleted
    <2>2. IsMade(request[c]) /\ request[c].op = "delete"
      BY <1>2, <2>1 DEF SettleWrite
    <2>3. request[c].outcome \in {"applied", "absent"}
      BY <2>2 DEF IsMade
    <2>4. ~youtube.live /\ ~request[c].details.live
      BY <1>1, <2>2, <2>3 DEF DeleteDeletes
    <2>5. ~row'.live
      BY <2>2 DEF SettleWrite, Renames, Absent
    <2>6. lately' = "delete"
      BY <2>2, <2>3 DEF SettleWrite, SettledMethod, Renames
    <2>7. listing.pc # "idle" => listing'.since = "delete"
      BY <2>2, <2>3 DEF SettleWrite, SettledMethod, Renames, ListingState
    <2> QED
      BY <1>1, <1>2, <1>3, <2>4, <2>5, <2>6, <2>7 DEF StaysDeleted
  <1> QED
    BY <1>4, <1>5, <1>6 DEF NeverStoredAgain

LEMMA ListingSafe ==
    ASSUME DeletedInv, TypeInv', List \/ Listing \/ PassFails
    PROVE  NeverStoredAgain'
  <1> USE DEF DeletedInv, TypeInv, Nowhere, Creating, HasTurn
  <1>1. UNCHANGED <<youtube, older, lately, request, history>>
    BY DEF List, Listing, ReadFinds, DeleteGone, StoreDetails, NothingListed, PassFails
  <1>2. OneTurn' /\ DeleteDeletes'
    BY <1>1 DEF OneTurn, DeleteDeletes
  <1>3. ASSUME ~listing'.view.live, ~row'.live \/ row' = row, listing'.pc # "merge"
        PROVE  NeverStoredAgain'
    BY <1>1, <1>2, <1>3
    DEF NeverStoredAgain, NoneMade, CreateFirst, MergesListed, StaysDeleted
  <1>4. ~NoListing.view.live /\ NoListing.pc = "idle"
    BY DEF NoListing, Absent
  <1>5. CASE List
    <2>1. PICK view \in Views : listing' =
                [NoListing EXCEPT !.pc = "listed", !.view = view, !.since = lately]
      BY <1>5 DEF List
    <2>2. /\ listing'.pc = "listed" /\ listing'.view = view /\ listing'.since = lately
          /\ row' = row
      BY <1>5, <2>1 DEF NoListing, List
    <2>3. view.live => youtube.live \/ \E v \in older : v.live
      BY DEF Views
    <2> QED
      BY <1>1, <1>2, <2>2, <2>3
      DEF NeverStoredAgain, NoneMade, CreateFirst, MergesListed, StaysDeleted
  <1>6. CASE ReadFinds
    <2>1. /\ listing'.view = listing.view /\ listing'.since = listing.since
          /\ listing'.pc = "merge" => listing.view.live
          /\ listing.pc = "listed" /\ row' = row
          /\ row.live \/ listing.view.live
      BY <1>6 DEF ReadFinds, ListingState, Stored
    <2> QED
      BY <1>1, <1>2, <2>1
      DEF NeverStoredAgain, NoneMade, CreateFirst, MergesListed, StaysDeleted
  <1>7. CASE DeleteGone \/ NothingListed \/ PassFails
    <2>1. listing' = NoListing /\ (~row'.live \/ row' = row)
      BY <1>7 DEF DeleteGone, NothingListed, PassFails, Absent
    <2> QED
      BY <1>3, <1>4, <2>1
  <1>8. CASE StoreDetails
    <2>1. listing' = NoListing /\ row' = ListedDetails /\ listing.view.live
          /\ listing.pc # "idle"
      BY <1>8 DEF StoreDetails, MergesListed
    <2>2. row' = IF listing.since # "none" THEN row ELSE listing.view
      BY <2>1 DEF ListedDetails
    <2> QED
      BY <1>1, <1>2, <1>4, <2>1, <2>2
      DEF NeverStoredAgain, NoneMade, CreateFirst, MergesListed, StaysDeleted
  <1> QED
    BY <1>5, <1>6, <1>7, <1>8 DEF Listing

LEMMA TheRestSafe ==
    ASSUME DeletedInv, TypeInv',
           OwnerWrites \/ YouTubeShows \/ ReadLagPasses \/ Stops
           \/ UNCHANGED playlistWritesVars
    PROVE  NeverStoredAgain'
  <1> USE DEF DeletedInv, TypeInv, Nowhere, Creating, HasTurn
  <1>1. CASE OwnerWrites
    <2>1. /\ youtube.live /\ UNCHANGED <<row, lately, request, listing>>
          /\ history'.made = history.made /\ history'.deleted = history.deleted
      BY <1>1 DEF OwnerWrites
    <2>2. ~history.deleted /\ history.made
      BY <2>1 DEF StaysDeleted, NoneMade
    <2>3. \A c \in Clients : Creating(c) => request[c].pc = "settle"
      BY <2>1 DEF CreateFirst
    <2>4. ASSUME NEW c \in Clients, request[c].op = "delete", request[c].pc = "settle",
                 request[c].outcome \in {"applied", "absent"}
          PROVE  FALSE
      BY <2>1, <2>4 DEF DeleteDeletes
    <2> QED
      BY <2>1, <2>2, <2>3, <2>4 DEF NeverStoredAgain, OneTurn, NoneMade, CreateFirst,
         DeleteDeletes, MergesListed, StaysDeleted
  <1>2. CASE YouTubeShows
    BY <1>2 DEF YouTubeShows, NeverStoredAgain, OneTurn, NoneMade, CreateFirst,
       DeleteDeletes, MergesListed, StaysDeleted
  <1>3. CASE ReadLagPasses
    BY <1>3 DEF ReadLagPasses, NeverStoredAgain, OneTurn, NoneMade, CreateFirst,
       DeleteDeletes, MergesListed, StaysDeleted
  <1>4. CASE Stops
    <2>1. /\ \A c \in Clients : request'[c].pc = "idle" /\ request'[c].op = "none"
          /\ ~listing'.view.live /\ listing'.pc = "idle"
          /\ UNCHANGED <<youtube, older, row, lately>>
          /\ history'.made = history.made /\ history'.deleted = history.deleted
      BY <1>4 DEF Stops, NoRequest, NoListing, Absent
    <2> QED
      BY <2>1 DEF NeverStoredAgain, OneTurn, NoneMade, CreateFirst,
         DeleteDeletes, MergesListed, StaysDeleted
  <1>5. CASE UNCHANGED playlistWritesVars
    BY <1>5 DEF playlistWritesVars, NeverStoredAgain, OneTurn, NoneMade, CreateFirst,
       DeleteDeletes, MergesListed, StaysDeleted
  <1> QED
    BY <1>1, <1>2, <1>3, <1>4, <1>5

LEMMA DeletedByNext ==
    ASSUME DeletedInv, [PlaylistWritesNext]_playlistWritesVars
    PROVE  DeletedInv'
  <1>1. TypeInv'
    BY TypesByNext DEF DeletedInv
  <1>2. ASSUME Requests PROVE NeverStoredAgain'
    BY <1>1, <1>2, AskSafe, RequestsSafe, SendsSafe, SettleSafe DEF Requests, GoesOn
  <1>3. ASSUME ~Requests PROVE NeverStoredAgain'
    BY <1>1, <1>3, ListingSafe, TheRestSafe DEF PlaylistWritesNext
  <1>4. NeverStoredAgain'
    BY <1>2, <1>3
  <1> QED
    BY <1>1, <1>4 DEF DeletedInv, NeverStoredAgain

(* Whatever is listed, read or renamed, and whatever fails: a playlist whose *)
(* delete is on record is not stored again.                                  *)
THEOREM DeletedPlaylistIsNotStored == PlaylistWritesSpec => []DeletedForGood
  <1>1. DeletedInv => DeletedForGood
    BY DEF DeletedInv, StaysDeleted, DeletedForGood
  <1> QED
    BY <1>1, DeletedFromInit, DeletedByNext, PTL DEF PlaylistWritesSpec

-----------------------------------------------------------------------------
(***************************************************************************)
(* The store holds what YouTube does.  Between YouTube's answer to a write  *)
(* and its settlement the store, a listing and a read may have either side *)
(* of it; otherwise, what is not newer than a recorded write is YouTube's. *)
(***************************************************************************)

(* YouTube made the request's write, which is not settled.                   *)
MadeUnsettled(c) == request[c].pc = "settle" /\ request[c].outcome = "applied"

(* What YouTube holds, or held before the write not settled.                 *)
SinceSettled(view) ==
    view = youtube \/ \E c \in Clients : MadeUnsettled(c) /\ view = request[c].had

LiveOrAbsent(playlist) == playlist.live \/ playlist = Absent

(* What the request that has its turn holds.                                 *)
TurnFollows(c) ==
    /\ LiveOrAbsent(request[c].had)
    /\ request[c].op # "create" => request[c].had.live
    /\ request[c].pc # "settle" => request[c].had = youtube
    /\ request[c].pc = "merge" /\ request[c].since = "none" => request[c].view = youtube
    /\ request[c].pc \in {"send", "settle"} =>
            /\ LiveOrAbsent(request[c].details)
            /\ request[c].op # "delete" => request[c].details.live
    /\ MadeUnsettled(c) => youtube = request[c].details
    /\ request[c].pc = "settle" /\ request[c].outcome = "absent" => ~youtube.live

StoreFollows == ~history.lost =>
    /\ LiveOrAbsent(youtube)
    /\ SinceSettled(row)
    /\ lately = "none" => \A view \in older : SinceSettled(view)
    /\ listing.pc # "idle" /\ listing.since = "none" => SinceSettled(listing.view)
    /\ listing.pc = "gone" /\ listing.sinceRead = "none" => SinceSettled(Absent)
    /\ \A c \in Clients : request[c].pc # "idle" => request[c].op # "none"
    /\ \A c \in Clients : HasTurn(c) => TurnFollows(c)

LEMMA FollowsFromInit == PlaylistWritesInit => StoreFollows
  BY DEF PlaylistWritesInit, StoreFollows, LiveOrAbsent, SinceSettled, Details, Absent, NoListing,
         NoRequest, HasTurn

(* With no write unsettled, what would be either side of one is YouTube's.   *)
LEMMA OneSide ==
    ASSUME \A c \in Clients : ~MadeUnsettled(c), NEW view, SinceSettled(view)
    PROVE  view = youtube
  BY DEF SinceSettled

(* A request goes on, or ends, and its write is made neither before nor by   *)
(* this step.                                                                *)
LEMMA RequestFollows ==
    ASSUME DeletedInv, StoreFollows, NEW c \in Clients, NEW r \in RequestState,
           request' = [request EXCEPT ![c] = r], ~MadeUnsettled(c),
           r.pc = "settle" => r.outcome # "applied",
           ~history.lost /\ r.pc # "idle" => r.op # "none",
           UNCHANGED <<youtube, older, row, lately, listing>>,
           ~history'.lost => ~history.lost,
           ~history'.lost /\ r.pc \notin {"idle", "wait"} => TurnFollows(c)'
    PROVE  StoreFollows'
<1>1. \A d \in Clients : request'[d] = IF d = c THEN r ELSE request[d]
  BY DEF DeletedInv, TypeInv
<1>2. ASSUME NEW view, SinceSettled(view) PROVE SinceSettled(view)'
  BY <1>1, <1>2 DEF SinceSettled, MadeUnsettled
<1>3. SUFFICES ASSUME ~history'.lost, ~history.lost PROVE StoreFollows'
  BY DEF StoreFollows
<1>4. ASSUME NEW d \in Clients, HasTurn(d)' PROVE TurnFollows(d)'
  <2>1. CASE d = c
    BY <1>1, <1>3, <1>4, <2>1 DEF HasTurn
  <2>2. CASE d # c
    BY <1>1, <1>3, <1>4, <2>2 DEF StoreFollows, HasTurn, TurnFollows, MadeUnsettled
  <2> QED
    BY <2>1, <2>2
<1>5. /\ LiveOrAbsent(youtube)' /\ SinceSettled(row)'
      /\ lately' = "none" => \A view \in older' : SinceSettled(view)'
      /\ listing'.pc # "idle" /\ listing'.since = "none" => SinceSettled(listing.view)'
      /\ listing'.pc = "gone" /\ listing'.sinceRead = "none" => SinceSettled(Absent)'
  BY <1>2, <1>3 DEF StoreFollows, LiveOrAbsent
<1>6. \A d \in Clients : request'[d].pc # "idle" => request'[d].op # "none"
  BY <1>1, <1>3 DEF StoreFollows
<1> QED
  BY <1>4, <1>5, <1>6 DEF StoreFollows

(* Nobody's write is unsettled while another request has its turn.           *)
LEMMA TurnSettled ==
    ASSUME DeletedInv, NEW c \in Clients, HasTurn(c), ~MadeUnsettled(c)
    PROVE  \A d \in Clients : ~MadeUnsettled(d)
  BY DEF DeletedInv, OneTurn, MadeUnsettled, HasTurn

LEMMA EndsFollow ==
    ASSUME DeletedInv, StoreFollows, NEW c \in Clients,
           request' = [request EXCEPT ![c] = NoRequest], ~MadeUnsettled(c),
           UNCHANGED <<youtube, older, row, lately, listing>>,
           ~history'.lost => ~history.lost
    PROVE  StoreFollows'
  BY RequestFollows, ConstantsTyped DEF NoRequest

LEMMA AskFollows ==
    ASSUME DeletedInv, StoreFollows, NEW c \in Clients,
           NEW op \in {"create", "title", "description", "delete"}, Ask(c, op)
    PROVE  StoreFollows'
<1>1. [NoRequest EXCEPT !.pc = "wait", !.op = op] \in RequestState
  BY ConstantsTyped DEF RequestState, NoRequest
<1>2. /\ [NoRequest EXCEPT !.pc = "wait", !.op = op].pc = "wait"
      /\ [NoRequest EXCEPT !.pc = "wait", !.op = op].op = op
  BY DEF NoRequest
<1>3. ~MadeUnsettled(c) /\ history'.lost = history.lost
  BY DEF Ask, MadeUnsettled, DeletedInv, TypeInv
<1> QED
  BY <1>1, <1>2, <1>3, RequestFollows DEF Ask

LEMMA TakeTurnFollows ==
    ASSUME DeletedInv, TypeInv', StoreFollows, NEW c \in Clients, TakeWriteTurn(c)
    PROVE  StoreFollows'
<1>1. ~MadeUnsettled(c)
  BY DEF TakeWriteTurn, MadeUnsettled
<1>2. CASE ~FindsRow(c)
  BY <1>1, <1>2, EndsFollow DEF TakeWriteTurn
<1>3. CASE FindsRow(c)
  <2>1. request'[c] \in RequestState
    BY DEF TypeInv
  <2>2. /\ request' = [request EXCEPT ![c] = request'[c]]
        /\ request'[c].pc = (IF Renames(c) THEN "read" ELSE "send")
        /\ request'[c].op = request[c].op
        /\ request'[c].had = row
        /\ request'[c].details = IF request[c].op = "create"
                                 THEN Details(NextVersion, NextVersion) ELSE Absent
    BY <1>3 DEF TakeWriteTurn, DeletedInv, TypeInv, RequestState
  <2>3. \A d \in Clients : ~MadeUnsettled(d)
    BY DEF TakeWriteTurn, HasTurn, MadeUnsettled
  <2>4. ~history.lost => row = youtube /\ LiveOrAbsent(youtube)
    BY <2>3, OneSide DEF StoreFollows
  <2>5. request[c].op # "create" => row.live
    BY <1>3 DEF FindsRow, Stored
  <2>6. ~history.lost => request[c].op # "none"
    BY DEF TakeWriteTurn, StoreFollows
  <2>7. ~history.lost /\ request[c].op # "create" /\ request'[c].pc = "send"
            => request[c].op = "delete"
    BY <2>2, <2>6 DEF Renames, DeletedInv, TypeInv, RequestState
  <2>8. Details(NextVersion, NextVersion).live
    BY DEF Details
  <2>9. ~history'.lost => TurnFollows(c)'
    BY <2>2, <2>4, <2>5, <2>6, <2>7, <2>8
       DEF TakeWriteTurn, TurnFollows, LiveOrAbsent, MadeUnsettled
  <2>10. /\ UNCHANGED <<youtube, older, row, lately, listing, history>>
         /\ request'[c].pc # "settle"
    BY <2>2 DEF TakeWriteTurn
  <2> QED
    BY <1>1, <2>1, <2>2, <2>6, <2>9, <2>10, RequestFollows
<1> QED
  BY <1>2, <1>3

LEMMA ReadFollows ==
    ASSUME DeletedInv, TypeInv', StoreFollows, NEW c \in Clients, ReadDetails(c)
    PROVE  StoreFollows'
<1>1. PICK view \in Views : request' = [request EXCEPT ![c] =
            [request[c] EXCEPT !.pc = "merge", !.view = view, !.since = lately]]
  BY DEF ReadDetails
<1>2. request'[c] \in RequestState
  BY DEF TypeInv
<1>3. /\ request' = [request EXCEPT ![c] = request'[c]]
      /\ request'[c].pc = "merge" /\ request'[c].op = request[c].op
      /\ request'[c].had = request[c].had
      /\ request'[c].view = view /\ request'[c].since = lately
  BY <1>1 DEF DeletedInv, TypeInv, RequestState
<1>4. ~MadeUnsettled(c) /\ HasTurn(c)
  BY DEF ReadDetails, MadeUnsettled, HasTurn
<1>5. ~history.lost /\ lately = "none" => view = youtube
  BY <1>1, <1>4, TurnSettled, OneSide DEF StoreFollows, Views
<1>6. ~history'.lost => TurnFollows(c)'
  BY <1>3, <1>4, <1>5 DEF ReadDetails, StoreFollows, TurnFollows, MadeUnsettled
<1> QED
  BY <1>2, <1>3, <1>4, <1>6, RequestFollows DEF ReadDetails, StoreFollows

(* What a rename merges onto is what YouTube holds, so it finds it live.     *)
LEMMA MergeFollows ==
    ASSUME DeletedInv, TypeInv', StoreFollows, NEW c \in Clients, MergeDetails(c)
    PROVE  StoreFollows'
<1>1. ~MadeUnsettled(c) /\ HasTurn(c) /\ request[c].pc = "merge"
      /\ UNCHANGED <<youtube, older, lately, listing, history>>
  BY DEF MergeDetails, MadeUnsettled, HasTurn
<1>2. CASE history.lost
  BY <1>1, <1>2 DEF StoreFollows
<1>3. CASE ~history.lost
  <2>1. /\ CurrentDetails(request[c]) = youtube
        /\ request[c].op = "create" \/ youtube.live
        /\ request[c].op # "none"
    BY <1>1, <1>3 DEF StoreFollows, TurnFollows, CurrentDetails
  <2>2. request[c].op # "create"
    BY <1>1 DEF DeletedInv, CreateFirst, Creating
  <2>3. request'[c] \in RequestState
    BY DEF TypeInv
  <2>4. /\ request' = [request EXCEPT ![c] = request'[c]] /\ row' = row
        /\ request'[c].pc = "send" /\ request'[c].op = request[c].op
        /\ request'[c].had = request[c].had /\ request'[c].details.live
    BY <1>1, <2>1, <2>2 DEF MergeDetails, DeletedInv, TypeInv, RequestState, Playlist
  <2>5. TurnFollows(c)'
    BY <1>1, <1>3, <2>4 DEF StoreFollows, TurnFollows, MadeUnsettled, LiveOrAbsent
  <2> QED
    BY <1>1, <1>3, <2>1, <2>3, <2>4, <2>5, RequestFollows
<1> QED
  BY <1>2, <1>3

(* YouTube answers a write it did not make, or refuses it; or its answer is  *)
(* lost, and the write made or not.                                          *)
LEMMA UnmadeFollows ==
    ASSUME DeletedInv, TypeInv', StoreFollows, NEW c \in Clients,
           SendAbsent(c) \/ SendRefused(c) \/ SendLost(c)
    PROVE  StoreFollows'
<1>1. ~MadeUnsettled(c) /\ HasTurn(c) /\ request[c].pc = "send"
      /\ UNCHANGED <<row, lately, listing>>
  BY DEF SendAbsent, SendRefused, SendLost, MadeUnsettled, HasTurn
<1>2. CASE history'.lost
  BY <1>2 DEF StoreFollows
<1>3. CASE ~history'.lost
  <2>1. UNCHANGED <<youtube, older, history>>
    BY <1>3 DEF SendAbsent, SendRefused, SendLost, DeletedInv, TypeInv
  <2>2. request'[c] \in RequestState
    BY DEF TypeInv
  <2>3. /\ request' = [request EXCEPT ![c] = request'[c]]
        /\ request'[c].pc = "settle" /\ request'[c].op = request[c].op
        /\ request'[c].had = request[c].had /\ request'[c].details = request[c].details
        /\ request'[c].outcome # "applied"
        /\ request'[c].outcome = "absent" => ~youtube.live
    BY DEF SendAbsent, SendRefused, SendLost, Answered, DeletedInv, TypeInv, RequestState
  <2>4. TurnFollows(c)'
    BY <1>1, <1>3, <2>1, <2>3 DEF StoreFollows, TurnFollows, MadeUnsettled, LiveOrAbsent
  <2> QED
    BY <1>1, <1>3, <2>1, <2>2, <2>3, <2>4, RequestFollows DEF StoreFollows
<1> QED
  BY <1>2, <1>3

(* YouTube makes the write: what was there is the other side of it.          *)
LEMMA AppliedFollows ==
    ASSUME DeletedInv, TypeInv', StoreFollows, NEW c \in Clients, SendApplied(c)
    PROVE  StoreFollows'
<1>1. ~MadeUnsettled(c) /\ HasTurn(c) /\ request[c].pc = "send"
      /\ UNCHANGED <<row, lately, listing, history>> /\ Made(c)
  BY DEF SendApplied, MadeUnsettled, HasTurn
<1>2. SUFFICES ASSUME ~history.lost PROVE StoreFollows'
  BY <1>1 DEF StoreFollows
<1>3. /\ \A d \in Clients \ {c} : request'[d] = request[d] /\ ~HasTurn(d)
      /\ request'[c].pc = "settle" /\ request'[c].outcome = "applied"
      /\ request'[c].op = request[c].op
      /\ request'[c].had = request[c].had /\ request'[c].details = request[c].details
  BY <1>1 DEF SendApplied, Answered, DeletedInv, TypeInv, RequestState, OneTurn
<1>4. /\ request[c].had = youtube /\ LiveOrAbsent(youtube)
      /\ LiveOrAbsent(request[c].details) /\ request[c].op # "none"
      /\ request[c].op # "create" => youtube.live
      /\ request[c].op # "delete" => request[c].details.live
  BY <1>1, <1>2 DEF StoreFollows, TurnFollows
<1>5. youtube' = request[c].details /\ older' = older \cup {youtube}
  BY <1>1, <1>4 DEF Made, Changes, Views
<1>6. ASSUME NEW view, SinceSettled(view) PROVE SinceSettled(view)'
  <2>1. view = youtube
    BY <1>1, <1>6, TurnSettled, OneSide
  <2> QED
    BY <1>3, <1>4, <2>1 DEF SinceSettled, MadeUnsettled
<1>7. SinceSettled(youtube)'
  BY DEF SinceSettled
<1>8. SinceSettled(youtube)
  BY DEF SinceSettled
<1>9. TurnFollows(c)'
  BY <1>3, <1>4, <1>5 DEF TurnFollows, MadeUnsettled, LiveOrAbsent
<1>10. /\ lately' = "none" => \A view \in older' : SinceSettled(view)'
       /\ SinceSettled(row)' /\ LiveOrAbsent(youtube)'
       /\ listing'.pc # "idle" /\ listing'.since = "none" => SinceSettled(listing.view)'
       /\ listing'.pc = "gone" /\ listing'.sinceRead = "none" => SinceSettled(Absent)'
  BY <1>1, <1>2, <1>4, <1>5, <1>6, <1>8 DEF StoreFollows, LiveOrAbsent
<1> QED
  BY <1>1, <1>2, <1>3, <1>4, <1>9, <1>10 DEF StoreFollows, HasTurn

(* The settlement stores what YouTube made, and is newer than the listing    *)
(* and the read of the pass under way.                                       *)
LEMMA SettleFollows ==
    ASSUME DeletedInv, TypeInv', StoreFollows, NEW c \in Clients, SettleWrite(c)
    PROVE  StoreFollows'
<1>1. /\ request[c].pc = "settle" /\ HasTurn(c) /\ UNCHANGED <<youtube, older>>
      /\ \A d \in Clients \ {c} : request'[d] = request[d] /\ ~HasTurn(d)
      /\ request'[c].pc = "idle"
      /\ history'.lost = history.lost
  BY DEF SettleWrite, NoRequest, HasTurn, DeletedInv, TypeInv, OneTurn
<1>2. SUFFICES ASSUME ~history.lost PROVE StoreFollows'
  BY <1>1 DEF StoreFollows
<1>3. TurnFollows(c) /\ request[c].op # "none" /\ LiveOrAbsent(youtube) /\ SinceSettled(row)
  BY <1>1, <1>2 DEF StoreFollows
<1>4. \A d \in Clients : ~HasTurn(d)'
  BY <1>1 DEF HasTurn
<1>5. \A d \in Clients : request'[d].pc # "idle" => request'[d].op # "none"
  BY <1>1, <1>2 DEF StoreFollows
<1>6. CASE ~MadeUnsettled(c)
  <2>1. \A view : SinceSettled(view) => view = youtube
    BY <1>1, <1>6, TurnSettled, OneSide
  <2>2. SinceSettled(youtube)'
    BY <1>1 DEF SinceSettled
  <2>3. row' = youtube
    <3>1. CASE IsMade(request[c])
      <4>1. /\ request[c].outcome = "absent" /\ request[c].op = "delete" /\ row' = Absent
            /\ ~youtube.live
        BY <1>1, <1>3, <1>6, <3>1 DEF SettleWrite, IsMade, MadeUnsettled, TurnFollows, Renames
      <4> QED
        BY <1>3, <4>1 DEF LiveOrAbsent
    <3>2. CASE ~IsMade(request[c])
      BY <1>3, <2>1, <3>2 DEF SettleWrite
    <3> QED
      BY <3>1, <3>2
  <2>4. lately' = "none" => \A view \in older' : SinceSettled(view)'
    <3>1. lately' = "none" => lately' = lately
      BY <1>3 DEF SettleWrite, SettledMethod
    <3> QED
      BY <1>1, <1>2, <2>1, <2>2, <3>1 DEF StoreFollows
  <2>5. /\ listing'.pc = listing.pc /\ listing'.view = listing.view
        /\ listing'.since = "none" /\ listing'.pc # "idle" => listing.since = "none"
        /\ listing'.sinceRead = "none" /\ listing'.pc # "idle" => listing.sinceRead = "none"
    <3>1. SettledMethod(c) # "none"
      BY <1>3 DEF SettledMethod
    <3>2. \/ listing' = listing
          \/ listing' = [listing EXCEPT !.since = SettledMethod(c), !.sinceRead = SettledMethod(c)]
      BY DEF SettleWrite
    <3> QED
      BY <3>1, <3>2 DEF DeletedInv, TypeInv, ListingState
  <2> QED
    BY <1>1, <1>2, <1>3, <1>4, <1>5, <2>1, <2>2, <2>3, <2>4, <2>5
       DEF StoreFollows, LiveOrAbsent
<1>7. CASE MadeUnsettled(c)
  <2>1. /\ youtube = request[c].details /\ IsMade(request[c])
        /\ request[c].outcome = "applied"
    BY <1>3, <1>7 DEF TurnFollows, MadeUnsettled, IsMade
  <2>2. lately' # "none"
    BY <1>3, <2>1 DEF SettleWrite, SettledMethod
  <2>3. listing'.pc # "idle" => listing'.since # "none" /\ listing'.sinceRead # "none"
    BY <1>3, <2>1 DEF SettleWrite, SettledMethod, DeletedInv, TypeInv, ListingState
  <2>4. row' = youtube
    <3>1. CASE request[c].op = "create"
      BY <2>1, <3>1 DEF SettleWrite, Renames
    <3>2. CASE request[c].op = "delete"
      <4>1. ~youtube.live
        BY <1>1, <2>1, <3>2 DEF DeletedInv, DeleteDeletes
      <4>2. row' = Absent
        BY <2>1, <3>2 DEF SettleWrite, Renames
      <4> QED
        BY <1>3, <4>1, <4>2 DEF LiveOrAbsent
    <3>3. CASE Renames(c)
      <4>1. youtube.live /\ request[c].had.live
        BY <1>1, <1>3, <2>1, <3>3 DEF TurnFollows, Renames
      <4>2. row.live
        BY <1>1, <1>3, <4>1 DEF SinceSettled, MadeUnsettled, HasTurn
      <4>3. request[c].op # "create"
        BY <3>3 DEF Renames
      <4> QED
        BY <2>1, <3>3, <4>2, <4>3 DEF SettleWrite, Stored
    <3> QED
      BY <1>3, <3>1, <3>2, <3>3 DEF Renames, DeletedInv, TypeInv, RequestState
  <2> QED
    BY <1>1, <1>3, <1>4, <1>5, <2>2, <2>3, <2>4 DEF StoreFollows, SinceSettled, LiveOrAbsent
<1> QED
  BY <1>6, <1>7

(* A pass stores nothing but what YouTube holds, or held before a write that *)
(* is yet to be settled.                                                     *)
LEMMA ListingFollows ==
    ASSUME DeletedInv, StoreFollows, List \/ Listing \/ PassFails
    PROVE  StoreFollows'
<1>1. UNCHANGED <<youtube, older, lately, request, history>>
  BY DEF List, Listing, ReadFinds, DeleteGone, StoreDetails, NothingListed, PassFails
<1>2. SUFFICES ASSUME ~history.lost PROVE StoreFollows'
  BY <1>1 DEF StoreFollows
<1>3. \A view : SinceSettled(view)' <=> SinceSettled(view)
  BY <1>1 DEF SinceSettled, MadeUnsettled
<1>4. \A c \in Clients : HasTurn(c)' => TurnFollows(c)'
  BY <1>1, <1>2 DEF StoreFollows, HasTurn, TurnFollows, MadeUnsettled
<1>5. SUFFICES /\ SinceSettled(row')
               /\ listing'.pc # "idle" /\ listing'.since = "none"
                     => SinceSettled(listing'.view)
               /\ listing'.pc = "gone" /\ listing'.sinceRead = "none" => SinceSettled(Absent)
  BY <1>1, <1>2, <1>3, <1>4 DEF StoreFollows, LiveOrAbsent
<1>6. \A view \in Views : lately = "none" => SinceSettled(view)
  BY <1>2 DEF StoreFollows, Views, SinceSettled
<1>7. NoListing.pc = "idle"
  BY DEF NoListing
<1>8. CASE List
  <2>1. PICK view \in Views : listing' =
              [NoListing EXCEPT !.pc = "listed", !.view = view, !.since = lately]
    BY <1>8 DEF List
  <2>2. listing'.pc = "listed" /\ listing'.view = view /\ listing'.since = lately /\ row' = row
    BY <1>8, <2>1 DEF NoListing, List
  <2> QED
    BY <1>2, <1>6, <2>2 DEF StoreFollows
<1>9. CASE ReadFinds
  <2>1. PICK view \in Views : listing' = [listing EXCEPT !.sinceRead = lately,
            !.pc = IF ~view.live THEN "gone" ELSE IF listing.view.live THEN "merge" ELSE "idle"]
    BY <1>9 DEF ReadFinds
  <2>2. /\ listing'.view = listing.view /\ listing'.since = listing.since
        /\ listing'.sinceRead = lately /\ listing'.pc = "gone" => ~view.live
        /\ listing.pc = "listed" /\ row' = row
    BY <1>9, <2>1 DEF ReadFinds, DeletedInv, TypeInv, ListingState
  <2>3. ~view.live /\ SinceSettled(view) => SinceSettled(Absent)
    <3>1. SUFFICES ASSUME ~view.live, SinceSettled(view) PROVE view = Absent
      OBVIOUS
    <3> QED
      BY <1>2, <3>1
         DEF StoreFollows, SinceSettled, LiveOrAbsent, TurnFollows, MadeUnsettled, HasTurn
  <2>4. SinceSettled(row') /\ (listing.since = "none" => SinceSettled(listing.view))
    BY <1>2, <2>2 DEF StoreFollows
  <2>5. listing'.pc = "gone" /\ listing'.sinceRead = "none" => SinceSettled(Absent)
    BY <1>6, <2>1, <2>2, <2>3
  <2> QED
    BY <2>2, <2>4, <2>5
<1>10. CASE DeleteGone
  BY <1>2, <1>7, <1>10 DEF DeleteGone, StoreFollows
<1>11. CASE StoreDetails
  BY <1>2, <1>7, <1>11 DEF StoreDetails, ListedDetails, StoreFollows
<1>12. CASE NothingListed \/ PassFails
  BY <1>2, <1>7, <1>12 DEF NothingListed, PassFails, StoreFollows
<1> QED
  BY <1>8, <1>9, <1>10, <1>11, <1>12 DEF Listing

LEMMA TheRestFollows ==
    ASSUME DeletedInv, StoreFollows,
           OwnerWrites \/ YouTubeShows \/ ReadLagPasses \/ Stops
           \/ UNCHANGED playlistWritesVars
    PROVE  StoreFollows'
<1>1. CASE OwnerWrites
  <2>1. history'.lost
    BY <1>1 DEF OwnerWrites, DeletedInv, TypeInv
  <2> QED
    BY <2>1 DEF StoreFollows
<1>2. CASE YouTubeShows \/ ReadLagPasses \/ UNCHANGED playlistWritesVars
  <2>1. /\ UNCHANGED <<youtube, row, request, listing, history>>
        /\ lately' = "none" => older' = {} \/ (lately = "none" /\ older' = older)
    BY <1>2 DEF YouTubeShows, ReadLagPasses, playlistWritesVars
  <2>2. \A view : SinceSettled(view)' <=> SinceSettled(view)
    BY <2>1 DEF SinceSettled, MadeUnsettled
  <2>3. ~history.lost => \A c \in Clients : HasTurn(c)' => TurnFollows(c)'
    BY <2>1 DEF StoreFollows, HasTurn, TurnFollows, MadeUnsettled
  <2> QED
    BY <2>1, <2>2, <2>3 DEF StoreFollows, LiveOrAbsent
<1>3. CASE Stops
  <2>1. SUFFICES ASSUME ~history'.lost PROVE StoreFollows'
    BY DEF StoreFollows
  <2>2. /\ ~history.lost /\ \A c \in Clients : ~MadeUnsettled(c)
        /\ \A c \in Clients : request'[c].pc = "idle"
        /\ listing'.pc = "idle" /\ UNCHANGED <<youtube, older, row, lately>>
    BY <1>3, <2>1 DEF Stops, MadeUnsettled, DeletedInv, TypeInv, NoRequest, NoListing
  <2>3. \A view : SinceSettled(view) => SinceSettled(view)'
    BY <2>2 DEF SinceSettled
  <2> QED
    BY <2>2, <2>3 DEF StoreFollows, HasTurn, LiveOrAbsent
<1> QED
  BY <1>1, <1>2, <1>3

LEMMA FollowsByNext ==
    ASSUME DeletedInv, TypeInv', StoreFollows, [PlaylistWritesNext]_playlistWritesVars
    PROVE  StoreFollows'
<1>1. ASSUME NEW c \in Clients, GoesAway(c) \/ NothingWritten(c)
      PROVE  StoreFollows'
  BY <1>1, EndsFollow DEF GoesAway, NothingWritten, MadeUnsettled
<1>2. ASSUME NEW c \in Clients, SettleFails(c)
      PROVE  StoreFollows'
  <2>1. CASE MadeUnsettled(c)
    <3>1. history'.lost
      BY <1>2, <2>1 DEF SettleFails, MadeUnsettled, DeletedInv, TypeInv
    <3> QED
      BY <3>1 DEF StoreFollows
  <2>2. CASE ~MadeUnsettled(c)
    <3>1. ~history'.lost => ~history.lost
      BY <1>2 DEF SettleFails, DeletedInv, TypeInv
    <3> QED
      BY <1>2, <2>2, <3>1, EndsFollow DEF SettleFails
  <2> QED
    BY <2>1, <2>2
<1>3. ASSUME Requests PROVE StoreFollows'
  BY <1>1, <1>2, <1>3, AskFollows, TakeTurnFollows, ReadFollows, MergeFollows, UnmadeFollows,
     AppliedFollows, SettleFollows DEF Requests, GoesOn
<1> QED
  BY <1>3, ListingFollows, TheRestFollows DEF PlaylistWritesNext

(* While YouTube changes by the API's recorded writes alone, the store holds *)
(* what YouTube does, for any clients, whatever a pass lists or a rename     *)
(* reads within the lag, and whatever fails before a write is sent.          *)
THEOREM RecordedWritesAreStored == PlaylistWritesSpec => []StoreHoldsWrites
<1>1. DeletedInv /\ StoreFollows => StoreHoldsWrites
  BY OneSide DEF StoreFollows, StoreHoldsWrites, MadeUnsettled
<1>2. DeletedInv /\ StoreFollows /\ [PlaylistWritesNext]_playlistWritesVars
        => DeletedInv' /\ StoreFollows'
  <2>1. SUFFICES ASSUME DeletedInv, StoreFollows, [PlaylistWritesNext]_playlistWritesVars
                 PROVE  DeletedInv' /\ StoreFollows'
    OBVIOUS
  <2>2. DeletedInv' /\ TypeInv'
    BY <2>1, DeletedByNext, TypesByNext DEF DeletedInv
  <2> QED
    BY <2>1, <2>2, FollowsByNext
<1> QED
  BY <1>1, <1>2, DeletedFromInit, FollowsFromInit, PTL DEF PlaylistWritesSpec

=============================================================================
