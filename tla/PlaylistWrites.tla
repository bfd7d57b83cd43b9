--------------------------- MODULE PlaylistWrites ---------------------------
(***************************************************************************)
(* One playlist's existence and details: the writes the API makes on       *)
(* YouTube (api/handlers/playlist_writes.go) against the listings and      *)
(* reads of a pass (api/reconcile/reconcile.go).  Within the lag of a      *)
(* change YouTube may still show what was there before, so a listing or a  *)
(* read counts for nothing while a write newer than it can show is on      *)
(* record: WriteNewerThanRead.  A title or a description is the number of  *)
(* the change it came with.                                                *)
(***************************************************************************)
EXTENDS Naturals

CONSTANTS
    Clients,
    MaxWrites, MaxOwnerEdits, MaxFaults     \* how often each happens

ASSUME PlaylistWritesAssumption ==
    {MaxWrites, MaxOwnerEdits, MaxFaults} \subseteq Nat

VARIABLES
    youtube,        \* the playlist on YouTube: [live, title, description]
    older,          \* what a read may show instead, within the lag of a change
    row,            \* the playlist in the store
    lately,         \* the method of the latest write settled within the lag
    request,        \* each client's, as it stands
    listing,        \* what a pass makes of the playlist, as it stands
    happened,       \* how many of each there were
    history         \* for the properties: what no code keeps

playlistWritesVars == <<youtube, older, row, lately, request, listing, happened,
                        history>>

Absent == [live |-> FALSE, title |-> 0, description |-> 0]
Details(title, description) ==
    [live |-> TRUE, title |-> title, description |-> description]

NoRequest == [pc |-> "idle", op |-> "none", had |-> Absent, view |-> Absent,
              since |-> "none", details |-> Absent, outcome |-> "none"]
NoListing == [pc |-> "idle", view |-> Absent, since |-> "none", sinceRead |-> "none"]

(* A playlist the server has synced, or none yet.                           *)
PlaylistWritesInit ==
    /\ youtube \in {Absent, Details(0, 0)}
    /\ older = {}
    /\ row = youtube
    /\ lately = "none"
    /\ request = [c \in Clients |-> NoRequest]
    /\ listing = NoListing
    /\ happened = [writes |-> 0, owner |-> 0, faults |-> 0]
    /\ history = [made |-> youtube.live,  \* a create was asked for, or is long done
                  deleted |-> FALSE,      \* a delete is settled
                  lost |-> FALSE]         \* YouTube changed with no write settled

Stored == row.live

(* The queries: a playlist is one row, or none.                             *)
GetPlaylist == Stored
UpsertPlaylist(details) == row' = details
UpdatePlaylistDetails(details) == row' = IF Stored THEN details ELSE row
DeletePlaylist == row' = Absent

(* The latest write YouTube answered, unless any read would show it by now; *)
(* and whether there is one newer than a read was sent.                     *)
LatestPlaylistWriteSettledAfter == lately
WriteNewerThanRead(since) == since # "none"

(* What a read sent now may show.                                           *)
Views == older \cup {youtube}

(* YouTube changes, which what was read before does not show.               *)
Changes(to) == youtube' = to /\ older' = Views

NextVersion == happened.writes + happened.owner + 1

(* A fault that is not one too many.                                        *)
Fails ==
    /\ happened.faults < MaxFaults
    /\ happened' = [happened EXCEPT !.faults = @ + 1]

-----------------------------------------------------------------------------
(***************************************************************************)
(* A request of the API.                                                   *)
(***************************************************************************)

(* A change's reference is resolved before it waits for its turn.           *)
Ask(c, op) ==
    /\ happened.writes < MaxWrites
    /\ request[c].pc = "idle"
    /\ IF op = "create" THEN ~history.made ELSE Stored
    /\ request' = [request EXCEPT ![c] = [NoRequest EXCEPT !.pc = "wait", !.op = op]]
    /\ happened' = [happened EXCEPT !.writes = @ + 1]
    /\ history' = [history EXCEPT !.made = TRUE]
    /\ UNCHANGED <<youtube, older, row, lately, listing>>

GoesAway(c) ==
    /\ request[c].pc = "wait"
    /\ Fails
    /\ request' = [request EXCEPT ![c] = NoRequest]
    /\ UNCHANGED <<youtube, older, row, lately, listing, history>>

HasTurn(c) == request[c].pc \notin {"idle", "wait"}
Renames(c) == request[c].op \in {"title", "description"}

(* GetPlaylist, once the request has its turn.                              *)
FindsRow(c) == request[c].op = "create" \/ GetPlaylist

TakeWriteTurn(c) ==
    /\ request[c].pc = "wait"
    /\ \A other \in Clients : ~HasTurn(other)
    /\ request' = [request EXCEPT ![c] =
            IF ~FindsRow(c) THEN NoRequest
            ELSE [@ EXCEPT !.pc = IF Renames(c) THEN "read" ELSE "send",
                           !.had = row,
                           !.details = IF request[c].op = "create"
                                       THEN Details(NextVersion, NextVersion) ELSE Absent]]
    /\ UNCHANGED <<youtube, older, row, lately, listing, happened, history>>

(* currentDetails reads YouTube, after the row it has read.                 *)
ReadDetails(c) ==
    /\ request[c].pc = "read"
    /\ \E view \in Views :
            request' = [request EXCEPT ![c].pc = "merge", ![c].view = view,
                                       ![c].since = LatestPlaylistWriteSettledAfter]
    /\ UNCHANGED <<youtube, older, row, lately, listing, happened, history>>

(* The read fails, or a step before the write is recorded.                  *)
NothingWritten(c) ==
    /\ request[c].pc \in {"read", "merge", "send"}
    /\ Fails
    /\ request' = [request EXCEPT ![c] = NoRequest]
    /\ UNCHANGED <<youtube, older, row, lately, listing, history>>

(* The playlist as the read shows it, whatever was written before it.       *)
AsRead(r) == r.view

(* What a rename merges onto: the row, while a write to it is newer than    *)
(* the read.                                                                *)
CurrentDetails(r) == IF WriteNewerThanRead(r.since) THEN r.had ELSE r.view

MergeDetails(c) ==
    /\ request[c].pc = "merge"
    /\ LET current == CurrentDetails(request[c])
           set == IF request[c].op = "title"
                  THEN [current EXCEPT !.title = NextVersion]
                  ELSE [current EXCEPT !.description = NextVersion]
       IN  IF current.live
           THEN /\ request' = [request EXCEPT ![c].pc = "send", ![c].details = set]
                /\ row' = row
           ELSE /\ request' = [request EXCEPT ![c] = NoRequest]
                /\ DeletePlaylist
    /\ UNCHANGED <<youtube, older, lately, listing, happened, history>>

(* YouTube makes a request's write.  It accepts an update of a playlist it   *)
(* has deleted, which changes nothing.                                      *)
Made(c) ==
    IF request[c].op = "create" \/ youtube.live THEN Changes(request[c].details)
    ELSE Renames(c) /\ UNCHANGED <<youtube, older>>

Answered(c, outcome) ==
    request' = [request EXCEPT ![c].pc = "settle", ![c].outcome = outcome]

SendApplied(c) ==
    /\ request[c].pc = "send"
    /\ Made(c)
    /\ Answered(c, "applied")
    /\ UNCHANGED <<row, lately, listing, happened, history>>

SendAbsent(c) ==
    /\ request[c].pc = "send"
    /\ request[c].op # "create" /\ ~youtube.live
    /\ Answered(c, "absent")
    /\ UNCHANGED <<youtube, older, row, lately, listing, happened, history>>

SendRefused(c) ==
    /\ request[c].pc = "send"
    /\ Fails
    /\ Answered(c, "refused")
    /\ UNCHANGED <<youtube, older, row, lately, listing, history>>

(* Its answer is lost, whether YouTube made it or not.                      *)
SendLost(c) ==
    /\ request[c].pc = "send"
    /\ Fails
    /\ Answered(c, "unanswered")
    /\ \/ Made(c) /\ history' = [history EXCEPT !.lost = TRUE]
       \/ UNCHANGED <<youtube, older, history>>
    /\ UNCHANGED <<row, lately, listing>>

(* The settlement, in whose transaction what YouTube made is stored.  A     *)
(* write YouTube answered is newer than a read a pass has sent.             *)
SettledMethod(c) == IF Renames(c) THEN "update" ELSE request[c].op

IsMade(r) == r.outcome = "applied" \/ (r.outcome = "absent" /\ r.op = "delete")

SettleWrite(c) ==
    /\ request[c].pc = "settle"
    /\ IF request[c].outcome \in {"applied", "absent"}
       THEN /\ lately' = SettledMethod(c)
            /\ listing' = IF listing.pc = "idle" THEN listing
                          ELSE [listing EXCEPT !.since = SettledMethod(c),
                                               !.sinceRead = SettledMethod(c)]
       ELSE UNCHANGED <<lately, listing>>
    /\ CASE ~IsMade(request[c]) -> row' = row
         [] IsMade(request[c]) /\ request[c].op = "create" ->
                UpsertPlaylist(request[c].details)
         [] IsMade(request[c]) /\ Renames(c) ->
                UpdatePlaylistDetails(request[c].details)
         [] OTHER -> DeletePlaylist
    /\ history' = [history EXCEPT !.deleted =
                        @ \/ (IsMade(request[c]) /\ request[c].op = "delete")]
    /\ request' = [request EXCEPT ![c] = NoRequest]
    /\ UNCHANGED <<youtube, older, happened>>

(* YouTube made it and the store cannot record it: it stays pending.        *)
SettleFails(c) ==
    /\ request[c].pc = "settle"
    /\ Fails
    /\ history' = [history EXCEPT !.lost = @ \/ request[c].outcome = "applied"]
    /\ request' = [request EXCEPT ![c] = NoRequest]
    /\ UNCHANGED <<youtube, older, row, lately, listing>>

-----------------------------------------------------------------------------
(***************************************************************************)
(* A pass.                                                                 *)
(***************************************************************************)

List ==
    /\ listing.pc = "idle"
    /\ \E view \in Views :
            listing' = [NoListing EXCEPT !.pc = "listed", !.view = view,
                                         !.since = LatestPlaylistWriteSettledAfter]
    /\ UNCHANGED <<youtube, older, row, lately, request, happened, history>>

(* A stored playlist the listing lacks is read by its id; one it has may    *)
(* have its items read.  Both may find it gone.                             *)
ReadFinds ==
    /\ listing.pc = "listed"
    /\ listing.view.live \/ Stored
    /\ \E view \in Views :
            listing' = [listing EXCEPT !.sinceRead = LatestPlaylistWriteSettledAfter,
                            !.pc = IF ~view.live THEN "gone"
                                   ELSE IF listing.view.live THEN "merge" ELSE "idle"]
    /\ UNCHANGED <<youtube, older, row, lately, request, happened, history>>

(* deleteGone, unless the API wrote the playlist later than the read.       *)
DeleteGone ==
    /\ listing.pc = "gone"
    /\ IF WriteNewerThanRead(listing.sinceRead) THEN row' = row ELSE DeletePlaylist
    /\ listing' = NoListing
    /\ UNCHANGED <<youtube, older, lately, request, happened, history>>

(* The details listed, whatever the API deleted; and of a new playlist alone. *)
DetailsUnlessWritten == IF listing.since \in {"create", "update"} THEN row ELSE listing.view
DetailsOfNew == IF Stored \/ listing.since # "none" THEN row ELSE listing.view

(* The details listed, unless the API wrote the playlist later than that.   *)
ListedDetails == IF WriteNewerThanRead(listing.since) THEN row ELSE listing.view

(* storeDetails, and the merge of a playlist listed.                        *)
StoreDetails ==
    /\ \/ listing.pc = "merge"
       \/ listing.pc = "listed" /\ listing.view.live /\ Stored
    /\ row' = ListedDetails
    /\ listing' = NoListing
    /\ UNCHANGED <<youtube, older, lately, request, happened, history>>

(* There is nothing to do, or a request of the pass fails.                  *)
NothingListed ==
    /\ listing.pc = "listed" /\ ~listing.view.live /\ ~Stored
    /\ listing' = NoListing
    /\ UNCHANGED <<youtube, older, row, lately, request, happened, history>>

PassFails ==
    /\ listing.pc # "idle"
    /\ Fails
    /\ listing' = NoListing
    /\ UNCHANGED <<youtube, older, row, lately, request, history>>

-----------------------------------------------------------------------------
(***************************************************************************)
(* The owner, time, and the process.                                       *)
(***************************************************************************)

OwnerWrites ==
    /\ happened.owner < MaxOwnerEdits
    /\ youtube.live
    /\ \/ Changes([youtube EXCEPT !.title = NextVersion])
       \/ Changes([youtube EXCEPT !.description = NextVersion])
       \/ Changes(Absent)
    /\ happened' = [happened EXCEPT !.owner = @ + 1]
    /\ history' = [history EXCEPT !.lost = TRUE]
    /\ UNCHANGED <<row, lately, request, listing>>

(* What YouTube shows is up to date again.                                   *)
YouTubeShows ==
    /\ older # {}
    /\ older' = {}
    /\ UNCHANGED <<youtube, row, lately, request, listing, happened, history>>

(* ReadLag passes, by which YouTube shows what was written.                 *)
ReadLagPasses ==
    /\ lately # "none" /\ older = {}
    /\ lately' = "none"
    /\ UNCHANGED <<youtube, older, row, request, listing, happened, history>>

Stops ==
    /\ Fails
    /\ history' = [history EXCEPT !.lost = @ \/ \E c \in Clients :
                        request[c].pc = "settle" /\ request[c].outcome = "applied"]
    /\ request' = [c \in Clients |-> NoRequest]
    /\ listing' = NoListing
    /\ UNCHANGED <<youtube, older, row, lately>>

-----------------------------------------------------------------------------
(* A request goes on, in its turn: a timeout ends each step.                *)
GoesOn(c) ==
    \/ TakeWriteTurn(c) \/ ReadDetails(c) \/ MergeDetails(c)
    \/ SendApplied(c) \/ SendAbsent(c) \/ SendRefused(c) \/ SendLost(c)
    \/ SettleWrite(c)

Requests == \E c \in Clients :
    \/ \E op \in {"create", "title", "description", "delete"} : Ask(c, op)
    \/ GoesAway(c) \/ GoesOn(c) \/ NothingWritten(c) \/ SettleFails(c)

Listing == ReadFinds \/ DeleteGone \/ StoreDetails \/ NothingListed

PlaylistWritesNext ==
    \/ Requests \/ List \/ Listing \/ PassFails
    \/ OwnerWrites \/ YouTubeShows \/ ReadLagPasses \/ Stops

PlaylistWritesSpec ==
    PlaylistWritesInit /\ [][PlaylistWritesNext]_playlistWritesVars

(* The worker ticks, a pass goes on, a request that has its turn ends by its *)
(* timeouts, and time passes.  Nobody has to ask, fail or change YouTube.   *)
PlaylistWritesFair ==
    /\ PlaylistWritesSpec
    /\ WF_playlistWritesVars(List) /\ WF_playlistWritesVars(Listing)
    /\ WF_playlistWritesVars(YouTubeShows) /\ WF_playlistWritesVars(ReadLagPasses)
    /\ \A c \in Clients : WF_playlistWritesVars(GoesOn(c))

-----------------------------------------------------------------------------
(* A playlist whose delete is on record is not stored again, by a listing or *)
(* a read made before YouTube shows the delete, by a rename that waited for  *)
(* its turn behind it, or by a pass under way meanwhile.                     *)
DeletedForGood == history.deleted => ~row.live

(* While YouTube changes by the API's recorded writes alone, the store holds *)
(* what YouTube does, however old what a pass lists or a rename reads: no    *)
(* rename is undone, and none takes an earlier one's other field back.       *)
StoreHoldsWrites ==
    ~history.lost /\ (\A c \in Clients : request[c].pc # "settle") => row = youtube

(* What YouTube holds in the end is stored, the write that could not be      *)
(* recorded and the owner's edits with it: playlist_writes.go:417-418, "the  *)
(* next sync stores what YouTube holds".                                     *)
StoreFollowsYouTube == <>[](row = youtube)
=============================================================================
