------------------------------ MODULE Shutdown ------------------------------
(***************************************************************************)
(* How the server stops (api/main.go, serve): it cancels its work, has the *)
(* API begin no more playlist writes, gives the requests under way a grace *)
(* and waits for its work.  Writes wait for one turn, and each step of one *)
(* has a timeout.  Times count from the step's start, and from the signal. *)
(***************************************************************************)
EXTENDS Integers

CONSTANTS
    Requests,                                   \* the API's playlist writes
    RecordTimeout, YouTubeTimeout,              \* handlers: a store step, a request
    PushRecordTimeout, PushYouTubeTimeout,      \* reconcile: the same
    AnswerTime                                  \* what the grace adds

ASSUME ShutdownAssumption ==
    /\ {RecordTimeout, YouTubeTimeout, PushRecordTimeout, PushYouTubeTimeout} \subseteq Nat
    /\ AnswerTime \in Nat \ {0}

VARIABLES
    process,    \* "runs", "drains", "exited", or "killed" by a second signal
    drained,    \* how long it has been draining
    request,    \* each request: [pc, age]
    push        \* the sync's write, from the check of its context

shutdownVars == <<process, drained, request, push>>

WriteDuration == RecordTimeout + YouTubeTimeout + RecordTimeout
PushWriteDuration == PushRecordTimeout + PushYouTubeTimeout + PushRecordTimeout
ShutdownGrace ==
    (IF WriteDuration < PushWriteDuration THEN PushWriteDuration ELSE WriteDuration)
    + AnswerTime

At(pc) == [pc |-> pc, age |-> 0]
Begun == {"record", "send", "settle"}

(* How long a step of a write may take: a store step or a request.  Before   *)
(* the check for draining a rename makes two of one and one of the other.    *)
Bound(pc, record, youtube) ==
    CASE pc = "reads" -> record + youtube + record
      [] pc = "send" -> youtube
      [] OTHER -> record

ShutdownInit ==
    /\ process = "runs" /\ drained = 0
    /\ request = [r \in Requests |-> At("idle")]
    /\ push = At("idle")

Alive == process \in {"runs", "drains"}
Moves(r, from, to) ==
    /\ Alive
    /\ request[r].pc = from
    /\ request' = [request EXCEPT ![r] = At(to)]
    /\ UNCHANGED <<process, drained, push>>

(* takeWriteTurn: one request at a time, in no order.  No request is taken   *)
(* in once the listener is closed, and one waiting may go away.              *)
HasTurn(r) == request[r].pc \notin {"idle", "waiting"}
Arrives(r) == process = "runs" /\ Moves(r, "idle", "waiting")
LeavesQueue(r) == Moves(r, "waiting", "idle")
TakeWriteTurn(r) ==
    /\ \A other \in Requests : ~HasTurn(other)
    /\ Moves(r, "waiting", "reads")
ReadFails(r) == Moves(r, "reads", "idle")

(* writeToYouTube: not once the API drains; and whenever it has its turn.    *)
WithItsTurn == TRUE
NotDraining == process = "runs"
Begins(r) == NotDraining /\ Moves(r, "reads", "record")
RefusesDraining(r) == ~NotDraining /\ Moves(r, "reads", "idle")
NotRecorded(r) == Moves(r, "record", "idle")
SendsWrite(r) == Moves(r, "record", "send")
WriteAnswered(r) == Moves(r, "send", "settle")
Settles(r) == Moves(r, "settle", "answer")
Answers(r) == Moves(r, "answer", "idle")

PushMoves(from, to) ==
    /\ Alive
    /\ push.pc = from
    /\ push' = At(to)
    /\ UNCHANGED <<process, drained, request>>

(* The sync checks its context before each write.                            *)
PushBegins == process = "runs" /\ PushMoves("idle", "record")
PushNotBegun == PushMoves("record", "idle")
PushSends == PushMoves("record", "send")
PushAnswered == PushMoves("send", "settle")
PushSettles == PushMoves("settle", "idle")

FirstSignal ==
    /\ process = "runs"
    /\ process' = "drains"
    /\ UNCHANGED <<drained, request, push>>

SecondSignal ==
    /\ process = "drains"
    /\ process' = "killed"
    /\ UNCHANGED <<drained, request, push>>

(* srv.Shutdown returns, and then the work has.                              *)
Exit ==
    /\ process = "drains"
    /\ drained = ShutdownGrace \/ \A r \in Requests : request[r].pc = "idle"
    /\ push.pc = "idle"
    /\ process' = "exited"
    /\ UNCHANGED <<drained, request, push>>

(* What runs the server starts it again.                                     *)
StartsAgain ==
    /\ ~Alive
    /\ process' = "runs" /\ drained' = 0
    /\ request' = [r \in Requests |-> At("idle")]
    /\ push' = At("idle")

(* Time passes, no longer than each step may take.                           *)
Ages(w) == IF w.pc \in {"idle", "waiting"} THEN w ELSE [w EXCEPT !.age = @ + 1]
InTime(w, record, youtube) ==
    w.pc \in {"idle", "waiting"} \/ w.age < Bound(w.pc, record, youtube)

ShutdownTick ==
    /\ Alive
    /\ \A r \in Requests : InTime(request[r], RecordTimeout, YouTubeTimeout)
    /\ InTime(push, PushRecordTimeout, PushYouTubeTimeout)
    /\ request' = [r \in Requests |-> Ages(request[r])]
    /\ push' = Ages(push)
    /\ drained' = IF process = "drains" /\ drained < ShutdownGrace THEN drained + 1 ELSE drained
    /\ process' = process

ShutdownNext ==
    \/ \E r \in Requests :
          \/ Arrives(r) \/ LeavesQueue(r) \/ TakeWriteTurn(r) \/ ReadFails(r)
          \/ Begins(r) \/ RefusesDraining(r) \/ NotRecorded(r)
          \/ SendsWrite(r) \/ WriteAnswered(r) \/ Settles(r) \/ Answers(r)
    \/ PushBegins \/ PushNotBegun \/ PushSends \/ PushAnswered \/ PushSettles
    \/ FirstSignal \/ SecondSignal \/ Exit \/ StartsAgain \/ ShutdownTick

ShutdownSpec == ShutdownInit /\ [][ShutdownNext]_shutdownVars

-----------------------------------------------------------------------------
(* The server does not exit with a write begun and not settled, however many *)
(* requests wait for their turn and whatever each was about to do when the   *)
(* signal came (main.go:53-58).                                              *)
CleanStop ==
    process = "exited" =>
        push.pc \notin Begun /\ \A r \in Requests : request[r].pc \notin Begun
=============================================================================
