----------------------------- MODULE ServerProofs -----------------------------
(* What the rest of the server promises: the jar of the YouTube session is   *)
(* kept, the server stops cleanly, a refusal rests enrichment, and a push    *)
(* leaves the day's reads their units.                                       *)
EXTENDS Enrich, HistorySession, Quota, Shutdown, TLAPS

-----------------------------------------------------------------------------
(***************************************************************************)
(* The YouTube session.  The one lock is what a read and the row it stores *)
(* have in common.                                                         *)
(***************************************************************************)
Idle(r) == caller[r].pc = "idle"

(* What the request that holds the lock has: a jar of a session, which is    *)
(* the row's for a read of the history, and the newest once YouTube answered.*)
HoldsItsJar(r) ==
    /\ caller[r].pc \in {"read", "store"}
    /\ caller[r].op \in {"list", "set"}
    /\ caller[r].jar.of \in Sessions
    /\ caller[r].op = "list" => session # NoSession /\ caller[r].jar.of = session.of
    /\ caller[r].pc = "store" =>
         /\ caller[r].jar.turn = newest[caller[r].jar.of]
         /\ caller[r].jar.of \in missed

Guarded ==
    /\ newest \in [Sessions -> Nat]
    /\ caller \in [Readers -> [pc : {"idle", "read", "store"}, op : {"none", "list", "set"},
                               jar : [of : Sessions \cup {"none"}, turn : Nat]]]
    /\ \A q, r \in Readers : ~Idle(q) /\ ~Idle(r) => q = r
    /\ \A r \in Readers : ~Idle(r) => HoldsItsJar(r)
    /\ session # NoSession => session.of \in Sessions /\ session.turn \in Nat
    /\ session = [of |-> session.of, turn |-> session.turn]
    /\ JarKept

LEMMA InitGuarded == HistoryInit => Guarded
  BY DEF HistoryInit, Guarded, Away, NoSession, NoneKept, Idle, JarKept, Reused

(* A request that lets go of the lock, with nothing stored.                  *)
LEMMA LetsGo ==
    ASSUME Guarded, NEW r \in Readers, ~Idle(r), Goes(r, Away),
           UNCHANGED <<newest, session, kept, missed, chosen>>
    PROVE  Guarded'
<1>1. /\ \A q \in Readers : Idle(q)'
      /\ caller' \in [Readers -> [pc : {"idle", "read", "store"}, op : {"none", "list", "set"},
                                  jar : [of : Sessions \cup {"none"}, turn : Nat]]]
  BY DEF Guarded, Goes, Away, NoSession, Idle
<1> QED
  BY <1>1 DEF Guarded, JarKept, Reused

(* One that takes it, with a jar of a session.                               *)
LEMMA TakesTheLock ==
    ASSUME Guarded, NEW r \in Readers, ~Locked, NEW op \in {"list", "set"}, NEW jar,
           jar \in [of : Sessions, turn : Nat], ReadsWith(r, op, jar),
           op = "list" => session # NoSession /\ jar.of = session.of,
           UNCHANGED <<newest, session, kept, missed, chosen>>
    PROVE  Guarded'
<1> DEFINE to == [pc |-> "read", op |-> op, jar |-> jar]
<1>1. \A q \in Readers : caller'[q] = IF q = r THEN to ELSE caller[q]
  BY DEF Guarded, ReadsWith, Goes
<1>2. \A q \in Readers : Idle(q)
  BY DEF Locked, Idle
<1>3. caller' \in [Readers -> [pc : {"idle", "read", "store"}, op : {"none", "list", "set"},
                               jar : [of : Sessions \cup {"none"}, turn : Nat]]]
  BY DEF Guarded, ReadsWith, Goes
<1>4. \A q \in Readers : ~Idle(q)' => q = r
  BY <1>1, <1>2 DEF Idle
<1>5. HoldsItsJar(r)'
  BY <1>1 DEF HoldsItsJar
<1> QED
  BY <1>3, <1>4, <1>5 DEF Guarded, JarKept, Reused

(* YouTube rotates the jar of the session read.                              *)
LEMMA RotatesGuarded ==
    ASSUME Guarded, NEW r \in Readers, YouTubeRotates(r)
    PROVE  Guarded'
<1> DEFINE of == caller[r].jar.of
           to == [caller[r] EXCEPT !.pc = "store", !.jar = Jar(of, newest[of] + 1)]
<1>1. ~Idle(r) /\ of \in Sessions /\ HoldsItsJar(r)
  BY DEF YouTubeRotates, Idle, Guarded, HoldsItsJar
<1>2. /\ \A q \in Readers : caller'[q] = IF q = r THEN to ELSE caller[q]
      /\ newest' = [newest EXCEPT ![of] = newest[of] + 1]
      /\ missed' = missed \cup {of}
      /\ UNCHANGED <<session, kept, chosen>>
  BY DEF Guarded, YouTubeRotates, Goes
<1>3. newest[of] + 1 \in Nat
  BY <1>1 DEF Guarded
<1>4. /\ to \in [pc : {"idle", "read", "store"}, op : {"none", "list", "set"},
                 jar : [of : Sessions \cup {"none"}, turn : Nat]]
      /\ to.pc = "store" /\ to.op = caller[r].op
      /\ to.jar = [of |-> of, turn |-> newest[of] + 1]
  BY <1>1, <1>3 DEF Guarded, Jar
<1>5. caller' = [caller EXCEPT ![r] = to]
  BY DEF YouTubeRotates, Goes
<1>6. newest' \in [Sessions -> Nat] /\ newest'[of] = newest[of] + 1
  BY <1>1, <1>2, <1>3 DEF Guarded
<1> HIDE DEF to, of
<1>7. caller' \in [Readers -> [pc : {"idle", "read", "store"}, op : {"none", "list", "set"},
                               jar : [of : Sessions \cup {"none"}, turn : Nat]]]
  BY <1>4, <1>5 DEF Guarded
<1>8. \A q \in Readers : ~Idle(q)' => q = r
  BY <1>1, <1>2 DEF Guarded, Idle
<1>9. HoldsItsJar(r)'
  BY <1>1, <1>2, <1>4, <1>6 DEF HoldsItsJar, of
<1>10. JarKept'
  BY <1>1, <1>2 DEF Guarded, JarKept, Reused
<1> QED
  BY <1>2, <1>6, <1>7, <1>8, <1>9, <1>10 DEF Guarded

(* The jar a read wrote back is stored: of the session the row is of, or of  *)
(* the one the owner stores.                                                 *)
LEMMA StoreGuarded ==
    ASSUME Guarded, NEW r \in Readers, Store(r)
    PROVE  Guarded'
<1> DEFINE jar == caller[r].jar
<1>1. ~Idle(r) /\ HoldsItsJar(r) /\ caller[r].pc = "store"
  BY DEF Store, Idle, Guarded
<1>2. jar \in [of : Sessions, turn : Nat] /\ jar.turn = newest[jar.of]
  BY <1>1 DEF Guarded, HoldsItsJar
<1>3. session' = jar
  BY <1>1 DEF Store, HoldsItsJar, RecordYouTubeSessionOK, SetYouTubeSession
<1>4. chosen' = jar.of
  <2>1. CASE caller[r].op = "set"
    BY <2>1 DEF Store
  <2>2. CASE caller[r].op = "list"
    BY <1>1, <2>2 DEF Store, HoldsItsJar, Guarded, JarKept
  <2> QED
    BY <1>1, <2>1, <2>2 DEF HoldsItsJar
<1>5. kept'.of = jar.of /\ newest' = newest
  BY DEF Store
<1>6. /\ \A q \in Readers : Idle(q)'
      /\ caller' \in [Readers -> [pc : {"idle", "read", "store"}, op : {"none", "list", "set"},
                                  jar : [of : Sessions \cup {"none"}, turn : Nat]]]
  <2>1. caller' = [caller EXCEPT ![r] = Away]
    BY DEF Store, Goes
  <2> QED
    BY <1>1, <2>1 DEF Guarded, Away, NoSession, Idle
<1>7. JarKept'
  BY <1>2, <1>3, <1>4, <1>5 DEF JarKept
<1> QED
  BY <1>2, <1>3, <1>5, <1>6, <1>7 DEF Guarded

LEMMA NextGuarded == Guarded /\ [HistoryNext]_historyVars => Guarded'
<1>1. SUFFICES ASSUME Guarded, [HistoryNext]_historyVars PROVE Guarded'
  OBVIOUS
<1>2. ASSUME UNCHANGED <<newest, session, caller, kept, missed, chosen>> PROVE Guarded'
  BY <1>1, <1>2 DEF Guarded, Idle, HoldsItsJar, JarKept, Reused
<1>3. ASSUME NEW r \in Readers, ReadHistory(r) PROVE Guarded'
  <2>1. session \in [of : Sessions, turn : Nat] /\ session # NoSession
    BY <1>1, <1>3 DEF ReadHistory, GetYouTubeSession, Guarded
  <2> QED
    BY <1>1, <1>3, <2>1, TakesTheLock DEF ReadHistory, GetYouTubeSession
<1>4. ASSUME NEW r \in Readers, SetSession(r) PROVE Guarded'
  <2>0. PICK s \in Sessions : \E turn \in 0 .. newest[s] : ReadsWith(r, "set", Jar(s, turn))
    BY <1>4 DEF SetSession
  <2>1. PICK turn \in 0 .. newest[s] : ReadsWith(r, "set", Jar(s, turn))
    BY <2>0
  <2>2. Jar(s, turn) \in [of : Sessions, turn : Nat]
    BY <1>1, <2>1 DEF Guarded, Jar
  <2> QED
    BY <1>1, <1>4, <2>1, <2>2, TakesTheLock DEF SetSession
<1>5. ASSUME NEW r \in Readers, SignedOut(r) \/ HistoryRefused(r) \/ NotStored(r) PROVE Guarded'
  <2>1. ~Idle(r) /\ Goes(r, Away) /\ UNCHANGED <<newest, session, kept, missed, chosen>>
    BY <1>5 DEF SignedOut, HistoryRefused, NotStored, Idle
  <2> QED
    BY <1>1, <2>1, LetsGo
<1>6. CASE ServerRestarts
  <2>1. /\ \A q \in Readers : Idle(q)'
        /\ caller' \in [Readers -> [pc : {"idle", "read", "store"}, op : {"none", "list", "set"},
                                    jar : [of : Sessions \cup {"none"}, turn : Nat]]]
    BY <1>6 DEF ServerRestarts, Away, NoSession, Idle
  <2> QED
    BY <1>1, <1>6, <2>1 DEF ServerRestarts, Guarded, JarKept, Reused, NoneKept
<1>7. CASE HistoryTick
  <2>1. kept'.of = kept.of /\ (Reused' => Reused)
    BY <1>7 DEF HistoryTick, OneLess, Reused
  <2> QED
    BY <1>1, <1>7, <2>1 DEF HistoryTick, Guarded, Idle, HoldsItsJar, JarKept
<1> QED
  BY <1>1, <1>2, <1>3, <1>4, <1>5, <1>6, <1>7, RotatesGuarded, StoreGuarded
     DEF HistoryNext, historyVars, ReadsNothing, EnrichmentRefused

(* The store's jar is the newest of the session the owner stored last, but   *)
(* for a rotation that could not be stored, and what is answered from memory *)
(* is that session's, for any number of readers, sessions and failures.      *)
THEOREM JarsAreKept == HistorySpec => []JarKept
<1>1. Guarded => JarKept
  BY DEF Guarded
<1> QED
  BY InitGuarded, NextGuarded, <1>1, PTL DEF HistorySpec

-----------------------------------------------------------------------------
(***************************************************************************)
(* Shutdown.  A write that outlives the signal began before it, so it has  *)
(* drained no longer than the write has run, which the grace outlasts.     *)
(***************************************************************************)
Steps == {"idle", "waiting", "reads", "record", "send", "settle", "answer"}

(* How long a write may have run before the step it is at.                   *)
RunsBefore(pc) ==
    CASE pc = "send" -> RecordTimeout
      [] pc = "settle" -> RecordTimeout + YouTubeTimeout
      [] OTHER -> 0

StepsInTime ==
    \A r \in Requests : request[r].pc \in Begun =>
        request[r].age <= Bound(request[r].pc, RecordTimeout, YouTubeTimeout)

BegunBeforeTheSignal ==
    process = "drains" =>
        \A r \in Requests : request[r].pc \in Begun =>
            drained <= RunsBefore(request[r].pc) + request[r].age

Orderly ==
    /\ process \in {"runs", "drains", "exited", "killed"}
    /\ drained \in Nat
    /\ process = "runs" => drained = 0
    /\ request \in [Requests -> [pc : Steps, age : Nat]]
    /\ StepsInTime
    /\ BegunBeforeTheSignal
    /\ CleanStop

LEMMA GraceOutlastsWrites ==
    /\ {RecordTimeout, YouTubeTimeout, WriteDuration, ShutdownGrace} \subseteq Nat
    /\ WriteDuration = RecordTimeout + YouTubeTimeout + RecordTimeout
    /\ WriteDuration < ShutdownGrace
<1>1. /\ RecordTimeout \in Nat /\ YouTubeTimeout \in Nat
      /\ PushRecordTimeout \in Nat /\ PushYouTubeTimeout \in Nat
      /\ AnswerTime \in Nat /\ AnswerTime > 0
  BY ShutdownAssumption
<1> QED
  BY <1>1 DEF WriteDuration, PushWriteDuration, ShutdownGrace

LEMMA InitOrderly == ShutdownInit => Orderly
  BY DEF ShutdownInit, Orderly, StepsInTime, BegunBeforeTheSignal, CleanStop, At, Steps, Begun

(* A request goes from one step to another.  It begins its write only while  *)
(* the server runs, and every later step starts no later than the one before *)
(* it had to end.                                                            *)
LEMMA MovesOrderly ==
    ASSUME Orderly, NEW r \in Requests, NEW from \in Steps, NEW to \in Steps,
           Moves(r, from, to),
           \/ to \notin Begun
           \/ process = "runs" /\ to = "record"
           \/ from = "record" /\ to = "send"
           \/ from = "send" /\ to = "settle"
    PROVE  Orderly'
<1>1. /\ request' \in [Requests -> [pc : Steps, age : Nat]]
      /\ request'[r] = [pc |-> to, age |-> 0]
      /\ \A q \in Requests : q # r => request'[q] = request[q]
  BY DEF Orderly, Moves, At
<1>2. process' = process /\ drained' = drained /\ push' = push /\ process \in {"runs", "drains"}
  BY DEF Moves, Alive
<1>3. StepsInTime'
  <2>1. \A step \in Begun : Bound(step, RecordTimeout, YouTubeTimeout) \in Nat
    BY GraceOutlastsWrites DEF Bound, Begun
  <2>2. ASSUME NEW q \in Requests, request'[q].pc \in Begun
        PROVE  request'[q].age <= Bound(request'[q].pc, RecordTimeout, YouTubeTimeout)
    BY <1>1, <2>1, <2>2 DEF Orderly, StepsInTime
  <2> QED
    BY <2>2 DEF StepsInTime
<1>4. BegunBeforeTheSignal'
  <2>1. SUFFICES ASSUME process = "drains", NEW q \in Requests, request'[q].pc \in Begun
                 PROVE  drained <= RunsBefore(request'[q].pc) + request'[q].age
    BY <1>2 DEF BegunBeforeTheSignal
  <2>2. CASE q # r
    BY <1>1, <2>1, <2>2 DEF Orderly, BegunBeforeTheSignal
  <2>3. CASE q = r
    <3>0. /\ \/ from = "record" /\ to = "send"
             \/ from = "send" /\ to = "settle"
          /\ request[r].pc = from /\ from \in Begun
      <4>1. to \in Begun
        BY <1>1, <2>1, <2>3
      <4>2. process # "runs"
        BY <2>1
      <4>3. \/ from = "record" /\ to = "send"
            \/ from = "send" /\ to = "settle"
        BY <4>1, <4>2
      <4>4. request[r].pc = from
        BY DEF Moves
      <4>5. from \in Begun
        BY <4>3 DEF Begun
      <4> QED
        BY <4>3, <4>4, <4>5
    <3>1. /\ drained <= RunsBefore(from) + request[r].age
          /\ request[r].age <= Bound(from, RecordTimeout, YouTubeTimeout)
          /\ request[r].age \in Nat
      BY <2>1, <3>0 DEF Orderly, BegunBeforeTheSignal, StepsInTime
    <3> QED
      BY <1>1, <2>3, <3>0, <3>1, GraceOutlastsWrites DEF RunsBefore, Bound, Orderly
  <2> QED
    BY <2>2, <2>3
<1> QED
  BY <1>1, <1>2, <1>3, <1>4 DEF Orderly, CleanStop

LEMMA RequestOrderly ==
    ASSUME Orderly, NEW r \in Requests,
           \/ Arrives(r) \/ LeavesQueue(r) \/ TakeWriteTurn(r) \/ ReadFails(r)
           \/ Begins(r) \/ RefusesDraining(r) \/ NotRecorded(r)
           \/ SendsWrite(r) \/ WriteAnswered(r) \/ Settles(r) \/ Answers(r)
    PROVE  Orderly'
<1>1. PICK from \in Steps, to \in Steps :
        /\ Moves(r, from, to)
        /\ \/ to \notin Begun
           \/ process = "runs" /\ to = "record"
           \/ from = "record" /\ to = "send"
           \/ from = "send" /\ to = "settle"
  BY DEF Arrives, LeavesQueue, TakeWriteTurn, ReadFails, Begins, RefusesDraining, NotRecorded,
         SendsWrite, WriteAnswered, Settles, Answers, NotDraining, Steps, Begun
<1> QED
  BY <1>1, MovesOrderly

(* A write ages with the drain, and no step outlasts its timeout.            *)
LEMMA TickOrderly ==
    ASSUME Orderly, ShutdownTick
    PROVE  Orderly'
<1>1. \A r \in Requests :
        request[r].pc \in Steps /\ request[r].age \in Nat
  BY DEF Orderly
<1>2. \A r \in Requests :
        /\ request'[r].pc = request[r].pc
        /\ request'[r] \in [pc : Steps, age : Nat]
        /\ request'[r].pc \in Begun => request'[r].age = request[r].age + 1
  <2>1. \A r \in Requests : request'[r] = Ages(request[r])
    BY DEF ShutdownTick
  <2>2. \A r \in Requests : request[r] \in [pc : Steps, age : Nat]
    BY DEF Orderly
  <2>3. ASSUME NEW r \in Requests, request[r].pc \in {"idle", "waiting"}
        PROVE  request'[r] = request[r] /\ request'[r].pc \notin Begun
    BY <2>1, <2>3 DEF Ages, Begun
  <2>4. ASSUME NEW r \in Requests, request[r].pc \notin {"idle", "waiting"}
        PROVE  request'[r] = [pc |-> request[r].pc, age |-> request[r].age + 1]
    BY <2>1, <2>2, <2>4 DEF Ages
  <2>5. ASSUME NEW r \in Requests
        PROVE  /\ request'[r].pc = request[r].pc
               /\ request'[r] \in [pc : Steps, age : Nat]
               /\ request'[r].pc \in Begun => request'[r].age = request[r].age + 1
    <3>1. CASE request[r].pc \in {"idle", "waiting"}
      BY <2>2, <2>3, <3>1
    <3>2. CASE request[r].pc \notin {"idle", "waiting"}
      <4>1. request'[r] = [pc |-> request[r].pc, age |-> request[r].age + 1]
        BY <2>4, <3>2
      <4>2. request[r].pc \in Steps /\ request[r].age + 1 \in Nat
        BY <1>1
      <4> QED
        BY <4>1, <4>2
    <3> QED
      BY <3>1, <3>2
  <2> QED
    BY <2>5
<1>3. request' \in [Requests -> [pc : Steps, age : Nat]]
  <2>1. request' = [r \in Requests |-> Ages(request[r])]
    BY DEF ShutdownTick
  <2> QED
    BY <1>2, <2>1
<1>4. /\ process' = process /\ process \in {"runs", "drains"}
      /\ drained' \in Nat /\ drained' <= drained + 1
      /\ process = "runs" => drained' = 0
  BY DEF Orderly, ShutdownTick, Alive
<1>5. StepsInTime'
  <2>1. ASSUME NEW r \in Requests, request'[r].pc \in Begun
        PROVE  request'[r].age <= Bound(request'[r].pc, RecordTimeout, YouTubeTimeout)
    <3>1. request[r].age < Bound(request[r].pc, RecordTimeout, YouTubeTimeout)
      BY <1>2, <2>1 DEF ShutdownTick, InTime, Begun
    <3>2. Bound(request[r].pc, RecordTimeout, YouTubeTimeout) \in Nat
      BY <1>2, <2>1, GraceOutlastsWrites DEF Bound, Begun
    <3> DEFINE most == Bound(request[r].pc, RecordTimeout, YouTubeTimeout)
    <3>3. request[r].age + 1 <= most
      <4> HIDE DEF most
      <4>1. \A m, n \in Nat : m < n => m + 1 <= n
        OBVIOUS
      <4>2. most \in Nat /\ request[r].age \in Nat /\ request[r].age < most
        BY <1>1, <3>1, <3>2 DEF most
      <4> QED
        BY <4>1, <4>2
    <3> QED
      BY <1>2, <2>1, <3>3
  <2> QED
    BY <2>1 DEF StepsInTime
<1>6. BegunBeforeTheSignal'
  <2>1. ASSUME process' = "drains", NEW r \in Requests, request'[r].pc \in Begun
        PROVE  drained' <= RunsBefore(request'[r].pc) + request'[r].age
    <3>1. drained <= RunsBefore(request[r].pc) + request[r].age
      BY <1>2, <1>4, <2>1 DEF Orderly, BegunBeforeTheSignal
    <3>2. RunsBefore(request[r].pc) \in Nat
      BY GraceOutlastsWrites DEF RunsBefore
    <3> QED
      BY <1>1, <1>2, <1>4, <2>1, <3>1, <3>2 DEF Orderly
  <2> QED
    BY <2>1 DEF BegunBeforeTheSignal
<1> QED
  BY <1>3, <1>4, <1>5, <1>6 DEF Orderly, CleanStop

(* The server exits once the requests have, or the grace is over: a write    *)
(* begun has then run longer than a write may.                               *)
LEMMA ExitOrderly ==
    ASSUME Orderly, Exit
    PROVE  Orderly'
<1>1. ASSUME NEW r \in Requests PROVE request[r].pc \notin Begun
  <2>1. CASE drained = ShutdownGrace
    <3>1. SUFFICES ASSUME request[r].pc \in Begun PROVE FALSE
      OBVIOUS
    <3>2. drained <= RunsBefore(request[r].pc) + request[r].age
      BY <3>1 DEF Orderly, BegunBeforeTheSignal, Exit
    <3>3. /\ request[r].age <= Bound(request[r].pc, RecordTimeout, YouTubeTimeout)
          /\ request[r].age \in Nat
      BY <3>1 DEF Orderly, StepsInTime
    <3>4. RunsBefore(request[r].pc) + Bound(request[r].pc, RecordTimeout, YouTubeTimeout)
            <= WriteDuration
      BY <3>1, GraceOutlastsWrites DEF Begun, RunsBefore, Bound
    <3>5. /\ RunsBefore(request[r].pc) \in Nat
          /\ Bound(request[r].pc, RecordTimeout, YouTubeTimeout) \in Nat
      BY <3>1, GraceOutlastsWrites DEF Begun, RunsBefore, Bound
    <3> QED
      BY <2>1, <3>2, <3>3, <3>4, <3>5, GraceOutlastsWrites
  <2>2. CASE \A q \in Requests : request[q].pc = "idle"
    BY <2>2 DEF Begun
  <2> QED
    BY <2>1, <2>2 DEF Exit
<1> QED
  BY <1>1 DEF Orderly, Exit, CleanStop, StepsInTime, BegunBeforeTheSignal, Begun

LEMMA NextOrderly == Orderly /\ [ShutdownNext]_shutdownVars => Orderly'
<1>1. SUFFICES ASSUME Orderly, [ShutdownNext]_shutdownVars PROVE Orderly'
  OBVIOUS
<1>2. CASE UNCHANGED shutdownVars
  BY <1>1, <1>2 DEF shutdownVars, Orderly, StepsInTime, BegunBeforeTheSignal, CleanStop
<1>3. CASE PushBegins \/ PushNotBegun \/ PushSends \/ PushAnswered \/ PushSettles
  <2>1. UNCHANGED <<process, drained, request>> /\ process \in {"runs", "drains"}
    BY <1>3 DEF PushBegins, PushNotBegun, PushSends, PushAnswered, PushSettles, PushMoves, Alive
  <2> QED
    BY <1>1, <2>1 DEF Orderly, StepsInTime, BegunBeforeTheSignal, CleanStop
<1>4. CASE FirstSignal
  <2>1. drained = 0 /\ process' = "drains" /\ UNCHANGED <<drained, request, push>>
    BY <1>1, <1>4 DEF FirstSignal, Orderly
  <2>2. \A r \in Requests : RunsBefore(request[r].pc) \in Nat /\ request[r].age \in Nat
    BY <1>1, GraceOutlastsWrites DEF RunsBefore, Orderly
  <2> QED
    BY <1>1, <2>1, <2>2 DEF Orderly, StepsInTime, BegunBeforeTheSignal, CleanStop
<1>5. CASE SecondSignal
  BY <1>1, <1>5 DEF SecondSignal, Orderly, StepsInTime, BegunBeforeTheSignal, CleanStop
<1>6. CASE StartsAgain
  BY <1>1, <1>6 DEF StartsAgain, Orderly, StepsInTime, BegunBeforeTheSignal, CleanStop, At,
                    Steps, Begun
<1> QED
  BY <1>1, <1>2, <1>3, <1>4, <1>5, <1>6, RequestOrderly, TickOrderly, ExitOrderly
     DEF ShutdownNext

(* The server never exits with a write begun and not settled, for every      *)
(* timeout, any number of requests and a signal at any step.                 *)
THEOREM ServerStopsCleanly == ShutdownSpec => []CleanStop
<1>1. Orderly => CleanStop
  BY DEF Orderly
<1> QED
  BY InitOrderly, NextOrderly, <1>1, PTL DEF ShutdownSpec

-----------------------------------------------------------------------------
(***************************************************************************)
(* Enrichment.                                                             *)
(***************************************************************************)

(* What is left of the pause a refusal calls for.                            *)
StillToRest == RateLimitPause - refusal.since

EnrichTyped ==
    /\ rest \in Nat
    /\ enricher \in [pc : {"step", "read"}, reading : Videos \cup {"none"}, sleep : Nat,
                     failedInARow : Nat]
    /\ tally \in [some : BOOLEAN, refused : BOOLEAN]
    /\ pass \in [pc : {"idle", "jobs", "record"}, took : [some : BOOLEAN, refused : BOOLEAN]]
    /\ refusal \in [since : 0 .. RateLimitPause,
                    is : {"none", "told", "recorded", "dropped", "lost"}]

(* A refusal the tally or a pass holds is one of which the latest is not yet *)
(* recorded; and one a pass took is part of what it has to record.           *)
ToldOnly == refusal.is # "told" => ~tally.refused /\ ~pass.took.refused
TookSome == (tally.refused => tally.some) /\ (pass.took.refused => pass.took.some)

(* What keeps the enricher from reading: its own sleep, until the store does. *)
SleepsItOff == enricher.pc = "step" /\ enricher.sleep >= StillToRest

HeldOff ==
    refusal.since < RateLimitPause =>
        /\ refusal.is # "none"
        /\ refusal.is \in {"told", "dropped"} => SleepsItOff
        /\ refusal.is = "recorded" => enricher.pc = "step" /\ rest >= StillToRest

Resting == EnrichTyped /\ ToldOnly /\ TookSome /\ HeldOff

LEMMA InitRests == EnrichInit => Resting
  BY EnrichAssumption
     DEF EnrichInit, Resting, EnrichTyped, ToldOnly, TookSome, HeldOff, Nothing

LEMMA Amounts ==
    ASSUME EnrichTyped
    PROVE  /\ {RateLimitPause, FailingPause, IdleWait, Pace} \subseteq Nat \ {0}
           /\ rest \in Nat /\ refusal.since \in Nat /\ StillToRest \in Nat
           /\ refusal.since < RateLimitPause => StillToRest > 0
           /\ enricher.sleep \in Nat
<1>1. {RateLimitPause, FailingPause, IdleWait, Pace} \subseteq Nat \ {0}
  BY EnrichAssumption
<1>2. refusal.since \in 0 .. RateLimitPause /\ rest \in Nat /\ enricher.sleep \in Nat
  BY DEF EnrichTyped
<1> QED
  BY <1>1, <1>2 DEF StillToRest

(* An enricher that is about to read, or reads, was let by every refusal the *)
(* store or memory still knows.                                              *)
LEMMA LetsRead ==
    ASSUME Resting, \/ enricher.pc = "read"
                    \/ Awake /\ PausedUntil = 0,
           refusal.since < RateLimitPause
    PROVE  refusal.is = "lost"
<1>1. refusal.is \in {"none", "told", "recorded", "dropped", "lost"}
  BY DEF Resting, EnrichTyped
<1> QED
  BY <1>1, Amounts DEF Resting, HeldOff, SleepsItOff, Awake, PausedUntil

(* A step that sleeps, of an enricher no refusal in memory holds.            *)
LEMMA SleepsRests ==
    ASSUME Resting, NEW d \in Nat, NEW n \in Nat, Sleeps(d, n),
           refusal.since < RateLimitPause => refusal.is \in {"recorded", "lost"},
           tally' = tally \/ tally' = [some |-> TRUE, refused |-> tally.refused],
           UNCHANGED <<rest, pass, refusal>>
    PROVE  Resting'
<1>1. EnrichTyped'
  <2>1. enricher' \in [pc : {"step", "read"}, reading : Videos \cup {"none"}, sleep : Nat,
                       failedInARow : Nat]
    BY DEF Sleeps
  <2>2. tally' \in [some : BOOLEAN, refused : BOOLEAN]
    <3>1. tally \in [some : BOOLEAN, refused : BOOLEAN]
      BY DEF Resting, EnrichTyped
    <3>2. tally.refused \in BOOLEAN
      BY <3>1
    <3>3. [some |-> TRUE, refused |-> tally.refused] \in [some : BOOLEAN, refused : BOOLEAN]
      BY <3>2, Zenon
    <3> QED
      BY <3>1, <3>3, Zenon
  <2> QED
    BY <2>1, <2>2 DEF Resting, EnrichTyped
<1>2. enricher'.pc = "step" /\ tally'.refused = tally.refused /\ (tally.some => tally'.some)
  BY DEF Sleeps
<1>3. HeldOff'
  BY <1>2 DEF Resting, HeldOff, SleepsItOff, StillToRest
<1> QED
  BY <1>1, <1>2, <1>3 DEF Resting, ToldOnly, TookSome

LEMMA AwakeRests ==
    ASSUME Resting, StepWaits \/ StepFails
    PROVE  Resting'
<1>1. refusal.since < RateLimitPause => refusal.is \in {"recorded", "lost"}
  <2>1. refusal.is \in {"none", "told", "recorded", "dropped", "lost"}
    BY DEF Resting, EnrichTyped
  <2> QED
    BY <2>1, Amounts DEF StepWaits, StepFails, Awake, Resting, HeldOff, SleepsItOff
<1>2. PICK d \in {PausedUntil, IdleWait, FailingPause} : Sleeps(d, enricher.failedInARow)
  BY DEF StepWaits, StepFails
<1>3. d \in Nat /\ enricher.failedInARow \in Nat
  BY Amounts DEF Resting, EnrichTyped, PausedUntil
<1>4. tally' = tally \/ tally' = [some |-> TRUE, refused |-> tally.refused]
  BY DEF StepWaits, StepFails, Add, Nothing, Resting, EnrichTyped
<1> QED
  BY <1>1, <1>2, <1>3, <1>4, SleepsRests DEF StepWaits, StepFails

LEMMA AnsweredRests ==
    ASSUME Resting, ReadAnswered \/ ReadNotStored
    PROVE  Resting'
<1>1. refusal.since < RateLimitPause => refusal.is = "lost"
  BY LetsRead DEF ReadAnswered, ReadNotStored
<1>2. \E d \in Nat, n \in Nat : Sleeps(d, n)
  <2>1. enricher.failedInARow \in Nat
    BY DEF Resting, EnrichTyped
  <2>2. FailingPause \in Nat /\ Pace \in Nat
    BY Amounts DEF Resting
  <2>3. CASE ReadNotStored
    BY <2>1, <2>2, <2>3 DEF ReadNotStored
  <2>4. CASE ReadAnswered
    <3>1. PICK answer \in ReaderVideo \ {"refused"} :
            IF FailedInARow(answer) >= MaxConsecutiveFailures THEN Sleeps(FailingPause, 0)
            ELSE \E d \in Pace .. 2 * Pace : Sleeps(d, FailedInARow(answer))
      BY <2>4 DEF ReadAnswered
    <3>2. FailedInARow(answer) \in Nat
      BY <2>1 DEF FailedInARow
    <3>3. \A d \in Pace .. 2 * Pace : d \in Nat
      BY <2>2
    <3> QED
      BY <2>2, <3>1, <3>2, <3>3
  <2> QED
    BY <2>3, <2>4
<1>3. tally' = [some |-> TRUE, refused |-> tally.refused]
  BY DEF ReadAnswered, ReadNotStored, Add, Nothing, Resting, EnrichTyped
<1> QED
  BY <1>1, <1>2, <1>3, SleepsRests DEF ReadAnswered, ReadNotStored

LEMMA RefusedRests ==
    ASSUME Resting, ReadRefused
    PROVE  Resting'
<1>1. /\ refusal' = [since |-> 0, is |-> "told"]
      /\ enricher' = [pc |-> "step", reading |-> "none", sleep |-> RateLimitPause,
                      failedInARow |-> enricher.failedInARow]
      /\ tally' = [some |-> TRUE, refused |-> TRUE]
      /\ rest' = rest /\ pass' = pass
  BY DEF ReadRefused, Sleeps, Add, Resting, EnrichTyped
<1> QED
  BY <1>1, Amounts DEF Resting, EnrichTyped, ToldOnly, TookSome, HeldOff, SleepsItOff, StillToRest

LEMMA ReadsRests ==
    ASSUME Resting, StepReads
    PROVE  Resting'
<1>1. refusal.since < RateLimitPause => refusal.is = "lost"
  BY LetsRead DEF StepReads
<1>2. PICK v \in Videos : enricher' = [enricher EXCEPT !.pc = "read", !.reading = v]
  BY DEF StepReads, ListVideosToEnrich
<1>3. enricher' \in [pc : {"step", "read"}, reading : Videos \cup {"none"}, sleep : Nat,
                     failedInARow : Nat]
  BY <1>2 DEF Resting, EnrichTyped
<1> QED
  BY <1>1, <1>3 DEF StepReads, Resting, EnrichTyped, ToldOnly, TookSome, HeldOff

(* A pass takes what the tally holds; and when it ends, the latest refusal   *)
(* is in the store, or was never to be, and the enricher still sleeps it off. *)
LEMMA PassRests ==
    ASSUME Resting, PassBegins \/ PassOnRefusal \/ Take
    PROVE  Resting'
<1>1. UNCHANGED <<rest, enricher, refusal>>
  BY DEF PassBegins, PassOnRefusal, Take
<1>2. /\ pass'.took \in {pass.took, tally} /\ tally' \in {tally, Nothing}
      /\ pass' \in [pc : {"idle", "jobs", "record"}, took : [some : BOOLEAN, refused : BOOLEAN]]
  BY DEF PassBegins, PassOnRefusal, Take, Resting, EnrichTyped
<1>3. /\ pass'.took.refused => pass.took.refused \/ tally.refused
      /\ tally'.refused => tally.refused
      /\ (tally'.refused => tally'.some) /\ (pass'.took.refused => pass'.took.some)
  BY <1>2 DEF Resting, TookSome, Nothing
<1>4. HeldOff'
  BY <1>1 DEF Resting, HeldOff, SleepsItOff, StillToRest
<1>5. EnrichTyped'
  <2>1. tally \in [some : BOOLEAN, refused : BOOLEAN]
    BY DEF Resting, EnrichTyped
  <2>2. Nothing \in [some : BOOLEAN, refused : BOOLEAN]
    BY Zenon DEF Nothing
  <2>3. tally' \in [some : BOOLEAN, refused : BOOLEAN]
    BY <1>2, <2>1, <2>2
  <2> QED
    BY <1>1, <1>2, <2>3 DEF Resting, EnrichTyped
<1>6. ToldOnly' /\ TookSome'
  BY <1>1, <1>3 DEF Resting, ToldOnly, TookSome, EnrichTyped
<1> QED
  BY <1>4, <1>5, <1>6 DEF Resting

LEMMA RecordRests ==
    ASSUME Resting, Record \/ RecordFails
    PROVE  Resting'
<1>1. /\ UNCHANGED <<enricher, tally>> /\ pass' = [pc |-> "idle", took |-> Nothing]
      /\ refusal'.since = refusal.since
      /\ refusal' \in [since : 0 .. RateLimitPause,
                       is : {"none", "told", "recorded", "dropped", "lost"}]
  BY DEF Record, RecordFails, Resting, EnrichTyped
<1>2. CASE ~(pass.took.refused /\ ~tally.refused)
  <2>1. refusal' = refusal
    BY <1>2 DEF Record, RecordFails, Resting, EnrichTyped
  <2>2. rest' \in {rest, RateLimitPause}
    BY DEF Record, RecordFails, Latest
  <2>3. refusal.since < RateLimitPause /\ refusal.is = "recorded" => rest' >= StillToRest
    <3>1. StillToRest <= RateLimitPause
      BY EnrichAssumption DEF StillToRest, Resting, EnrichTyped
    <3> QED
      BY <2>2, <3>1 DEF Resting, HeldOff
  <2> QED
    BY <1>1, <2>1, <2>2, <2>3, Amounts
       DEF Resting, EnrichTyped, ToldOnly, TookSome, HeldOff, SleepsItOff, StillToRest, Nothing
<1>3. CASE pass.took.refused /\ ~tally.refused
  <2>1. refusal.is = "told" /\ pass.took.some
    BY <1>3 DEF Resting, ToldOnly, TookSome
  <2>2. refusal.since < RateLimitPause => SleepsItOff
    BY <2>1 DEF Resting, HeldOff
  <2>3. \/ refusal'.is = "recorded" /\ rest' = RateLimitPause
        \/ refusal'.is = "dropped" /\ rest' = rest
    BY <1>3, <2>1 DEF Record, RecordFails, Latest, Resting, EnrichTyped
  <2>4. StillToRest <= RateLimitPause
    BY EnrichAssumption DEF StillToRest, Resting, EnrichTyped
  <2> QED
    BY <1>1, <1>3, <2>2, <2>3, <2>4, Amounts
       DEF Resting, EnrichTyped, ToldOnly, TookSome, HeldOff, SleepsItOff, StillToRest, Nothing
<1> QED
  BY <1>2, <1>3

LEMMA RestartRests ==
    ASSUME Resting, Restart
    PROVE  Resting'
<1>1. /\ enricher' = [pc |-> "step", reading |-> "none", sleep |-> 0, failedInARow |-> 0]
      /\ tally' = Nothing /\ pass' = [pc |-> "idle", took |-> Nothing] /\ rest' = rest
      /\ refusal'.since = refusal.since
      /\ refusal'.is = IF refusal.is \in {"told", "dropped"} THEN "lost" ELSE refusal.is
      /\ refusal' \in [since : 0 .. RateLimitPause,
                       is : {"none", "told", "recorded", "dropped", "lost"}]
  BY DEF Restart, Sleeps, Resting, EnrichTyped
<1> QED
  BY <1>1 DEF Resting, EnrichTyped, ToldOnly, TookSome, HeldOff, SleepsItOff, StillToRest, Nothing

(* The sleep, the pause and what is left of the refusal run down together.   *)
LEMMA EnrichTickRests ==
    ASSUME Resting, EnrichTick
    PROVE  Resting'
<1>1. /\ rest' = Less(rest) /\ enricher' = [enricher EXCEPT !.sleep = Less(@)]
      /\ refusal' = [refusal EXCEPT !.since = IF @ < RateLimitPause THEN @ + 1 ELSE @]
      /\ UNCHANGED <<tally, pass>>
  BY DEF EnrichTick
<1>2. \A n \in Nat : Less(n) \in Nat /\ Less(n) >= n - 1
  BY DEF Less
<1>3. /\ rest' \in Nat /\ rest' >= rest - 1
      /\ enricher' \in [pc : {"step", "read"}, reading : Videos \cup {"none"}, sleep : Nat,
                        failedInARow : Nat]
      /\ enricher'.pc = enricher.pc /\ enricher'.sleep >= enricher.sleep - 1
  <2>1. enricher.sleep \in Nat /\ rest \in Nat
    BY Amounts DEF Resting
  <2>2. Less(enricher.sleep) \in Nat /\ Less(enricher.sleep) >= enricher.sleep - 1
    BY <1>2, <2>1
  <2> HIDE DEF Less
  <2>3. enricher'.sleep = Less(enricher.sleep) /\ enricher'.pc = enricher.pc
    BY <1>1 DEF Resting, EnrichTyped
  <2>4. enricher' \in [pc : {"step", "read"}, reading : Videos \cup {"none"}, sleep : Nat,
                       failedInARow : Nat]
    BY <1>1, <2>2 DEF Resting, EnrichTyped
  <2> QED
    BY <1>1, <1>2, <2>1, <2>2, <2>3, <2>4
<1>4. /\ refusal' \in [since : 0 .. RateLimitPause,
                       is : {"none", "told", "recorded", "dropped", "lost"}]
      /\ refusal'.is = refusal.is
      /\ refusal'.since < RateLimitPause =>
            refusal.since < RateLimitPause /\ refusal'.since = refusal.since + 1
  <2>1. refusal.since \in 0 .. RateLimitPause /\ RateLimitPause \in Nat
    BY EnrichAssumption DEF Resting, EnrichTyped
  <2>2. refusal'.is = refusal.is
        /\ refusal'.since = IF refusal.since < RateLimitPause THEN refusal.since + 1
                            ELSE refusal.since
    BY <1>1 DEF Resting, EnrichTyped
  <2>3. (IF refusal.since < RateLimitPause THEN refusal.since + 1 ELSE refusal.since)
            \in 0 .. RateLimitPause
    BY <2>1
  <2> QED
    BY <1>1, <2>1, <2>2, <2>3 DEF Resting, EnrichTyped
<1>5. HeldOff'
  BY <1>3, <1>4, Amounts DEF Resting, HeldOff, SleepsItOff, StillToRest
<1> QED
  BY <1>1, <1>3, <1>4, <1>5 DEF Resting, EnrichTyped, ToldOnly, TookSome

LEMMA NextRests == Resting /\ [EnrichNext]_enrichVars => Resting'
<1>1. SUFFICES ASSUME Resting, [EnrichNext]_enrichVars PROVE Resting'
  OBVIOUS
<1>2. CASE UNCHANGED enrichVars \/ Clear
  <2>1. UNCHANGED <<rest, enricher, tally, pass, refusal>>
    BY <1>2 DEF enrichVars, Clear
  <2> QED
    BY <1>1, <2>1 DEF Resting, EnrichTyped, ToldOnly, TookSome, HeldOff, SleepsItOff, StillToRest
<1> QED
  BY <1>1, <1>2, AwakeRests, AnsweredRests, RefusedRests, ReadsRests, PassRests, RecordRests,
     RestartRests, EnrichTickRests DEF EnrichNext

(* YouTube is left alone for the whole pause after every refusal, whatever   *)
(* the pauses and the paces are, over failed writes, restarts and put-backs, *)
(* but for a restart that comes before the refusal is recorded.              *)
THEOREM EnrichmentRests == EnrichSpec => []RefusalsRest
<1>1. Resting => RefusalsRest
  BY LetsRead, Amounts DEF RefusalsRest, Resting, EnrichTyped
<1> QED
  BY InitRests, NextRests, <1>1, PTL DEF EnrichSpec

-----------------------------------------------------------------------------
(***************************************************************************)
(* Quota.  Each day, what YouTube charged is no more than the records hold, *)
(* with the reads of the pass under way, what no record will hold, and how  *)
(* far each write under way is ahead of the one request it is counted as.   *)
(***************************************************************************)
ReadsOf(d) == IF run.date = d THEN run.reads ELSE 0

(* A write not yet sent is behind what it is counted as.                     *)
Ahead(s, d) ==
    IF write[s].pc = "sent" /\ write[s].date = d
    THEN write[s].attempts * WriteUnits - WriteUnits ELSE 0

OnRecord(d) == Spent(d) + ReadsOf(d) + uncounted[d] + Ahead("sync", d) + Ahead("api", d)

RunPcs == {"none", "jobs", "edit", "push", "writes", "ends"}

QuotaTyped ==
    /\ day \in Days
    /\ charged \in [Days -> Nat] /\ units \in [Days -> Nat] /\ pending \in [Days -> Int]
    /\ readUnits \in [Days -> Nat] /\ uncounted \in [Days -> Nat]
    /\ run \in [pc : RunPcs, date : Days, reads : Nat]
    /\ run.pc = "none" => run.reads = 0
    /\ write \in [Senders -> [pc : {"none", "sent"}, date : Days, attempts : Nat]]

UnitsCovered == \A d \in Days : charged[d] <= OnRecord(d)

QuotaSound == QuotaTyped /\ UnitsCovered

LEMMA QuotaConstants ==
    /\ LastDay \in Nat \ {0} /\ Attempts \in Nat \ {0}
    /\ {DailyQuota, WriteUnits, PerTick, EditReserve, Ticks} \subseteq Nat
    /\ 1 \in Days /\ Days \subseteq Nat
    /\ Senders = {"sync", "api"} /\ "sync" \in Senders /\ "api" \in Senders
  BY QuotaAssumption DEF Days, Senders

LEMMA WriteUnitsProducts ==
    ASSUME NEW n \in Int
    PROVE  /\ n * WriteUnits \in Int
           /\ (n + 1) * WriteUnits = n * WriteUnits + WriteUnits
           /\ (n - 1) * WriteUnits = n * WriteUnits - WriteUnits
           /\ 0 * WriteUnits = 0 /\ 1 * WriteUnits = WriteUnits
           /\ n \in Nat => n * WriteUnits \in Nat
  BY QuotaConstants

(* What the settlement of a write would have added to its one request is no  *)
(* less than how far the write is ahead.                                     *)
LEMMA BeyondCoversAhead ==
    ASSUME QuotaTyped, NEW s \in Senders, NEW d \in Days
    PROVE  /\ Ahead(s, d) \in Int
           /\ Beyond(write[s]) \in Nat
           /\ Ahead(s, d) <= (IF write[s].pc = "sent" /\ write[s].date = d
                              THEN Beyond(write[s]) ELSE 0)
<1> DEFINE a == write[s].attempts
<1>1. a \in Nat /\ a \in Int /\ WriteUnits \in Nat
  BY QuotaConstants DEF QuotaTyped
<1>2. /\ a * WriteUnits \in Nat /\ (a - 1) * WriteUnits = a * WriteUnits - WriteUnits
      /\ 0 * WriteUnits = 0 /\ 1 * WriteUnits = WriteUnits
  <2> HIDE DEF a
  <2> QED
    BY <1>1, WriteUnitsProducts, Zenon
<1>3. Beyond(write[s]) = IF a > 1 THEN a * WriteUnits - WriteUnits ELSE 0
  BY <1>2 DEF Beyond
<1>4. a > 1 => a * WriteUnits - WriteUnits \in Nat
  <2>1. SUFFICES ASSUME a > 1 PROVE a * WriteUnits - WriteUnits \in Nat
    OBVIOUS
  <2>2. a - 1 \in Nat
    BY <1>1, <2>1
  <2>3. (a - 1) * WriteUnits \in Nat
    <3> HIDE DEF a
    <3>1. a - 1 \in Int
      BY <2>2
    <3> QED
      BY <2>2, <3>1, WriteUnitsProducts, Zenon
  <2> QED
    BY <1>2, <2>3
<1>5. a <= 1 => a * WriteUnits - WriteUnits <= 0
  BY <1>1, <1>2
<1>6. Ahead(s, d) = IF write[s].pc = "sent" /\ write[s].date = d
                    THEN a * WriteUnits - WriteUnits ELSE 0
  BY DEF Ahead
<1> HIDE DEF a
<1> QED
  BY <1>1, <1>2, <1>3, <1>4, <1>5, <1>6

LEMMA RecordsTyped ==
    ASSUME QuotaTyped, NEW d \in Days
    PROVE  /\ Spent(d) \in Int /\ ReadsOf(d) \in Nat /\ uncounted[d] \in Nat
           /\ charged[d] \in Nat /\ UnderWay(d) \in Nat
           /\ OnRecord(d) <= Spent(d) + ReadsOf(d) + uncounted[d] + UnderWay(d)
<1>1. /\ units[d] \in Nat /\ readUnits[d] \in Nat /\ pending[d] * WriteUnits \in Int
      /\ uncounted[d] \in Nat /\ charged[d] \in Nat /\ run.reads \in Nat
  BY WriteUnitsProducts DEF QuotaTyped
<1>2. Spent(d) \in Int /\ ReadsOf(d) \in Nat
  BY <1>1 DEF Spent, SumWriteUnits, SumRunReadUnits, ReadsOf
<1>3. /\ UnderWay(d) \in Nat
      /\ Ahead("sync", d) \in Int /\ Ahead("api", d) \in Int
      /\ Ahead("sync", d) + Ahead("api", d) <= UnderWay(d)
  BY BeyondCoversAhead, QuotaConstants DEF UnderWay
<1> QED
  BY <1>1, <1>2, <1>3 DEF OnRecord

LEMMA InitSound == QuotaInit => QuotaSound
<1>1. SUFFICES ASSUME QuotaInit PROVE QuotaSound
  OBVIOUS
<1>2. QuotaTyped
  <2>1. NoUnits \in [Days -> Nat] /\ NoUnits \in [Days -> Int]
    BY DEF NoUnits
  <2>2. run \in [pc : RunPcs, date : Days, reads : Nat] /\ run.reads = 0
    BY <1>1, QuotaConstants DEF QuotaInit, NoRun, RunPcs
  <2>3. write \in [Senders -> [pc : {"none", "sent"}, date : Days, attempts : Nat]]
    BY <1>1, QuotaConstants DEF QuotaInit, NoWrite
  <2> QED
    BY <1>1, <2>1, <2>2, <2>3, QuotaConstants DEF QuotaInit, QuotaTyped
<1>3. ASSUME NEW d \in Days PROVE charged[d] <= OnRecord(d)
  <2>1. charged[d] = 0 /\ units[d] = 0 /\ pending[d] = 0 /\ readUnits[d] = 0 /\ uncounted[d] = 0
    BY <1>1 DEF QuotaInit, NoUnits
  <2>2. ReadsOf(d) = 0 /\ Ahead("sync", d) = 0 /\ Ahead("api", d) = 0
    BY <1>1, QuotaConstants DEF QuotaInit, ReadsOf, Ahead, NoRun, NoWrite
  <2>3. 0 * WriteUnits = 0
    BY WriteUnitsProducts
  <2> QED
    BY <2>1, <2>2, <2>3 DEF OnRecord, Spent, SumWriteUnits, SumRunReadUnits
<1> QED
  BY <1>2, <1>3 DEF QuotaSound, UnitsCovered

(* More of a count is more of one day's.                                     *)
LEMMA MoreOfOne ==
    ASSUME NEW count, NEW S, count \in [Days -> S], NEW on \in Days, NEW by, NEW d \in Days
    PROVE  More(count, on, by)[d] = IF d = on THEN count[d] + by ELSE count[d]
  BY DEF More

LEMMA MoreTyped ==
    ASSUME NEW count \in [Days -> Nat], NEW on \in Days, NEW by \in Nat
    PROVE  More(count, on, by) \in [Days -> Nat]
  BY DEF More

LEMMA AheadTyped ==
    ASSUME QuotaTyped', NEW d \in Days
    PROVE  Ahead("sync", d)' \in Int /\ Ahead("api", d)' \in Int
<1>1. ASSUME NEW s \in Senders PROVE Ahead(s, d)' \in Int
  <2>1. write'[s].attempts \in Int
    BY DEF QuotaTyped
  <2>2. write'[s].attempts * WriteUnits \in Int
    BY <2>1, WriteUnitsProducts, Zenon
  <2> QED
    BY <2>2, QuotaConstants DEF Ahead
<1> QED
  BY <1>1, QuotaConstants

(* A step of one write leaves the other's as it was.                         *)
LEMMA OtherAhead ==
    ASSUME NEW s \in Senders, NEW w, write' = [write EXCEPT ![s] = w], QuotaTyped,
           NEW d \in Days,
           NEW x \in Int, Ahead(s, d)' = x
    PROVE  Ahead("sync", d)' + Ahead("api", d)'
               = Ahead("sync", d) + Ahead("api", d) - Ahead(s, d) + x
<1>1. ASSUME NEW t \in Senders, t # s PROVE Ahead(t, d)' = Ahead(t, d)
  BY <1>1 DEF QuotaTyped, Ahead
<1>2. Ahead("sync", d) \in Int /\ Ahead("api", d) \in Int
  BY BeyondCoversAhead, QuotaConstants
<1>3. CASE s = "sync"
  <2>1. Ahead("api", d)' = Ahead("api", d)
    BY <1>1, <1>3, QuotaConstants
  <2> QED
    BY <1>2, <1>3, <2>1
<1>4. CASE s = "api"
  <2>1. Ahead("sync", d)' = Ahead("sync", d)
    BY <1>1, <1>4, QuotaConstants
  <2> QED
    BY <1>2, <1>4, <2>1
<1> QED
  BY <1>3, <1>4, QuotaConstants

LEMMA SettledAhead ==
    ASSUME NEW s \in Senders, write' = [write EXCEPT ![s] = NoWrite], QuotaTyped, NEW d \in Days,
           Ahead(s, d)' = 0
    PROVE  Ahead("sync", d)' + Ahead("api", d)'
               = Ahead("sync", d) + Ahead("api", d) - Ahead(s, d)
<1> DEFINE w == NoWrite
           x == 0
<1>1. write' = [write EXCEPT ![s] = w] /\ x \in Int /\ Ahead(s, d)' = x
  OBVIOUS
<1>2. x = 0
  OBVIOUS
<1> HIDE DEF w, x
<1>3. Ahead("sync", d)' + Ahead("api", d)'
          = Ahead("sync", d) + Ahead("api", d) - Ahead(s, d) + x
  BY <1>1, OtherAhead
<1> QED
  BY <1>2, <1>3, BeyondCoversAhead, QuotaConstants

(* The counts of a day, in one sum.                                          *)
LEMMA RecordsSum ==
    ASSUME QuotaSound, NEW d \in Days
    PROVE  /\ units[d] \in Nat /\ pending[d] \in Int /\ pending[d] * WriteUnits \in Int
           /\ readUnits[d] \in Nat /\ ReadsOf(d) \in Nat /\ uncounted[d] \in Nat
           /\ charged[d] \in Nat /\ WriteUnits \in Nat
           /\ Ahead("sync", d) \in Int /\ Ahead("api", d) \in Int
           /\ charged[d] <= units[d] + pending[d] * WriteUnits + readUnits[d] + ReadsOf(d)
                            + uncounted[d] + Ahead("sync", d) + Ahead("api", d)
<1>1. /\ units[d] \in Nat /\ pending[d] \in Int /\ readUnits[d] \in Nat
      /\ uncounted[d] \in Nat /\ charged[d] \in Nat
  BY DEF QuotaSound, QuotaTyped
<1>2. pending[d] * WriteUnits \in Int
  BY <1>1, WriteUnitsProducts, Zenon
<1>3. ReadsOf(d) \in Nat /\ Ahead("sync", d) \in Int /\ Ahead("api", d) \in Int
  BY RecordsTyped, BeyondCoversAhead, QuotaConstants DEF QuotaSound
<1>4. charged[d] <= OnRecord(d)
  BY DEF QuotaSound, UnitsCovered
<1> QED
  BY <1>1, <1>2, <1>3, <1>4, QuotaConstants DEF OnRecord, Spent, SumWriteUnits, SumRunReadUnits

(* A write is recorded: it counts as one request, which it has not made.     *)
LEMMA BeginWriteSound ==
    ASSUME QuotaSound, NEW s \in Senders, BeginWrite(s)
    PROVE  QuotaSound'
<1> DEFINE w == [pc |-> "sent", date |-> day, attempts |-> 0]
<1>1. /\ write' = [write EXCEPT ![s] = w] /\ write[s].pc = "none"
      /\ pending' = More(pending, day, 1)
      /\ UNCHANGED <<day, charged, units, readUnits, uncounted>>
      /\ run'.date = run.date /\ run'.reads = run.reads
      /\ run' \in [pc : RunPcs, date : Days, reads : Nat]
      /\ run'.pc = "none" => run.pc = "none"
  BY DEF BeginWrite, QuotaSound, QuotaTyped, RunPcs
<1>2. QuotaTyped'
  BY <1>1, QuotaConstants DEF QuotaSound, QuotaTyped, More
<1>3. ASSUME NEW d \in Days PROVE (charged[d] <= OnRecord(d))'
  <2>1. /\ pending'[d] * WriteUnits
            = pending[d] * WriteUnits + (IF d = day THEN WriteUnits ELSE 0)
    <3>1. pending'[d] = IF d = day THEN pending[d] + 1 ELSE pending[d]
      BY <1>1 DEF More, QuotaSound, QuotaTyped
    <3>2. /\ pending[d] * WriteUnits \in Int /\ pending[d] \in Int
          /\ (pending[d] + 1) * WriteUnits = pending[d] * WriteUnits + WriteUnits
      BY RecordsSum, WriteUnitsProducts, Zenon
    <3> QED
      BY <3>1, <3>2
  <2>2. Ahead(s, d) = 0 /\ Ahead(s, d)' = IF d = day THEN 0 - WriteUnits ELSE 0
    BY <1>1, WriteUnitsProducts, QuotaConstants DEF Ahead, QuotaSound, QuotaTyped
  <2>3. Ahead("sync", d)' + Ahead("api", d)' = Ahead("sync", d) + Ahead("api", d)
                                               + (IF d = day THEN 0 - WriteUnits ELSE 0)
    <3> DEFINE x == IF d = day THEN 0 - WriteUnits ELSE 0
    <3>1. x \in Int /\ Ahead(s, d)' = x
      BY <2>2, QuotaConstants
    <3> HIDE DEF x, w
    <3>2. Ahead("sync", d)' + Ahead("api", d)'
               = Ahead("sync", d) + Ahead("api", d) - Ahead(s, d) + x
      BY <1>1, <3>1, OtherAhead DEF QuotaSound
    <3>3. Ahead("sync", d) \in Int /\ Ahead("api", d) \in Int
      BY RecordsSum
    <3> QED
      BY <2>2, <3>1, <3>2, <3>3 DEF x
  <2>4. ReadsOf(d)' = ReadsOf(d)
    BY <1>1 DEF ReadsOf
  <2>5. Ahead("sync", d)' \in Int /\ Ahead("api", d)' \in Int
    BY <1>2, AheadTyped
  <2> HIDE DEF w
  <2> QED
    BY <1>1, <2>1, <2>3, <2>4, <2>5, RecordsSum
       DEF OnRecord, Spent, SumWriteUnits, SumRunReadUnits
<1> QED
  BY <1>2, <1>3 DEF QuotaSound, UnitsCovered

(* One more request of a write: its price is charged, and the write is ahead *)
(* by it; one made after its write's day is counted nowhere.                 *)
LEMMA AttemptSound ==
    ASSUME QuotaSound, NEW s \in Senders, Attempt(s)
    PROVE  QuotaSound'
<1> DEFINE w == [write[s] EXCEPT !.attempts = @ + 1]
           date == write[s].date
<1>1. /\ write' = [write EXCEPT ![s] = w] /\ write[s].pc = "sent"
      /\ w = [pc |-> "sent", date |-> date, attempts |-> write[s].attempts + 1]
      /\ charged' = More(charged, day, WriteUnits)
      /\ uncounted' = IF date = day THEN uncounted ELSE More(uncounted, day, WriteUnits)
      /\ UNCHANGED <<day, units, pending, readUnits, run>>
  BY DEF Attempt, Price, QuotaSound, QuotaTyped
<1>2. QuotaTyped'
  <2>1. w \in [pc : {"none", "sent"}, date : Days, attempts : Nat]
    BY <1>1 DEF QuotaSound, QuotaTyped
  <2>2. charged' \in [Days -> Nat] /\ uncounted' \in [Days -> Nat]
    BY <1>1, MoreTyped, QuotaConstants DEF QuotaSound, QuotaTyped
  <2> HIDE DEF w
  <2> QED
    BY <1>1, <2>1, <2>2 DEF QuotaSound, QuotaTyped
<1>3. ASSUME NEW d \in Days PROVE (charged[d] <= OnRecord(d))'
  <2>1. charged'[d] = charged[d] + (IF d = day THEN WriteUnits ELSE 0)
    BY <1>1, RecordsSum DEF More, QuotaSound, QuotaTyped
  <2>2. uncounted'[d] = uncounted[d] + (IF d = day /\ date # day THEN WriteUnits ELSE 0)
    BY <1>1, RecordsSum DEF More, QuotaSound, QuotaTyped
  <2>3. Ahead(s, d)' = Ahead(s, d) + (IF d = date THEN WriteUnits ELSE 0)
    <3>1. write'[s] = w
      BY <1>1 DEF QuotaSound, QuotaTyped
    <3>2. /\ write[s].attempts * WriteUnits \in Int
          /\ (write[s].attempts + 1) * WriteUnits = write[s].attempts * WriteUnits + WriteUnits
      <4>1. write[s].attempts \in Int
        BY DEF QuotaSound, QuotaTyped
      <4> QED
        BY <4>1, WriteUnitsProducts, Zenon
    <3> QED
      BY <1>1, <3>1, <3>2, QuotaConstants DEF Ahead
  <2>4. Ahead("sync", d)' + Ahead("api", d)'
            = Ahead("sync", d) + Ahead("api", d) + (IF d = date THEN WriteUnits ELSE 0)
    <3> DEFINE x == Ahead(s, d) + (IF d = date THEN WriteUnits ELSE 0)
    <3>1. x \in Int /\ Ahead(s, d)' = x /\ Ahead(s, d) \in Int
      BY <2>3, RecordsSum, QuotaConstants
    <3>2. Ahead("sync", d)' + Ahead("api", d)'
               = Ahead("sync", d) + Ahead("api", d) - Ahead(s, d) + x
      <4> HIDE DEF x, w
      <4> QED
        BY <1>1, <3>1, OtherAhead DEF QuotaSound
    <3> QED
      BY <3>1, <3>2, RecordsSum, QuotaConstants
  <2>5. Ahead("sync", d)' \in Int /\ Ahead("api", d)' \in Int /\ ReadsOf(d)' = ReadsOf(d)
    BY <1>1, <1>2, AheadTyped DEF ReadsOf
  <2> HIDE DEF w, date
  <2> QED
    BY <1>1, <2>1, <2>2, <2>4, <2>5, RecordsSum
       DEF OnRecord, Spent, SumWriteUnits, SumRunReadUnits
<1> QED
  BY <1>2, <1>3 DEF QuotaSound, UnitsCovered

(* A write settles, for all its requests instead of one.                     *)
LEMMA SettleWriteSound ==
    ASSUME QuotaSound, NEW s \in Senders, SettleWrite(s)
    PROVE  QuotaSound'
<1> DEFINE date == write[s].date
           all == write[s].attempts * WriteUnits
<1>1. /\ write' = [write EXCEPT ![s] = NoWrite] /\ write[s].pc = "sent" /\ date \in Days
      /\ pending' = [pending EXCEPT ![date] = @ - 1]
      /\ units' = More(units, date, all)
      /\ UNCHANGED <<day, charged, readUnits, uncounted>>
      /\ run'.date = run.date /\ run'.reads = run.reads
      /\ run' \in [pc : RunPcs, date : Days, reads : Nat]
      /\ run'.pc = "none" => run.pc = "none"
  BY DEF SettleWrite, QuotaSound, QuotaTyped, RunPcs
<1>2. all \in Nat
  <2>1. write[s].attempts \in Nat /\ write[s].attempts \in Int
    BY DEF QuotaSound, QuotaTyped
  <2> QED
    BY <2>1, WriteUnitsProducts, Zenon
<1>3. QuotaTyped'
  <2>1. units' \in [Days -> Nat]
    BY <1>1, <1>2, MoreTyped DEF QuotaSound, QuotaTyped
  <2>2. pending' \in [Days -> Int]
    BY <1>1 DEF QuotaSound, QuotaTyped
  <2>3. NoWrite \in [pc : {"none", "sent"}, date : Days, attempts : Nat]
    BY QuotaConstants DEF NoWrite
  <2> QED
    BY <1>1, <2>1, <2>2, <2>3 DEF QuotaSound, QuotaTyped
<1>4. ASSUME NEW d \in Days PROVE (charged[d] <= OnRecord(d))'
  <2>1. units'[d] = units[d] + (IF d = date THEN all ELSE 0)
    BY <1>1, RecordsSum DEF More, QuotaSound, QuotaTyped
  <2>2. pending'[d] * WriteUnits
            = pending[d] * WriteUnits - (IF d = date THEN WriteUnits ELSE 0)
    <3>1. pending'[d] = IF d = date THEN pending[d] - 1 ELSE pending[d]
      BY <1>1 DEF QuotaSound, QuotaTyped
    <3>2. /\ pending[d] * WriteUnits \in Int /\ pending[d] \in Int
          /\ (pending[d] - 1) * WriteUnits = pending[d] * WriteUnits - WriteUnits
      BY RecordsSum, WriteUnitsProducts, Zenon
    <3> QED
      BY <3>1, <3>2, QuotaConstants
  <2>3. Ahead(s, d) = (IF d = date THEN all - WriteUnits ELSE 0) /\ Ahead(s, d)' = 0
    BY <1>1, QuotaConstants DEF Ahead, NoWrite, QuotaSound, QuotaTyped
  <2> HIDE DEF date, all
  <2>4. Ahead("sync", d)' + Ahead("api", d)'
            = Ahead("sync", d) + Ahead("api", d) - (IF d = date THEN all - WriteUnits ELSE 0)
    <3>1. Ahead("sync", d)' + Ahead("api", d)' = Ahead("sync", d) + Ahead("api", d) - Ahead(s, d)
      BY <1>1, <2>3, SettledAhead DEF QuotaSound
    <3> QED
      BY <1>2, <2>3, <3>1, RecordsSum, QuotaConstants
  <2>5. Ahead("sync", d)' \in Int /\ Ahead("api", d)' \in Int /\ ReadsOf(d)' = ReadsOf(d)
    BY <1>1, <1>3, AheadTyped DEF ReadsOf
  <2> QED
    BY <1>1, <1>2, <2>1, <2>2, <2>4, <2>5, RecordsSum
       DEF OnRecord, Spent, SumWriteUnits, SumRunReadUnits
<1> QED
  BY <1>3, <1>4 DEF QuotaSound, UnitsCovered

(* A settlement the store does not take: what it would have added is what no *)
(* record will hold.                                                         *)
LEMMA SettleFailsSound ==
    ASSUME QuotaSound, NEW s \in Senders, SettleFails(s)
    PROVE  QuotaSound'
<1> DEFINE date == write[s].date
           lost == Beyond(write[s])
<1>1. /\ write' = [write EXCEPT ![s] = NoWrite] /\ write[s].pc = "sent" /\ date \in Days
      /\ uncounted' = More(uncounted, date, lost)
      /\ UNCHANGED <<day, charged, units, pending, readUnits>>
      /\ run'.date = run.date /\ run'.reads = run.reads
      /\ run' \in [pc : RunPcs, date : Days, reads : Nat]
      /\ run'.pc = "none" => run.pc = "none"
  BY DEF SettleFails, QuotaSound, QuotaTyped, RunPcs
<1>2. lost \in Nat
  BY BeyondCoversAhead, QuotaConstants DEF QuotaSound
<1>3. QuotaTyped'
  <2>1. uncounted' \in [Days -> Nat]
    BY <1>1, <1>2, MoreTyped DEF QuotaSound, QuotaTyped
  <2>2. NoWrite \in [pc : {"none", "sent"}, date : Days, attempts : Nat]
    BY QuotaConstants DEF NoWrite
  <2> QED
    BY <1>1, <2>1, <2>2 DEF QuotaSound, QuotaTyped
<1>4. ASSUME NEW d \in Days PROVE (charged[d] <= OnRecord(d))'
  <2>1. uncounted'[d] = uncounted[d] + (IF d = date THEN lost ELSE 0)
    BY <1>1, RecordsSum DEF More, QuotaSound, QuotaTyped
  <2>2. Ahead(s, d)' = 0 /\ Ahead(s, d) \in Int /\ Ahead(s, d) <= (IF d = date THEN lost ELSE 0)
    BY <1>1, BeyondCoversAhead DEF Ahead, NoWrite, QuotaSound, QuotaTyped
  <2> HIDE DEF date, lost
  <2>3. Ahead("sync", d)' + Ahead("api", d)' = Ahead("sync", d) + Ahead("api", d) - Ahead(s, d)
    BY <1>1, <2>2, SettledAhead DEF QuotaSound
  <2>4. Ahead("sync", d)' \in Int /\ Ahead("api", d)' \in Int /\ ReadsOf(d)' = ReadsOf(d)
    BY <1>1, <1>3, AheadTyped DEF ReadsOf
  <2> QED
    BY <1>1, <1>2, <2>1, <2>2, <2>3, <2>4, RecordsSum
       DEF OnRecord, Spent, SumWriteUnits, SumRunReadUnits
<1> QED
  BY <1>3, <1>4 DEF QuotaSound, UnitsCovered

(* A step that leaves writes alone: what is charged is read by the pass, or  *)
(* is counted nowhere.                                                       *)
LEMMA ReadsSound ==
    ASSUME QuotaSound, UNCHANGED <<units, pending, write>>, QuotaTyped',
           \A d \in Days :
               charged'[d] + readUnits[d] + ReadsOf(d) + uncounted[d]
                   <= charged[d] + readUnits'[d] + ReadsOf(d)' + uncounted'[d]
    PROVE  QuotaSound'
<1>1. ASSUME NEW d \in Days PROVE (charged[d] <= OnRecord(d))'
  <2>1. /\ Ahead("sync", d)' = Ahead("sync", d) /\ Ahead("api", d)' = Ahead("api", d)
        /\ units'[d] = units[d] /\ pending'[d] = pending[d]
    BY DEF Ahead
  <2>2. /\ charged'[d] \in Nat /\ readUnits'[d] \in Nat /\ uncounted'[d] \in Nat
        /\ ReadsOf(d)' \in Nat
    BY DEF QuotaTyped, ReadsOf
  <2> QED
    BY <2>1, <2>2, RecordsSum DEF OnRecord, Spent, SumWriteUnits, SumRunReadUnits
<1> QED
  BY <1>1 DEF QuotaSound, UnitsCovered

LEMMA PassSound ==
    ASSUME QuotaSound,
           \/ RunBegins \/ RunReads \/ PushAllowed \/ PushStops \/ ApiReads
           \/ RecordRun \/ RecordRunFails
    PROVE  QuotaSound'
<1>1. NoRun \in [pc : RunPcs, date : Days, reads : Nat] /\ NoRun.reads = 0
  BY QuotaConstants DEF NoRun, RunPcs
<1>2. CASE RunBegins
  <2>1. /\ run' = [pc |-> "jobs", date |-> day, reads |-> 0] /\ run.reads = 0
        /\ UNCHANGED <<day, charged, units, pending, readUnits, write, uncounted>>
    BY <1>2 DEF RunBegins, QuotaSound, QuotaTyped
  <2>2. QuotaTyped'
    BY <2>1 DEF QuotaSound, QuotaTyped, RunPcs
  <2>3. \A d \in Days : ReadsOf(d)' = 0 /\ ReadsOf(d) = 0
    BY <2>1 DEF ReadsOf
  <2> QED
    BY <2>1, <2>2, <2>3, ReadsSound, RecordsSum
<1>3. CASE RunReads
  <2>1. /\ run' = [run EXCEPT !.reads = @ + 1] /\ run.pc = "jobs" /\ run \in [pc : RunPcs, date : Days, reads : Nat]
        /\ charged' = More(charged, day, 1)
        /\ uncounted' = IF run.date = day THEN uncounted ELSE More(uncounted, day, 1)
        /\ UNCHANGED <<day, units, pending, readUnits, write>>
    BY <1>3 DEF RunReads, Price, QuotaSound, QuotaTyped
  <2>2. QuotaTyped'
    <3>1. charged' \in [Days -> Nat] /\ uncounted' \in [Days -> Nat]
      BY <2>1, MoreTyped DEF QuotaSound, QuotaTyped
    <3> QED
      BY <2>1, <3>1 DEF QuotaSound, QuotaTyped
  <2>3. ASSUME NEW d \in Days
        PROVE  /\ charged'[d] = charged[d] + (IF d = day THEN 1 ELSE 0)
               /\ uncounted'[d] = uncounted[d] + (IF d = day /\ run.date # day THEN 1 ELSE 0)
               /\ ReadsOf(d)' = ReadsOf(d) + (IF d = run.date THEN 1 ELSE 0)
    BY <2>1, RecordsSum DEF More, ReadsOf, QuotaSound, QuotaTyped
  <2> QED
    BY <2>1, <2>2, <2>3, ReadsSound, RecordsSum
<1>4. CASE PushAllowed \/ PushStops
  <2>1. /\ run'.date = run.date /\ run'.reads = run.reads /\ run'.pc # "none"
        /\ run' \in [pc : RunPcs, date : Days, reads : Nat]
        /\ UNCHANGED <<day, charged, units, pending, readUnits, write, uncounted>>
    BY <1>4 DEF PushAllowed, PushStops, QuotaSound, QuotaTyped, RunPcs
  <2>2. QuotaTyped' /\ \A d \in Days : ReadsOf(d)' = ReadsOf(d)
    BY <2>1 DEF QuotaSound, QuotaTyped, ReadsOf
  <2> QED
    BY <2>1, <2>2, ReadsSound, RecordsSum
<1>5. CASE ApiReads
  <2>1. /\ charged' = More(charged, day, 1) /\ uncounted' = More(uncounted, day, 1)
        /\ UNCHANGED <<day, units, pending, readUnits, run, write>>
    BY <1>5 DEF ApiReads, Price
  <2>2. QuotaTyped'
    BY <2>1, MoreTyped DEF QuotaSound, QuotaTyped
  <2>3. ASSUME NEW d \in Days
        PROVE  /\ charged'[d] = charged[d] + (IF d = day THEN 1 ELSE 0)
               /\ uncounted'[d] = uncounted[d] + (IF d = day THEN 1 ELSE 0)
               /\ ReadsOf(d)' = ReadsOf(d)
    BY <2>1, RecordsSum DEF More, ReadsOf, QuotaSound, QuotaTyped
  <2> QED
    BY <2>1, <2>2, <2>3, ReadsSound, RecordsSum
<1>6. CASE RecordRun
  <2>1. /\ readUnits' = More(readUnits, run.date, run.reads) /\ run' = NoRun
        /\ run.date \in Days /\ run.reads \in Nat
        /\ UNCHANGED <<day, charged, units, pending, write, uncounted>>
    BY <1>6 DEF RecordRun, QuotaSound, QuotaTyped
  <2>2. QuotaTyped'
    <3>1. readUnits' \in [Days -> Nat]
      BY <2>1, MoreTyped DEF QuotaSound, QuotaTyped
    <3> QED
      BY <1>1, <2>1, <3>1 DEF QuotaSound, QuotaTyped
  <2>3. ASSUME NEW d \in Days
        PROVE  readUnits'[d] = readUnits[d] + ReadsOf(d) /\ ReadsOf(d)' = 0
    BY <1>1, <2>1, RecordsSum DEF More, ReadsOf, QuotaSound, QuotaTyped
  <2> QED
    BY <2>1, <2>2, <2>3, ReadsSound, RecordsSum
<1>7. CASE RecordRunFails
  <2>1. /\ uncounted' = More(uncounted, run.date, run.reads) /\ run' = NoRun
        /\ run.date \in Days /\ run.reads \in Nat
        /\ UNCHANGED <<day, charged, units, pending, readUnits, write>>
    BY <1>7 DEF RecordRunFails, QuotaSound, QuotaTyped
  <2>2. QuotaTyped'
    <3>1. uncounted' \in [Days -> Nat]
      BY <2>1, MoreTyped DEF QuotaSound, QuotaTyped
    <3> QED
      BY <1>1, <2>1, <3>1 DEF QuotaSound, QuotaTyped
  <2>3. ASSUME NEW d \in Days
        PROVE  uncounted'[d] = uncounted[d] + ReadsOf(d) /\ ReadsOf(d)' = 0
    BY <1>1, <2>1, RecordsSum DEF More, ReadsOf, QuotaSound, QuotaTyped
  <2> QED
    BY <2>1, <2>2, <2>3, ReadsSound, RecordsSum
<1> QED
  BY <1>2, <1>3, <1>4, <1>5, <1>6, <1>7

(* Killed, with what is under way: it ends in no record.                     *)
LEMMA KilledSound ==
    ASSUME QuotaSound, Killed
    PROVE  QuotaSound'
<1> DEFINE Lost(s, d) == IF write[s].pc = "sent" /\ write[s].date = d
                         THEN Beyond(write[s]) ELSE 0
           ToRead(d) == IF run.pc # "none" /\ run.date = d THEN run.reads ELSE 0
<1>1. /\ uncounted' = [d \in Days |-> uncounted[d] + ToRead(d) + Lost("sync", d) + Lost("api", d)]
      /\ run' = NoRun /\ write' = [s \in Senders |-> NoWrite]
      /\ UNCHANGED <<day, charged, units, pending, readUnits>>
  BY DEF Killed
<1>2. ASSUME NEW d \in Days
      PROVE  /\ Lost("sync", d) \in Nat /\ Lost("api", d) \in Nat
             /\ Ahead("sync", d) <= Lost("sync", d) /\ Ahead("api", d) <= Lost("api", d)
             /\ ToRead(d) = ReadsOf(d)
  <2>1. ToRead(d) = ReadsOf(d)
    BY DEF ReadsOf, QuotaSound, QuotaTyped
  <2> QED
    BY <2>1, BeyondCoversAhead, QuotaConstants DEF QuotaSound
<1>3. QuotaTyped'
  <2>1. /\ NoRun \in [pc : RunPcs, date : Days, reads : Nat] /\ NoRun.reads = 0
        /\ NoWrite \in [pc : {"none", "sent"}, date : Days, attempts : Nat]
    BY QuotaConstants DEF NoRun, NoWrite, RunPcs
  <2>2. ASSUME NEW d \in Days
        PROVE  uncounted[d] + ToRead(d) + Lost("sync", d) + Lost("api", d) \in Nat
    BY <1>2, RecordsSum
  <2> HIDE DEF Lost, ToRead
  <2>3. uncounted' \in [Days -> Nat]
    BY <1>1, <2>2
  <2> QED
    BY <1>1, <2>1, <2>3 DEF QuotaSound, QuotaTyped
<1>4. ASSUME NEW d \in Days PROVE (charged[d] <= OnRecord(d))'
  <2>1. Ahead("sync", d)' = 0 /\ Ahead("api", d)' = 0 /\ ReadsOf(d)' = 0
    BY <1>1, QuotaConstants DEF Ahead, ReadsOf, NoWrite, NoRun
  <2> HIDE DEF Lost, ToRead
  <2>2. uncounted'[d] = uncounted[d] + ReadsOf(d) + Lost("sync", d) + Lost("api", d)
    BY <1>1, <1>2
  <2> QED
    BY <1>1, <1>2, <2>1, <2>2, RecordsSum DEF OnRecord, Spent, SumWriteUnits, SumRunReadUnits
<1> QED
  BY <1>3, <1>4 DEF QuotaSound, UnitsCovered

LEMMA NextSound == QuotaSound /\ [QuotaNext]_quotaVars => QuotaSound'
<1>1. SUFFICES ASSUME QuotaSound, [QuotaNext]_quotaVars PROVE QuotaSound'
  OBVIOUS
<1>2. ASSUME UNCHANGED <<charged, units, pending, readUnits, run, write, uncounted>>, day' \in Days
      PROVE  QuotaSound'
  <2>1. QuotaTyped' /\ \A d \in Days : ReadsOf(d)' = ReadsOf(d)
    BY <1>1, <1>2 DEF QuotaSound, QuotaTyped, ReadsOf
  <2> QED
    BY <1>1, <1>2, <2>1, ReadsSound, RecordsSum
<1>3. CASE UNCHANGED quotaVars
  BY <1>1, <1>2, <1>3 DEF quotaVars, QuotaSound, QuotaTyped
<1>4. CASE QuotaTick
  <2>1. day' \in Days
    <3>1. day \in 1 .. LastDay
      BY <1>1 DEF Days, QuotaSound, QuotaTyped
    <3>2. \/ day' = day
          \/ day < LastDay /\ day' = day + 1
      BY <1>4 DEF QuotaTick
    <3> QED
      BY <3>1, <3>2, QuotaConstants DEF Days
  <2> QED
    BY <1>2, <1>4, <2>1 DEF QuotaTick
<1> QED
  BY <1>1, <1>3, <1>4, PassSound, KilledSound, BeginWriteSound, AttemptSound,
     SettleWriteSound, SettleFailsSound DEF QuotaNext

LEMMA TicksStay == ticksLeft \in Nat /\ [QuotaNext]_quotaVars => (ticksLeft \in Nat)'
  BY QuotaConstants
     DEF QuotaNext, quotaVars, RunBegins, RunReads, PushAllowed, PushStops, RecordRun,
         RecordRunFails, BeginWrite, Attempt, SettleWrite, SettleFails, ApiReads, Killed,
         QuotaTick

LEMMA AllowedLeaves ==
    ASSUME QuotaSound, ticksLeft \in Nat, [QuotaNext]_quotaVars
    PROVE  [run.pc = "jobs" /\ run'.pc \in {"edit", "push"} =>
                charged[day] + WriteUnits + Floor(run'.pc = "edit")
                    <= DailyQuota + uncounted[day] + UnderWay(day)]_quotaVars
<1>1. SUFFICES ASSUME run.pc = "jobs", run'.pc \in {"edit", "push"}
               PROVE  charged[day] + WriteUnits + Floor(run'.pc = "edit")
                          <= DailyQuota + uncounted[day] + UnderWay(day)
  OBVIOUS
<1>2. PushAllowed
  BY <1>1 DEF QuotaNext, quotaVars, RunBegins, RunReads, PushStops, RecordRun, RecordRunFails,
              BeginWrite, MayBegin, Attempt, SettleWrite, SettleFails, ApiReads, Killed,
              QuotaTick, NoRun, QuotaSound, QuotaTyped
<1>3. PICK edit \in BOOLEAN : Allows(edit) /\ run' = [run EXCEPT !.pc = IF edit THEN "edit" ELSE "push"]
  BY <1>2 DEF PushAllowed
<1>4. Floor(run'.pc = "edit") = Floor(edit)
  BY <1>3 DEF QuotaSound, QuotaTyped, Floor
<1>5. Spent(day) + ReadsOf(day) + WriteUnits + Floor(edit) <= DailyQuota
  BY <1>3 DEF Allows, Counted, ReadsOf
<1>6. charged[day] <= Spent(day) + ReadsOf(day) + uncounted[day] + UnderWay(day)
  <2>1. charged[day] <= OnRecord(day) /\ day \in Days
    BY DEF QuotaSound, UnitsCovered, QuotaTyped
  <2>2. OnRecord(day) \in Int
    BY <2>1, RecordsTyped, RecordsSum DEF QuotaSound, OnRecord
  <2> QED
    BY <2>1, <2>2, RecordsTyped DEF QuotaSound
<1>7. Floor(edit) \in Int
  <2>1. (ticksLeft + 1) * PerTick \in Nat /\ EditReserve \in Nat
    BY QuotaConstants
  <2> QED
    BY <2>1 DEF Floor
<1> QED
  BY <1>4, <1>5, <1>6, <1>7, RecordsTyped, QuotaConstants DEF QuotaSound, QuotaTyped

(* A push that is allowed a write leaves the day's ticks their reads, and    *)
(* edits their reserve, whatever prices, quota and number of ticks.          *)
THEOREM PushesLeaveReads == QuotaSpec => PushLeavesReads
<1>1. QuotaSound /\ ticksLeft \in Nat /\ [QuotaNext]_quotaVars =>
        [run.pc = "jobs" /\ run'.pc \in {"edit", "push"} =>
            charged[day] + WriteUnits + Floor(run'.pc = "edit")
                <= DailyQuota + uncounted[day] + UnderWay(day)]_quotaVars
  BY AllowedLeaves
<1>2. QuotaInit => ticksLeft \in Nat
  BY QuotaConstants DEF QuotaInit
<1> QED
  BY InitSound, NextSound, TicksStay, <1>1, <1>2, PTL DEF QuotaSpec, PushLeavesReads
=============================================================================
