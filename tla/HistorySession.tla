--------------------------- MODULE HistorySession ---------------------------
(***************************************************************************)
(* The signed-in session the watch history is read with                    *)
(* (api/handlers/history.go).  Each read YouTube answers signed in rotates *)
(* the cookie jar, after which it may honor the jar sent no more, so the   *)
(* store has to come to hold the newest jar of its session.  Reads and new *)
(* sessions are requests of many clients that take one lock.  A jar is a   *)
(* session and how often it was rotated; times are what is left of them.   *)
(***************************************************************************)
EXTENDS Naturals

CONSTANTS
    Readers,                    \* the requests that may be under way at once
    Sessions,                   \* the browser sessions the owner exports
    HistoryReuse, RefusalPause, \* historyReuse and enrich.RateLimitPause
    MaxReads, MaxHistoryFaults  \* how often each happens

ASSUME HistorySessionAssumption ==
    {HistoryReuse, RefusalPause, MaxReads, MaxHistoryFaults} \subseteq Nat

VARIABLES
    newest,         \* how often YouTube rotated each session's jar
    session,        \* the row youtube_session, its jar
    caller,         \* each request, from the lock to its answer
    kept,           \* the latest read: [of, left], its session and how long it answers for
    refusedUntil,   \* what is left of the pause the handler knows of
    recordedPause,  \* and of the one enrichment's passes recorded
    reads,          \* how many reads and faults there were
    missed,         \* for the properties: sessions with a rotation no row holds
    chosen          \* for the properties: the session stored last

historyVars == <<newest, session, caller, kept, refusedUntil, recordedPause, reads, missed,
                 chosen>>

Jar(s, turn) == [of |-> s, turn |-> turn]
NoSession == [of |-> "none", turn |-> 0]
Away == [pc |-> "idle", op |-> "none", jar |-> NoSession]
NoneKept == [of |-> "none", left |-> 0]

HistoryInit ==
    /\ newest = [s \in Sessions |-> 0]
    /\ session = NoSession
    /\ caller = [r \in Readers |-> Away]
    /\ kept = NoneKept
    /\ refusedUntil = 0
    /\ recordedPause = 0
    /\ reads = [sent |-> 0, faults |-> 0]
    /\ missed = {}
    /\ chosen = "none"

HistoryFault ==
    /\ reads.faults < MaxHistoryFaults
    /\ reads' = [reads EXCEPT !.faults = @ + 1]

Goes(r, to) == caller' = [caller EXCEPT ![r] = to]

(* The lock, held from before the row is read until the jar is stored; and   *)
(* one let go once YouTube has answered.                                     *)
Reading == \E r \in Readers : caller[r].pc = "read"
Locked == \E r \in Readers : caller[r].pc # "idle"

(* The row: GetYouTubeSession, SetYouTubeSession and RecordYouTubeSessionOK, *)
(* which keeps the jar written back and makes no row of its own.             *)
GetYouTubeSession == session
SetYouTubeSession(jar) == session' = jar
RecordYouTubeSessionOK(jar) ==
    session' = IF session = NoSession THEN session ELSE jar

(* A read of the history, with a jar: the lock is held until it is over.     *)
ReadsWith(r, op, jar) ==
    /\ reads.sent < MaxReads
    /\ reads' = [reads EXCEPT !.sent = @ + 1]
    /\ Goes(r, [pc |-> "read", op |-> op, jar |-> jar])

-----------------------------------------------------------------------------
Longer(a, b) == IF a < b THEN b ELSE a

(* readHistory answers what it keeps, finds no session, or is told of a      *)
(* pause: it reads nothing, and what it learned of a pause it keeps.         *)
Reused == kept.left > 0
ReadsNothing(r) ==
    /\ ~Locked
    /\ ~Reused
    /\ session # NoSession
    /\ refusedUntil < recordedPause
    /\ refusedUntil' = recordedPause
    /\ UNCHANGED <<newest, session, caller, kept, recordedPause, reads, missed, chosen>>

ReadHistory(r) ==
    /\ ~Locked
    /\ ~Reused
    /\ GetYouTubeSession # NoSession
    /\ Longer(refusedUntil, recordedPause) = 0
    /\ ReadsWith(r, "list", GetYouTubeSession)
    /\ UNCHANGED <<newest, session, kept, refusedUntil, recordedPause, missed, chosen>>

(* A new session's jar, as YouTube last rotated it or older.                 *)
SetSession(r) ==
    /\ ~Locked
    /\ \E s \in Sessions : \E turn \in 0 .. newest[s] : ReadsWith(r, "set", Jar(s, turn))
    /\ UNCHANGED <<newest, session, kept, refusedUntil, recordedPause, missed, chosen>>

(* YouTube answers signed in and rotates the jar, which is certain only of   *)
(* the newest; what the read wrote back is yet to be stored.                 *)
YouTubeRotates(r) ==
    /\ caller[r].pc = "read"
    /\ LET of == caller[r].jar.of
       IN  /\ newest' = [newest EXCEPT ![of] = @ + 1]
           /\ Goes(r, [caller[r] EXCEPT !.pc = "store", !.jar = Jar(of, newest[of] + 1)])
           /\ missed' = missed \cup {of}
    /\ UNCHANGED <<session, kept, refusedUntil, recordedPause, reads, chosen>>

(* An older jar reads signed out: a session asked for is refused, and a read *)
(* records the refusal beside the jar, which it keeps.                       *)
SignedOut(r) ==
    /\ caller[r].pc = "read"
    /\ caller[r].jar.turn < newest[caller[r].jar.of]
    /\ Goes(r, Away)
    /\ UNCHANGED <<newest, session, kept, refusedUntil, recordedPause, reads, missed, chosen>>

(* A rate limit: only a read of the session held keeps the pause.            *)
HistoryRefused(r) ==
    /\ caller[r].pc = "read"
    /\ HistoryFault
    /\ Goes(r, Away)
    /\ refusedUntil' = IF caller[r].op = "list" THEN RefusalPause ELSE refusedUntil
    /\ UNCHANGED <<newest, session, kept, recordedPause, missed, chosen>>

Store(r) ==
    /\ caller[r].pc = "store"
    /\ IF caller[r].op = "list" THEN RecordYouTubeSessionOK(caller[r].jar)
                                ELSE SetYouTubeSession(caller[r].jar)
    /\ missed' = missed \ {caller[r].jar.of}
    /\ chosen' = IF caller[r].op = "set" THEN caller[r].jar.of ELSE chosen
    /\ kept' = [of |-> caller[r].jar.of, left |-> HistoryReuse]
    /\ Goes(r, Away)
    /\ UNCHANGED <<newest, refusedUntil, recordedPause, reads>>

(* The read times out or fails once YouTube rotated the jar, or the store    *)
(* does not take it: the rotation is lost.                                   *)
NotStored(r) ==
    /\ caller[r].pc \in {"read", "store"}
    /\ HistoryFault
    /\ Goes(r, Away)
    /\ UNCHANGED <<newest, session, kept, refusedUntil, recordedPause, missed, chosen>>

ServerRestarts ==
    /\ HistoryFault
    /\ caller' = [r \in Readers |-> Away]
    /\ kept' = NoneKept
    /\ refusedUntil' = 0
    /\ UNCHANGED <<newest, session, recordedPause, missed, chosen>>

(* A pass records a refusal of enrichment's reads.                           *)
EnrichmentRefused ==
    /\ HistoryFault
    /\ recordedPause' = RefusalPause
    /\ UNCHANGED <<newest, session, caller, kept, refusedUntil, missed, chosen>>

OneLess(d) == IF d > 0 THEN d - 1 ELSE 0
HistoryTick ==
    /\ kept' = [kept EXCEPT !.left = OneLess(@)]
    /\ refusedUntil' = OneLess(refusedUntil)
    /\ recordedPause' = OneLess(recordedPause)
    /\ UNCHANGED <<newest, session, caller, reads, missed, chosen>>

HistoryNext ==
    \/ \E r \in Readers :
          \/ ReadsNothing(r) \/ ReadHistory(r) \/ SetSession(r)
          \/ YouTubeRotates(r) \/ SignedOut(r) \/ HistoryRefused(r)
          \/ Store(r) \/ NotStored(r)
    \/ ServerRestarts \/ EnrichmentRefused \/ HistoryTick

HistorySpec == HistoryInit /\ [][HistoryNext]_historyVars

-----------------------------------------------------------------------------
(* The store holds the newest jar of its session, unless YouTube rotated one *)
(* that was never stored; that session is the one the owner stored last,     *)
(* whatever was being read meanwhile; and what a kept read answers is its    *)
(* history (history.go:147-149, :264-266).                                   *)
JarKept ==
    /\ session # NoSession /\ session.of \notin missed =>
            session.turn = newest[session.of]
    /\ session.of = chosen
    /\ Reused => kept.of = chosen
=============================================================================
