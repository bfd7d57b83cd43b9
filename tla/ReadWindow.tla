---------------------------- MODULE ReadWindow ----------------------------
(***************************************************************************)
(* Why a merge's read shows every write the server made: real time.        *)
(*                                                                         *)
(* A push write is recorded with its send time, sent, and settled with the *)
(* time of its answer; the process may stop in between, which leaves the   *)
(* record pending while the request may still land.  YouTube shows a write *)
(* TrueLag after it lands.  ItemWritesSince leaves a playlist for a later  *)
(* pass while a record's time, held to the second, is later than ReadLag   *)
(* before the read.  PlaylistSync abstracts this to "recent" and           *)
(* "LagPasses".  Time is counted in ticks, Second of them a second.        *)
(***************************************************************************)
EXTENDS Integers

CONSTANTS
    Second,             \* a second, in ticks
    ReadLag,            \* youtube.ReadLag
    RecordTimeout,      \* recordTimeout, for the transaction that records a write
    YouTubeTimeout,     \* youtubeTimeout, for the request
    TrueLag,            \* the longest YouTube takes to show what it did
    MaxNow, MaxWrites   \* bounds on time and on writes

ASSUME ReadWindowAssumption ==
    /\ {Second, TrueLag} \subseteq Nat \ {0}
    /\ {ReadLag, RecordTimeout, YouTubeTimeout, MaxNow, MaxWrites} \subseteq Nat
    /\ TrueLag + RecordTimeout + YouTubeTimeout + (Second - 1) <= ReadLag

VARIABLES
    now,
    pc,             \* what the worker is doing
    sentAt,         \* SentAt of the write being made, taken before it is recorded
    rows,           \* the records of writes, each with its Timestamps
    writes,         \* how many there are, which is the last one's id
    flight,         \* when the request in flight times out
    landed,         \* when YouTube last made a write
    readAt,         \* when the read being merged was sent
    deferredAt,     \* when a read was first left for later, with no write since
    settledAt       \* when the last settled write was settled, to the tick

vars == <<now, pc, sentAt, rows, writes, flight, landed, readAt, deferredAt,
          settledAt>>

None == -1

(* store.Timestamp: a time to the second.                                   *)
Timestamp(t) == t - (t % Second)

Init ==
    /\ now = ReadLag
    /\ pc = "idle"
    /\ sentAt = None
    /\ rows = {}
    /\ writes = 0
    /\ flight = None
    /\ landed = None
    /\ readAt = None
    /\ deferredAt = None
    /\ settledAt = None

(* Only a settled write's time counts.                                      *)
SettledTime(row) == row.settled

(* coalesce(settled_ts, sent_ts).                                           *)
RowTime(row) == IF row.settled # None THEN row.settled ELSE row.sent

(* A write of the very second counts as too recent.                         *)
ItemWritesFrom(at) == \E row \in rows : RowTime(row) >= Timestamp(at - ReadLag)

ItemWritesSince(at) == \E row \in rows : RowTime(row) > Timestamp(at - ReadLag)

(* Time passes, up to what the step and the request under way may take.     *)
Tick ==
    /\ now < MaxNow
    /\ pc = "recording" => now < sentAt + RecordTimeout
    /\ flight # None => now < flight
    /\ now' = now + 1
    /\ UNCHANGED <<pc, sentAt, rows, writes, flight, landed, readAt, deferredAt,
                   settledAt>>

(* A pass reads the playlist, and merges unless a write is too recent.      *)
ReadToMerge ==
    /\ pc = "idle"
    /\ ~ItemWritesSince(now)
    /\ pc' = "merging"
    /\ readAt' = now
    /\ UNCHANGED <<now, sentAt, rows, writes, flight, landed, deferredAt, settledAt>>

Defer ==
    /\ pc = "idle"
    /\ ItemWritesSince(now)
    /\ deferredAt = None
    /\ deferredAt' = now
    /\ UNCHANGED <<now, pc, sentAt, rows, writes, flight, landed, readAt, settledAt>>

(* A write recorded with no send time.                                      *)
TakeNoSentAt ==
    /\ pc \in {"merging", "pushing"}
    /\ writes < MaxWrites
    /\ pc' = "recording"
    /\ sentAt' = None
    /\ readAt' = None
    /\ deferredAt' = None
    /\ UNCHANGED <<now, rows, writes, flight, landed, settledAt>>

(* run.write takes SentAt, then records the write as pending.               *)
TakeSentAt ==
    /\ pc \in {"merging", "pushing"}
    /\ writes < MaxWrites
    /\ pc' = "recording"
    /\ sentAt' = now
    /\ readAt' = None
    /\ deferredAt' = None
    /\ UNCHANGED <<now, rows, writes, flight, landed, settledAt>>

BeginWrite ==
    /\ pc = "recording"
    /\ pc' = "sending"
    /\ writes' = writes + 1
    /\ rows' = rows \cup {[id |-> writes + 1, sent |-> Timestamp(sentAt),
                           settled |-> None]}
    /\ flight' = now + YouTubeTimeout
    /\ sentAt' = None
    /\ UNCHANGED <<now, landed, readAt, deferredAt, settledAt>>

(* YouTube makes the write, or never does, whoever still waits for it.      *)
Land ==
    /\ flight # None
    /\ landed' = now
    /\ flight' = None
    /\ UNCHANGED <<now, pc, sentAt, rows, writes, readAt, deferredAt, settledAt>>

Lose ==
    /\ flight # None
    /\ flight' = None
    /\ UNCHANGED <<now, pc, sentAt, rows, writes, landed, readAt, deferredAt,
                   settledAt>>

(* The answer arrives and the push goes on, or none does, the request still *)
(* in flight or not, and the push ends.                                     *)
Settle ==
    /\ pc = "sending"
    /\ \/ pc' = "pushing" /\ flight = None
       \/ pc' = "idle"
    /\ rows' = {IF row.id = writes THEN [row EXCEPT !.settled = Timestamp(now)]
                ELSE row : row \in rows}
    /\ settledAt' = now
    /\ UNCHANGED <<now, sentAt, writes, flight, landed, readAt, deferredAt>>

(* The pass ends, fails or stops with the process, wherever it is.          *)
PassEnds ==
    /\ pc # "idle"
    /\ pc' = "idle"
    /\ sentAt' = None
    /\ readAt' = None
    /\ UNCHANGED <<now, rows, writes, flight, landed, deferredAt, settledAt>>

Next ==
    \/ Tick
    \/ ReadToMerge \/ Defer
    \/ TakeSentAt \/ BeginWrite \/ Settle
    \/ Land \/ Lose
    \/ PassEnds

Spec == Init /\ [][Next]_vars

-----------------------------------------------------------------------------
Row == [id : 1..writes, sent : Nat, settled : Nat \cup {None}]

TypeOK ==
    /\ now \in Nat
    /\ pc \in {"idle", "merging", "recording", "sending", "pushing"}
    /\ sentAt \in Nat \cup {None}
    /\ writes \in Nat
    /\ rows \subseteq Row
    /\ flight \in Nat \cup {None}
    /\ landed \in Nat \cup {None}
    /\ readAt \in Nat \cup {None}
    /\ deferredAt \in Nat \cup {None}
    /\ settledAt \in Nat \cup {None}

(* What makes the next two inductive.  Every record's time is a timestamp   *)
(* of a moment past, the request in flight and the last write to land are   *)
(* within Margin of some record's time, and the write being sent has one.   *)
Margin == RecordTimeout + YouTubeTimeout + (Second - 1)

Covered(t) == t # None => \E row \in rows : t <= RowTime(row) + Margin

StampedBy(t) == \A row \in rows :
                    \E s \in Nat : s <= t /\ RowTime(row) = Timestamp(s)

StepsTimely ==
    /\ pc = "recording" => sentAt # None /\ sentAt <= now
                                        /\ now <= sentAt + RecordTimeout
    /\ flight # None => now <= flight /\ flight <= now + YouTubeTimeout
    /\ landed <= now

RecordsCover ==
    /\ Covered(flight)
    /\ Covered(landed)
    /\ StampedBy(now)
    /\ pc = "sending" => \E row \in rows : row.id = writes

NothingSinceDeferral ==
    deferredAt # None =>
        pc \in {"idle", "merging"} /\ deferredAt <= now /\ StampedBy(deferredAt)

(* A merge's read shows every write the server made, and no request sent    *)
(* before it may land after it: store.go:557-569 with push.go:17-29, across *)
(* lost answers and a process that stopped with a write pending.            *)
ReadShowsWrites ==
    pc = "merging" =>
        /\ flight = None
        /\ landed # None => landed + TrueLag <= readAt

(* A read put off is put off once: ReadLag after it, when logged wakes the  *)
(* edit again, no write is too recent any more (worker.go:61-65).           *)
RetryIsInTime ==
    deferredAt # None /\ now >= deferredAt + ReadLag => ~ItemWritesSince(now)
=============================================================================
