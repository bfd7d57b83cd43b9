-------------------------------- MODULE Quota --------------------------------
(***************************************************************************)
(* The day's quota: what YouTube charges for the requests of the sync and  *)
(* of the API, what the server counts of it (api/store/standing.go), and   *)
(* the room a push needs (api/reconcile/push.go).  The sync and the API    *)
(* each make one write at a time, through a channel of their own that      *)
(* counts every attempt.  Only pushes ask for room.                        *)
(***************************************************************************)
EXTENDS Naturals

CONSTANTS
    LastDay, Ticks,             \* Pacific days are 1 .. LastDay, of Ticks ticks
    DailyQuota, WriteUnits, PerTick, EditReserve,
    Attempts,                   \* how often a request YouTube aborts is sent
    MaxSyncReads, MaxApiWrites, MaxQuotaFaults      \* how often each happens

ASSUME QuotaAssumption ==
    /\ {LastDay, Ticks, DailyQuota, WriteUnits, PerTick, EditReserve, MaxSyncReads,
        MaxApiWrites, MaxQuotaFaults} \subseteq Nat
    /\ LastDay > 0 /\ Attempts \in Nat \ {0}

VARIABLES
    day, ticksLeft,     \* the Pacific date, and the ticks left of it
    charged,            \* the units YouTube charged each day
    units, pending,     \* each day's writes: the units settled, and those not
    readUnits,          \* the units the passes recorded each day spent reading
    run,                \* the pass: [pc, date, reads]
    write,              \* the sync's and the API's write: [pc, date, attempts]
    spent,              \* how many reads, API writes and faults there were
    uncounted           \* for the properties: the units no record will hold

quotaVars == <<day, ticksLeft, charged, units, pending, readUnits, run, write, spent,
               uncounted>>

Days == 1 .. LastDay
Senders == {"sync", "api"}
NoWrite == [pc |-> "none", date |-> 1, attempts |-> 0]
NoRun == [pc |-> "none", date |-> 1, reads |-> 0]
NoUnits == [d \in Days |-> 0]

QuotaInit ==
    /\ day = 1 /\ ticksLeft = Ticks
    /\ charged = NoUnits /\ units = NoUnits /\ pending = NoUnits /\ readUnits = NoUnits
    /\ run = NoRun
    /\ write = [s \in Senders |-> NoWrite]
    /\ spent = [reads |-> 0, writes |-> 0, faults |-> 0]
    /\ uncounted = NoUnits

QuotaFault ==
    /\ spent.faults < MaxQuotaFaults
    /\ spent' = [spent EXCEPT !.faults = @ + 1]

(* What YouTube charges for each attempt at a request.                       *)
Price(method) == IF method = "list" THEN 1 ELSE WriteUnits

(* More units of the day d.                                                  *)
More(count, d, by) == [count EXCEPT ![d] = @ + by]

-----------------------------------------------------------------------------
(* A write that has not settled counts as one request; and one counted only  *)
(* once it has.                                                              *)
SumWriteUnits(d) == units[d] + pending[d] * WriteUnits
SumRunReadUnits(d) == readUnits[d]
SpentSettled(d) == units[d] + SumRunReadUnits(d)
Spent(d) == SumWriteUnits(d) + SumRunReadUnits(d)

(* The pass's own reads, while the day it began lasts.                       *)
Counted == Spent(day) + (IF run.date = day THEN run.reads ELSE 0)

(* What a push leaves: the reads of every tick left, and for any but an      *)
(* edit's the reserve.                                                       *)
Floor(edit) == (ticksLeft + 1) * PerTick + (IF edit THEN 0 ELSE EditReserve)
Allows(edit) == Counted + WriteUnits + Floor(edit) <= DailyQuota

-----------------------------------------------------------------------------
RunBegins ==
    /\ run.pc = "none"
    /\ run' = [pc |-> "jobs", date |-> day, reads |-> 0]
    /\ UNCHANGED <<day, ticksLeft, charged, units, pending, readUnits, write, spent, uncounted>>

(* A read of the pass.  One made after its day ended is recorded under it.   *)
RunReads ==
    /\ run.pc = "jobs"
    /\ spent.reads < MaxSyncReads
    /\ spent' = [spent EXCEPT !.reads = @ + 1]
    /\ charged' = More(charged, day, Price("list"))
    /\ run' = [run EXCEPT !.reads = @ + 1]
    /\ uncounted' = IF run.date = day THEN uncounted ELSE More(uncounted, day, 1)
    /\ UNCHANGED <<day, ticksLeft, units, pending, readUnits, write>>

PushAllowed ==
    /\ run.pc = "jobs"
    /\ \E edit \in BOOLEAN :
          /\ Allows(edit)
          /\ run' = [run EXCEPT !.pc = IF edit THEN "edit" ELSE "push"]
    /\ UNCHANGED <<day, ticksLeft, charged, units, pending, readUnits, write, spent, uncounted>>

(* The order changed after the merge, or the API deleted the playlist.       *)
PushStops ==
    /\ run.pc \in {"edit", "push"}
    /\ run' = [run EXCEPT !.pc = "jobs"]
    /\ UNCHANGED <<day, ticksLeft, charged, units, pending, readUnits, write, spent, uncounted>>

MayBegin(s) ==
    IF s = "sync" THEN run.pc \in {"edit", "push"} /\ spent' = spent
    ELSE /\ spent.writes < MaxApiWrites
         /\ spent' = [spent EXCEPT !.writes = @ + 1]

(* A write is recorded as pending, then sent.                                *)
BeginWrite(s) ==
    /\ write[s].pc = "none"
    /\ MayBegin(s)
    /\ pending' = More(pending, day, 1)
    /\ write' = [write EXCEPT ![s] = [pc |-> "sent", date |-> day, attempts |-> 0]]
    /\ run' = IF s = "sync" THEN [run EXCEPT !.pc = "writes"] ELSE run
    /\ UNCHANGED <<day, ticksLeft, charged, units, readUnits, uncounted>>

(* An attempt, at its full price; one after the write's day ended is         *)
(* recorded under that day.                                                  *)
Attempt(s) ==
    /\ write[s].pc = "sent"
    /\ write[s].attempts < Attempts
    /\ charged' = More(charged, day, Price("write"))
    /\ write' = [write EXCEPT ![s].attempts = @ + 1]
    /\ uncounted' = IF write[s].date = day THEN uncounted ELSE More(uncounted, day, WriteUnits)
    /\ UNCHANGED <<day, ticksLeft, units, pending, readUnits, run, spent>>

SettleWrite(s) ==
    /\ write[s].pc = "sent"
    /\ write[s].attempts > 0
    /\ pending' = [pending EXCEPT ![write[s].date] = @ - 1]
    /\ units' = More(units, write[s].date, write[s].attempts * WriteUnits)
    /\ write' = [write EXCEPT ![s] = NoWrite]
    /\ run' = IF s = "sync" THEN [run EXCEPT !.pc = "jobs"] ELSE run
    /\ UNCHANGED <<day, ticksLeft, charged, readUnits, spent, uncounted>>

(* What the settlement would have counted beyond the pending write.          *)
Beyond(w) == IF w.attempts > 1 THEN (w.attempts - 1) * WriteUnits ELSE 0

SettleFails(s) ==
    /\ write[s].pc = "sent"
    /\ QuotaFault
    /\ uncounted' = More(uncounted, write[s].date, Beyond(write[s]))
    /\ write' = [write EXCEPT ![s] = NoWrite]
    /\ run' = IF s = "sync" THEN [run EXCEPT !.pc = "ends"] ELSE run
    /\ UNCHANGED <<day, ticksLeft, charged, units, pending, readUnits>>

(* A rename reads the playlist first, which no record counts.                *)
ApiReads ==
    /\ write["api"].pc = "none"
    /\ spent.writes < MaxApiWrites
    /\ spent' = [spent EXCEPT !.writes = @ + 1]
    /\ charged' = More(charged, day, Price("list"))
    /\ uncounted' = More(uncounted, day, 1)
    /\ UNCHANGED <<day, ticksLeft, units, pending, readUnits, run, write>>

(* The pass is over: its record holds its reads, under the day it began.     *)
RecordRun ==
    /\ run.pc \in {"jobs", "ends"}
    /\ readUnits' = More(readUnits, run.date, run.reads)
    /\ run' = NoRun
    /\ UNCHANGED <<day, ticksLeft, charged, units, pending, write, spent, uncounted>>

RecordRunFails ==
    /\ run.pc \in {"jobs", "ends"}
    /\ QuotaFault
    /\ uncounted' = More(uncounted, run.date, run.reads)
    /\ run' = NoRun
    /\ UNCHANGED <<day, ticksLeft, charged, units, pending, readUnits, write>>

(* The server is killed, with a pass and writes under way.                   *)
Killed ==
    /\ QuotaFault
    /\ uncounted' = [d \in Days |-> uncounted[d]
            + (IF run.pc # "none" /\ run.date = d THEN run.reads ELSE 0)
            + (IF write["sync"].pc = "sent" /\ write["sync"].date = d
               THEN Beyond(write["sync"]) ELSE 0)
            + (IF write["api"].pc = "sent" /\ write["api"].date = d
               THEN Beyond(write["api"]) ELSE 0)]
    /\ run' = NoRun
    /\ write' = [s \in Senders |-> NoWrite]
    /\ UNCHANGED <<day, ticksLeft, charged, units, pending, readUnits>>

QuotaTick ==
    /\ IF ticksLeft > 0 THEN ticksLeft' = ticksLeft - 1 /\ day' = day
       ELSE day < LastDay /\ day' = day + 1 /\ ticksLeft' = Ticks
    /\ UNCHANGED <<charged, units, pending, readUnits, run, write, spent, uncounted>>

QuotaNext ==
    \/ RunBegins \/ RunReads \/ PushAllowed \/ PushStops \/ RecordRun \/ RecordRunFails
    \/ \E s \in Senders : BeginWrite(s) \/ Attempt(s) \/ SettleWrite(s) \/ SettleFails(s)
    \/ ApiReads \/ Killed \/ QuotaTick

QuotaSpec == QuotaInit /\ [][QuotaNext]_quotaVars

-----------------------------------------------------------------------------
(* The attempts beyond the first of the writes under way.                    *)
UnderWay(d) ==
    (IF write["sync"].date = d THEN Beyond(write["sync"]) ELSE 0)
    + (IF write["api"].date = d THEN Beyond(write["api"]) ELSE 0)

(* When a push is allowed a write, YouTube has room that day for the write   *)
(* and for the reads of every tick left, and the reserve with them unless an *)
(* edit is pushed, but for the units no record holds and the attempts of     *)
(* writes still under way (push.go:103-106, standing.go:13-14).              *)
PushLeavesReads ==
    [][run.pc = "jobs" /\ run'.pc \in {"edit", "push"} =>
            charged[day] + WriteUnits + Floor(run'.pc = "edit")
                <= DailyQuota + uncounted[day] + UnderWay(day)]_quotaVars
=============================================================================
