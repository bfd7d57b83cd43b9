------------------------------- MODULE Enrich -------------------------------
(***************************************************************************)
(* The reading of tracklists (api/enrich/enrich.go): one video at a time,  *)
(* a wait after each read, a pause after YouTube refuses one, and a mark   *)
(* that holds a video back.  A refusal reaches the store with the record   *)
(* of a pass (api/reconcile): the enricher tells the tally, the tally      *)
(* signals the worker, and the worker's pass takes the tally and records   *)
(* it.  Times are what is left of them, or since them, in units of a wait. *)
(* What the reads found, their counts and whether reading is paused are    *)
(* only shown, so the tally keeps no more than whether there is something  *)
(* to record and whether YouTube refused a read.                           *)
(***************************************************************************)
EXTENDS Integers

CONSTANTS
    Videos,                     \* the videos of the playlists
    RateLimitPause, FailingPause, IdleWait, Pace,
    FirstRetry, LastRetry, MaxAttempts, MaxConsecutiveFailures,
    MaxRefusals, MaxFaults, MaxClears       \* how often each happens

ASSUME EnrichAssumption ==
    /\ {RateLimitPause, FailingPause, IdleWait, Pace, FirstRetry, LastRetry,
        MaxAttempts, MaxConsecutiveFailures} \subseteq Nat \ {0}
    /\ {MaxRefusals, MaxFaults, MaxClears} \subseteq Nat

VARIABLES
    video,      \* each video's row, tracks and mark
    rest,       \* what is left of the pause the recorded passes call for
    enricher,   \* [pc, reading, sleep, failedInARow]
    tally,      \* what enrichment did since the sync last took it
    refused,    \* the tally's signal, a channel holding one
    pass,       \* the worker's pass: [pc, took]
    met,        \* how many refusals, faults and clears there were
    refusal     \* for the properties: the latest one, [since, is]

enrichVars == <<video, rest, enricher, tally, refused, pass, met, refusal>>

Held == -1      \* a retry_ts of NULL: never, until someone clears the mark
Unread == [read |-> FALSE, tracks |-> FALSE, attempts |-> 0, wait |-> 0]
Nothing == [some |-> FALSE, refused |-> FALSE]

EnrichInit ==
    /\ video = [v \in Videos |-> Unread]
    /\ rest = 0
    /\ enricher = [pc |-> "step", reading |-> "none", sleep |-> 0, failedInARow |-> 0]
    /\ tally = Nothing
    /\ refused = FALSE
    /\ pass = [pc |-> "idle", took |-> Nothing]
    /\ met = [refusals |-> 0, faults |-> 0, clears |-> 0]
    /\ refusal = [since |-> RateLimitPause, is |-> "none"]

Fault ==
    /\ met.faults < MaxFaults
    /\ met' = [met EXCEPT !.faults = @ + 1]

Sleeps(d, inARow) ==
    enricher' = [pc |-> "step", reading |-> "none", sleep |-> d, failedInARow |-> inARow]

(* Tally.add: a refusal is signaled, unless a signal is waiting already; and *)
(* a signal only a worker that waits for one would see.                      *)
Add(report) ==
    tally' = [some |-> TRUE, refused |-> tally.refused \/ report.refused]
SignalIdle(report) == refused' = (refused \/ (report.refused /\ pass.pc = "idle"))
SignalRefused(report) == refused' = (refused \/ report.refused)

-----------------------------------------------------------------------------
(***************************************************************************)
(* The queue and the marks.                                                *)
(***************************************************************************)
ListVideosToEnrich ==
    {v \in Videos : /\ ~video[v].tracks
                    /\ IF video[v].attempts = 0 THEN ~video[v].read ELSE video[v].wait = 0}

(* The row's writes: what a read found, its tracks, and its mark.            *)
SetVideoEnrichment(row) == [row EXCEPT !.read = TRUE]
ReplaceTracks(row) == [row EXCEPT !.tracks = TRUE]
GetEnrichFailure(row) == row.attempts       \* none: no mark
UpsertEnrichFailure(row, attempts, wait) ==
    [row EXCEPT !.attempts = attempts, !.wait = wait]
DeleteEnrichFailure(row) == [row EXCEPT !.attempts = 0, !.wait = 0]

(* How long a video waits after its attempts-th read stored no tracklist.   *)
RetryAfter(attempts) ==
    LET doubled == FirstRetry * 2 ^ (attempts - 1)
    IN  IF doubled < LastRetry \/ attempts = 1 THEN doubled ELSE LastRetry

(* holdBack: the mark of a read more, to be read again or held for good; and *)
(* one that counts no read before it.                                        *)
HoldBackAt(row, readAgain, attempts) ==
    UpsertEnrichFailure(row, attempts,
        IF readAgain /\ attempts < MaxAttempts THEN RetryAfter(attempts) ELSE Held)
HoldBackFirst(row, readAgain) == HoldBackAt(row, readAgain, 1)
HoldBack(row, readAgain) == HoldBackAt(row, readAgain, GetEnrichFailure(row) + 1)

(* How a read fails, by what yt-dlp's error lines say: YouTube words a rate  *)
(* limit as a closed video too, so that is looked for first.                 *)
Refusal(said) ==
    CASE "rate limit" \in said -> "refused"
      [] "closed" \in said /\ "rate limit" \notin said -> "unreadable"
      [] OTHER -> "failed"
ReaderVideo == {"tracks", "bare"} \cup {Refusal(said) : said \in SUBSET {"rate limit", "closed"}}

(* The row a read's answer leaves, and how many reads have failed in a row.  *)
Stored(row, answer) ==
    CASE answer = "tracks" -> DeleteEnrichFailure(ReplaceTracks(SetVideoEnrichment(row)))
      [] answer = "bare" -> HoldBack(SetVideoEnrichment(row), TRUE)
      [] answer = "unreadable" -> HoldBack(row, FALSE)
      [] answer = "failed" -> HoldBack(row, TRUE)
      [] OTHER -> row
FailedInARow(answer) ==
    CASE answer = "failed" -> enricher.failedInARow + 1
      [] answer = "refused" -> enricher.failedInARow
      [] OTHER -> 0

-----------------------------------------------------------------------------
(***************************************************************************)
(* A step of the enricher: at most one read.                               *)
(***************************************************************************)
PausedUntil == rest

Awake == enricher.pc = "step" /\ enricher.sleep = 0

(* A refusal on record holds, or no video is due a read.                    *)
StepWaits ==
    /\ Awake
    /\ \/ PausedUntil > 0 /\ Sleeps(PausedUntil, enricher.failedInARow)
       \/ PausedUntil = 0 /\ ListVideosToEnrich = {} /\ Sleeps(IdleWait, enricher.failedInARow)
    /\ UNCHANGED <<video, rest, tally, refused, pass, met, refusal>>

StepReads ==
    /\ Awake
    /\ PausedUntil = 0
    /\ \E v \in ListVideosToEnrich :
            enricher' = [enricher EXCEPT !.pc = "read", !.reading = v]
    /\ UNCHANGED <<video, rest, tally, refused, pass, met, refusal>>

(* The store fails a query of the step.                                      *)
StepFails ==
    /\ Awake
    /\ Fault
    /\ Add(Nothing)
    /\ Sleeps(FailingPause, enricher.failedInARow)
    /\ UNCHANGED <<video, rest, refused, pass, refusal>>

ReadRefused ==
    /\ enricher.pc = "read"
    /\ met.refusals < MaxRefusals
    /\ met' = [met EXCEPT !.refusals = @ + 1]
    /\ Add([refused |-> TRUE])
    /\ SignalRefused([refused |-> TRUE])
    /\ Sleeps(RateLimitPause, enricher.failedInARow)
    /\ refusal' = [since |-> 0, is |-> "told"]
    /\ UNCHANGED <<video, rest, pass>>

(* The wait after a read, longer once too many failed in a row.             *)
ReadAnswered ==
    /\ enricher.pc = "read"
    /\ \E answer \in ReaderVideo \ {"refused"} :
          LET inARow == FailedInARow(answer)
          IN  /\ video' = [video EXCEPT ![enricher.reading] = Stored(@, answer)]
              /\ IF inARow >= MaxConsecutiveFailures THEN Sleeps(FailingPause, 0)
                 ELSE \E d \in Pace .. 2 * Pace : Sleeps(d, inARow)
    /\ Add(Nothing)
    /\ UNCHANGED <<rest, refused, pass, met, refusal>>

(* The store does not take the answer, or Rederive fails after it did.       *)
ReadNotStored ==
    /\ enricher.pc = "read"
    /\ Fault
    /\ \/ video' = video /\ Sleeps(FailingPause, enricher.failedInARow)
       \/ /\ video' = [video EXCEPT ![enricher.reading] = Stored(@, "tracks")]
          /\ Sleeps(FailingPause, 0)
    /\ Add(Nothing)
    /\ UNCHANGED <<rest, refused, pass, refusal>>

-----------------------------------------------------------------------------
(***************************************************************************)
(* The worker's passes, which record what the tally holds.                 *)
(***************************************************************************)

(* A tick, or an edit.                                                       *)
PassBegins ==
    /\ pass.pc = "idle"
    /\ pass' = [pass EXCEPT !.pc = "jobs"]
    /\ UNCHANGED <<video, rest, enricher, tally, refused, met, refusal>>

PassOnRefusal ==
    /\ pass.pc = "idle"
    /\ refused
    /\ refused' = FALSE
    /\ pass' = [pass EXCEPT !.pc = "jobs"]
    /\ UNCHANGED <<video, rest, enricher, tally, met, refusal>>

Take ==
    /\ pass.pc = "jobs"
    /\ pass' = [pc |-> "record", took |-> tally]
    /\ tally' = Nothing
    /\ UNCHANGED <<video, rest, enricher, refused, met, refusal>>

(* The row, if there is something to record: LatestRateLimitedRunFinished is *)
(* its time when the pass took a refusal; and a row that does not say so.    *)
LatestUnmarked(took) == rest
Latest(took) == IF took.some /\ took.refused THEN RateLimitPause ELSE rest

Record ==
    /\ pass.pc = "record"
    /\ rest' = Latest(pass.took)
    /\ pass' = [pc |-> "idle", took |-> Nothing]
    /\ refusal' = [refusal EXCEPT !.is = IF pass.took.refused /\ ~tally.refused
                                         THEN "recorded" ELSE @]
    /\ UNCHANGED <<video, enricher, tally, refused, met>>

RecordFails ==
    /\ pass.pc = "record"
    /\ Fault
    /\ pass' = [pc |-> "idle", took |-> Nothing]
    /\ refusal' = [refusal EXCEPT !.is = IF pass.took.refused /\ ~tally.refused
                                         THEN "dropped" ELSE @]
    /\ UNCHANGED <<video, rest, enricher, tally, refused>>

-----------------------------------------------------------------------------
(* The server stops and starts again: what only memory held is lost.        *)
Restart ==
    /\ Fault
    /\ Sleeps(0, 0)
    /\ tally' = Nothing
    /\ refused' = FALSE
    /\ pass' = [pc |-> "idle", took |-> Nothing]
    /\ refusal' = [refusal EXCEPT !.is = IF @ \in {"told", "dropped"} THEN "lost" ELSE @]
    /\ UNCHANGED <<video, rest>>

(* reset-enrichment -clear, a command beside the server.                     *)
ListEnrichFailuresHeld == {v \in Videos : video[v].wait = Held}
ForgetReadsOfEnrichFailuresHeld(v) ==
    IF v \in ListEnrichFailuresHeld THEN [video[v] EXCEPT !.read = FALSE] ELSE video[v]
ClearEnrichFailuresHeld(row) == IF row.wait = Held THEN DeleteEnrichFailure(row) ELSE row

Clear ==
    /\ met.clears < MaxClears
    /\ met' = [met EXCEPT !.clears = @ + 1]
    /\ ListEnrichFailuresHeld # {}
    /\ video' = [v \in Videos |-> ClearEnrichFailuresHeld(ForgetReadsOfEnrichFailuresHeld(v))]
    /\ UNCHANGED <<rest, enricher, tally, refused, pass, refusal>>

Less(d) == IF d > 0 THEN d - 1 ELSE d
EnrichTick ==
    /\ video' = [v \in Videos |-> [video[v] EXCEPT !.wait = Less(@)]]
    /\ rest' = Less(rest)
    /\ enricher' = [enricher EXCEPT !.sleep = Less(@)]
    /\ refusal' = [refusal EXCEPT !.since = IF @ < RateLimitPause THEN @ + 1 ELSE @]
    /\ UNCHANGED <<tally, refused, pass, met>>

EnrichNext ==
    \/ StepWaits \/ StepReads \/ StepFails \/ ReadRefused \/ ReadAnswered \/ ReadNotStored
    \/ PassBegins \/ PassOnRefusal \/ Take \/ Record \/ RecordFails
    \/ Restart \/ Clear \/ EnrichTick

(* The enricher and the worker each go on, and time passes: yt-dlp answers    *)
(* at last with something other than a refusal, and a pass ends.  No tick of *)
(* the worker and no edit is assumed.                                        *)
EnrichFairness ==
    /\ WF_enrichVars(StepWaits \/ StepReads \/ ReadAnswered)
    /\ WF_enrichVars(PassOnRefusal \/ Take \/ Record)
    /\ WF_enrichVars(EnrichTick)

EnrichSpec == EnrichInit /\ [][EnrichNext]_enrichVars /\ EnrichFairness

-----------------------------------------------------------------------------
(* No read is sent within RateLimitPause of YouTube refusing one, a restart  *)
(* of the server between the two included, unless that restart came before   *)
(* the refusal was recorded (enrich.go:9-23).                                *)
RefusalsRest ==
    enricher.pc = "read" => refusal.since = RateLimitPause \/ refusal.is = "lost"

(* A refusal the tally was told of is recorded with no tick and no edit,     *)
(* whatever the worker was doing when it came, unless a pass fails to write  *)
(* its row or the server stops first (enrich.go:22-23, worker.go:44-48).     *)
RefusalsRecorded == (refusal.is = "told") ~> (refusal.is # "told")

(* Reading ends: every video comes to hold tracks or to be held for good,    *)
(* through failures, refusals, restarts and put-backs (enrich.go:16-20).     *)
VideosSettle == \A v \in Videos : <>[](video[v].tracks \/ video[v].wait = Held)
=============================================================================
