------------------------------ MODULE MCServer ------------------------------
(* What the server does beside playlists.  The parts share no state, so a    *)
(* behavior is one of any of them, with the others where they began.         *)
EXTENDS Enrich, HistorySession, Quota, Shutdown

VARIABLE part

serverVars == <<part, enrichVars, historyVars, quotaVars, shutdownVars>>

Init ==
    /\ part \in {"enrich", "history", "quota", "shutdown"}
    /\ EnrichInit /\ HistoryInit /\ QuotaInit /\ ShutdownInit

Next ==
    /\ part' = part
    /\ \/ /\ part = "enrich" /\ EnrichNext
          /\ UNCHANGED <<historyVars, quotaVars, shutdownVars>>
       \/ /\ part = "history" /\ HistoryNext
          /\ UNCHANGED <<enrichVars, quotaVars, shutdownVars>>
       \/ /\ part = "quota" /\ QuotaNext
          /\ UNCHANGED <<enrichVars, historyVars, shutdownVars>>
       \/ /\ part = "shutdown" /\ ShutdownNext
          /\ UNCHANGED <<enrichVars, historyVars, quotaVars>>

Spec == Init /\ [][Next]_serverVars /\ (part = "enrich" => EnrichFairness)

(* Every video settles, in the part that reads them.                         *)
ReadingEnds == part = "enrich" => VideosSettle
=============================================================================
