----------------------------------- MODULE Edge -----------------------------------
(***************************************************************************)
(* The programs around the cluster: the network gateway (Gateway), the     *)
(* fulfiller and the bidder (Network), and the telemetry that goes to the  *)
(* network (Telemetry).  They meet only through the cluster API's table    *)
(* and the network.                                                        *)
(***************************************************************************)
EXTENDS Gateway, Network

CONSTANTS GpuWorkers, Timeout, MaxAge, MaxPush, MaxMinutes, MaxMishaps, NoManifest

VARIABLES
    now, conn, quiet, job, ran, credited, unsampled, available, busy, elapsed, unheard,
    snapshot, timer, manifest, published, healthy, mishaps

telemetryVars == <<now, conn, quiet, job, ran, credited, unsampled, available, busy, elapsed,
                   unheard, snapshot, timer, manifest, published, healthy, mishaps>>

Reporting == INSTANCE Telemetry

\* GPU time in use is within GPU time available, and a healthy cluster's report
\* is there and recent (get_cluster_info, MANIFEST_PUSH_INTERVAL,
\* fresh_manifest_components).
GpuAccountsHold ==
    Reporting!BusyWithinAvailable /\ Reporting!HealthyManifestIsFresh /\ Reporting!ReportIsRecent
===================================================================================
