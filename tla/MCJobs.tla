------------------------------- MODULE MCJobs -------------------------------
(***************************************************************************)
(* Constants for model checking JobQueue and Geoip.  They share no state,   *)
(* so a behaviour takes the steps of one, chosen at its start.              *)
(***************************************************************************)
EXTENDS JobQueue, Geoip

CONSTANTS q1, j1, j2, j3, j4

VARIABLE part   \* the part whose steps are taken

jobsVars == <<queueVars, geoVars, part>>

JobsInit == QueueInit /\ GeoInit /\ part \in {"queue", "geo"}

JobsNext ==
  /\ \/ part = "queue" /\ QueueNext /\ UNCHANGED geoVars
     \/ part = "geo" /\ GeoNext /\ UNCHANGED queueVars
  /\ UNCHANGED part

InPart(A, p) == part = p /\ A

(***************************************************************************)
(* Microtasks run and handlers settle.  The process is started again, days  *)
(* pass, the timer ticks, and downloads and writes that are tried again and *)
(* again succeed once.                                                      *)
(***************************************************************************)
JobsSpec ==
  /\ JobsInit /\ [][JobsNext]_jobsVars
  /\ \A q \in Queues : WF_queueVars(Work(q))
  /\ WF_geoVars(InPart(OnModuleInit, "geo"))
  /\ WF_geoVars(InPart(NextDay, "geo"))
  /\ WF_geoVars(InPart(MaybeRun, "geo"))
  /\ SF_geoVars(InPart(Fetched, "geo"))
  /\ SF_geoVars(InPart(OpenFile, "geo"))
  /\ SF_geoVars(InPart(Written, "geo"))
=============================================================================
