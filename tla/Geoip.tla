------------------------------- MODULE Geoip --------------------------------
(***************************************************************************)
(* The GeoIP database file (src/src/core/geoip): GeoIpRefreshCron downloads *)
(* it at boot and once a day when it is due, runGeoIpDownload() writes it   *)
(* in place, and GeoIpService opens it once.  The file outlives the         *)
(* process; lastRunMs does not and is seeded from the file's mtime.         *)
(* Instants are kept as ages in days; ages of Interval and more, and that   *)
(* of lastRunMs = null, are all due and not told apart.                     *)
(***************************************************************************)
EXTENDS Integers

CONSTANTS
  Interval,    \* refreshIntervalMs, in days
  MaxExits     \* bound: how often the process ends

ASSUME GeoAssumption == Interval \in Nat \ {0} /\ MaxExits \in Nat

VARIABLES
  mmdb,      \* the file: not there, cut off, or whole
  mtime,     \* the age of its mtime
  up,        \* the process runs
  sinceRun,  \* the age of lastRunMs
  tick,      \* how far maybeRun() is; "due" is a tick that has yet to start
  begun,     \* the age of its `now`
  reader,    \* what readerPromise holds
  cut,       \* history: a process ended while the file was cut off
  exits      \* how often the process ended

geoVars == <<mmdb, mtime, up, sinceRun, tick, begun, reader, cut, exits>>

Ages == 0..Interval

\* Type invariant of the file and the process.
GeoTypeOK ==
  /\ mmdb \in {"missing", "torn", "whole"}
  /\ mtime \in Ages
  /\ up \in BOOLEAN
  /\ sinceRun \in Ages
  /\ tick \in {"rest", "due", "fetch", "open", "write"}
  /\ begun \in Ages
  /\ reader \in {"unopened", "null", "open"}
  /\ cut \in BOOLEAN
  /\ exits \in 0..MaxExits

GeoInit ==
  /\ mmdb = "missing" /\ mtime = Interval
  /\ up = FALSE
  /\ sinceRun = Interval
  /\ tick = "rest" /\ begun = 0
  /\ reader = "unopened"
  /\ cut = FALSE
  /\ exits = 0

-----------------------------------------------------------------------------
\* onModuleInit(): lastRunMs is the mtime of the file; the first tick.
OnModuleInit ==
  /\ ~ up
  /\ up' = TRUE
  /\ sinceRun' = IF mmdb = "missing" THEN Interval ELSE mtime
  /\ tick' = "due"
  /\ UNCHANGED <<mmdb, mtime, begun, reader, cut, exits>>

Older(age) == IF age < Interval THEN age + 1 ELSE age

\* A day passes, and the repeated job ticks.  A download ends within the day,
\* or runs on while the tick of the next day waits for it in the job queue.
NextDay ==
  /\ tick # "due"
  /\ mtime' = Older(mtime)
  /\ sinceRun' = Older(sinceRun)
  /\ begun' = Older(begun)
  /\ tick' = IF up /\ tick = "rest" THEN "due" ELSE tick
  /\ UNCHANGED <<mmdb, up, reader, cut, exits>>

\* Variant of RefreshDue: whether there is a file.
RefreshDueOnce == mmdb = "missing"

\* isRefreshDue()
RefreshDue == sinceRun = Interval

\* maybeRun(): `now` is taken before the download.
MaybeRun ==
  /\ tick = "due"
  /\ tick' = IF RefreshDue THEN "fetch" ELSE "rest"
  /\ begun' = 0
  /\ UNCHANGED <<mmdb, mtime, up, sinceRun, reader, cut, exits>>

\* runGeoIpDownload(): the archive is fetched and unpacked ...
Fetched ==
  /\ tick = "fetch"
  /\ tick' = "open"
  /\ UNCHANGED <<mmdb, mtime, up, sinceRun, begun, reader, cut, exits>>

\* ... writeFile() opens the file, which empties it ...
OpenFile ==
  /\ tick = "open"
  /\ mmdb' = "torn" /\ mtime' = 0
  /\ cut' = FALSE
  /\ tick' = "write"
  /\ UNCHANGED <<up, sinceRun, begun, reader, exits>>

\* ... and writes it; lastRunMs becomes the `now` of the tick.
Written ==
  /\ tick = "write"
  /\ mmdb' = "whole" /\ mtime' = 0
  /\ sinceRun' = begun
  /\ tick' = "rest"
  /\ UNCHANGED <<up, begun, reader, cut, exits>>

\* Variant of DownloadFails: the attempt counts as a run.
DownloadFailsDone ==
  /\ tick \in {"fetch", "open", "write"}
  /\ sinceRun' = begun
  /\ tick' = "rest"
  /\ UNCHANGED <<mmdb, mtime, up, begun, reader, cut, exits>>

\* A bad answer, a bad archive, a full disk: lastRunMs stays.
DownloadFails ==
  /\ tick \in {"fetch", "open", "write"}
  /\ tick' = "rest"
  /\ UNCHANGED <<mmdb, mtime, up, sinceRun, begun, reader, cut, exits>>

\* createMaxmindReader(): null for a file that is missing or invalid
Opened == IF mmdb = "whole" THEN "open" ELSE "null"

\* The first lookup() opens the file and keeps what it got, null as well.
Lookup ==
  /\ up /\ reader = "unopened"
  /\ reader' = Opened
  /\ UNCHANGED <<mmdb, mtime, up, sinceRun, tick, begun, cut, exits>>

\* The process ends, in the middle of whatever it does.
GeoCrash ==
  /\ up /\ exits < MaxExits
  /\ exits' = exits + 1
  /\ up' = FALSE
  /\ cut' = (cut \/ mmdb = "torn")
  /\ tick' = "rest" /\ reader' = "unopened"
  /\ UNCHANGED <<mmdb, mtime, sinceRun, begun>>

Download == MaybeRun \/ Fetched \/ OpenFile \/ Written

GeoNext == OnModuleInit \/ NextDay \/ Download \/ DownloadFails \/ Lookup \/ GeoCrash

GeoSpec == GeoInit /\ [][GeoNext]_geoVars

-----------------------------------------------------------------------------
(***************************************************************************)
(* A file that a failed write has cut off is due at the next tick, however  *)
(* often that fails: lastRunMs moves only when the whole file is written.   *)
(* Only the end of a process hides it, because the next one goes by mtime.  *)
(***************************************************************************)
TornIsDue ==
  up /\ mmdb = "torn" /\ tick # "write" /\ ~ cut => sinceRun = Interval

(***************************************************************************)
(* A file that is cut off, by a failed write or by the end of a process, is *)
(* replaced in the end, since the mtime that vouches for it grows old too.  *)
(***************************************************************************)
TornIsReplaced == mmdb = "torn" ~> mmdb = "whole"

\* The refresh state is well typed and never forgets a cut-off file.
RefreshIsSound == GeoTypeOK /\ TornIsDue
=============================================================================
