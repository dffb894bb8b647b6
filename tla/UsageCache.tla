----------------------------- MODULE UsageCache -----------------------------
(***************************************************************************)
(* The cache of what the buckets hold (lib/storage_usage.py:110-227,       *)
(* routes/aip.py:158-178).  A request that finds it missing, unreadable or *)
(* old starts a walk over the buckets, unless a marker file says that one  *)
(* is running; a forced refresh always does.  A walk writes a temporary    *)
(* file, renames it over the cache and removes the marker.  All walks, of  *)
(* all workers, use the same two names and the same marker.                *)
(***************************************************************************)
EXTENDS Naturals

CONSTANTS
    Poll,         \* requests at a time
    Walk,         \* bound: walks at a time
    MaxForced,    \* bound on forced refreshes
    MaxDead,      \* bound on walks whose worker is killed
    MaxOverlaps   \* bound on walks that open the temporary file too early

ASSUME UsageAssumption == MaxForced \in Nat /\ MaxDead \in Nat /\ MaxOverlaps \in Nat

VARIABLES
    cache,        \* what the cache file holds
    tmp,          \* what the temporary file holds
    marker,       \* the marker file: "none", "fresh", or "stale" after half an hour
    poll,         \* how far each request has come
    walk,         \* how far each walk has come
    file,         \* which file a walk writes: tmp, the cache, or one without a name
    forced, dead,
    overlaps      \* history: walks that opened a temporary file another one had open

usageVars == <<cache, tmp, marker, poll, walk, file, forced, dead, overlaps>>

Contents == {"absent", "empty", "torn", "usage", "old"}

UsageInit ==
    /\ cache = "absent" /\ tmp = "absent"
    /\ marker = "none"
    /\ poll = [r \in Poll |-> "idle"]
    /\ walk = [w \in Walk |-> "off"]
    /\ file = [w \in Walk |-> "none"]
    /\ forced = 0 /\ dead = 0 /\ overlaps = 0

files == <<cache, tmp, file>>
bounds == <<forced, dead, overlaps>>

-----------------------------------------------------------------------------
(* get_usage reads the cache; if that is stale, it asks for a walk.        *)
ReadCache(r) ==
    /\ poll[r] = "idle" /\ cache # "usage"
    /\ poll' = [poll EXCEPT ![r] = "stale"]
    /\ UNCHANGED <<files, marker, walk, bounds>>

(* Mutant: a marker blocks, however old it is.                             *)
ComputingForEver == marker # "none"

(* _computing: a marker that is half an hour old is presumed dead.         *)
Computing == marker = "fresh"

(* trigger_recompute: nothing is done while a walk is said to run.         *)
AlreadyComputing(r) ==
    /\ poll[r] = "stale" /\ Computing
    /\ poll' = [poll EXCEPT ![r] = "idle"]
    /\ UNCHANGED <<files, marker, walk, bounds>>
NotComputing(r) ==
    /\ poll[r] = "stale" /\ ~Computing
    /\ poll' = [poll EXCEPT ![r] = "trigger"]
    /\ UNCHANGED <<files, marker, walk, bounds>>

StartWalk == \E w \in Walk : walk[w] = "off" /\ walk' = [walk EXCEPT ![w] = "walk"]
Trigger(r) ==
    /\ poll[r] = "trigger"
    /\ poll' = [poll EXCEPT ![r] = "idle"]
    /\ marker' = "fresh"
    /\ StartWalk
    /\ UNCHANGED <<files, bounds>>

(* bucket_usage_refresh does not look at the marker.                       *)
ForceRefresh ==
    /\ forced < MaxForced
    /\ forced' = forced + 1
    /\ marker' = "fresh"
    /\ StartWalk
    /\ UNCHANGED <<files, poll, dead, overlaps>>

(* Mutant: the cache itself is opened for writing.                         *)
OpenTmpInPlace(w) ==
    /\ walk[w] = "walk"
    /\ cache' = "empty"
    /\ file' = [file EXCEPT ![w] = "cache"]
    /\ walk' = [walk EXCEPT ![w] = "opened"]
    /\ UNCHANGED <<tmp, marker, poll, bounds>>

(* compute_usage: the buckets are measured, and the temporary file is      *)
(* created, or truncated.                                                  *)
OpenTmp(w) ==
    /\ walk[w] = "walk"
    /\ LET shared == \E q \in Walk : walk[q] \in {"opened", "written"} /\ file[q] = "tmp"
       IN  /\ shared => overlaps < MaxOverlaps
           /\ overlaps' = overlaps + IF shared THEN 1 ELSE 0
    /\ tmp' = "empty"
    /\ file' = [file EXCEPT ![w] = "tmp"]
    /\ walk' = [walk EXCEPT ![w] = "opened"]
    /\ UNCHANGED <<cache, marker, poll, forced, dead>>

(* json.dump, from the start of the file: of a longer text the tail stays. *)
Over(content) == IF content = "empty" THEN {"usage"} ELSE {"usage", "torn"}
WriteTmp(w) ==
    /\ walk[w] = "opened"
    /\ tmp' \in IF file[w] = "tmp" THEN Over(tmp) ELSE {tmp}
    /\ cache' \in IF file[w] = "cache" THEN Over(cache) ELSE {cache}
    /\ walk' = [walk EXCEPT ![w] = "written"]
    /\ UNCHANGED <<file, marker, poll, bounds>>

(* os.replace; a walk that still has the file open now writes the cache.   *)
(* Without a temporary file it fails, which is logged.                     *)
ReplaceCache(w) ==
    /\ walk[w] = "written"
    /\ IF tmp = "absent" THEN UNCHANGED files
       ELSE /\ cache' = tmp
            /\ tmp' = "absent"
            /\ file' = [q \in Walk |-> IF file[q] = "tmp" THEN "cache"
                                       ELSE IF file[q] = "cache" THEN "unnamed" ELSE file[q]]
    /\ walk' = [walk EXCEPT ![w] = "done"]
    /\ UNCHANGED <<marker, poll, bounds>>

(* The marker is removed, whoever wrote it.                                *)
RemoveMarker(w) ==
    /\ walk[w] = "done"
    /\ marker' = "none"
    /\ walk' = [walk EXCEPT ![w] = "off"]
    /\ file' = [file EXCEPT ![w] = "none"]
    /\ UNCHANGED <<cache, tmp, poll, bounds>>

(* The walk's worker is killed or recycled.                                *)
KillWalk(w) ==
    /\ walk[w] # "off" /\ dead < MaxDead
    /\ dead' = dead + 1
    /\ walk' = [walk EXCEPT ![w] = "off"]
    /\ file' = [file EXCEPT ![w] = "none"]
    /\ UNCHANGED <<cache, tmp, marker, poll, forced, overlaps>>

(* Time passes: the marker's half hour, the cache's day.                   *)
MarkerAges ==
    /\ marker = "fresh" /\ marker' = "stale"
    /\ UNCHANGED <<files, poll, walk, bounds>>
CacheAges ==
    /\ cache = "usage" /\ cache' = "old"
    /\ UNCHANGED <<tmp, file, marker, poll, walk, bounds>>

PollStep(r) == ReadCache(r) \/ AlreadyComputing(r) \/ NotComputing(r) \/ Trigger(r)
WalkStep(w) == OpenTmp(w) \/ WriteTmp(w) \/ ReplaceCache(w) \/ RemoveMarker(w)
UsageNext ==
    \/ \E r \in Poll : PollStep(r)
    \/ \E w \in Walk : WalkStep(w) \/ KillWalk(w)
    \/ ForceRefresh \/ MarkerAges \/ CacheAges
UsageFairness ==
    /\ \A r \in Poll : WF_usageVars(PollStep(r))
    /\ \A w \in Walk : WF_usageVars(WalkStep(w))
    /\ WF_usageVars(MarkerAges)
UsageSpec == UsageInit /\ [][UsageNext]_usageVars /\ UsageFairness

-----------------------------------------------------------------------------
(* The types of all variables.                                             *)
UsageTypeOK ==
    /\ cache \in Contents /\ tmp \in Contents
    /\ marker \in {"none", "fresh", "stale"}
    /\ poll \in [Poll -> {"idle", "stale", "trigger"}]
    /\ walk \in [Walk -> {"off", "walk", "opened", "written", "done"}]
    /\ file \in [Walk -> {"none", "tmp", "cache", "unnamed"}]
    /\ forced \in 0..MaxForced /\ dead \in 0..MaxDead /\ overlaps \in 0..MaxOverlaps

(* The cache is replaced as a whole: whenever a worker dies it is missing  *)
(* or readable, unless one walk opened the temporary file while another    *)
(* had it open (:110-135).                                                 *)
CacheWhole == cache \in {"empty", "torn"} => overlaps > 0

(* Requests that keep polling see a usable cache again: neither a marker   *)
(* left by a dead walk nor a cache spoiled by two of them stays (:38-44,   *)
(* :203-221).                                                              *)
CacheRefreshed == cache # "usage" ~> cache = "usage"

(* Violated: "atomically write the cache" (:116).                          *)
CacheWholeAlways == cache \notin {"empty", "torn"}
=============================================================================
