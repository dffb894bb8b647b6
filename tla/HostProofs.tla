------------------------------ MODULE HostProofs ------------------------------
(***************************************************************************)
(* Proofs about what the workers of one host share: the SFTP session slots *)
(* (SftpSlots), for any callers, workers, number of slots and number of    *)
(* attempts to connect; the cache of bucket usage (UsageCache), for any    *)
(* requests and walks and any number of forced refreshes, dead walks and   *)
(* overlaps; and the derivative images (Derivatives), for any conversions, *)
(* readers, images and lengths of them.                                    *)
(***************************************************************************)
EXTENDS SftpSlots, UsageCache, Derivatives, FiniteSetTheorems, TLAPS

-----------------------------------------------------------------------------
(* A caller with a lock knows its slot, and waits to connect again only    *)
(* while it has attempts left.                                             *)
CallerBounds ==
    \A c \in Caller : /\ at[c] \in Holding => next[c] \in Slot
                      /\ at[c] = "backoff" => connects[c] < MaxConnects

(* Every variable keeps its type under every step. *)
LEMMA SlotsTypeStep ==
    ASSUME SlotsAssumption, SlotsTypeOK, CallerBounds, [SlotsNext]_slotVars PROVE SlotsTypeOK'
<1> USE SlotsAssumption DEF SlotsAssumption, SlotsTypeOK, Moves, Leaves, Slot, Waiting, Holding
<1>a. ASSUME NEW c \in Caller, Leaves(c)
      PROVE  /\ at' \in [Caller -> {"idle"} \cup Waiting \cup Holding]
             /\ next' \in [Caller -> 1..(Sessions + 1)]
             /\ late' \subseteq Caller
             /\ connects' \in [Caller -> 0..MaxConnects]
  BY <1>a
<1>1. CASE UNCHANGED slotVars
  BY <1>1 DEF slotVars
<1>2. ASSUME NEW c \in Caller, Acquire(c) \/ Deadline(c) \/ Wakes(c) PROVE SlotsTypeOK'
  BY <1>2 DEF Acquire, Deadline, Wakes
<1>3. ASSUME NEW c \in Caller, TakeSlot(c) PROVE SlotsTypeOK'
  BY <1>3 DEF TakeSlot
<1>4. ASSUME NEW c \in Caller, SkipSlot(c) PROVE SlotsTypeOK'
  BY <1>4 DEF SkipSlot
<1>5. ASSUME NEW c \in Caller, Exhausted(c) PROVE SlotsTypeOK'
  <2>1. CASE Leaves(c) /\ UNCHANGED <<flock, lost, workersKilled>>
    BY <1>a, <2>1
  <2>2. CASE Moves(c, "nap") /\ next' = [next EXCEPT ![c] = 1]
             /\ UNCHANGED <<flock, late, connects, lost, workersKilled>>
    BY <2>2
  <2> QED BY <1>5, <2>1, <2>2 DEF Exhausted
<1>6. ASSUME NEW c \in Caller, Connects(c) PROVE SlotsTypeOK'
  BY <1>6 DEF Connects
<1>7. ASSUME NEW c \in Caller, ConnectFails(c) PROVE SlotsTypeOK'
  <2>1. CASE connects[c] < MaxConnects
    BY <1>7, <2>1 DEF ConnectFails
  <2>2. CASE ~(connects[c] < MaxConnects)
    <3>1. /\ Leaves(c) /\ flock' = [flock EXCEPT ![next[c]] = Free]
          /\ UNCHANGED <<lost, workersKilled>>
      BY <1>7, <2>2 DEF ConnectFails
    <3> QED BY <1>a, <3>1
  <2> QED BY <2>1, <2>2
<1>8. ASSUME NEW c \in Caller, ConnectAgain(c) PROVE SlotsTypeOK'
  BY <1>8 DEF ConnectAgain, CallerBounds
<1>9. ASSUME NEW c \in Caller, Close(c) \/ SftpCloseRaises(c) PROVE SlotsTypeOK'
  <2>1. Leaves(c) /\ next[c] \in Slot /\ flock' \in {flock, [flock EXCEPT ![next[c]] = Free]}
        /\ lost' \in {lost, lost \cup {next[c]}} /\ workersKilled' = workersKilled
    BY <1>9 DEF Close, SftpCloseRaises, CallerBounds
  <2> QED BY <1>a, <2>1
<1>10. ASSUME NEW w \in Worker, KillWorker(w) PROVE SlotsTypeOK'
  <2>1. flock' \in [Slot -> Worker \cup {Free}] /\ lost' \subseteq Slot
    BY <1>10 DEF KillWorker
  <2>2. at' \in [Caller -> {"idle"} \cup Waiting \cup Holding] /\ late' \subseteq Caller
    BY <1>10 DEF KillWorker
  <2>3. next' \in [Caller -> 1..(Sessions + 1)] /\ connects' \in [Caller -> 0..MaxConnects]
    BY <1>10 DEF KillWorker
  <2>4. workersKilled' \in 0..MaxWorkersKilled
    BY <1>10 DEF KillWorker
  <2> QED BY <2>1, <2>2, <2>3, <2>4
<1> QED
  BY <1>1, <1>2, <1>3, <1>4, <1>5, <1>6, <1>7, <1>8, <1>9, <1>10 DEF SlotsNext, SlotWait

(* Every step keeps the bounds of a caller. *)
LEMMA BoundsStep ==
    ASSUME SlotsAssumption, SlotsTypeOK, CallerBounds, [SlotsNext]_slotVars PROVE CallerBounds'
<1> USE SlotsAssumption DEF SlotsAssumption, SlotsTypeOK, CallerBounds, Moves, Leaves, Holding, Slot
<1>1. CASE UNCHANGED slotVars
  BY <1>1 DEF slotVars
<1>2. ASSUME NEW c \in Caller,
             Acquire(c) \/ SlotWait(c) \/ Deadline(c) \/ Connects(c) \/ ConnectAgain(c)
               \/ Close(c) \/ SftpCloseRaises(c)
      PROVE  CallerBounds'
  BY <1>2 DEF Acquire, SlotWait, TakeSlot, SkipSlot, Exhausted, Wakes, Deadline, Connects,
              ConnectAgain, Close, SftpCloseRaises
<1>3. ASSUME NEW c \in Caller, ConnectFails(c) PROVE CallerBounds'
  BY <1>3 DEF ConnectFails
<1>4. ASSUME NEW w \in Worker, KillWorker(w) PROVE CallerBounds'
  BY <1>4 DEF KillWorker
<1> QED
  BY <1>1, <1>2, <1>3, <1>4 DEF SlotsNext

(* The variables of the session slots keep their types. *)
LEMMA SlotsTypesKept ==
    ASSUME SlotsAssumption
    PROVE  SlotsInit /\ [][SlotsNext]_slotVars => [](SlotsTypeOK /\ CallerBounds)
<1>1. SlotsInit => SlotsTypeOK /\ CallerBounds
  BY SlotsAssumption DEF SlotsAssumption, SlotsInit, SlotsTypeOK, CallerBounds, Slot, Waiting,
                         Holding
<1>2. SlotsTypeOK /\ CallerBounds /\ [SlotsNext]_slotVars => SlotsTypeOK' /\ CallerBounds'
  BY SlotsAssumption, SlotsTypeStep, BoundsStep
<1> QED
  BY <1>1, <1>2, PTL

(* Type correctness of the slots and their callers. *)
THEOREM SlotsTypeCorrect ==
    ASSUME SlotsAssumption PROVE SlotsSpec => [](SlotsTypeOK /\ CallerBounds)
BY SlotsTypesKept, SlotsAssumption, PTL DEF SlotsSpec

-----------------------------------------------------------------------------
(* SlotHasLiveHolder by its parts, and what makes it inductive: a lock that *)
(* was lost with its session is still taken, so no caller gets its slot.   *)
HolderHasLock ==
    \A c \in Caller : at[c] \in Holding =>
        next[c] \in Slot /\ flock[next[c]] = worker[c] /\ next[c] \notin lost
OneHolder ==
    \A c, q \in Caller : c # q /\ at[c] \in Holding /\ at[q] \in Holding => next[c] # next[q]
TakenHasHolder ==
    \A s \in Slot : flock[s] # Free =>
        s \in lost \/ \E c \in Caller : at[c] \in Holding /\ next[c] = s /\ flock[s] = worker[c]
LostIsTaken == \A s \in lost : flock[s] # Free

SlotInv == HolderHasLock /\ OneHolder /\ TakenHasHolder /\ LostIsTaken

(* Every step keeps the locks and their holders together. *)
LEMMA HolderStep ==
    ASSUME SlotsAssumption, SlotsTypeOK, SlotInv, [SlotsNext]_slotVars PROVE SlotInv'
<1> USE SlotsAssumption DEF SlotsAssumption, SlotsTypeOK, SlotInv, Moves, Holding, Waiting
<1>1. CASE UNCHANGED slotVars
  BY <1>1 DEF slotVars, HolderHasLock, OneHolder, TakenHasHolder, LostIsTaken
<1>2. ASSUME NEW c \in Caller, at[c] \notin Holding, flock' = flock, lost' = lost,
             \A q \in Caller \ {c} : at'[q] = at[q] /\ next'[q] = next[q],
             at'[c] \notin Holding
      PROVE  SlotInv'
  <2>1. HolderHasLock'
    BY <1>2 DEF HolderHasLock
  <2>2. OneHolder'
    BY <1>2 DEF OneHolder
  <2>3. TakenHasHolder'
    BY <1>2 DEF TakenHasHolder
  <2>4. LostIsTaken'
    BY <1>2 DEF LostIsTaken
  <2> QED BY <2>1, <2>2, <2>3, <2>4
<1>3. ASSUME NEW c \in Caller, TakeSlot(c) PROVE SlotInv'
  <2>1. /\ at[c] = "scan" /\ next[c] \in Slot /\ flock[next[c]] = Free
        /\ flock' = [flock EXCEPT ![next[c]] = worker[c]]
        /\ at' = [at EXCEPT ![c] = "connect"] /\ next' = next /\ lost' = lost
    BY <1>3 DEF TakeSlot
  <2>2. next[c] \notin lost
    BY <2>1 DEF LostIsTaken
  <2>3. \A q \in Caller : at[q] \in Holding => next[q] # next[c]
    BY <2>1 DEF HolderHasLock
  <2>4. HolderHasLock'
    BY <2>1, <2>2, <2>3 DEF HolderHasLock
  <2>5. OneHolder'
    BY <2>1, <2>3 DEF OneHolder
  <2>6. TakenHasHolder'
    BY <2>1, <2>3 DEF TakenHasHolder
  <2>7. LostIsTaken'
    BY <2>1 DEF LostIsTaken
  <2> QED BY <2>4, <2>5, <2>6, <2>7
<1>4. ASSUME NEW c \in Caller,
             Acquire(c) \/ SkipSlot(c) \/ Exhausted(c) \/ Wakes(c) \/ Deadline(c)
      PROVE  SlotInv'
  BY <1>2, <1>4 DEF Acquire, SkipSlot, Exhausted, Wakes, Deadline, Leaves
<1>5. ASSUME NEW c \in Caller, at[c] \in Holding, UNCHANGED <<flock, next, lost>>,
             \E l \in Holding : at' = [at EXCEPT ![c] = l]
      PROVE  SlotInv'
  <2>1. \A q \in Caller : at'[q] \in Holding <=> at[q] \in Holding
    BY <1>5
  <2> QED
    BY <1>5, <2>1 DEF HolderHasLock, OneHolder, TakenHasHolder, LostIsTaken
<1>6. ASSUME NEW c \in Caller, at[c] \in Holding, Leaves(c), lost' = lost,
             flock' = [flock EXCEPT ![next[c]] = Free]
      PROVE  SlotInv'
  <2>1. next[c] \in Slot /\ next[c] \notin lost
    BY <1>6 DEF HolderHasLock
  <2>2. \A q \in Caller : q # c => /\ at'[q] = at[q] /\ next'[q] = next[q]
                                     /\ (at[q] \in Holding => next[q] # next[c])
    BY <1>6 DEF Leaves, OneHolder
  <2>3. at'[c] \notin Holding
    BY <1>6 DEF Leaves
  <2>4. HolderHasLock'
    BY <1>6, <2>1, <2>2, <2>3 DEF HolderHasLock
  <2>9. OneHolder'
    BY <2>2, <2>3 DEF OneHolder
  <2>5. TakenHasHolder'
    BY <1>6, <2>1, <2>2, <2>3 DEF TakenHasHolder
  <2>6. LostIsTaken'
    BY <1>6, <2>1 DEF LostIsTaken
  <2> QED BY <2>4, <2>5, <2>6, <2>9
<1>7. ASSUME NEW c \in Caller, ConnectFails(c) PROVE SlotInv'
  <2>1. CASE connects[c] < MaxConnects
    BY <1>5, <1>7, <2>1 DEF ConnectFails
  <2>2. CASE ~(connects[c] < MaxConnects)
    BY <1>6, <1>7, <2>2 DEF ConnectFails
  <2> QED BY <2>1, <2>2
<1>8. ASSUME NEW c \in Caller, SftpCloseRaises(c) PROVE SlotInv'
  <2>1. /\ at[c] = "session" /\ flock' = flock /\ lost' = lost \cup {next[c]}
        /\ next[c] \in Slot /\ flock[next[c]] = worker[c]
    BY <1>8 DEF SftpCloseRaises, HolderHasLock
  <2>2. \A q \in Caller : q # c => /\ at'[q] = at[q] /\ next'[q] = next[q]
                                     /\ (at[q] \in Holding => next[q] # next[c])
    BY <1>8, <2>1 DEF SftpCloseRaises, Leaves, OneHolder
  <2>3. at'[c] \notin Holding
    BY <1>8 DEF SftpCloseRaises, Leaves
  <2>4. HolderHasLock'
    BY <2>1, <2>2, <2>3 DEF HolderHasLock
  <2>9. OneHolder'
    BY <2>2, <2>3 DEF OneHolder
  <2>5. TakenHasHolder'
    BY <2>1, <2>2, <2>3 DEF TakenHasHolder
  <2>6. LostIsTaken'
    BY <2>1 DEF LostIsTaken
  <2> QED BY <2>4, <2>5, <2>6, <2>9
<1>9. ASSUME NEW w \in Worker, KillWorker(w) PROVE SlotInv'
  <2>1. /\ \A s \in Slot : flock'[s] = IF flock[s] = w THEN Free ELSE flock[s]
        /\ lost' = {s \in lost : flock[s] # w}
        /\ \A c \in Caller : worker[c] = w => at'[c] = "idle"
        /\ \A c \in Caller : worker[c] # w => at'[c] = at[c] /\ next'[c] = next[c]
    BY <1>9 DEF KillWorker
  <2>2. HolderHasLock'
    BY <2>1 DEF HolderHasLock
  <2>9. OneHolder'
    BY <2>1 DEF OneHolder
  <2>3. TakenHasHolder'
    BY <2>1 DEF TakenHasHolder
  <2>4. LostIsTaken'
    BY <2>1 DEF LostIsTaken
  <2> QED BY <2>2, <2>3, <2>4, <2>9
<1>10. ASSUME NEW c \in Caller, Connects(c) \/ ConnectAgain(c) \/ Close(c) PROVE SlotInv'
  BY <1>5, <1>6, <1>10 DEF Connects, ConnectAgain, Close
<1> QED
  BY <1>1, <1>3, <1>4, <1>7, <1>8, <1>9, <1>10 DEF SlotsNext, SlotWait

(* Sessions and locks belong together: a session has a lock of its own,    *)
(* and a lock that is taken has its caller or was lost with a session.     *)
THEOREM HoldersMatch ==
    ASSUME SlotsAssumption PROVE SlotsSpec => []SlotHasLiveHolder
<1>1. SlotsInit => SlotInv
  BY SlotsAssumption DEF SlotsAssumption, SlotsInit, SlotInv, HolderHasLock, OneHolder,
                         TakenHasHolder, LostIsTaken, Holding
<1>2. SlotsTypeOK /\ SlotInv /\ [SlotsNext]_slotVars => SlotInv'
  BY SlotsAssumption, HolderStep
<1>3. SlotInv => SlotHasLiveHolder
  BY DEF SlotInv, HolderHasLock, OneHolder, TakenHasHolder, SlotHasLiveHolder
<1> QED
  BY <1>1, <1>2, <1>3, SlotsTypeCorrect, SlotsAssumption, PTL DEF SlotsSpec

-----------------------------------------------------------------------------
(* The callers that have a session or are on their way to one. *)
Holders == {c \in Caller : at[c] \in Holding}

(* There are never more of them than SFTP_MAX_SESSIONS, in all workers of  *)
(* the host together (lib/archivematica_ops.py:81-97).                     *)
THEOREM SessionsBounded ==
    ASSUME SlotsAssumption
    PROVE  SlotsSpec => [](IsFiniteSet(Holders) /\ Cardinality(Holders) <= Sessions)
<1>1. ASSUME SlotHasLiveHolder PROVE IsFiniteSet(Holders) /\ Cardinality(Holders) <= Sessions
  <2> DEFINE slotOf == [c \in Holders |-> next[c]]
  <2>1. slotOf \in Injection(Holders, Slot)
    BY <1>1 DEF SlotHasLiveHolder, Holders, Injection, IsInjective
  <2>2. IsFiniteSet(Slot) /\ Cardinality(Slot) = Sessions
    BY SlotsAssumption, FS_Interval DEF SlotsAssumption, Slot
  <2> HIDE DEF slotOf
  <2> QED
    BY <2>1, <2>2, FS_Injection
<1> QED
  BY <1>1, HoldersMatch, SlotsAssumption, PTL

-----------------------------------------------------------------------------
(* Every variable keeps its type under every step. *)
LEMMA UsageTypeStep ==
    ASSUME UsageAssumption, UsageTypeOK, [UsageNext]_usageVars PROVE UsageTypeOK'
<1> USE UsageAssumption DEF UsageAssumption, UsageTypeOK, Contents, files, bounds
<1>1. CASE UNCHANGED usageVars
  BY <1>1 DEF usageVars
<1>2. ASSUME NEW r \in Poll, PollStep(r) PROVE UsageTypeOK'
  BY <1>2 DEF PollStep, ReadCache, AlreadyComputing, NotComputing, Trigger, StartWalk
<1>3. ASSUME NEW w \in Walk, OpenTmp(w) PROVE UsageTypeOK'
  <2>1. overlaps' \in 0..MaxOverlaps
    BY <1>3 DEF OpenTmp
  <2> QED
    BY <1>3, <2>1 DEF OpenTmp
<1>4. ASSUME NEW w \in Walk, WriteTmp(w) PROVE UsageTypeOK'
  BY <1>4 DEF WriteTmp, Over
<1>5. ASSUME NEW w \in Walk, ReplaceCache(w) PROVE UsageTypeOK'
  BY <1>5 DEF ReplaceCache
<1>6. ASSUME NEW w \in Walk, RemoveMarker(w) \/ KillWalk(w) PROVE UsageTypeOK'
  BY <1>6 DEF RemoveMarker, KillWalk
<1>7. CASE ForceRefresh
  BY <1>7 DEF ForceRefresh, StartWalk
<1>8. CASE MarkerAges \/ CacheAges
  BY <1>8 DEF MarkerAges, CacheAges
<1> QED
  BY <1>1, <1>2, <1>3, <1>4, <1>5, <1>6, <1>7, <1>8 DEF UsageNext, WalkStep

(* No fairness is needed for that. *)
LEMMA UsageTypesKept ==
    ASSUME UsageAssumption PROVE UsageInit /\ [][UsageNext]_usageVars => []UsageTypeOK
<1>1. UsageInit => UsageTypeOK
  BY UsageAssumption DEF UsageAssumption, UsageInit, UsageTypeOK, Contents
<1>2. UsageTypeOK /\ [UsageNext]_usageVars => UsageTypeOK'
  BY UsageAssumption, UsageTypeStep
<1> QED
  BY <1>1, <1>2, PTL

(* The variables of the cache keep their types. *)
THEOREM UsageTypeCorrect == ASSUME UsageAssumption PROVE UsageSpec => []UsageTypeOK
BY UsageTypesKept, UsageAssumption, PTL DEF UsageSpec

-----------------------------------------------------------------------------
(* Without an overlap, one walk at most has the temporary file open, the   *)
(* file holds what that walk has written so far, and so what is renamed    *)
(* over the cache is complete.                                             *)
Writing == {w \in Walk : walk[w] \in {"opened", "written"}}

OneWriter ==
    /\ \A w, q \in Writing : w = q
    /\ \A w \in Writing : /\ file[w] = "tmp"
                          /\ tmp = IF walk[w] = "opened" THEN "empty" ELSE "usage"

CacheInv == overlaps = 0 => OneWriter /\ CacheWholeAlways

(* Every step keeps the one writer. *)
LEMMA CacheStep ==
    ASSUME UsageAssumption, UsageTypeOK, CacheInv, [UsageNext]_usageVars PROVE CacheInv'
<1> SUFFICES ASSUME overlaps' = 0 PROVE OneWriter' /\ CacheWholeAlways'
  BY DEF CacheInv
<1> USE UsageAssumption DEF UsageAssumption, UsageTypeOK, OneWriter, Writing, CacheWholeAlways,
                            files, bounds
<1>0. overlaps = 0
  <2>1. CASE overlaps' = overlaps
    BY <2>1
  <2>2. ASSUME NEW w \in Walk, OpenTmp(w) PROVE overlaps = 0
    BY <2>2 DEF OpenTmp
  <2>3. ASSUME NEW r \in Poll, PollStep(r) PROVE overlaps' = overlaps
    BY <2>3 DEF PollStep, ReadCache, AlreadyComputing, NotComputing, Trigger
  <2>4. ASSUME NEW w \in Walk, WriteTmp(w) \/ ReplaceCache(w) \/ RemoveMarker(w) \/ KillWalk(w)
        PROVE  overlaps' = overlaps
    BY <2>4 DEF WriteTmp, ReplaceCache, RemoveMarker, KillWalk
  <2>5. CASE ForceRefresh \/ MarkerAges \/ CacheAges \/ UNCHANGED usageVars
    BY <2>1, <2>5 DEF ForceRefresh, MarkerAges, CacheAges, usageVars
  <2> QED
    BY <2>1, <2>2, <2>3, <2>4, <2>5 DEF UsageNext, WalkStep
<1>a. OneWriter /\ CacheWholeAlways
  BY <1>0 DEF CacheInv
<1>1. ASSUME UNCHANGED <<tmp, file>>, cache' \in {cache, "old"},
             \A w \in Walk : walk'[w] \in {"opened", "written"} => walk'[w] = walk[w]
      PROVE  OneWriter' /\ CacheWholeAlways'
  BY <1>a, <1>1
<1>2. ASSUME NEW r \in Poll, PollStep(r) PROVE OneWriter' /\ CacheWholeAlways'
  BY <1>1, <1>2 DEF PollStep, ReadCache, AlreadyComputing, NotComputing, Trigger, StartWalk
<1>3. ASSUME NEW w \in Walk, OpenTmp(w) PROVE OneWriter' /\ CacheWholeAlways'
  <2>1. Writing = {}
    BY <1>0, <1>3, <1>a DEF OpenTmp
  <2> QED
    BY <1>3, <1>a, <2>1 DEF OpenTmp
<1>4. ASSUME NEW w \in Walk, WriteTmp(w) PROVE OneWriter' /\ CacheWholeAlways'
  <2>1. w \in Writing /\ file[w] = "tmp" /\ tmp = "empty"
    BY <1>4, <1>a DEF WriteTmp
  <2>2. tmp' = "usage" /\ cache' = cache
    BY <1>4, <2>1 DEF WriteTmp, Over
  <2> QED
    BY <1>4, <1>a, <2>1, <2>2 DEF WriteTmp
<1>5. ASSUME NEW w \in Walk, ReplaceCache(w) PROVE OneWriter' /\ CacheWholeAlways'
  <2>1. w \in Writing /\ tmp = "usage" /\ \A q \in Writing : q = w
    BY <1>5, <1>a DEF ReplaceCache
  <2>2. cache' = "usage" /\ Writing' = {}
    BY <1>5, <2>1 DEF ReplaceCache
  <2> QED
    BY <2>2
<1>6. ASSUME NEW w \in Walk, RemoveMarker(w) \/ KillWalk(w) PROVE OneWriter' /\ CacheWholeAlways'
  <2>1. /\ tmp' = tmp /\ cache' = cache /\ walk'[w] = "off"
        /\ \A q \in Walk : q # w => walk'[q] = walk[q] /\ file'[q] = file[q]
    BY <1>6 DEF RemoveMarker, KillWalk
  <2> QED
    BY <1>a, <2>1
<1>7. CASE ForceRefresh
  BY <1>1, <1>7 DEF ForceRefresh, StartWalk
<1>8. CASE MarkerAges \/ CacheAges \/ UNCHANGED usageVars
  BY <1>1, <1>8 DEF MarkerAges, CacheAges, usageVars
<1> QED
  BY <1>2, <1>3, <1>4, <1>5, <1>6, <1>7, <1>8 DEF UsageNext, WalkStep

(* The cache is spoiled by two walks with one temporary file and by        *)
(* nothing else: no death of a walk, forced refresh or old marker does it. *)
THEOREM CacheStaysWhole == ASSUME UsageAssumption PROVE UsageSpec => []CacheWhole
<1>1. UsageInit => CacheInv
  BY DEF UsageInit, CacheInv, OneWriter, Writing, CacheWholeAlways
<1>2. UsageTypeOK /\ CacheInv /\ [UsageNext]_usageVars => CacheInv'
  BY UsageAssumption, CacheStep
<1>3. UsageTypeOK /\ CacheInv => CacheWhole
  BY UsageAssumption DEF UsageAssumption, UsageTypeOK, CacheInv, CacheWhole, CacheWholeAlways
<1> QED
  BY <1>1, <1>2, <1>3, UsageTypeCorrect, UsageAssumption, PTL DEF UsageSpec

-----------------------------------------------------------------------------
(* The texts that conversions have in memory.                              *)
WholeImages == {Whole(i) : i \in Image}

(* The first n pieces of the text j.                                       *)
FirstOf(j, n) == [k \in 1..n |-> j[k]]

(* What a conversion at work knows of the temporary file, if it is there.  *)
TmpFileOf(c) ==
    \E n \in 0..Len(jpeg[c]) :
        /\ tmpfile = FirstOf(jpeg[c], n)
        /\ conv[c] = "writing" /\ handle[c] = "tmp" => n = pieces[c]
        /\ conv[c] = "sized" => n = Len(jpeg[c])

(* A conversion past its fetch has an image in memory, and has a file open *)
(* only while it writes; a file that is open or looked at is there.        *)
OwnState ==
    /\ \A c \in Conversion :
          /\ conv[c] # "idle" => jpeg[c] \in WholeImages
          /\ handle[c] # "none" => conv[c] = "writing"
          /\ handle[c] = "tmp" => tmpfile # Missing
          /\ handle[c] = "jpg" => jpg # Missing
    /\ \A r \in Viewer : viewer[r] # "idle" => jpg # Missing

(* As long as no temporary file was opened under another conversion: one   *)
(* is at work at a time, the temporary file is a beginning of its image,   *)
(* and the derivative is whole.                                            *)
Apart ==
    /\ \A c, q \in Conversion : conv[c] \in AtWork /\ conv[q] \in AtWork => c = q
    /\ \A c \in Conversion :
          /\ handle[c] # "jpg"
          /\ conv[c] \in AtWork /\ tmpfile # Missing => TmpFileOf(c)
    /\ jpg \in WholeImages \cup {Missing}
    /\ \A r \in Viewer :
          /\ viewer[r] = "measured" /\ r \notin crossed => told[r] = Len(jpg)
          /\ sent[r] = "cut" => r \in crossed

DerivInv == DerivativeTypeOK /\ OwnState /\ (shared = 0 => Apart)

(* An image has as many pieces as it says, and is not the missing file.    *)
LEMMA WholeIsText ==
    ASSUME DerivativeAssumption, NEW j \in WholeImages
    PROVE  /\ j \in Seq(Image) /\ Len(j) \in Nat /\ j # Missing
           /\ j = FirstOf(j, Len(j)) /\ IsWhole(j)
<1>1. PICK i \in Image : j = Whole(i)
  BY DEF WholeImages
<1>2. Pieces[i] \in Nat
  BY DEF DerivativeAssumption
<1>3. j \in Seq(Image) /\ Len(j) = Pieces[i] /\ DOMAIN j = 1..Pieces[i]
  BY <1>1, <1>2 DEF Whole
<1>4. j = [k \in 1..Pieces[i] |-> j[k]]
  BY <1>1, <1>3 DEF Whole
<1>5. j # Missing
  BY <1>3 DEF DerivativeAssumption
<1> QED
  BY <1>1, <1>2, <1>3, <1>4, <1>5 DEF FirstOf, IsWhole

(* Nor is a beginning of it.                                               *)
LEMMA FirstIsText ==
    ASSUME DerivativeAssumption, NEW j \in WholeImages, NEW n \in 0..Len(j)
    PROVE  FirstOf(j, n) \in Seq(Image) /\ Len(FirstOf(j, n)) = n /\ FirstOf(j, n) # Missing
<1>1. j \in Seq(Image) /\ Len(j) \in Nat
  BY WholeIsText
<1>2. \A k \in 1..n : j[k] \in Image
  BY <1>1
<1>3. FirstOf(j, n) \in Seq(Image) /\ Len(FirstOf(j, n)) = n
  BY <1>1, <1>2 DEF FirstOf
<1> QED
  BY <1>3 DEF DerivativeAssumption

(* Writing the next piece of a text to a beginning of it lengthens that.   *)
LEMMA WriteNext ==
    ASSUME DerivativeAssumption, NEW j \in WholeImages, NEW n \in 0..Len(j), n < Len(j)
    PROVE  AfterWrite(FirstOf(j, n), j, n + 1) = FirstOf(j, n + 1)
<1>1. Len(FirstOf(j, n)) = n /\ Len(j) \in Nat
  BY FirstIsText, WholeIsText
<1> QED
  BY <1>1 DEF AfterWrite, FirstOf

(* A write leaves a file.                                                  *)
LEMMA WriteIsText ==
    ASSUME DerivativeAssumption, NEW f \in Seq(Image \cup {Hole}),
           NEW j \in WholeImages, NEW k \in 1..Len(j)
    PROVE  AfterWrite(f, j, k) \in Seq(Image \cup {Hole}) /\ AfterWrite(f, j, k) # Missing
<1>1. j \in Seq(Image) /\ Len(j) \in Nat /\ Len(f) \in Nat
  BY WholeIsText
<1>2. j[k] \in Image /\ \A n \in 1..Len(f) : f[n] \in Image \cup {Hole}
  BY <1>1
<1> DEFINE m == IF k > Len(f) THEN k ELSE Len(f)
           e(n) == IF n = k THEN j[k] ELSE IF n <= Len(f) THEN f[n] ELSE Hole
<1>3. m \in Nat /\ \A n \in 1..m : e(n) \in Image \cup {Hole}
  BY <1>1, <1>2
<1>4. AfterWrite(f, j, k) = [n \in 1..m |-> e(n)]
  BY DEF AfterWrite
<1>5. [n \in 1..m |-> e(n)] \in Seq(Image \cup {Hole})
  <2> HIDE DEF m, e
  <2> QED BY <1>3
<1> QED
  BY <1>4, <1>5 DEF DerivativeAssumption

(* Every variable keeps its type. *)
LEMMA DerivTypesStep ==
    ASSUME DerivativeAssumption, DerivativeTypeOK, OwnState, [DerivativeNext]_derivativeVars
    PROVE  DerivativeTypeOK'
<1> USE DEF DerivativeTypeOK, AtWork, conversions, viewers, FileHolds
<1>h. ASSUME NEW f, f \in {"jpg", "unnamed"},
             handle' = [q \in Conversion |-> IF handle[q] = "tmp" THEN f
                            ELSE IF handle[q] = "jpg" THEN "unnamed" ELSE handle[q]]
             \/ handle' = [q \in Conversion |-> IF handle[q] = "tmp" THEN f ELSE handle[q]]
      PROVE  handle' \in [Conversion -> {"none", "tmp", "jpg", "unnamed"}]
  <2>1. handle \in [Conversion -> {"none", "tmp", "jpg", "unnamed"}]
    OBVIOUS
  <2> HIDE DEF DerivativeTypeOK
  <2> QED
    BY <1>h, <2>1
<1>1. ASSUME NEW c \in Conversion, NEW i \in Image, Convert(c, i) PROVE DerivativeTypeOK'
  BY <1>1 DEF Convert
<1>2. ASSUME NEW c \in Conversion, OpenTmpFile(c) PROVE DerivativeTypeOK'
  <2>1. shared' \in 0..MaxShared
    BY <1>2 DEF OpenTmpFile, DerivativeAssumption
  <2>2. << >> \in Seq(Image \cup {Hole})
    OBVIOUS
  <2> QED
    BY <1>2, <2>1, <2>2 DEF OpenTmpFile
<1>3. ASSUME NEW c \in Conversion, WritePiece(c) PROVE DerivativeTypeOK'
  <2>1. jpeg[c] \in WholeImages
    BY <1>3 DEF WritePiece, OwnState
  <2>2. Len(jpeg[c]) \in Nat
    BY <2>1, WholeIsText
  <2>3. pieces[c] + 1 \in 1..Len(jpeg[c])
    BY <1>3, <2>2 DEF WritePiece
  <2>4. tmpfile' \in FileHolds
    <3>1. CASE handle[c] = "tmp"
      <4>1. tmpfile \in Seq(Image \cup {Hole})
        BY <3>1 DEF OwnState
      <4> QED
        BY <1>3, <2>1, <2>3, <3>1, <4>1, WriteIsText DEF WritePiece
    <3> QED
      BY <1>3, <3>1 DEF WritePiece
  <2>5. jpg' \in FileHolds
    <3>1. CASE handle[c] = "jpg"
      <4>1. jpg \in Seq(Image \cup {Hole})
        BY <3>1 DEF OwnState
      <4> QED
        BY <1>3, <2>1, <2>3, <3>1, <4>1, WriteIsText DEF WritePiece
    <3> QED
      BY <1>3, <3>1 DEF WritePiece
  <2>6. /\ pieces' \in [Conversion -> Nat]
        /\ UNCHANGED <<conv, jpeg, handle, abandoned, shared, viewers>>
    BY <1>3 DEF WritePiece
  <2> QED
    BY <2>4, <2>5, <2>6
<1>4. ASSUME NEW c \in Conversion, EndWrite(c) PROVE DerivativeTypeOK'
  <2>1. conv' \in [Conversion -> {"idle", "converted", "failing"} \cup AtWork]
    BY <1>4 DEF EndWrite
  <2> QED
    BY <1>4, <2>1 DEF EndWrite
<1>5. ASSUME NEW c \in Conversion, CannotOpen(c) \/ StatTmpFile(c) PROVE DerivativeTypeOK'
  BY <1>5 DEF CannotOpen, StatTmpFile
<1>6. ASSUME NEW c \in Conversion, ReplaceTmpFile(c) PROVE DerivativeTypeOK'
  <2>1. CASE tmpfile = Missing
    BY <1>6, <2>1 DEF ReplaceTmpFile
  <2>2. CASE tmpfile # Missing
    <3>1. crossed' \subseteq Viewer
      BY <1>6, <2>2 DEF ReplaceTmpFile
    <3>2. handle' \in [Conversion -> {"none", "tmp", "jpg", "unnamed"}]
      BY <1>6, <1>h, <2>2 DEF ReplaceTmpFile
    <3> QED
      BY <1>6, <2>2, <3>1, <3>2 DEF ReplaceTmpFile
  <2> QED BY <2>1, <2>2
<1>7. ASSUME NEW c \in Conversion, RemoveTmpFile(c) PROVE DerivativeTypeOK'
  <2>1. handle' \in [Conversion -> {"none", "tmp", "jpg", "unnamed"}]
    BY <1>7, <1>h DEF RemoveTmpFile
  <2>2. tmpfile' \in FileHolds /\ abandoned' \in BOOLEAN
    BY <1>7 DEF RemoveTmpFile, FileHolds
  <2> QED
    BY <1>7, <2>1, <2>2 DEF RemoveTmpFile
<1>11. ASSUME NEW c \in Conversion, KillConversion(c) PROVE DerivativeTypeOK'
  <2>1. abandoned' \in BOOLEAN
    BY <1>11, Zenon DEF KillConversion
  <2> QED
    BY <1>11, <2>1 DEF KillConversion
<1>8. ASSUME NEW r \in Viewer, LookAt(r) PROVE DerivativeTypeOK'
  BY <1>8 DEF LookAt
<1>12. ASSUME NEW r \in Viewer, SendImage(r) PROVE DerivativeTypeOK'
  <2>1. (IF IsWhole(jpg) /\ Len(jpg) = told[r] THEN "image" ELSE "cut") \in {"image", "cut"}
    OBVIOUS
  <2>2. PICK s \in {"image", "cut"} : sent' = [sent EXCEPT ![r] = s]
    BY <1>12, <2>1 DEF SendImage
  <2> QED
    BY <1>12, <2>2 DEF SendImage
<1>9. ASSUME NEW r \in Viewer, Measure(r) PROVE DerivativeTypeOK'
  <2>1. jpg \in Seq(Image \cup {Hole})
    BY <1>9 DEF Measure, OwnState
  <2>2. Len(jpg) \in Nat
    BY <2>1
  <2> QED
    BY <1>9, <2>2 DEF Measure
<1>10. CASE UNCHANGED derivativeVars
  BY <1>10 DEF derivativeVars
<1> QED
  BY <1>1, <1>2, <1>3, <1>4, <1>5, <1>6, <1>7, <1>8, <1>9, <1>10, <1>11, <1>12
     DEF DerivativeNext, ConversionStep, ViewerStep

(* The own state of each conversion and of each request is kept. *)
LEMMA OwnStateStep ==
    ASSUME DerivativeAssumption, DerivativeTypeOK, OwnState, [DerivativeNext]_derivativeVars
    PROVE  OwnState'
<1>0. /\ conv \in [Conversion -> {"idle", "converted", "failing", "writing", "closed", "sized"}]
      /\ jpeg \in [Conversion -> WholeImages \cup {Missing}]
      /\ handle \in [Conversion -> {"none", "tmp", "jpg", "unnamed"}]
      /\ viewer \in [Viewer -> {"idle", "found", "measured"}]
      /\ jpg \in FileHolds /\ tmpfile \in FileHolds
  BY DEF DerivativeTypeOK, AtWork, WholeImages
<1> USE <1>0 DEF OwnState, conversions, viewers
<1>1. ASSUME NEW c \in Conversion, NEW i \in Image, Convert(c, i) PROVE OwnState'
  BY <1>1 DEF Convert, WholeImages
<1>2. ASSUME NEW c \in Conversion, OpenTmpFile(c) PROVE OwnState'
  <2>1. tmpfile' # Missing
    <3>1. << >> \in Seq(Image \cup {Hole}) /\ tmpfile' = << >>
      BY <1>2 DEF OpenTmpFile
    <3> HIDE <1>0
    <3> QED
      BY <3>1 DEF DerivativeAssumption
  <2> QED
    BY <1>2, <2>1 DEF OpenTmpFile
<1>3. ASSUME NEW c \in Conversion, WritePiece(c) PROVE OwnState'
  <2>1. jpeg[c] \in WholeImages /\ pieces[c] + 1 \in 1..Len(jpeg[c])
    <3>1. jpeg[c] \in WholeImages
      BY <1>3 DEF WritePiece
    <3>2. pieces[c] \in Nat /\ Len(jpeg[c]) \in Nat
      BY <3>1, WholeIsText DEF DerivativeTypeOK
    <3> QED
      BY <1>3, <3>1, <3>2 DEF WritePiece
  <2>2. tmpfile # Missing => tmpfile' # Missing
    <3>1. ASSUME tmpfile # Missing, handle[c] = "tmp" PROVE tmpfile' # Missing
      <4>1. tmpfile \in Seq(Image \cup {Hole})
        BY <3>1 DEF FileHolds
      <4>2. tmpfile' = AfterWrite(tmpfile, jpeg[c], pieces[c] + 1)
        BY <1>3, <3>1 DEF WritePiece
      <4> QED
        BY <2>1, <4>1, <4>2, WriteIsText
    <3> QED
      BY <1>3, <3>1 DEF WritePiece
  <2>3. jpg # Missing => jpg' # Missing
    <3>1. ASSUME jpg # Missing, handle[c] = "jpg" PROVE jpg' # Missing
      <4>1. jpg \in Seq(Image \cup {Hole})
        BY <3>1 DEF FileHolds
      <4>2. jpg' = AfterWrite(jpg, jpeg[c], pieces[c] + 1)
        BY <1>3, <3>1 DEF WritePiece
      <4> QED
        BY <2>1, <4>1, <4>2, WriteIsText
    <3> QED
      BY <1>3, <3>1 DEF WritePiece
  <2> QED
    BY <1>3, <2>2, <2>3 DEF WritePiece
<1>4. ASSUME NEW c \in Conversion, EndWrite(c) PROVE OwnState'
  BY <1>4 DEF EndWrite
<1>5. ASSUME NEW c \in Conversion, CannotOpen(c) \/ StatTmpFile(c) PROVE OwnState'
  BY <1>5 DEF CannotOpen, StatTmpFile
<1>6. ASSUME NEW c \in Conversion, ReplaceTmpFile(c) PROVE OwnState'
  <2>1. CASE tmpfile = Missing
    BY <1>6, <2>1 DEF ReplaceTmpFile
  <2>2. CASE tmpfile # Missing
    <3>1. /\ jpg' = tmpfile /\ tmpfile' = Missing
          /\ conv' = [conv EXCEPT ![c] = "idle"] /\ jpeg' = [jpeg EXCEPT ![c] = Missing]
          /\ UNCHANGED viewer
          /\ handle' = [q \in Conversion |-> IF handle[q] = "tmp" THEN "jpg"
                                             ELSE IF handle[q] = "jpg" THEN "unnamed"
                                             ELSE handle[q]]
      BY <1>6, <2>2 DEF ReplaceTmpFile
    <3>2. conv[c] = "sized" /\ handle[c] = "none" /\ handle'[c] = "none"
      BY <1>6, <3>1 DEF ReplaceTmpFile
    <3>3. ASSUME NEW q \in Conversion, q # c
          PROVE  /\ conv'[q] = conv[q] /\ jpeg'[q] = jpeg[q]
                 /\ handle'[q] # "tmp" /\ (handle'[q] # "none" => handle[q] # "none")
      BY <3>1, <3>3
    <3> QED
      BY <2>2, <3>1, <3>2, <3>3
  <2> QED BY <2>1, <2>2
<1>7. ASSUME NEW c \in Conversion, RemoveTmpFile(c) PROVE OwnState'
  BY <1>7 DEF RemoveTmpFile
<1>8. ASSUME NEW c \in Conversion, KillConversion(c) PROVE OwnState'
  BY <1>8 DEF KillConversion
<1>9. ASSUME NEW r \in Viewer, ViewerStep(r) PROVE OwnState'
  BY <1>9 DEF ViewerStep, LookAt, Measure, SendImage
<1>10. CASE UNCHANGED derivativeVars
  BY <1>10 DEF derivativeVars
<1> QED
  BY <1>1, <1>2, <1>3, <1>4, <1>5, <1>6, <1>7, <1>8, <1>9, <1>10
     DEF DerivativeNext, ConversionStep

(* As long as no temporary file is opened under another conversion, one is *)
(* at work at a time and the derivative stays whole.                       *)
LEMMA ApartStep ==
    ASSUME DerivativeAssumption, DerivativeTypeOK, OwnState, OwnState', Apart,
           shared = 0, shared' = 0, [DerivativeNext]_derivativeVars
    PROVE  Apart'
<1>0. /\ conv \in [Conversion -> {"idle", "converted", "failing", "writing", "closed", "sized"}]
      /\ jpeg \in [Conversion -> WholeImages \cup {Missing}]
      /\ pieces \in [Conversion -> Nat]
      /\ handle \in [Conversion -> {"none", "tmp", "jpg", "unnamed"}]
      /\ viewer \in [Viewer -> {"idle", "found", "measured"}]
      /\ told \in [Viewer -> Nat] /\ crossed \subseteq Viewer
      /\ sent \in [Viewer -> {"nothing", "image", "cut"}]
  BY DEF DerivativeTypeOK, AtWork, WholeImages
<1>t. ASSUME NEW c \in Conversion, conv[c] \in AtWork
      PROVE  jpeg[c] \in WholeImages /\ Len(jpeg[c]) \in Nat /\ jpeg[c] = FirstOf(jpeg[c], Len(jpeg[c]))
  <2>1. jpeg[c] \in WholeImages
    BY <1>t DEF OwnState, AtWork
  <2> QED BY <2>1, WholeIsText
<1>a. ASSUME NEW c \in Conversion, jpg' = jpg, UNCHANGED viewers,
             \A q \in Conversion : q # c =>
                 /\ conv'[q] = conv[q] /\ jpeg'[q] = jpeg[q] /\ pieces'[q] = pieces[q]
                 /\ handle'[q] \in {handle[q], "unnamed"},
             handle'[c] \in {"none", "tmp", "unnamed"},
             conv'[c] \in AtWork => \A q \in Conversion : q # c => conv[q] \notin AtWork,
             conv'[c] \in AtWork /\ tmpfile' # Missing => TmpFileOf(c)',
             tmpfile' \in {tmpfile, Missing} \/ conv'[c] \in AtWork
      PROVE  Apart'
  <2>1. \A p, q \in Conversion : conv'[p] \in AtWork /\ conv'[q] \in AtWork => p = q
    BY <1>a DEF Apart
  <2>2. \A q \in Conversion : handle'[q] # "jpg"
    BY <1>a DEF Apart
  <2>3. ASSUME NEW q \in Conversion, conv'[q] \in AtWork, tmpfile' # Missing, q # c
        PROVE  TmpFileOf(q)'
    <3>1. tmpfile' = tmpfile /\ conv[q] \in AtWork
      BY <1>a, <2>3
    <3>2. TmpFileOf(q)
      BY <2>3, <3>1 DEF Apart
    <3>3. handle'[q] = "tmp" => handle[q] = "tmp"
      BY <1>a, <2>3
    <3> QED
      BY <1>a, <2>3, <3>1, <3>2, <3>3 DEF TmpFileOf
  <2> QED
    BY <1>a, <2>1, <2>2, <2>3 DEF Apart, viewers
<1>1. ASSUME NEW c \in Conversion, NEW i \in Image, Convert(c, i) PROVE Apart'
  <2>1. handle[c] \in {"none", "tmp", "unnamed"} /\ conv'[c] = "converted"
    BY <1>0, <1>1 DEF Apart, Convert
  <2> QED
    BY <1>0, <1>1, <1>a, <2>1 DEF Convert, AtWork
<1>2. ASSUME NEW c \in Conversion, OpenTmpFile(c) PROVE Apart'
  <2>1. \A q \in Conversion : conv[q] \notin AtWork
    BY <1>2 DEF OpenTmpFile
  <2>2. /\ jpg' = jpg /\ UNCHANGED viewers /\ tmpfile' = << >>
        /\ conv'[c] = "writing" /\ handle'[c] = "tmp" /\ pieces'[c] = 0 /\ jpeg' = jpeg
        /\ \A q \in Conversion : q # c =>
               conv'[q] = conv[q] /\ pieces'[q] = pieces[q] /\ handle'[q] = handle[q]
    BY <1>0, <1>2 DEF OpenTmpFile
  <2>3. TmpFileOf(c)'
    <3>1. jpeg[c] \in WholeImages
      BY <1>2 DEF OwnState, OpenTmpFile
    <3>2. Len(jpeg[c]) \in Nat
      BY <3>1, WholeIsText
    <3>3. FirstOf(jpeg[c], 0) = << >>
      BY DEF FirstOf
    <3> QED
      BY <2>2, <3>2, <3>3 DEF TmpFileOf
  <2> QED
    BY <1>a, <2>1, <2>2, <2>3 DEF AtWork
<1>3. ASSUME NEW c \in Conversion, WritePiece(c) PROVE Apart'
  <2>1. conv[c] = "writing" /\ conv[c] \in AtWork /\ handle[c] \in {"tmp", "unnamed", "none"}
    BY <1>0, <1>3 DEF WritePiece, Apart, AtWork
  <2>2. /\ jpg' = jpg /\ UNCHANGED <<viewers, conv, jpeg, handle>>
        /\ pieces'[c] = pieces[c] + 1 /\ pieces[c] < Len(jpeg[c])
        /\ \A q \in Conversion : q # c => pieces'[q] = pieces[q]
    BY <1>0, <1>3, <2>1 DEF WritePiece
  <2>3. ASSUME tmpfile' # Missing PROVE TmpFileOf(c)'
    <3>1. CASE handle[c] = "tmp"
      <4>1. tmpfile # Missing
        BY <3>1 DEF OwnState
      <4>2. tmpfile = FirstOf(jpeg[c], pieces[c]) /\ pieces[c] \in 0..Len(jpeg[c])
        BY <2>1, <3>1, <4>1 DEF Apart, TmpFileOf
      <4>3. tmpfile' = FirstOf(jpeg[c], pieces[c] + 1)
        BY <1>3, <1>t, <2>1, <2>2, <3>1, <4>2, WriteNext DEF WritePiece
      <4>4. pieces[c] + 1 \in 0..Len(jpeg[c])
        BY <1>t, <2>1, <2>2, <4>2
      <4> QED
        BY <2>1, <2>2, <4>3, <4>4 DEF TmpFileOf
    <3>2. CASE handle[c] # "tmp"
      <4>1. tmpfile' = tmpfile
        BY <1>3, <3>2 DEF WritePiece
      <4>2. TmpFileOf(c)
        BY <2>1, <2>3, <4>1 DEF Apart
      <4> QED
        BY <2>2, <3>2, <4>1, <4>2 DEF TmpFileOf
    <3> QED BY <3>1, <3>2
  <2>4. \A q \in Conversion : q # c => conv[q] \notin AtWork
    BY <2>1 DEF Apart
  <2> QED
    BY <1>a, <2>1, <2>2, <2>3, <2>4
<1>4. ASSUME NEW c \in Conversion, EndWrite(c) PROVE Apart'
  <2>1. conv[c] = "writing" /\ conv[c] \in AtWork
    BY <1>4 DEF EndWrite, AtWork
  <2>2. /\ jpg' = jpg /\ UNCHANGED <<viewers, jpeg, tmpfile>>
        /\ conv'[c] \in {"closed", "failing"} /\ handle'[c] = "none"
        /\ \A q \in Conversion : q # c =>
               conv'[q] = conv[q] /\ pieces'[q] = pieces[q] /\ handle'[q] = handle[q]
    BY <1>0, <1>4 DEF EndWrite
  <2>3. tmpfile' # Missing => TmpFileOf(c)'
    BY <2>1, <2>2 DEF Apart, TmpFileOf
  <2>4. \A q \in Conversion : q # c => conv[q] \notin AtWork
    BY <2>1 DEF Apart
  <2> QED
    BY <1>a, <2>2, <2>3, <2>4
<1>5. ASSUME NEW c \in Conversion, CannotOpen(c) PROVE Apart'
  <2>1. handle[c] \in {"none", "tmp", "unnamed"} /\ conv'[c] = "failing"
    BY <1>0, <1>5 DEF Apart, CannotOpen
  <2> QED
    BY <1>0, <1>5, <1>a, <2>1 DEF CannotOpen, AtWork
<1>6. ASSUME NEW c \in Conversion, StatTmpFile(c) PROVE Apart'
  <2>1. conv[c] = "closed" /\ conv[c] \in AtWork /\ handle[c] \in {"none", "tmp", "unnamed"}
    BY <1>0, <1>6 DEF StatTmpFile, AtWork, Apart
  <2>2. /\ jpg' = jpg /\ UNCHANGED <<viewers, jpeg, pieces, handle, tmpfile>>
        /\ conv'[c] \in {"sized", "failing"}
        /\ conv'[c] = "sized" => tmpfile # Missing /\ Len(tmpfile) = Len(jpeg[c])
        /\ \A q \in Conversion : q # c => conv'[q] = conv[q]
    BY <1>0, <1>6 DEF StatTmpFile
  <2>3. conv'[c] = "sized" => TmpFileOf(c)'
    <3>1. ASSUME conv'[c] = "sized" PROVE TmpFileOf(c)'
      <4>1. PICK n \in 0..Len(jpeg[c]) : tmpfile = FirstOf(jpeg[c], n)
        BY <2>1, <2>2, <3>1 DEF Apart, TmpFileOf
      <4>2. n = Len(jpeg[c])
        BY <1>t, <2>1, <2>2, <3>1, <4>1, FirstIsText
      <4> QED
        BY <2>2, <3>1, <4>1, <4>2 DEF TmpFileOf
    <3> QED BY <3>1
  <2>4. \A q \in Conversion : q # c => conv[q] \notin AtWork
    BY <2>1 DEF Apart
  <2> QED
    BY <1>a, <2>1, <2>2, <2>3, <2>4 DEF AtWork
<1>7. ASSUME NEW c \in Conversion, ReplaceTmpFile(c) PROVE Apart'
  <2>1. conv[c] = "sized" /\ conv[c] \in AtWork /\ handle[c] = "none"
    BY <1>0, <1>7 DEF ReplaceTmpFile, AtWork, OwnState
  <2>2. CASE tmpfile = Missing
    <3>1. /\ jpg' = jpg /\ UNCHANGED <<viewers, jpeg, pieces, handle, tmpfile>>
          /\ conv'[c] = "failing" /\ \A q \in Conversion : q # c => conv'[q] = conv[q]
      BY <1>0, <1>7, <2>2 DEF ReplaceTmpFile
    <3> QED
      BY <1>a, <2>1, <3>1 DEF AtWork
  <2>3. CASE tmpfile # Missing
    <3>1. tmpfile = jpeg[c] /\ tmpfile \in WholeImages
      BY <1>t, <2>1, <2>3 DEF Apart, TmpFileOf
    <3>2. /\ jpg' = tmpfile /\ tmpfile' = Missing /\ UNCHANGED <<viewer, told, sent>>
          /\ conv'[c] = "idle" /\ \A q \in Conversion : q # c => conv'[q] = conv[q]
          /\ handle' = [q \in Conversion |-> IF handle[q] = "tmp" THEN "jpg"
                                             ELSE IF handle[q] = "jpg" THEN "unnamed"
                                             ELSE handle[q]]
          /\ crossed' = crossed \cup {r \in Viewer : viewer[r] = "measured" /\ tmpfile # jpg}
      BY <1>0, <1>7, <2>3 DEF ReplaceTmpFile
    <3>3. \A q \in Conversion : handle[q] = "none"
      <4>1. ASSUME NEW q \in Conversion, handle[q] # "none" PROVE FALSE
        <5>1. conv[q] = "writing"
          BY <4>1 DEF OwnState
        <5> QED
          BY <2>1, <5>1 DEF Apart, AtWork
      <4> QED BY <4>1
    <3>4. \A q \in Conversion : conv'[q] \notin AtWork /\ handle'[q] = "none"
      BY <2>1, <3>2, <3>3 DEF Apart, AtWork
    <3>5. ASSUME NEW r \in Viewer
          PROVE  /\ viewer'[r] = "measured" /\ r \notin crossed' => told'[r] = Len(jpg')
                 /\ sent'[r] = "cut" => r \in crossed'
      BY <3>2 DEF Apart
    <3> QED
      BY <3>1, <3>2, <3>4, <3>5 DEF Apart
  <2> QED BY <2>2, <2>3
<1>8. ASSUME NEW c \in Conversion, RemoveTmpFile(c) PROVE Apart'
  <2>1. /\ jpg' = jpg /\ UNCHANGED <<viewers, pieces>> /\ tmpfile' \in {tmpfile, Missing}
        /\ conv'[c] = "idle"
        /\ handle'[c] \in {"none", "tmp", "unnamed"}
        /\ \A q \in Conversion : q # c =>
               /\ conv'[q] = conv[q] /\ jpeg'[q] = jpeg[q]
               /\ handle'[q] \in {handle[q], "unnamed"}
    BY <1>0, <1>8 DEF RemoveTmpFile, Apart
  <2> QED
    BY <1>a, <2>1 DEF AtWork
<1>9. ASSUME NEW c \in Conversion, KillConversion(c) PROVE Apart'
  <2>1. /\ jpg' = jpg /\ UNCHANGED <<viewers, tmpfile>>
        /\ conv'[c] = "idle" /\ handle'[c] = "none"
        /\ \A q \in Conversion : q # c =>
               /\ conv'[q] = conv[q] /\ jpeg'[q] = jpeg[q] /\ pieces'[q] = pieces[q]
               /\ handle'[q] = handle[q]
    BY <1>0, <1>9 DEF KillConversion
  <2> QED
    BY <1>a, <2>1 DEF AtWork
<1>10. ASSUME NEW r \in Viewer, ViewerStep(r) PROVE Apart'
  <2>1. UNCHANGED <<jpg, tmpfile, conv, jpeg, pieces, handle>>
    BY <1>10 DEF ViewerStep, LookAt, Measure, SendImage, conversions
  <2>2. ASSUME NEW v \in Viewer
        PROVE  /\ viewer'[v] = "measured" /\ v \notin crossed' => told'[v] = Len(jpg)
               /\ sent'[v] = "cut" => v \in crossed'
    <3>1. CASE LookAt(r)
      BY <1>0, <3>1 DEF LookAt, Apart
    <3>2. CASE Measure(r)
      BY <1>0, <3>2 DEF Measure, Apart, OwnState
    <3>3. CASE SendImage(r)
      <4>1. viewer[r] = "measured" /\ jpg \in WholeImages
        BY <3>3 DEF SendImage, OwnState, Apart
      <4>2. IsWhole(jpg)
        BY <4>1, WholeIsText
      <4> QED
        BY <1>0, <3>3, <4>1, <4>2 DEF SendImage, Apart
    <3> QED BY <1>10, <3>1, <3>2, <3>3 DEF ViewerStep
  <2> QED
    BY <2>1, <2>2 DEF Apart, TmpFileOf
<1>11. CASE UNCHANGED derivativeVars
  BY <1>11 DEF derivativeVars, conversions, viewers, Apart, TmpFileOf
<1> QED
  BY <1>1, <1>2, <1>3, <1>4, <1>5, <1>6, <1>7, <1>8, <1>9, <1>10, <1>11
     DEF DerivativeNext, ConversionStep

(* Openings under another conversion are only ever counted up. *)
LEMMA SharedGrows ==
    ASSUME DerivativeAssumption, DerivativeTypeOK, [DerivativeNext]_derivativeVars,
           shared' = 0
    PROVE  shared = 0
<1>0. shared \in Nat
  BY DEF DerivativeTypeOK, DerivativeAssumption
<1>1. ASSUME NEW c \in Conversion, OpenTmpFile(c) PROVE shared = 0
  BY <1>0, <1>1 DEF OpenTmpFile
<1>2. ASSUME NEW c \in Conversion, NEW i \in Image, Convert(c, i) PROVE shared = 0
  BY <1>2 DEF Convert
<1>3. ASSUME NEW c \in Conversion,
             CannotOpen(c) \/ WritePiece(c) \/ EndWrite(c) \/ StatTmpFile(c)
             \/ ReplaceTmpFile(c) \/ RemoveTmpFile(c) \/ KillConversion(c)
      PROVE  shared = 0
  BY <1>3 DEF CannotOpen, WritePiece, EndWrite, StatTmpFile, ReplaceTmpFile, RemoveTmpFile,
              KillConversion
<1>4. ASSUME NEW r \in Viewer, ViewerStep(r) PROVE shared = 0
  BY <1>4 DEF ViewerStep, LookAt, Measure, SendImage
<1>5. CASE UNCHANGED derivativeVars
  BY <1>5 DEF derivativeVars
<1> QED
  BY <1>1, <1>2, <1>3, <1>4, <1>5 DEF DerivativeNext, ConversionStep

(* A temporary file that is there is somebody's, or was left behind. *)
LEMMA TmpFileStep ==
    ASSUME DerivativeTypeOK, NoTmpFileLeft, [DerivativeNext]_derivativeVars
    PROVE  NoTmpFileLeft'
<1>0. conv \in [Conversion -> {"idle", "converted", "failing", "writing", "closed", "sized"}]
  BY DEF DerivativeTypeOK, AtWork
<1> USE <1>0 DEF NoTmpFileLeft, AtWork
<1>1. ASSUME NEW c \in Conversion, NEW i \in Image, Convert(c, i) PROVE NoTmpFileLeft'
  BY <1>1 DEF Convert
<1>2. ASSUME NEW c \in Conversion, OpenTmpFile(c) PROVE NoTmpFileLeft'
  BY <1>2 DEF OpenTmpFile
<1>3. ASSUME NEW c \in Conversion, CannotOpen(c) \/ WritePiece(c) PROVE NoTmpFileLeft'
  BY <1>3 DEF CannotOpen, WritePiece
<1>4. ASSUME NEW c \in Conversion, EndWrite(c) \/ StatTmpFile(c) PROVE NoTmpFileLeft'
  BY <1>4 DEF EndWrite, StatTmpFile
<1>5. ASSUME NEW c \in Conversion, ReplaceTmpFile(c) \/ RemoveTmpFile(c) PROVE NoTmpFileLeft'
  BY <1>5 DEF ReplaceTmpFile, RemoveTmpFile
<1>6. ASSUME NEW c \in Conversion, KillConversion(c) PROVE NoTmpFileLeft'
  BY <1>6 DEF KillConversion
<1>7. ASSUME NEW r \in Viewer, ViewerStep(r) PROVE NoTmpFileLeft'
  BY <1>7 DEF ViewerStep, LookAt, Measure, SendImage, conversions
<1>8. CASE UNCHANGED derivativeVars
  BY <1>8 DEF derivativeVars, conversions
<1> QED
  BY <1>1, <1>2, <1>3, <1>4, <1>5, <1>6, <1>7, <1>8 DEF DerivativeNext, ConversionStep

(* The invariant holds initially, and every step keeps it. *)
LEMMA DerivInitially ==
    ASSUME DerivativeAssumption, DerivativeInit PROVE DerivInv /\ NoTmpFileLeft
<1>1. DerivativeTypeOK
  <2>1. shared \in 0..MaxShared /\ told \in [Viewer -> Nat] /\ pieces \in [Conversion -> Nat]
    BY DEF DerivativeAssumption, DerivativeInit
  <2>2. /\ jpg \in FileHolds /\ tmpfile \in FileHolds
        /\ jpeg \in [Conversion -> {Whole(i) : i \in Image} \cup {Missing}]
    BY DEF DerivativeInit, FileHolds
  <2>3. /\ conv \in [Conversion -> {"idle", "converted", "failing"} \cup AtWork]
        /\ handle \in [Conversion -> {"none", "tmp", "jpg", "unnamed"}]
        /\ viewer \in [Viewer -> {"idle", "found", "measured"}]
        /\ sent \in [Viewer -> {"nothing", "image", "cut"}]
        /\ abandoned \in BOOLEAN /\ crossed \subseteq Viewer
    BY DEF DerivativeInit
  <2> QED BY <2>1, <2>2, <2>3 DEF DerivativeTypeOK
<1>2. OwnState /\ Apart /\ NoTmpFileLeft
  BY DEF DerivativeInit, OwnState, Apart, NoTmpFileLeft, AtWork
<1> QED
  BY <1>1, <1>2 DEF DerivInv
LEMMA DerivStep ==
    ASSUME DerivativeAssumption, DerivInv, NoTmpFileLeft, [DerivativeNext]_derivativeVars
    PROVE  DerivInv' /\ NoTmpFileLeft'
BY DerivTypesStep, OwnStateStep, SharedGrows, ApartStep, TmpFileStep DEF DerivInv

(* Type correctness of the derivative images. *)
THEOREM DerivativeTypeCorrect ==
    ASSUME DerivativeAssumption PROVE DerivativeSpec => []DerivativeTypeOK
<1>1. DerivInv => DerivativeTypeOK
  BY DEF DerivInv
<1> QED
  BY <1>1, DerivInitially, DerivStep, DerivativeAssumption, PTL DEF DerivativeSpec

(* A reader is sent a whole image, and no temporary file stays behind, but *)
(* for what ImageServed and NoTmpFileLeft except: for any conversions,     *)
(* readers, images and lengths of them, and any failures and kills.        *)
THEOREM DerivativesStayWhole ==
    ASSUME DerivativeAssumption PROVE DerivativeSpec => []DerivativesKept
<1>1. DerivInv /\ NoTmpFileLeft => DerivativesKept
  <2>1. ASSUME DerivInv, NEW r \in Viewer, sent[r] = "cut" PROVE shared > 0 \/ r \in crossed
    <3>1. shared \in Nat
      BY <2>1 DEF DerivInv, DerivativeTypeOK, DerivativeAssumption
    <3>2. shared = 0 => r \in crossed
      BY <2>1 DEF DerivInv, Apart
    <3> QED BY <3>1, <3>2
  <2> QED BY <2>1 DEF DerivativesKept, ImageServed
<1> QED
  BY <1>1, DerivInitially, DerivStep, DerivativeAssumption, PTL DEF DerivativeSpec
=============================================================================
