------------------------------ MODULE SftpSlots ------------------------------
(***************************************************************************)
(* The cap on SSH sessions with the SFTP host of Archivematica             *)
(* (lib/archivematica_ops.py:78-228): SFTP_MAX_SESSIONS lock files, each   *)
(* locked with flock by one session at most, for all the workers of the    *)
(* host.  A caller scans them in order, naps and scans again until its     *)
(* deadline; it holds its lock while it connects, waits to connect again   *)
(* and has a session, and until its client is closed or its worker dies.   *)
(***************************************************************************)
EXTENDS Naturals, FiniteSets

CONSTANTS
    Caller,           \* calls of _open_sftp, with what is done in the session
    Worker,           \* gunicorn workers
    worker,           \* the worker of each caller
    Sessions,         \* SFTP_MAX_SESSIONS
    MaxConnects,      \* SFTP_CONNECT_ATTEMPTS
    Free,             \* nobody has the lock
    MaxWorkersKilled  \* bound on workers killed

ASSUME SlotsAssumption ==
    /\ worker \in [Caller -> Worker]
    /\ Sessions \in Nat \ {0} /\ MaxConnects \in Nat \ {0} /\ MaxWorkersKilled \in Nat
    /\ Free \notin Worker

Slot == 1..Sessions

VARIABLES
    flock,        \* the worker whose open file has each slot's lock
    at,           \* where each caller is
    next,         \* the slot it tries next, or its slot_fd
    late,         \* callers whose deadline has passed
    connects,     \* its attempts to connect
    lost,         \* history: locks whose client will never be closed
    workersKilled

slotVars == <<flock, at, next, late, connects, lost, workersKilled>>

Waiting == {"scan", "nap"}
Holding == {"connect", "backoff", "session"}

SlotsInit ==
    /\ flock = [s \in Slot |-> Free]
    /\ at = [c \in Caller |-> "idle"]
    /\ next = [c \in Caller |-> 1]
    /\ late = {}
    /\ connects = [c \in Caller |-> 0]
    /\ lost = {}
    /\ workersKilled = 0

Moves(c, l) == at' = [at EXCEPT ![c] = l]

(* The call returns or raises, and its local variables are gone.           *)
Leaves(c) ==
    /\ Moves(c, "idle")
    /\ next' = [next EXCEPT ![c] = 1]
    /\ connects' = [connects EXCEPT ![c] = 0]
    /\ late' = late \ {c}

-----------------------------------------------------------------------------
(* _acquire_global_slot.                                                   *)
Acquire(c) ==
    /\ at[c] = "idle"
    /\ Moves(c, "scan")
    /\ UNCHANGED <<flock, next, late, connects, lost, workersKilled>>

TakeSlot(c) ==
    /\ at[c] = "scan" /\ next[c] \in Slot /\ flock[next[c]] = Free
    /\ flock' = [flock EXCEPT ![next[c]] = worker[c]]
    /\ connects' = [connects EXCEPT ![c] = 1]
    /\ Moves(c, "connect")
    /\ late' = late \ {c}
    /\ UNCHANGED <<next, lost, workersKilled>>
SkipSlot(c) ==
    /\ at[c] = "scan" /\ next[c] \in Slot /\ flock[next[c]] # Free
    /\ next' = [next EXCEPT ![c] = @ + 1]
    /\ UNCHANGED <<flock, at, late, connects, lost, workersKilled>>

(* All were taken when it looked: the call fails once it is late.          *)
Exhausted(c) ==
    /\ at[c] = "scan" /\ next[c] \notin Slot
    /\ IF c \in late THEN Leaves(c)
       ELSE /\ Moves(c, "nap")
            /\ next' = [next EXCEPT ![c] = 1]
            /\ UNCHANGED <<late, connects>>
    /\ UNCHANGED <<flock, lost, workersKilled>>

(* Mutant: every nap starts the ten minutes anew.                          *)
WakesAnew(c) ==
    /\ at[c] = "nap"
    /\ Moves(c, "scan")
    /\ late' = late \ {c}
    /\ UNCHANGED <<flock, next, connects, lost, workersKilled>>

Wakes(c) ==
    /\ at[c] = "nap"
    /\ Moves(c, "scan")
    /\ UNCHANGED <<flock, next, late, connects, lost, workersKilled>>

(* Its deadline passes.                                                    *)
Deadline(c) ==
    /\ at[c] \in Waiting /\ c \notin late
    /\ late' = late \cup {c}
    /\ UNCHANGED <<flock, at, next, connects, lost, workersKilled>>

(* _open_sftp_unslotted.                                                   *)
Connects(c) ==
    /\ at[c] = "connect"
    /\ Moves(c, "session")
    /\ UNCHANGED <<flock, next, late, connects, lost, workersKilled>>

(* Mutant: the lock is kept when the last attempt has failed.              *)
ConnectFailsHolding(c) ==
    /\ at[c] = "connect"
    /\ IF connects[c] < MaxConnects THEN Moves(c, "backoff") /\ UNCHANGED <<next, late, connects>>
       ELSE Leaves(c)
    /\ UNCHANGED <<flock, lost, workersKilled>>

ConnectFails(c) ==
    /\ at[c] = "connect"
    /\ IF connects[c] < MaxConnects
       THEN Moves(c, "backoff") /\ UNCHANGED <<flock, next, late, connects>>
       ELSE Leaves(c) /\ flock' = [flock EXCEPT ![next[c]] = Free]
    /\ UNCHANGED <<lost, workersKilled>>
ConnectAgain(c) ==
    /\ at[c] = "backoff"
    /\ connects' = [connects EXCEPT ![c] = @ + 1]
    /\ Moves(c, "connect")
    /\ UNCHANGED <<flock, next, late, lost, workersKilled>>

(* close_and_release, whether the client's close succeeds or raises.       *)
Close(c) ==
    /\ at[c] = "session"
    /\ flock' = [flock EXCEPT ![next[c]] = Free]
    /\ Leaves(c)
    /\ UNCHANGED <<lost, workersKilled>>

(* sftp.close() raises, and client.close() after it is never reached.      *)
SftpCloseRaises(c) ==
    /\ at[c] = "session"
    /\ lost' = lost \cup {next[c]}
    /\ Leaves(c)
    /\ UNCHANGED <<flock, workersKilled>>

(* A worker dies; the kernel drops the locks of its files.                 *)
KillWorker(w) ==
    /\ workersKilled < MaxWorkersKilled
    /\ workersKilled' = workersKilled + 1
    /\ flock' = [s \in Slot |-> IF flock[s] = w THEN Free ELSE flock[s]]
    /\ lost' = {s \in lost : flock[s] # w}
    /\ at' = [c \in Caller |-> IF worker[c] = w THEN "idle" ELSE at[c]]
    /\ next' = [c \in Caller |-> IF worker[c] = w THEN 1 ELSE next[c]]
    /\ connects' = [c \in Caller |-> IF worker[c] = w THEN 0 ELSE connects[c]]
    /\ late' = {c \in late : worker[c] # w}

SlotWait(c) == TakeSlot(c) \/ SkipSlot(c) \/ Exhausted(c) \/ Wakes(c)
SlotsNext ==
    \/ \E c \in Caller :
          \/ Acquire(c) \/ SlotWait(c) \/ Deadline(c)
          \/ Connects(c) \/ ConnectFails(c) \/ ConnectAgain(c) \/ Close(c) \/ SftpCloseRaises(c)
    \/ \E w \in Worker : KillWorker(w)
SlotsFairness == \A c \in Caller : WF_slotVars(SlotWait(c)) /\ WF_slotVars(Deadline(c))
SlotsSpec == SlotsInit /\ [][SlotsNext]_slotVars /\ SlotsFairness

-----------------------------------------------------------------------------
(* The types of all variables.                                             *)
SlotsTypeOK ==
    /\ flock \in [Slot -> Worker \cup {Free}]
    /\ at \in [Caller -> {"idle"} \cup Waiting \cup Holding]
    /\ next \in [Caller -> 1..(Sessions + 1)]
    /\ late \subseteq Caller
    /\ connects \in [Caller -> 0..MaxConnects]
    /\ lost \subseteq Slot
    /\ workersKilled \in 0..MaxWorkersKilled

(* A session, and a caller on its way to one, has a lock of its own; and a *)
(* lock that is taken has such a caller, in the worker that holds it, or   *)
(* was lost with a session whose sftp.close() raised.  So at most          *)
(* SFTP_MAX_SESSIONS are open, through every failure to connect, every     *)
(* retry and every death of a worker (:92-97, :149-153).                   *)
SlotHasLiveHolder ==
    /\ \A c \in Caller : at[c] \in Holding =>
          /\ next[c] \in Slot /\ flock[next[c]] = worker[c] /\ next[c] \notin lost
          /\ \A q \in Caller \ {c} : at[q] \in Holding => next[q] # next[c]
    /\ \A s \in Slot : flock[s] # Free =>
          \/ s \in lost
          \/ \E c \in Caller : at[c] \in Holding /\ next[c] = s /\ flock[s] = worker[c]

(* A caller gets a slot or is refused one: with every lock lost it still   *)
(* does not wait for ever (:130-142).                                      *)
SlotWaitEnds == \A c \in Caller : at[c] \in Waiting ~> at[c] \notin Waiting

(* Violated: "slots cannot leak" (:95-97, :165-169).                       *)
SlotsCannotLeak == lost = {}
=============================================================================
