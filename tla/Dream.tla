------------------------------- MODULE Dream --------------------------------
(***************************************************************************)
(* Memory consolidation: src/memory/cortexdream.ts and cortexdream-lock.ts. *)
(* At the end of a turn a process may start a pass that rewrites the index  *)
(* of the memory directory.  Gates keep passes apart in time, and a lock    *)
(* file keeps processes apart: its body is the holder's process id, its     *)
(* modification time the time of the last pass.                            *)
(*                                                                         *)
(* A pass is a job of Documents with op "dream": its gates and its lock are *)
(* here, what it does to the index there.                                   *)
(***************************************************************************)
EXTENDS Documents

CONSTANTS
  Throttle,  \* throttleMs
  MinGap,    \* minHoursBetweenRuns
  StaleAge,  \* lockStaleMs
  MaxNow     \* bound: the clock

ASSUME DreamAssumption ==
  /\ Throttle \in Nat \ {0} /\ StaleAge \in Nat
  /\ MinGap \in Nat /\ MaxNow \in Nat

VARIABLES
  now,       \* the clock, in the unit the gates tell apart
  attempt,   \* lastGateAttemptMs, per process; 0 before the first
  running,   \* runningFor: the processes with a pass in flight
  lock,      \* the lock file: its process id and its mtime; at = 0 for none
  dream,     \* how far a pass is
  prior,     \* priorMtimeMs of a pass
  life,      \* the life of a process: its pid is <<process, life>>
  lockings,  \* history: how often the lock file was written
  seen,      \* history: lockings when a pass read the lock
  wrote,     \* history: the locking that was its own
  outlived   \* history: the passes that found a lock too old

dreamVars == <<now, attempt, running, lock, dream, prior, life>>
dreamHistory == <<lockings, seen, wrote, outlived>>

Dreams == DOMAIN dream
InGates == {"time", "sessions"}
AtWork == {j \in Dreams : dream[j] = "work"}

Pid(j) == <<ProcessOf[j], life[ProcessOf[j]]>>
\* isPidAlive
Alive(pid) == life[pid[1]] = pid[2]

DreamInit(scene) ==
  \* No lock yet, or the one an earlier life of some process left behind.
  /\ \E p \in Processes, t \in {0, Throttle} :
       /\ t = 0 => p = CHOOSE q \in Processes : TRUE
       /\ lock = [pid |-> <<p, 0>>, at |-> t]
       /\ now = IF t = 0 THEN Throttle ELSE Throttle + MinGap
  /\ attempt = [p \in Processes |-> 0]
  /\ running = {}
  /\ dream = [j \in {j \in Jobs \cap scene : Work[j].op = "dream"} |-> "out"]
  /\ Dreams = {} => now = Throttle /\ lock = [pid |-> lock.pid, at |-> 0]
  /\ prior = [j \in Dreams |-> 0]
  /\ life = [p \in Processes |-> 1]
  /\ lockings = 0
  /\ seen = [j \in Dreams |-> 0]
  /\ wrote = [j \in Dreams |-> 0]
  /\ outlived = {}

\* checkGates up to its first await: not running here, and not tried just now.
Gate(j) ==
  LET p == ProcessOf[j]
  IN /\ dream[j] = "out" /\ phase[j] = "idle"
     /\ IF p \in running \/ now - attempt[p] < Throttle
          THEN /\ dream' = [dream EXCEPT ![j] = "closed"]
               /\ UNCHANGED attempt
          ELSE /\ dream' = [dream EXCEPT ![j] = "time"]
               /\ attempt' = [attempt EXCEPT ![p] = now]
     /\ UNCHANGED <<now, running, lock, prior, life, dreamHistory>>

\* readLastConsolidatedMs and the time gate.
TimeGate(j) ==
  /\ dream[j] = "time"
  /\ dream' = [dream EXCEPT ![j] =
       IF lock.at > 0 /\ now - lock.at < MinGap THEN "closed" ELSE "sessions"]
  /\ UNCHANGED <<now, attempt, running, lock, prior, life, dreamHistory>>

\* Whether enough session files were touched since, which is left open.
CountRecentSessions == BOOLEAN

SessionsGate(j, enough) ==
  /\ dream[j] = "sessions"
  /\ IF enough
       THEN /\ dream' = [dream EXCEPT ![j] = "lock"]
            /\ running' = running \cup {ProcessOf[j]}
       ELSE /\ dream' = [dream EXCEPT ![j] = "closed"]
            /\ UNCHANGED running
  /\ UNCHANGED <<now, attempt, lock, prior, life, dreamHistory>>

\* Mutant: the lock of a live process is reclaimed too.
LockReadAnyway(j) ==
  /\ dream[j] = "lock"
  /\ prior' = [prior EXCEPT ![j] = lock.at]
  /\ seen' = [seen EXCEPT ![j] = lockings]
  /\ dream' = [dream EXCEPT ![j] = "write"]
  /\ UNCHANGED <<now, attempt, running, lock, life, lockings, wrote, outlived>>

\* acquireLock: a fresh lock of a live process is respected...
LockRead(j) ==
  /\ dream[j] = "lock"
  /\ prior' = [prior EXCEPT ![j] = lock.at]
  /\ seen' = [seen EXCEPT ![j] = lockings]
  /\ IF lock.at > 0 /\ now - lock.at <= StaleAge /\ Alive(lock.pid)
       THEN /\ dream' = [dream EXCEPT ![j] = "closed"]
            /\ running' = running \ {ProcessOf[j]}
            /\ UNCHANGED outlived
       ELSE /\ dream' = [dream EXCEPT ![j] = "write"]
            /\ outlived' = IF lock.at > 0 /\ now - lock.at > StaleAge
                           THEN outlived \cup {j} ELSE outlived
            /\ UNCHANGED running
  /\ UNCHANGED <<now, attempt, lock, life, lockings, wrote>>

\* ... any other is overwritten ...
LockWrite(j) ==
  /\ dream[j] = "write"
  /\ lock' = [pid |-> Pid(j), at |-> now]
  /\ dream' = [dream EXCEPT ![j] = "confirm"]
  /\ lockings' = lockings + 1
  /\ wrote' = [wrote EXCEPT ![j] = lockings']
  /\ UNCHANGED <<now, attempt, running, prior, life, seen, outlived>>

\* ... and read again.
LockConfirm(j) ==
  /\ dream[j] = "confirm"
  /\ IF lock.pid = Pid(j)
       THEN /\ dream' = [dream EXCEPT ![j] = "work"]
            /\ UNCHANGED running
       ELSE /\ dream' = [dream EXCEPT ![j] = "closed"]
            /\ running' = running \ {ProcessOf[j]}
  /\ UNCHANGED <<now, attempt, lock, prior, life, dreamHistory>>

\* runConsolidator reads the index, if there is one.
DreamRead(j) ==
  /\ dream[j] = "work" /\ phase[j] = "idle"
  /\ TakesIn(j)
  /\ UNCHANGED <<disk, saves, ready, expired, faults, log, crowded>>

\* releaseLock: the time of this pass, or of the one before if this one failed.
Released(j) ==
  [lock EXCEPT !.at =
     IF phase[j] = "done" THEN now ELSE IF prior[j] > 0 THEN prior[j] ELSE @]

Release(j) ==
  /\ dream[j] = "work" /\ phase[j] \in {"done", "failed"}
  /\ lock' = Released(j)
  /\ running' = running \ {ProcessOf[j]}
  /\ dream' = [dream EXCEPT ![j] = "over"]
  /\ UNCHANGED <<now, attempt, prior, life, dreamHistory>>

\* Time passes as long as a pass may start or end; the gates take less than
\* the throttle time.
Tick ==
  /\ now < MaxNow
  /\ \E j \in Dreams : dream[j] \notin {"closed", "over", "dead"}
  /\ \A j \in Dreams : dream[j] \notin InGates
  /\ now' = now + 1
  /\ UNCHANGED <<attempt, running, lock, dream, prior, life, dreamHistory>>

CrashDream(p) ==
  /\ life' = [life EXCEPT ![p] = @ + 1]
  /\ attempt' = [attempt EXCEPT ![p] = 0]
  /\ running' = running \ {p}
  /\ dream' = [j \in Dreams |->
       IF ProcessOf[j] = p /\ dream[j] \notin {"out", "closed", "over"}
       THEN "dead" ELSE dream[j]]
  /\ UNCHANGED <<now, lock, prior, dreamHistory>>

GateStep(j) ==
  \/ Gate(j) \/ TimeGate(j) \/ LockRead(j) \/ LockWrite(j) \/ LockConfirm(j)
  \/ Release(j)
  \/ \E enough \in CountRecentSessions : SessionsGate(j, enough)

-----------------------------------------------------------------------------
\* One pass at a time.  Two are at work together only in two processes, and
\* only when a pass, the second or one that took the lock between the two, had
\* read the lock before the first wrote it (writing and reading it again does
\* not exclude that) or had found it older than the time after which a lock is
\* stale.
OneDreamer ==
  \A j, k \in AtWork :
    j # k =>
      /\ ProcessOf[j] # ProcessOf[k]
      /\ wrote[j] < wrote[k] =>
           \E m \in Dreams : /\ wrote[m] \in wrote[j] + 1 .. wrote[k]
                             /\ seen[m] < wrote[j] \/ m \in outlived
=============================================================================
