----------------------------- MODULE ToolsProofs -----------------------------
(***************************************************************************)
(* Theorems about the tools side by side, for any jobs, calls, errands and *)
(* requests, any number of processes and of crashes: the passes of memory  *)
(* consolidation, the previews of the bulk tools and what becomes of their *)
(* items, the way of a tool call to its answer, the todo lists, the        *)
(* documents that are kept whole, the saves that land, and the searches.   *)
(***************************************************************************)
EXTENDS Tools, FiniteSetTheorems, SequenceTheorems, FilterTheorems

-----------------------------------------------------------------------------
(* Memory consolidation. *)

Stages == {"out", "closed", "time", "sessions", "lock", "write", "confirm", "work", "over",
           "dead"}
Holding == {"lock", "write", "confirm", "work"}  \* in flight: past the gates
Owning == {"confirm", "work"}                    \* it has written the lock

DreamType ==
  /\ Dreams \subseteq Jobs
  /\ dream \in [Dreams -> Stages]
  /\ now \in Nat \ {0}
  /\ attempt \in [Processes -> Nat] /\ life \in [Processes -> Nat]
  /\ running \subseteq Processes
  /\ lock \in [pid : Processes \X Nat, at : Nat]
  /\ prior \in [Dreams -> Nat] /\ seen \in [Dreams -> Nat] /\ wrote \in [Dreams -> Nat]
  /\ lockings \in Nat

\* One pass per process: who is in the gates has tried just now, which closes
\* them for any other, and who is past them is in flight.
OnePerProcess ==
  /\ \A j \in Dreams : dream[j] \in InGates =>
       attempt[ProcessOf[j]] = now /\ ProcessOf[j] \notin running
  /\ \A j \in Dreams : dream[j] \in Holding => ProcessOf[j] \in running
  /\ \A j, k \in Dreams :
       dream[j] \in InGates \cup Holding /\ dream[k] \in InGates \cup Holding /\ j # k
         => ProcessOf[j] # ProcessOf[k]

\* A pass took the lock right after j did, though j had it.
TakenFrom(j) ==
  \E m \in Dreams : wrote[m] = wrote[j] + 1 /\ (seen[m] < wrote[j] \/ m \in outlived)

\* The lock file tells whose it is until somebody takes it from a pass, and
\* who is about to had read it too early or found it too old.
LockTells ==
  /\ lockings > 0 => lock.at > 0
  /\ \A j \in Dreams : seen[j] <= lockings /\ wrote[j] <= lockings
  /\ \A j \in Dreams : dream[j] \in {"out", "time", "sessions", "lock", "write"} => wrote[j] = 0
  /\ \A j \in Dreams : dream[j] \in Owning =>
       /\ wrote[j] > 0
       /\ wrote[j] = lockings =>
            /\ lock.pid = Pid(j)
            /\ \A m \in Dreams : dream[m] = "write" /\ seen[m] = lockings => m \in outlived
       /\ wrote[j] < lockings => TakenFrom(j)

DreamInv == DreamType /\ OnePerProcess /\ LockTells

\* What a step of the tools is for the passes.
LEMMA DreamSteps ==
  ASSUME Next \/ UNCHANGED allVars
  PROVE  \/ UNCHANGED <<dreamVars, dreamHistory>>
         \/ \E j \in Dreams : GateStep(j)
         \/ Tick
         \/ \E p \in Engaged : CrashDream(p)
  <1>1. CASE UNCHANGED allVars
    BY <1>1 DEF allVars, fileVars
  <1>2. CASE Next
    <2>1. CASE OnFiles
      <3>1. ASSUME NEW j \in Present, Job(j) PROVE UNCHANGED <<dreamVars, dreamHistory>>
        BY <3>1 DEF Job
      <3>2. ASSUME NEW c \in Called, Bulk(c) PROVE UNCHANGED <<dreamVars, dreamHistory>>
        BY <3>2 DEF Bulk
      <3>3. ASSUME NEW j \in Dreams, Consolidate(j)
            PROVE  GateStep(j) \/ UNCHANGED <<dreamVars, dreamHistory>>
        BY <3>3 DEF Consolidate
      <3>4. Passes => Tick \/ UNCHANGED <<dreamVars, dreamHistory>>
        BY DEF Passes
      <3>5. QED
        BY <2>1, <3>1, <3>2, <3>3, <3>4 DEF OnFiles
    <2>2. (\E l \in Asking : LookupStep(l) /\ UNCHANGED <<fileVars, deskAll, dispatchVars>>)
          \/ AtDesk \/ Requesting => UNCHANGED <<dreamVars, dreamHistory>>
      BY DEF AtDesk, Requesting, fileVars
    <2>3. ASSUME NEW p \in Engaged, Crash(p) PROVE CrashDream(p)
      BY <2>3 DEF Crash
    <2>4. QED
      BY <1>2, <2>1, <2>2, <2>3 DEF Next
  <1>3. QED
    BY <1>1, <1>2


LEMMA DreamStart ==
  ASSUME Init
  PROVE  DreamInv
  <1>1. PICK scene \in Scenes : DreamInit(scene[1])
    BY DEF Init
  <1>2. Throttle \in Nat \ {0} /\ Throttle + MinGap \in Nat \ {0}
    BY DreamAssumption
  <1>3. now \in Nat \ {0} /\ lock \in [pid : Processes \X Nat, at : Nat]
    <2>1. PICK p \in Processes, t \in {0, Throttle} :
            /\ lock = [pid |-> <<p, 0>>, at |-> t]
            /\ now = IF t = 0 THEN Throttle ELSE Throttle + MinGap
      BY <1>1 DEF DreamInit
    <2>2. t \in Nat
      BY <1>2, <2>1
    <2>3. QED
      BY <1>2, <2>1, <2>2
  <1>4. DreamType
    BY <1>1, <1>3 DEF DreamInit, DreamType, Dreams, Stages
  <1>5. \A j \in Dreams : dream[j] = "out" /\ wrote[j] = 0 /\ seen[j] = 0
    BY <1>1 DEF DreamInit, Dreams
  <1>6. OnePerProcess
    BY <1>5 DEF OnePerProcess, InGates, Holding
  <1>7. lockings = 0
    BY <1>1 DEF DreamInit
  <1>8. LockTells
    BY <1>5, <1>7 DEF LockTells, Owning
  <1>9. QED
    BY <1>4, <1>6, <1>8 DEF DreamInv

\* A step through the gates: the lock and what was written stay.
LEMMA GatesKeep ==
  ASSUME DreamInv, NEW j \in Dreams,
         Gate(j) \/ TimeGate(j) \/ \E enough \in BOOLEAN : SessionsGate(j, enough)
  PROVE  DreamInv'
  <1>1. DreamType /\ OnePerProcess /\ LockTells /\ ProcessOf \in [Jobs -> Processes]
    BY DocumentsAssumption DEF DreamInv
  <1>2. /\ UNCHANGED <<now, lock, prior, life, lockings, seen, wrote, outlived>>
        /\ DOMAIN dream = Dreams /\ ProcessOf[j] \in Processes
        /\ dream[j] \in {"out", "time", "sessions"}
    BY <1>1 DEF Gate, TimeGate, SessionsGate, dreamHistory, DreamType
  <1>3. dream' \in [Dreams -> Stages] /\ Dreams' = Dreams
        /\ dream'[j] \in {"closed", "time", "sessions", "lock"}
        /\ \A k \in Dreams \ {j} : dream'[k] = dream[k]
    BY <1>1 DEF Gate, TimeGate, SessionsGate, DreamType, Stages, Dreams
  <1>4. attempt' \in [Processes -> Nat] /\ running' \subseteq Processes
    BY <1>1, <1>2 DEF Gate, TimeGate, SessionsGate, DreamType
  <1>5. DreamType'
    BY <1>1, <1>2, <1>3, <1>4 DEF DreamType
  <1>6. OnePerProcess'
    <2>1. CASE Gate(j)
      <3>1. CASE dream'[j] = "closed"
        <4>1. UNCHANGED <<attempt, running>>
          BY <2>1, <3>1, <1>1 DEF Gate, DreamType
        <4>2. QED
          BY <1>1, <1>2, <1>3, <3>1, <4>1 DEF OnePerProcess, InGates, Holding
      <3>2. CASE dream'[j] # "closed"
        <4>1. /\ ProcessOf[j] \notin running /\ ~(now - attempt[ProcessOf[j]] < Throttle)
              /\ dream'[j] = "time" /\ running' = running
              /\ attempt' = [attempt EXCEPT ![ProcessOf[j]] = now]
          BY <2>1, <3>2, <1>1 DEF Gate, DreamType
        <4>2. attempt[ProcessOf[j]] # now
          BY <4>1, <1>1, <1>2, DreamAssumption DEF DreamType
        <4>3. \A k \in Dreams \ {j} : dream[k] \in InGates \cup Holding => ProcessOf[k] # ProcessOf[j]
          BY <1>1, <4>1, <4>2 DEF OnePerProcess
        <4>4. attempt'[ProcessOf[j]] = now
              /\ \A p \in Processes \ {ProcessOf[j]} : attempt'[p] = attempt[p]
          BY <1>1, <1>2, <4>1 DEF DreamType
        <4>5. \A k \in Dreams : ProcessOf[k] \in Processes
          BY <1>1 DEF DreamType
        <4>6. QED
          BY <1>1, <1>2, <1>3, <4>1, <4>3, <4>4, <4>5 DEF OnePerProcess, InGates, Holding
      <3>3. QED
        BY <3>1, <3>2
    <2>2. CASE TimeGate(j)
      <3>1. UNCHANGED <<attempt, running>> /\ dream[j] = "time" /\ dream'[j] \in {"closed", "sessions"}
        BY <2>2, <1>1 DEF TimeGate, DreamType
      <3>2. QED
        BY <1>1, <1>2, <1>3, <3>1 DEF OnePerProcess, InGates, Holding
    <2>3. CASE \E enough \in BOOLEAN : SessionsGate(j, enough)
      <3>1. /\ UNCHANGED attempt /\ dream[j] = "sessions"
            /\ \/ dream'[j] = "lock" /\ running' = running \cup {ProcessOf[j]}
               \/ dream'[j] = "closed" /\ running' = running
        BY <2>3, <1>1 DEF SessionsGate, DreamType
      <3>2. QED
        BY <1>1, <1>2, <1>3, <3>1 DEF OnePerProcess, InGates, Holding
    <2>4. QED
      BY <2>1, <2>2, <2>3
  <1>7. LockTells'
    <2>1. \A k \in Dreams : Pid(k)' = Pid(k) /\ (TakenFrom(k) => TakenFrom(k)')
      BY <1>2, <1>3 DEF Pid, TakenFrom
    <2>2. \A k \in Dreams : dream'[k] \in Owning \cup {"write"} => dream'[k] = dream[k]
      BY <1>3 DEF Owning
    <2>3. QED
      BY <1>1, <1>2, <1>3, <2>1, <2>2 DEF LockTells, Owning
  <1>8. QED
    BY <1>5, <1>6, <1>7 DEF DreamInv


\* Reading the lock.  If its owner has it still, whoever passes found it old.
LEMMA LockReadKeeps ==
  ASSUME DreamInv, NEW j \in Dreams, LockRead(j)
  PROVE  DreamInv'
  <1>1. DreamType /\ OnePerProcess /\ LockTells
    BY DEF DreamInv
  <1>2. /\ UNCHANGED <<now, attempt, lock, life, lockings, wrote>>
        /\ dream[j] = "lock" /\ wrote[j] = 0
    BY <1>1 DEF LockRead, LockTells
  <1>3. dream' \in [Dreams -> Stages] /\ Dreams' = Dreams
        /\ dream'[j] \in {"closed", "write"}
        /\ \A k \in Dreams \ {j} : dream'[k] = dream[k]
    BY <1>1 DEF LockRead, DreamType, Stages, Dreams
  <1>4. seen' \in [Dreams -> Nat] /\ prior' \in [Dreams -> Nat] /\ seen'[j] = lockings
        /\ \A k \in Dreams \ {j} : seen'[k] = seen[k]
    BY <1>1 DEF LockRead, DreamType
  <1>5. running' \subseteq running /\ outlived \subseteq outlived'
        /\ (dream'[j] = "write" => running' = running)
        /\ (dream'[j] = "closed" => running' = running \ {ProcessOf[j]})
    BY <1>1 DEF LockRead, DreamType
  <1>6. DreamType'
    BY <1>1, <1>2, <1>3, <1>4, <1>5 DEF DreamType
  <1>7. OnePerProcess'
    <2>1. \A k \in Dreams \ {j} : dream[k] \in Holding => ProcessOf[k] \in running'
      BY <1>1, <1>2, <1>3, <1>5 DEF OnePerProcess, Holding
    <2>2. \A k \in Dreams : dream'[k] \in InGates \cup Holding =>
            dream[k] \in InGates \cup Holding /\ (dream'[k] \in InGates => dream[k] \in InGates)
      BY <1>2, <1>3 DEF InGates, Holding
    <2>3. dream'[j] \in Holding => ProcessOf[j] \in running'
      BY <1>1, <1>2, <1>3, <1>5 DEF OnePerProcess, Holding
    <2>4. QED
      BY <1>1, <1>2, <1>3, <1>5, <2>1, <2>2, <2>3 DEF OnePerProcess
  <1>8. LockTells'
    <2>1. \A k \in Dreams : dream[k] \in Owning => Pid(k)' = Pid(k) /\ (TakenFrom(k) => TakenFrom(k)')
      <3>1. \A m \in Dreams : wrote[m] > 0 => m # j
        BY <1>1, <1>2 DEF DreamType
      <3>2. ASSUME NEW k \in Dreams, dream[k] \in Owning, TakenFrom(k) PROVE TakenFrom(k)'
        <4>1. wrote[k] > 0
          BY <1>1, <3>2 DEF LockTells
        <4>2. PICK m \in Dreams : wrote[m] = wrote[k] + 1 /\ (seen[m] < wrote[k] \/ m \in outlived)
          BY <3>2 DEF TakenFrom
        <4>3. m # j
          BY <1>1, <3>1, <4>1, <4>2 DEF DreamType
        <4>4. QED
          BY <1>2, <1>3, <1>4, <1>5, <4>2, <4>3 DEF TakenFrom
      <3>3. QED
        BY <1>2, <3>2 DEF Pid
    <2>2. \A k \in Dreams : dream'[k] \in Owning => dream[k] \in Owning /\ k # j
      BY <1>3 DEF Owning
    <2>3. ASSUME NEW k \in Dreams, dream[k] \in Owning, wrote[k] = lockings, dream'[j] = "write"
          PROVE  j \in outlived'
      <3>1. lock.pid = Pid(k) /\ lock.at > 0
        BY <1>1, <2>3 DEF LockTells, DreamType
      <3>2. Alive(lock.pid)
        BY <3>1 DEF Alive, Pid
      <3>3. now \in Nat /\ lock.at \in Nat
        BY <1>1 DEF DreamType
      <3>4. now - lock.at > StaleAge
        <4>1. ~(lock.at > 0 /\ now - lock.at <= StaleAge /\ Alive(lock.pid))
          BY <2>3, <1>1 DEF LockRead, DreamType
        <4>2. QED
          BY <3>1, <3>2, <3>3, <4>1, DreamAssumption
      <3>5. QED
        BY <2>3, <3>1, <3>2, <3>4, <1>1 DEF LockRead, DreamType
    <2>4. \A k \in Dreams : dream'[k] \in {"out", "time", "sessions", "lock", "write"} =>
            dream[k] \in {"out", "time", "sessions", "lock", "write"}
      BY <1>2, <1>3
    <2>5. ASSUME NEW k \in Dreams, dream'[k] \in Owning, wrote[k] = lockings,
                 NEW m \in Dreams, dream'[m] = "write", seen'[m] = lockings
          PROVE  m \in outlived'
      <3>1. CASE m = j
        BY <2>2, <2>3, <2>5, <3>1
      <3>2. CASE m # j
        BY <1>1, <1>3, <1>4, <1>5, <2>2, <2>5, <3>2 DEF LockTells
      <3>3. QED
        BY <3>1, <3>2
    <2>6. \A k \in Dreams : seen'[k] <= lockings
      BY <1>1, <1>4 DEF LockTells, DreamType
    <2>7. \A k \in Dreams : dream'[k] \in Owning =>
             /\ wrote[k] > 0
             /\ wrote[k] = lockings => lock.pid = Pid(k)'
             /\ wrote[k] < lockings => TakenFrom(k)'
      BY <1>1, <2>1, <2>2 DEF LockTells
    <2>8. QED
      BY <1>1, <1>2, <1>3, <2>4, <2>5, <2>6, <2>7 DEF LockTells
  <1>9. QED
    BY <1>6, <1>7, <1>8 DEF DreamInv

\* Writing the lock: j is its owner now, and has taken it from who was.
LEMMA LockWriteKeeps ==
  ASSUME DreamInv, NEW j \in Dreams, LockWrite(j)
  PROVE  DreamInv'
  <1>1. DreamType /\ OnePerProcess /\ LockTells
    BY DEF DreamInv
  <1>2. /\ UNCHANGED <<now, attempt, running, prior, life, seen, outlived>>
        /\ dream[j] = "write" /\ wrote[j] = 0 /\ lockings' = lockings + 1
        /\ lock' = [pid |-> Pid(j), at |-> now]
    BY <1>1 DEF LockWrite, LockTells
  <1>3. dream' \in [Dreams -> Stages] /\ Dreams' = Dreams /\ dream'[j] = "confirm"
        /\ \A k \in Dreams \ {j} : dream'[k] = dream[k]
    BY <1>1 DEF LockWrite, DreamType, Stages, Dreams
  <1>4. lockings' \in Nat /\ lockings \in Nat
    BY <1>1, <1>2 DEF DreamType
  <1>5. wrote' \in [Dreams -> Nat] /\ wrote'[j] = lockings + 1
        /\ \A k \in Dreams \ {j} : wrote'[k] = wrote[k]
    BY <1>1, <1>2, <1>4 DEF LockWrite, DreamType
  <1>6. Pid(j) \in Processes \X Nat
    BY <1>1, DocumentsAssumption DEF Pid, DreamType
  <1>7. DreamType'
    BY <1>1, <1>2, <1>3, <1>4, <1>5, <1>6 DEF DreamType
  <1>8. OnePerProcess'
    <2>1. \A k \in Dreams : /\ dream'[k] \in InGates => dream[k] \in InGates
                            /\ dream'[k] \in Holding => dream[k] \in Holding
      BY <1>2, <1>3 DEF InGates, Holding
    <2>2. /\ \A k \in Dreams : dream'[k] \in InGates =>
               attempt'[ProcessOf[k]] = now' /\ ProcessOf[k] \notin running'
          /\ \A k \in Dreams : dream'[k] \in Holding => ProcessOf[k] \in running'
      BY <1>1, <1>2, <2>1 DEF OnePerProcess
    <2>3. \A k, l \in Dreams :
            dream'[k] \in InGates \cup Holding /\ dream'[l] \in InGates \cup Holding /\ k # l
              => ProcessOf[k] # ProcessOf[l]
      BY <1>1, <2>1 DEF OnePerProcess
    <2>4. QED
      BY <1>3, <2>2, <2>3 DEF OnePerProcess
  <1>9. LockTells'
    <2>1. \A k \in Dreams : wrote[k] \in Nat /\ seen[k] \in Nat
                            /\ wrote[k] <= lockings /\ seen[k] <= lockings
      BY <1>1 DEF LockTells, DreamType
    <2>2. lock'.at > 0
      BY <1>1, <1>2 DEF DreamType
    <2>3. \A k \in Dreams : seen'[k] <= lockings' /\ wrote'[k] <= lockings'
      BY <1>2, <1>4, <1>5, <2>1
    <2>4. \A k \in Dreams : dream'[k] \in {"out", "time", "sessions", "lock", "write"} =>
            wrote'[k] = 0
      BY <1>1, <1>3, <1>5 DEF LockTells
    <2>5. /\ wrote'[j] > 0 /\ wrote'[j] = lockings' /\ lock'.pid = Pid(j)'
          /\ \A m \in Dreams : ~(seen'[m] = lockings')
      <3>1. \A m \in Dreams : ~(seen[m] = lockings + 1)
        BY <1>4, <2>1
      <3>2. QED
        BY <1>2, <1>4, <1>5, <3>1 DEF Pid
    <2>6. ASSUME NEW k \in Dreams, dream'[k] \in Owning, k # j
          PROVE  wrote'[k] > 0 /\ wrote'[k] < lockings' /\ TakenFrom(k)'
      <3>1. dream[k] \in Owning /\ wrote'[k] = wrote[k]
        BY <1>3, <1>5, <2>6
      <3>2. wrote[k] > 0
        BY <1>1, <3>1 DEF LockTells
      <3>3. CASE wrote[k] = lockings
        <4>1. seen[j] = lockings => j \in outlived
          BY <1>1, <1>2, <3>1, <3>3 DEF LockTells
        <4>2. seen[j] < wrote[k] \/ j \in outlived
          BY <1>4, <2>1, <3>3, <4>1
        <4>3. QED
          BY <1>2, <1>3, <1>4, <1>5, <3>1, <3>2, <3>3, <4>2 DEF TakenFrom
      <3>4. CASE wrote[k] < lockings
        <4>1. PICK m \in Dreams : wrote[m] = wrote[k] + 1 /\ (seen[m] < wrote[k] \/ m \in outlived)
          BY <1>1, <3>1, <3>4 DEF LockTells, TakenFrom
        <4>2. m # j
          BY <1>2, <2>1, <4>1
        <4>3. TakenFrom(k)'
          BY <1>2, <1>3, <1>5, <3>1, <4>1, <4>2 DEF TakenFrom
        <4>4. QED
          BY <1>2, <1>4, <2>1, <3>1, <3>2, <3>4, <4>3
      <3>5. QED
        BY <1>4, <2>1, <3>3, <3>4
    <2>7. QED
      BY <1>3, <1>4, <2>2, <2>3, <2>4, <2>5, <2>6 DEF LockTells
  <1>10. QED
    BY <1>7, <1>8, <1>9 DEF DreamInv


\* Confirming, releasing and dying take a pass out of flight or let it go on;
\* the lock keeps its owner.
LEMMA PassKeeps ==
  ASSUME DreamInv, NEW j \in Dreams, LockConfirm(j) \/ Release(j)
  PROVE  DreamInv'
  <1>1. DreamType /\ OnePerProcess /\ LockTells
    BY DEF DreamInv
  <1>2. /\ UNCHANGED <<now, attempt, prior, life, lockings, seen, wrote, outlived>>
        /\ dream[j] \in Owning
    BY DEF LockConfirm, Release, Owning, dreamHistory
  <1>3. dream' \in [Dreams -> Stages] /\ Dreams' = Dreams
        /\ dream'[j] \in {"work", "closed", "over"}
        /\ \A k \in Dreams \ {j} : dream'[k] = dream[k]
    BY <1>1 DEF LockConfirm, Release, DreamType, Stages, Dreams
  <1>4. \/ dream'[j] = "work" /\ running' = running
        \/ dream'[j] \in {"closed", "over"} /\ running' = running \ {ProcessOf[j]}
    BY <1>1 DEF LockConfirm, Release, DreamType
  <1>5. lock' \in [pid : Processes \X Nat, at : Nat] /\ lock'.pid = lock.pid
        /\ (lock.at > 0 => lock'.at > 0)
    <2>1. CASE LockConfirm(j)
      BY <1>1, <2>1 DEF LockConfirm, DreamType
    <2>2. CASE Release(j)
      <3>1. Released(j) = [lock EXCEPT !.at = Released(j).at]
            /\ Released(j).at \in {now, prior[j], lock.at}
            /\ (Released(j).at = prior[j] => prior[j] > 0 \/ prior[j] = lock.at \/ prior[j] = now)
        BY <1>1 DEF Released, DreamType
      <3>2. now \in Nat /\ now > 0 /\ prior[j] \in Nat /\ lock.at \in Nat
        BY <1>1 DEF DreamType
      <3>3. Released(j).at \in Nat /\ (lock.at > 0 => Released(j).at > 0)
        BY <3>1, <3>2
      <3>4. lock' = Released(j)
        BY <2>2 DEF Release
      <3>5. QED
        BY <1>1, <3>1, <3>3, <3>4 DEF DreamType
    <2>3. QED
      BY <2>1, <2>2
  <1>6. DreamType'
    BY <1>1, <1>2, <1>3, <1>4, <1>5 DEF DreamType
  <1>7. \A k \in Dreams : /\ dream'[k] \in InGates => dream[k] \in InGates /\ k # j
                          /\ dream'[k] \in Holding => dream[k] \in Holding
                          /\ dream'[k] \in Owning => dream[k] \in Owning
                          /\ dream'[k] = "write" => dream[k] = "write"
                          /\ dream'[k] \in {"out", "time", "sessions", "lock", "write"} => dream'[k] = dream[k]
    BY <1>2, <1>3 DEF InGates, Holding, Owning
  <1>8. OnePerProcess'
    <2>1. \A k \in Dreams : dream'[k] \in Holding => ProcessOf[k] \in running'
      <3>1. \A k \in Dreams \ {j} : dream[k] \in Holding => ProcessOf[k] # ProcessOf[j]
        BY <1>1, <1>2 DEF OnePerProcess, Holding, Owning
      <3>2. ASSUME NEW k \in Dreams, dream'[k] \in Holding PROVE ProcessOf[k] \in running'
        <4>1. ProcessOf[k] \in running
          BY <1>1, <1>7, <3>2 DEF OnePerProcess
        <4>2. k = j => dream'[j] = "work"
          BY <1>3, <3>2 DEF Holding
        <4>3. QED
          BY <1>4, <1>7, <3>1, <3>2, <4>1, <4>2
      <3>3. QED
        BY <3>2
    <2>2. \A k \in Dreams : dream'[k] \in InGates =>
            attempt'[ProcessOf[k]] = now' /\ ProcessOf[k] \notin running'
      BY <1>1, <1>2, <1>4, <1>7 DEF OnePerProcess
    <2>3. \A k, l \in Dreams :
            dream'[k] \in InGates \cup Holding /\ dream'[l] \in InGates \cup Holding /\ k # l
              => ProcessOf[k] # ProcessOf[l]
      BY <1>1, <1>7 DEF OnePerProcess
    <2>4. QED
      BY <1>3, <2>1, <2>2, <2>3 DEF OnePerProcess
  <1>9. LockTells'
    <2>1. \A k \in Dreams : Pid(k)' = Pid(k) /\ (TakenFrom(k) => TakenFrom(k)')
      BY <1>2, <1>3 DEF Pid, TakenFrom
    <2>2. QED
      BY <1>1, <1>2, <1>3, <1>5, <1>7, <2>1 DEF LockTells
  <1>10. QED
    BY <1>6, <1>8, <1>9 DEF DreamInv

LEMMA TickKeeps ==
  ASSUME DreamInv, Tick
  PROVE  DreamInv'
  <1>1. DreamType /\ OnePerProcess /\ LockTells
    BY DEF DreamInv
  <1>2. UNCHANGED <<attempt, running, lock, dream, prior, life, lockings, seen, wrote, outlived>>
        /\ now' = now + 1 /\ Dreams' = Dreams
        /\ \A k \in Dreams : dream[k] \notin InGates
    BY DEF Tick, dreamHistory, Dreams
  <1>3. DreamType'
    BY <1>1, <1>2 DEF DreamType
  <1>4. OnePerProcess'
    BY <1>1, <1>2 DEF OnePerProcess
  <1>5. \A k \in Dreams : Pid(k)' = Pid(k) /\ TakenFrom(k)' = TakenFrom(k)
    BY <1>2 DEF Pid, TakenFrom
  <1>6. LockTells'
    BY <1>1, <1>2, <1>5 DEF LockTells
  <1>7. QED
    BY <1>3, <1>4, <1>6 DEF DreamInv

\* A crash ends the passes of its process; the lock of the others is theirs.
LEMMA CrashKeeps ==
  ASSUME DreamInv, NEW p, CrashDream(p)
  PROVE  DreamInv'
  <1>1. DreamType /\ OnePerProcess /\ LockTells /\ ProcessOf \in [Jobs -> Processes]
    BY DocumentsAssumption DEF DreamInv
  <1>2. UNCHANGED <<now, lock, prior, lockings, seen, wrote, outlived>>
        /\ Dreams' = Dreams /\ running' = running \ {p}
    BY DEF CrashDream, dreamHistory, Dreams
  <1>3. dream' \in [Dreams -> Stages]
        /\ \A k \in Dreams : /\ ProcessOf[k] # p => dream'[k] = dream[k]
                             /\ ProcessOf[k] = p => dream'[k] \in {"out", "closed", "over", "dead"}
                             /\ dream'[k] # "dead" => dream'[k] = dream[k]
    BY <1>1 DEF CrashDream, DreamType, Stages
  <1>4. /\ life' \in [Processes -> Nat] /\ attempt' \in [Processes -> Nat]
        /\ \A q \in Processes \ {p} : life'[q] = life[q] /\ attempt'[q] = attempt[q]
    <2>1. life \in [Processes -> Nat] /\ attempt \in [Processes -> Nat]
      BY <1>1 DEF DreamType
    <2>2. /\ life' = [life EXCEPT ![p] = @ + 1]
          /\ attempt' = [attempt EXCEPT ![p] = 0]
      BY DEF CrashDream
    <2>3. life' \in [Processes -> Nat]
      <3>1. CASE p \in Processes
        <4>1. life[p] + 1 \in Nat
          BY <2>1, <3>1
        <4>2. QED
          BY <2>1, <2>2, <4>1
      <3>2. CASE p \notin Processes
        BY <2>1, <2>2, <3>2
      <3>3. QED
        BY <3>1, <3>2
    <2>4. attempt' \in [Processes -> Nat]
      BY <2>1, <2>2
    <2>5. QED
      BY <2>1, <2>2, <2>3, <2>4
  <1>5. DreamType'
    BY <1>1, <1>2, <1>3, <1>4 DEF DreamType
  <1>6. \A k \in Dreams : ProcessOf[k] \in Processes
    BY <1>1 DEF DreamType
  <1>7. \A k \in Dreams : dream'[k] \in InGates \cup Holding => ProcessOf[k] # p /\ dream'[k] = dream[k]
    BY <1>3 DEF InGates, Holding
  <1>8. OnePerProcess'
    <2>1. \A k \in Dreams : dream'[k] \in InGates =>
            attempt'[ProcessOf[k]] = now' /\ ProcessOf[k] \notin running'
      BY <1>1, <1>2, <1>4, <1>6, <1>7 DEF OnePerProcess
    <2>2. \A k \in Dreams : dream'[k] \in Holding => ProcessOf[k] \in running'
      BY <1>1, <1>2, <1>7 DEF OnePerProcess
    <2>3. \A k, l \in Dreams :
            dream'[k] \in InGates \cup Holding /\ dream'[l] \in InGates \cup Holding /\ k # l
              => ProcessOf[k] # ProcessOf[l]
      BY <1>1, <1>7 DEF OnePerProcess
    <2>4. QED
      BY <1>2, <2>1, <2>2, <2>3 DEF OnePerProcess
  <1>9. LockTells'
    <2>1. \A k \in Dreams : dream'[k] \in Owning => dream[k] \in Owning /\ Pid(k)' = Pid(k)
      BY <1>4, <1>6, <1>7 DEF Pid, Owning, Holding
    <2>2. \A k \in Dreams : TakenFrom(k) => TakenFrom(k)'
      BY <1>2 DEF TakenFrom
    <2>3. QED
      BY <1>1, <1>2, <1>3, <2>1, <2>2 DEF LockTells
  <1>10. QED
    BY <1>5, <1>8, <1>9 DEF DreamInv

LEMMA DreamStep ==
  ASSUME DreamInv, Next \/ UNCHANGED allVars
  PROVE  DreamInv'
  <1>1. CASE UNCHANGED <<dreamVars, dreamHistory>>
    <2>1. UNCHANGED <<now, attempt, running, lock, dream, prior, life, lockings, seen, wrote, outlived>>
          /\ Dreams' = Dreams
      BY <1>1 DEF dreamVars, dreamHistory, Dreams
    <2>2. \A k \in Dreams : Pid(k)' = Pid(k) /\ TakenFrom(k)' = TakenFrom(k)
      BY <2>1 DEF Pid, TakenFrom
    <2>3. QED
      BY <2>1, <2>2 DEF DreamInv, DreamType, OnePerProcess, LockTells
  <1>2. ASSUME NEW j \in Dreams, GateStep(j) PROVE DreamInv'
    BY <1>2, GatesKeep, LockReadKeeps, LockWriteKeeps, PassKeeps DEF GateStep, CountRecentSessions
  <1>3. QED
    BY <1>1, <1>2, DreamSteps, TickKeeps, CrashKeeps

\* Two passes of consolidation are at work together only in two processes,
\* and only when somebody had read the lock too early or found it too old,
\* with any number of passes, processes and crashes (cortexdream-lock.ts).
THEOREM Dreaming == Spec => []OneDreamer
  <1>1. Init => DreamInv
    BY DreamStart
  <1>2. DreamInv /\ [Next]_allVars => DreamInv'
    BY DreamStep
  <1>3. DreamInv => OneDreamer
    <2> SUFFICES ASSUME DreamInv, NEW j \in AtWork, NEW k \in AtWork, j # k
                 PROVE  /\ ProcessOf[j] # ProcessOf[k]
                        /\ wrote[j] < wrote[k] =>
                             \E m \in Dreams : /\ wrote[m] \in wrote[j] + 1 .. wrote[k]
                                               /\ seen[m] < wrote[j] \/ m \in outlived
      BY DEF OneDreamer
    <2>1. j \in Dreams /\ k \in Dreams /\ dream[j] = "work" /\ dream[k] = "work"
      BY DEF AtWork
    <2>2. ProcessOf[j] # ProcessOf[k]
      BY <2>1 DEF DreamInv, OnePerProcess, Holding
    <2>3. ASSUME wrote[j] < wrote[k]
          PROVE  \E m \in Dreams : /\ wrote[m] \in wrote[j] + 1 .. wrote[k]
                                   /\ seen[m] < wrote[j] \/ m \in outlived
      <3>1. wrote[j] \in Nat /\ wrote[k] \in Nat /\ lockings \in Nat /\ wrote[k] <= lockings
        BY <2>1 DEF DreamInv, DreamType, LockTells
      <3>2. wrote[j] < lockings
        BY <2>3, <3>1
      <3>3. TakenFrom(j)
        BY <2>1, <3>2 DEF DreamInv, LockTells, Owning
      <3>4. wrote[j] + 1 \in wrote[j] + 1 .. wrote[k]
        BY <2>3, <3>1
      <3>5. QED
        BY <3>3, <3>4 DEF TakenFrom
    <2>4. QED
      BY <2>2, <2>3
  <1>4. QED
    BY <1>1, <1>2, <1>3, PTL DEF Spec


-----------------------------------------------------------------------------
(* The previews of the bulk tools. *)

CallStages == Underway \cup {"idle", "previewed", "refused", "done", "dead"}
Over(c) == Ran(c) /\ Len(plan[c]) > Threshold
Spent == {Asked[c].confirm : c \in {c \in Called : Over(c)}}

\* The tokens a process may have: each was minted for the plan that was shown,
\* and is not spent.
Unspent(p) == {c \in Called : /\ Asked[c].process = p
                              /\ at[c] \in {"previewed", "refused"}
                              /\ c \notin Spent}
Tokens(p) == {<<c, minted[c]>> : c \in Unspent(p)}

BulkType ==
  /\ Called \subseteq Calls /\ at \in [Called -> CallStages]
  /\ DOMAIN plan = Called /\ DOMAIN minted = Called
  /\ DOMAIN previews = Processes
Valid == \A p \in Processes : previews[p] \in Seq(Tokens(p))
\* What ran above the threshold had been shown, under a token of its own.
Shown_ ==
  /\ \A c \in Called : Over(c) =>
       /\ Asked[c].confirm \in Called
       /\ at[Asked[c].confirm] \in {"previewed", "refused"}
       /\ minted[Asked[c].confirm] = PlanFingerprint(c, plan[c])
  /\ \A c, k \in Called : Over(c) /\ Over(k) /\ c # k => Asked[c].confirm # Asked[k].confirm

BulkInv == BulkType /\ Valid /\ Shown_

LEMMA Shortened ==
  ASSUME NEW T, NEW s \in Seq(T), NEW n \in Nat, Len(s) > n
  PROVE  SubSeq(s, Len(s) - n + 1, Len(s)) \in Seq(T)
  <1>1. Len(s) \in Nat /\ Len(s) - n + 1 \in 1..Len(s) + 1
    OBVIOUS
  <1>2. PICK m \in 1..Len(s) + 1 : m = Len(s) - n + 1
    BY <1>1
  <1>3. SubSeq(s, m, Len(s)) \in Seq(T)
    BY <1>1
  <1>4. QED
    BY <1>2, <1>3

\* Reaping and consuming leave tokens that were there.
LEMMA ReapsTokens ==
  ASSUME NEW T, NEW ps \in Seq(T)
  PROVE  ReapExpiredPreviews(ps) \in Seq(T)
  <1> DEFINE live == Kept(ps, {e \in Range(ps) : e[1] \notin aged})
  <1>1. live \in Seq(T \cap {e \in Range(ps) : e[1] \notin aged})
    BY KeptIs
  <1>2. live \in Seq(T)
    BY <1>1
  <1> HIDE DEF live
  <1>3. Len(live) > PreviewCap => SubSeq(live, Len(live) - PreviewCap + 1, Len(live)) \in Seq(T)
    BY <1>2, BulkAssumption, Shortened
  <1>4. QED
    BY <1>2, <1>3 DEF ReapExpiredPreviews, live

LEMMA ConsumesToken ==
  ASSUME NEW T, NEW ps \in Seq(T), NEW c
  PROVE  ConsumeConfirmToken(c, ps) \in Seq({e \in T : e[1] # Asked[c].confirm})
  <1> DEFINE S == {e \in Range(ps) : e[1] # Asked[c].confirm}
  <1>1. ReapExpiredPreviews(ps) \in Seq(T)
    BY ReapsTokens
  <1>2. Kept(ReapExpiredPreviews(ps), S) \in Seq(T \cap S)
    BY <1>1, KeptIs
  <1>3. T \cap S \subseteq {e \in T : e[1] # Asked[c].confirm}
    OBVIOUS
  <1> HIDE DEF S
  <1>4. QED
    BY <1>2, <1>3 DEF ConsumeConfirmToken, S

\* What a step of the tools is for the calls.
LEMMA BulkSteps ==
  ASSUME Next \/ UNCHANGED allVars
  PROVE  \/ UNCHANGED <<at, plan, previews, minted>>
         \/ \E c \in Called : \E p : Submit(c, p)
         \/ \E c \in Called :
              /\ at[c] \in Underway /\ UNCHANGED <<plan, previews, minted>>
              /\ \E to \in Underway \cup {"done"} : at' = [at EXCEPT ![c] = to]
         \/ \E p \in Engaged : CrashBulk(p)
  <1>1. CASE UNCHANGED allVars
    BY <1>1 DEF allVars, fileVars, bulkVars, bulkHistory
  <1>2. CASE Next
    <2>1. CASE OnFiles
      <3>1. ASSUME NEW j \in Present, Job(j) PROVE UNCHANGED <<at, plan, previews, minted>>
        BY <3>1 DEF Job, bulkVars
      <3>2. ASSUME NEW c \in Called, Bulk(c)
            PROVE  \/ \E p : Submit(c, p)
                   \/ /\ at[c] \in Underway /\ UNCHANGED <<plan, previews, minted>>
                      /\ \E to \in Underway \cup {"done"} : at' = [at EXCEPT ![c] = to]
        <4>1. CASE CallStep(c)
          <5>1. CASE FileMove(c) \/ FileCopy(c)
            BY <5>1 DEF FileMove, FileCopy
          <5>2. CASE \/ RenameFilesDirty(c) \/ RenameEpisodes(c) \/ RenameRomFiles(c)
                     \/ FlattenFolder(c) \/ CleanJunkFiles(c)
            BY <5>2 DEF RenameFilesDirty, RenameEpisodes, RenameRomFiles, FlattenFolder,
                        CleanJunkFiles
          <5>3. CASE Check(c) \/ Act(c) \/ CopyOpen(c) \/ CopyFill(c) \/ Unlink(c)
            BY <5>3 DEF Check, Act, CopyOpen, CopyFill, Unlink, Advance, Underway, bulkHistory
          <5>4. QED
            BY <4>1, <5>1, <5>2, <5>3 DEF CallStep
        <4>2. CASE ItemFault(c)
          BY <4>2 DEF ItemFault, Advance, Underway
        <4>3. QED
          BY <3>2, <4>1, <4>2 DEF Bulk
      <3>3. ASSUME NEW j \in Dreams, Consolidate(j) PROVE UNCHANGED <<at, plan, previews, minted>>
        BY <3>3 DEF Consolidate, bulkVars, bulkHistory
      <3>4. Passes => UNCHANGED <<at, plan, previews, minted>>
        BY DEF Passes, Age, bulkVars, bulkHistory
      <3>5. QED
        BY <2>1, <3>1, <3>2, <3>3, <3>4 DEF OnFiles
    <2>2. (\E l \in Asking : LookupStep(l) /\ UNCHANGED <<fileVars, deskAll, dispatchVars>>)
          \/ AtDesk \/ Requesting => UNCHANGED <<at, plan, previews, minted>>
      BY DEF AtDesk, Requesting, fileVars, bulkVars, bulkHistory
    <2>3. ASSUME NEW p \in Engaged, Crash(p) PROVE CrashBulk(p)
      BY <2>3 DEF Crash
    <2>4. QED
      BY <1>2, <2>1, <2>2, <2>3 DEF Next
  <1>3. QED
    BY <1>1, <1>2

LEMMA BulkStart ==
  ASSUME Init
  PROVE  BulkInv
  <1>1. PICK scene \in Scenes : BulkInit(scene[1])
    BY DEF Init
  <1>2. BulkType
    BY <1>1 DEF BulkInit, BulkType, Called, CallStages
  <1>3. \A c \in Called : ~Over(c)
    BY <1>1 DEF BulkInit, Called, Over, Ran, Underway
  <1>4. \A p \in Processes : previews[p] \in Seq(Tokens(p))
    BY <1>1 DEF BulkInit
  <1>5. QED
    BY <1>2, <1>3, <1>4 DEF BulkInv, Valid, Shown_

\* An item is worked on: neither tokens nor what ran change.
LEMMA ItemKeeps ==
  ASSUME BulkInv, NEW c \in Called, NEW to \in Underway \cup {"done"},
         at[c] \in Underway, UNCHANGED <<plan, previews, minted>>, at' = [at EXCEPT ![c] = to]
  PROVE  BulkInv'
  <1>1. BulkType /\ Valid /\ Shown_
    BY DEF BulkInv
  <1>2. at' \in [Called -> CallStages] /\ Called' = Called
        /\ at'[c] = to /\ \A k \in Called \ {c} : at'[k] = at[k]
    BY <1>1 DEF BulkType, CallStages, Called
  <1>3. \A k \in Called : /\ Over(k)' <=> Over(k)
                          /\ at'[k] \in {"previewed", "refused"} <=> at[k] \in {"previewed", "refused"}
    BY <1>2 DEF Over, Ran, Underway
  <1>4. Spent' = Spent
    BY <1>2, <1>3 DEF Spent
  <1>5. \A p \in Processes : Tokens(p)' = Tokens(p)
    BY <1>2, <1>3, <1>4 DEF Tokens, Unspent
  <1>6. BulkType'
    BY <1>1, <1>2 DEF BulkType
  <1>7. Valid'
    BY <1>1, <1>5 DEF Valid
  <1>8. \A k \in Called : PlanFingerprint(k, plan[k])' = PlanFingerprint(k, plan[k])
    OBVIOUS
  <1>9. Shown_'
    BY <1>1, <1>2, <1>3, <1>8 DEF Shown_
  <1>10. QED
    BY <1>6, <1>7, <1>9 DEF BulkInv


\* A plan is made: it is shown under a new token, or goes ahead; above the
\* threshold that takes a token, which is spent.
LEMMA SubmitKeeps ==
  ASSUME BulkInv, NEW c \in Called, NEW p, Submit(c, p)
  PROVE  BulkInv'
  <1> DEFINE me == Asked[c].process
             ps == previews[me]
             fresh == <<c, PlanFingerprint(c, p)>>
  <1>1. BulkType /\ Valid /\ Shown_ /\ me \in Processes
    BY BulkAssumption DEF BulkInv, BulkType
  <1>2. at[c] = "idle" /\ Called' = Called /\ at' \in [Called -> CallStages]
        /\ at'[c] \in {"previewed", "refused", "done", "check"}
        /\ \A k \in Called \ {c} : at'[k] = at[k]
    BY <1>1 DEF Submit, BulkType, CallStages, Called, Underway
  <1>3. plan'[c] = p /\ DOMAIN plan' = Called /\ \A k \in Called \ {c} : plan'[k] = plan[k]
    BY <1>1 DEF Submit, BulkType
  <1>4. DOMAIN minted' = Called /\ \A k \in Called \ {c} : minted'[k] = minted[k]
    BY <1>1 DEF Submit, BulkType
  <1>5. DOMAIN previews' = Processes /\ \A q \in Processes \ {me} : previews'[q] = previews[q]
    BY <1>1 DEF Submit, BulkType
  <1>6. BulkType'
    BY <1>1, <1>2, <1>3, <1>4, <1>5 DEF BulkType
  <1>7. ~Over(c) /\ c \notin Spent /\ c \notin Unspent(me)
        /\ \A k \in Called \ {c} : Over(k)' <=> Over(k)
    BY <1>1, <1>2, <1>3 DEF Over, Ran, Underway, Spent, Shown_, Unspent
  <1>8. ps \in Seq(Tokens(me)) /\ ReapExpiredPreviews(ps) \in Seq(Tokens(me))
    BY <1>1, ReapsTokens DEF Valid
  <1>9. \A k \in Called \ {c} : PlanFingerprint(k, plan[k])' = PlanFingerprint(k, plan[k])
    BY <1>3 DEF PlanFingerprint
  <1>10. CASE at'[c] \in {"previewed", "refused"}
    <2>1. /\ previews'[me] = Append(ReapExpiredPreviews(ps), fresh)
          /\ minted'[c] = PlanFingerprint(c, p)
      BY <1>1, <1>2, <1>10 DEF Submit, MintConfirmToken, BulkType
    <2>2. ~Over(c)'
      BY <1>10 DEF Over, Ran, Underway
    <2>3. Spent' = Spent
      BY <1>2, <1>7, <2>2 DEF Spent
    <2>4. \A q \in Processes : Unspent(q) \subseteq Unspent(q)'
      BY <1>2, <2>3 DEF Unspent
    <2>5. \A q \in Processes : Tokens(q) \subseteq Tokens(q)'
      BY <1>2, <1>4, <2>4 DEF Tokens, Unspent
    <2>6. fresh \in Tokens(me)'
      BY <1>2, <1>7, <1>10, <2>1, <2>3 DEF Tokens, Unspent
    <2>7. previews'[me] \in Seq(Tokens(me)')
      <3>1. ReapExpiredPreviews(ps) \in Seq(Tokens(me)')
        BY <1>1, <1>8, <2>5
      <3>2. QED
        BY <2>1, <2>6, <3>1
    <2>8. Valid'
      BY <1>1, <1>5, <2>5, <2>7 DEF Valid
    <2>9. Shown_'
      BY <1>1, <1>2, <1>4, <1>7, <1>9, <2>2 DEF Shown_
    <2>10. QED
      BY <1>6, <2>8, <2>9 DEF BulkInv
  <1>11. CASE at'[c] \in {"done", "check"}
    <2>1. minted' = minted
      BY <1>1, <1>2, <1>11 DEF Submit, BulkType
    <2>2. CASE Len(p) > Threshold
      <3>1. /\ previews'[me] = ConsumeConfirmToken(c, ps)
            /\ Confirms(c, p, ps)
        BY <1>1, <1>2, <1>11, <2>2 DEF Submit, BulkType
      <3> DEFINE key == Asked[c].confirm
      <3>2. <<key, PlanFingerprint(c, p)>> \in Tokens(me)
        BY <1>8, <3>1 DEF Confirms, Range
      <3>3. key \in Called /\ key # c /\ at[key] \in {"previewed", "refused"}
            /\ key \notin Spent /\ Asked[key].process = me /\ minted[key] = PlanFingerprint(c, p)
        BY <1>2, <3>2 DEF Tokens, Unspent
      <3>4. Over(c)' /\ Spent' = Spent \cup {key}
        <4>1. Over(c)'
          BY <1>3, <1>11, <2>2 DEF Over, Ran, Underway
        <4>2. QED
          BY <1>2, <1>7, <4>1 DEF Spent
      <3>5. \A q \in Processes : Unspent(q)' = Unspent(q) \ {key}
        BY <1>2, <1>11, <3>4 DEF Unspent
      <3>6. \A q \in Processes : Tokens(q)' = {e \in Tokens(q) : e[1] # key}
        BY <2>1, <3>5 DEF Tokens
      <3>7. \A q \in Processes \ {me} : Tokens(q)' = Tokens(q)
        BY <2>1, <3>3, <3>5 DEF Tokens, Unspent
      <3>8. previews'[me] \in Seq(Tokens(me)')
        BY <1>1, <1>8, <3>1, <3>6, ConsumesToken DEF Valid
      <3>9. Valid'
        BY <1>1, <1>5, <3>7, <3>8 DEF Valid
      <3>10. Shown_'
        <4>1. PlanFingerprint(c, plan[c])' = PlanFingerprint(c, p)
          BY <1>3 DEF PlanFingerprint
        <4>2. \A k \in Called \ {c} : Over(k) => Asked[k].confirm # key
          BY <3>3 DEF Spent
        <4>3. QED
          BY <1>1, <1>2, <1>7, <1>9, <2>1, <3>3, <4>1, <4>2 DEF Shown_
      <3>11. QED
        BY <1>6, <3>9, <3>10 DEF BulkInv
    <2>3. CASE ~(Len(p) > Threshold)
      <3>1. \A q \in Processes : previews'[q] = previews[q]
        BY <1>1, <1>2, <1>5, <1>11, <2>3 DEF Submit, BulkType
      <3>2. ~Over(c)'
        BY <1>3, <2>3 DEF Over
      <3>3. Spent' = Spent
        BY <1>2, <1>7, <3>2 DEF Spent
      <3>4. \A q \in Processes : Tokens(q)' = Tokens(q)
        BY <1>2, <1>11, <2>1, <3>3 DEF Tokens, Unspent
      <3>5. Valid'
        BY <1>1, <3>1, <3>4 DEF Valid
      <3>6. Shown_'
        BY <1>1, <1>2, <1>7, <1>9, <2>1, <3>2 DEF Shown_
      <3>7. QED
        BY <1>6, <3>5, <3>6 DEF BulkInv
    <2>4. QED
      BY <2>2, <2>3
  <1>12. QED
    BY <1>2, <1>10, <1>11

\* A crash takes the tokens of its process away.
LEMMA BulkCrashKeeps ==
  ASSUME BulkInv, NEW p, CrashBulk(p)
  PROVE  BulkInv'
  <1>1. BulkType /\ Valid /\ Shown_
    BY DEF BulkInv
  <1>2. UNCHANGED <<plan, minted>> /\ Called' = Called /\ at' \in [Called -> CallStages]
        /\ \A k \in Called : at'[k] = at[k] \/ (at[k] \in Underway /\ at'[k] = "dead")
    BY <1>1 DEF CrashBulk, BulkType, CallStages, Called, Underway, bulkHistory
  <1>3. \A k \in Called : /\ Over(k)' <=> Over(k)
                          /\ at'[k] \in {"previewed", "refused"} <=> at[k] \in {"previewed", "refused"}
    BY <1>2 DEF Over, Ran, Underway
  <1>4. Spent' = Spent
    BY <1>2, <1>3 DEF Spent
  <1>5. \A q \in Processes : Tokens(q)' = Tokens(q)
    BY <1>2, <1>3, <1>4 DEF Tokens, Unspent
  <1>6. DOMAIN previews' = Processes
        /\ \A q \in Processes : previews'[q] = previews[q] \/ previews'[q] = <<>>
    BY <1>1 DEF CrashBulk, BulkType
  <1>7. BulkType'
    BY <1>1, <1>2, <1>6 DEF BulkType
  <1>8. Valid'
    <2>1. \A T : <<>> \in Seq(T)
      OBVIOUS
    <2> SUFFICES ASSUME NEW q \in Processes PROVE previews'[q] \in Seq(Tokens(q)')
      BY DEF Valid
    <2>2. previews[q] \in Seq(Tokens(q)')
      BY <1>1, <1>5 DEF Valid
    <2>3. QED
      BY <1>6, <2>1, <2>2
  <1>9. \A k \in Called : PlanFingerprint(k, plan[k])' = PlanFingerprint(k, plan[k])
    BY <1>2 DEF PlanFingerprint
  <1>10. Shown_'
    BY <1>1, <1>2, <1>3, <1>9 DEF Shown_
  <1>11. QED
    BY <1>7, <1>8, <1>10 DEF BulkInv

LEMMA Previewing == Spec => []BulkInv
  <1>1. Init => BulkInv
    BY BulkStart
  <1>2. BulkInv /\ [Next]_allVars => BulkInv'
    <2> SUFFICES ASSUME BulkInv, Next \/ UNCHANGED allVars PROVE BulkInv'
      OBVIOUS
    <2>1. CASE UNCHANGED <<at, plan, previews, minted>>
      BY <2>1 DEF BulkInv, BulkType, Valid, Shown_, Tokens, Unspent, Spent, Over, Ran, Called,
                  PlanFingerprint
    <2>2. QED
      BY <2>1, BulkSteps, SubmitKeeps, ItemKeeps, BulkCrashKeeps
  <1>3. QED
    BY <1>1, <1>2, PTL DEF Spec

\* A plan above the threshold is carried out only if just that plan was shown
\* before, and once for each time it was shown: for any calls, plans, cap of
\* the previews, age of the tokens, and crashes (builtins.ts, the dry-run gate).
THEOREM Previews == Spec => []PreviewedOnce
  <1>1. BulkInv => PreviewedOnce
    BY DEF BulkInv, Shown_, PreviewedOnce, Over
  <1>2. QED
    BY <1>1, Previewing, PTL

-----------------------------------------------------------------------------
(* The items of the bulk tools. *)

Keeping(c) ==
  \/ Asked[c].tool \in Renamers \cup {"flatten_folder"}
  \/ Asked[c].tool \in Movers /\ Sound(c)
Carries(c) == Asked[c].tool \in Movers

ItemType ==
  /\ DOMAIN at = Called /\ DOMAIN plan = Called
  /\ DOMAIN next = Called /\ DOMAIN carried = Called /\ DOMAIN before = Called
  /\ \A c \in Called : at[c] = "idle" => next[c] = 1
  /\ \A c \in Called : Carries(c) => \E S : plan[c] \in Seq(S)

\* Every document the call found is somewhere, and not only in a file that a
\* copy is about to write over.
Somewhere(c) ==
  \A f \in DOMAIN before[c] :
    \E g \in Files : disk[g] = before[c][f] /\ (at[c] = "copying" => g # Dst(c))

\* The targets a move or a copy has come to.
Targets(c) ==
  {plan[c][i][2] : i \in 1 .. next[c] - 1}
    \cup (IF at[c] \in {"copying", "unlink"} THEN {Dst(c)} ELSE {})

\* A target is free when a file is put there, and what is copied is at its
\* source until it is at its target.
Careful(c) ==
  /\ Carries(c) => next[c] \in 1 .. Len(plan[c]) /\ Files \subseteq DOMAIN before[c] \cup Targets(c)
  /\ at[c] = "act" => Dst(c) \notin Files
  /\ at[c] \in {"copying", "unlink"} => Carries(c) /\ Src(c) # Dst(c)
  /\ at[c] = "copying" => Src(c) \in Files /\ carried[c] = disk[Src(c)]
  /\ at[c] = "unlink" => Dst(c) \in Files /\ (Src(c) \in Files => disk[Src(c)] = disk[Dst(c)])

Alone(c) ==
  Ran(c) /\ c \notin disturbed /\ Keeping(c) =>
    Somewhere(c) /\ (at[c] \in Underway => Careful(c))

ItemInv == ItemType /\ \A c \in Called : Alone(c)

\* What a step of the tools is for one call: a step of its own, or of others,
\* which disturbs it if it changes a file, or a crash.
ItemStep(c) == Check(c) \/ Act(c) \/ CopyOpen(c) \/ CopyFill(c) \/ Unlink(c) \/ ItemFault(c)
Aside(c) ==
  /\ at'[c] = at[c] /\ plan'[c] = plan[c] /\ next'[c] = next[c]
  /\ carried'[c] = carried[c] /\ before'[c] = before[c]
  /\ disturbed \subseteq disturbed'
  /\ disk' = disk \/ c \in disturbed' \/ at[c] = "idle"
Killed(c) ==
  /\ at[c] \in Underway /\ at'[c] = "dead" /\ plan'[c] = plan[c] /\ next'[c] = next[c]
  /\ carried'[c] = carried[c] /\ before'[c] = before[c]
  /\ disturbed' = disturbed /\ disk' = disk
Domains ==
  /\ DOMAIN at' = DOMAIN at /\ DOMAIN plan' = DOMAIN plan /\ DOMAIN next' = DOMAIN next
  /\ DOMAIN carried' = DOMAIN carried /\ DOMAIN before' = DOMAIN before

LEMMA OthersAside ==
  ASSUME ItemType, Called \subseteq Calls, NEW c \in Called, NEW k \in Called, k # c, Bulk(k)
  PROVE  Aside(c) /\ Domains
  <1>1. CASE CallStep(k)
    <2>1. ASSUME NEW p, Submit(k, p) PROVE Aside(c) /\ Domains
      BY <2>1 DEF Submit, Aside, Domains, ItemType
    <2>2. CASE FileMove(k) \/ FileCopy(k)
      BY <2>1, <2>2 DEF FileMove, FileCopy
    <2>3. CASE \/ RenameFilesDirty(k) \/ RenameEpisodes(k) \/ RenameRomFiles(k)
               \/ FlattenFolder(k) \/ CleanJunkFiles(k)
      BY <2>1, <2>3 DEF RenameFilesDirty, RenameEpisodes, RenameRomFiles, FlattenFolder,
                        CleanJunkFiles
    <2>4. CASE Check(k)
      BY <2>4 DEF Check, Advance, Aside, Domains, ItemType, bulkHistory
    <2>5. CASE Act(k) \/ CopyFill(k)
      BY <2>5 DEF Act, CopyFill, Advance, Disturbs, Aside, Domains, ItemType
    <2>6. CASE CopyOpen(k) \/ Unlink(k)
      BY <2>6 DEF CopyOpen, Unlink, Advance, Disturbs, Aside, Domains, ItemType
    <2>7. QED
      BY <1>1, <2>2, <2>3, <2>4, <2>5, <2>6 DEF CallStep
  <1>2. CASE ItemFault(k)
    BY <1>2 DEF ItemFault, Advance, Disturbs, Aside, Domains, ItemType
  <1>3. QED
    BY <1>1, <1>2 DEF Bulk

LEMMA ItemSteps ==
  ASSUME ItemType, Called \subseteq Calls, NEW c \in Called, Next \/ UNCHANGED allVars
  PROVE  /\ Domains
         /\ \/ Aside(c)
            \/ \E p : Submit(c, p) /\ (Carries(c) => p = MovePlan(c))
            \/ ItemStep(c)
            \/ Killed(c)
  <1>0. ASSUME UNCHANGED <<at, plan, next, carried, before, disturbed, disk>>
        PROVE  Aside(c) /\ Domains
    BY <1>0 DEF Aside, Domains
  <1>1. CASE UNCHANGED allVars
    BY <1>0, <1>1 DEF allVars, fileVars, bulkVars, bulkHistory, docVars
  <1>2. CASE Next
    <2>1. CASE OnFiles
      <3>1. ASSUME NEW j \in Present, Job(j) PROVE Aside(c) /\ Domains
        <4>1. c # ""
          BY BulkAssumption
        <4>2. QED
          BY <3>1, <4>1 DEF Job, Disturbs, bulkVars, Aside, Domains
      <3>2. ASSUME Bulk(c)
            PROVE  /\ Domains
                   /\ \/ \E p : Submit(c, p) /\ (Carries(c) => p = MovePlan(c))
                      \/ ItemStep(c)
        <4>1. CASE CallStep(c)
          <5>1. CASE FileMove(c) \/ FileCopy(c)
            BY <5>1 DEF FileMove, FileCopy, Submit, Domains
          <5>2. ASSUME \/ RenameFilesDirty(c) \/ RenameEpisodes(c) \/ RenameRomFiles(c)
                       \/ FlattenFolder(c) \/ CleanJunkFiles(c)
                PROVE  ~Carries(c) /\ \E p : Submit(c, p)
            BY <5>2 DEF RenameFilesDirty, RenameEpisodes, RenameRomFiles, FlattenFolder,
                        CleanJunkFiles, Carries, Movers
          <5>3. CASE Check(c) \/ Act(c) \/ CopyOpen(c) \/ CopyFill(c) \/ Unlink(c)
            BY <5>3 DEF ItemStep, Check, Act, CopyOpen, CopyFill, Unlink, Advance, Domains,
                        bulkHistory
          <5>4. QED
            BY <4>1, <5>1, <5>2, <5>3 DEF CallStep, Submit, Domains
        <4>2. CASE ItemFault(c)
          BY <4>2 DEF ItemStep, ItemFault, Advance, Domains
        <4>3. QED
          BY <3>2, <4>1, <4>2 DEF Bulk
      <3>3. ASSUME NEW j \in Dreams, Consolidate(j) PROVE Aside(c) /\ Domains
        BY <3>3, <1>0 DEF Consolidate, bulkVars, bulkHistory, docVars, DreamRead
      <3>4. ASSUME Passes PROVE Aside(c) /\ Domains
        BY <3>4, <1>0 DEF Passes, Age, Expire, bulkVars, bulkHistory, docVars
      <3>5. QED
        BY <2>1, <3>1, <3>2, <3>3, <3>4, OthersAside DEF OnFiles
    <2>2. CASE \/ \E l \in Asking : LookupStep(l) /\ UNCHANGED <<fileVars, deskAll, dispatchVars>>
               \/ AtDesk \/ Requesting
      BY <1>0, <2>2 DEF AtDesk, Requesting, fileVars, bulkVars, bulkHistory, docVars
    <2>3. ASSUME NEW p \in Engaged, Crash(p) PROVE (Aside(c) \/ Killed(c)) /\ Domains
      BY <2>3 DEF Crash, CrashDocuments, CrashBulk, bulkHistory, Aside, Killed, Domains, ItemType,
                  Called
    <2>4. QED
      BY <1>2, <2>1, <2>2, <2>3 DEF Next
  <1>3. QED
    BY <1>1, <1>2

\* The plan of a move is a sequence of pairs.
LEMMA MovePlanIs ==
  ASSUME NEW c \in Calls, Carries(c)
  PROVE  \E S : MovePlan(c) \in Seq(S)
  <1> DEFINE a == Asked[c]
             To(src) == IF a.to[2] = "" THEN <<a.to[1], src[2]>> ELSE a.to
             T == {src \in Files : To(src)[1] \notin Protected}
             good == Kept(a.sources, T)
             item(i) == <<good[i], To(good[i])>>
             S == {item(i) : i \in DOMAIN good}
  <1>1. a.sources \in Seq(STRING \X STRING)
    BY BulkAssumption DEF Carries
  <1>2. good \in Seq((STRING \X STRING) \cap T)
    BY <1>1, KeptIs
  <1> HIDE DEF good
  <1>3. DOMAIN good = 1 .. Len(good) /\ Len(good) \in Nat
    BY <1>2
  <1>4. MovePlan(c) = [i \in DOMAIN good |-> item(i)]
    BY DEF MovePlan, good
  <1> HIDE DEF item
  <1>5. MovePlan(c) \in [1 .. Len(good) -> S]
    BY <1>3, <1>4
  <1> HIDE DEF S
  <1>6. MovePlan(c) \in Seq(S)
    BY <1>3, <1>5
  <1>7. QED
    BY <1>6

\* A step that leaves the call and the files alone, or disturbs it.
LEMMA AsideKeeps ==
  ASSUME NEW c \in Called, Alone(c), Aside(c)
  PROVE  Alone(c)'
  <1>1. CASE c \in disturbed'
    BY <1>1 DEF Alone
  <1>2. CASE at[c] = "idle"
    BY <1>2 DEF Alone, Aside, Ran, Underway
  <1>3. CASE disk' = disk /\ c \notin disturbed'
    <2>1. /\ Ran(c)' <=> Ran(c)
          /\ Keeping(c)' <=> Keeping(c)
          /\ c \notin disturbed
      BY <1>3 DEF Aside, Ran, Keeping, Sound
    <2>2. Somewhere(c) => Somewhere(c)'
      BY <1>3 DEF Aside, Somewhere, Dst, Files
    <2>3. Careful(c) => Careful(c)'
      BY <1>3 DEF Aside, Careful, Targets, Src, Dst, Carries, Files
    <2>4. at'[c] = at[c]
      BY DEF Aside
    <2>5. QED
      BY <2>1, <2>2, <2>3, <2>4 DEF Alone
  <1>4. QED
    BY <1>1, <1>2, <1>3 DEF Aside

LEMMA KilledKeeps ==
  ASSUME NEW c \in Called, Alone(c), Killed(c)
  PROVE  Alone(c)'
  <1>1. /\ Ran(c) /\ (Keeping(c)' <=> Keeping(c)) /\ disturbed' = disturbed
        /\ at'[c] \notin Underway
    BY DEF Killed, Ran, Keeping, Sound, Underway
  <1>2. Somewhere(c) => Somewhere(c)'
    BY DEF Killed, Somewhere, Files, Underway
  <1>3. QED
    BY <1>1, <1>2 DEF Alone

\* A plan is made from the files there are.
LEMMA PlanKeeps ==
  ASSUME ItemType, Called \subseteq Calls, NEW c \in Called, NEW p, Submit(c, p),
         Carries(c) => p = MovePlan(c)
  PROVE  Alone(c)'
  <1>1. /\ at'[c] \in {"previewed", "refused", "done", "check"}
        /\ at'[c] = "check" => p # <<>>
        /\ plan'[c] = p /\ before'[c] = disk /\ next'[c] = next[c] /\ next[c] = 1 /\ disk' = disk
    BY DEF Submit, ItemType
  <1>2. Somewhere(c)'
    BY <1>1 DEF Somewhere, Files
  <1>3. ASSUME at'[c] = "check" PROVE Careful(c)'
    <2>1. ASSUME Carries(c) PROVE 1 \in 1 .. Len(p)
      <3>1. PICK S : p \in Seq(S)
        BY <2>1, MovePlanIs
      <3>2. QED
        BY <1>1, <1>3, <3>1
    <2>2. QED
      BY <1>1, <1>3, <2>1 DEF Careful, Carries, Files
  <1>4. at'[c] \in Underway => at'[c] = "check"
    BY <1>1 DEF Underway
  <1>5. QED
    BY <1>2, <1>3, <1>4 DEF Alone

\* A sound move or copy comes to targets where nothing is.
LEMMA TargetFree ==
  ASSUME ItemType, NEW c \in Called, Carries(c), Sound(c), Careful(c), at[c] \in {"check", "act"}
  PROVE  Dst(c) \notin Files
  <1>1. PICK S : plan[c] \in Seq(S)
    BY DEF ItemType
  <1>2. next[c] \in 1 .. Len(plan[c]) /\ DOMAIN plan[c] = 1 .. Len(plan[c]) /\ Len(plan[c]) \in Nat
    BY <1>1 DEF Careful
  <1>3. Dst(c) \notin DOMAIN before[c]
        /\ \A i \in 1 .. next[c] - 1 : plan[c][i][2] # Dst(c)
    BY <1>2 DEF Sound, Dst
  <1>4. QED
    BY <1>3 DEF Careful, Targets

\* The call goes on to its next item, or is done.
LEMMA Advances ==
  ASSUME ItemType, NEW c \in Called, Advance(c), UNCHANGED plan,
         Carries(c) => next[c] \in 1 .. Len(plan[c])
  PROVE  /\ at'[c] \in {"done", "check"} /\ plan'[c] = plan[c]
         /\ Carries(c) /\ at'[c] = "check" =>
              /\ next'[c] \in 1 .. Len(plan'[c])
              /\ Targets(c)' = {plan[c][i][2] : i \in 1 .. next[c]}
  <1>1. /\ at'[c] = IF next[c] = Len(plan[c]) THEN "done" ELSE "check"
        /\ next'[c] = next[c] + 1
    BY DEF Advance, ItemType
  <1>2. ASSUME Carries(c), at'[c] = "check"
        PROVE  /\ next'[c] \in 1 .. Len(plan[c])
               /\ Targets(c)' = {plan[c][i][2] : i \in 1 .. next[c]}
    <2>1. PICK S : plan[c] \in Seq(S)
      BY <1>2 DEF ItemType
    <2>2. Len(plan[c]) \in Nat /\ next[c] \in 1 .. Len(plan[c]) /\ next[c] # Len(plan[c])
      BY <1>1, <1>2, <2>1
    <2>3. next'[c] - 1 = next[c]
      BY <1>1, <2>2
    <2>4. QED
      BY <1>1, <1>2, <2>2, <2>3 DEF Targets
  <1>3. QED
    BY <1>1, <1>2

\* A step of the call's own, with what it does to the files.
LEMMA ItemGoesOn ==
  ASSUME ItemType, NEW c \in Called, Alone(c), ItemStep(c), c \notin disturbed, Keeping(c)
  PROVE  Somewhere(c)' /\ (at'[c] \in Underway => Careful(c)')
  <1>1. at[c] \in Underway /\ Somewhere(c) /\ Careful(c)
    <2>1. at[c] \in Underway
      BY DEF ItemStep, Check, Act, CopyOpen, CopyFill, Unlink, ItemFault, Underway
    <2>2. QED
      BY <2>1 DEF Alone, Ran
  <1>2. plan'[c] = plan[c] /\ before'[c] = before[c] /\ UNCHANGED plan
    BY DEF ItemStep, Check, Act, CopyOpen, CopyFill, Unlink, ItemFault, bulkHistory
  <1>3. Carries(c) => /\ Sound(c) /\ next[c] \in 1 .. Len(plan[c])
                      /\ Files \subseteq DOMAIN before[c] \cup Targets(c)
    BY <1>1 DEF Careful, Carries, Keeping, Renamers, Movers
  <1>4. at[c] \in {"check", "act"} /\ Carries(c) => Dst(c) \notin Files
    BY <1>1, <1>3, TargetFree
  <1>5. Asked[c].tool # "clean_junk_files"
    BY DEF Keeping, Renamers, Movers
  \* Going on to the next item: the files are those of before and of targets.
  <1>6. ASSUME Advance(c), Somewhere(c)',
               Carries(c) => Files' \subseteq Files \cup {Dst(c)}
        PROVE  Somewhere(c)' /\ (at'[c] \in Underway => Careful(c)')
    <2>1. /\ at'[c] \in {"done", "check"}
          /\ Carries(c) /\ at'[c] = "check" =>
               /\ next'[c] \in 1 .. Len(plan'[c])
               /\ Targets(c)' = {plan[c][i][2] : i \in 1 .. next[c]}
      BY <1>2, <1>3, <1>6, Advances
    <2>2. ASSUME Carries(c), at'[c] = "check"
          PROVE  Files' \subseteq DOMAIN before'[c] \cup Targets(c)'
      <3>1. PICK n \in Nat : n = next[c] /\ n \in 1 .. n
        BY <1>3, <2>2
      <3>2. Targets(c) \cup {Dst(c)} \subseteq {plan[c][i][2] : i \in 1 .. next[c]}
        BY <3>1 DEF Targets, Dst
      <3>3. QED
        BY <1>2, <1>3, <1>6, <2>1, <2>2, <3>2
    <2>3. QED
      BY <1>6, <2>1, <2>2 DEF Careful, Carries, Underway
  <1>7. ASSUME disk' = disk, Advance(c)
        PROVE  Somewhere(c)' /\ (at'[c] \in Underway => Careful(c)')
    <2>1. at'[c] # "copying" /\ Files' = Files
      BY <1>7 DEF Advance, ItemType, Files
    <2>2. Somewhere(c)'
      BY <1>1, <1>2, <1>7, <2>1 DEF Somewhere
    <2>3. QED
      BY <1>6, <1>7, <2>1, <2>2
  <1>8. CASE Check(c)
    <2>1. disk' = disk
      BY <1>8 DEF Check
    <2>2. CASE MayAct(c)
      <3>1. at[c] = "check" /\ at'[c] = "act" /\ next'[c] = next[c]
        BY <1>8, <2>2 DEF Check, ItemType
      <3>2. Dst(c) \notin Files
        BY <1>4, <2>2, <3>1 DEF MayAct, Keeping, Carries, Renamers, Movers
      <3>3. Somewhere(c)'
        BY <1>1, <1>2, <2>1, <3>1 DEF Somewhere, Files
      <3>4. Careful(c)'
        BY <1>1, <1>2, <2>1, <3>1, <3>2 DEF Careful, Targets, Dst, Files, Carries
      <3>5. QED
        BY <3>3, <3>4
    <2>3. CASE ~MayAct(c)
      BY <1>7, <1>8, <2>1, <2>3 DEF Check
    <2>4. QED
      BY <2>2, <2>3
  <1>9. CASE Act(c)
    <2>1. CASE Src(c) \notin Files
      BY <1>7, <1>9, <2>1 DEF Act
    <2>2. CASE Src(c) \in Files
      <3>1. /\ at[c] = "act" /\ Advance(c)
            /\ disk' = [g \in (Files \ {Src(c)}) \cup {Dst(c)} |->
                          IF g = Dst(c) THEN disk[Src(c)] ELSE disk[g]]
        BY <1>5, <1>9, <2>2 DEF Act
      <3>2. Dst(c) \notin Files /\ Files' = (Files \ {Src(c)}) \cup {Dst(c)}
        BY <1>1, <3>1 DEF Careful, Files
      <3>3. at'[c] # "copying"
        BY <3>1 DEF Advance, ItemType
      <3>4. disk'[Dst(c)] = disk[Src(c)] /\ \A g \in Files \ {Src(c)} : disk'[g] = disk[g]
        BY <3>1, <3>2
      <3>5. Somewhere(c)'
        BY <1>1, <1>2, <3>2, <3>3, <3>4 DEF Somewhere
      <3>6. QED
        BY <1>6, <3>1, <3>2, <3>5
    <2>3. QED
      BY <2>1, <2>2
  <1>10. CASE CopyOpen(c)
    <2>1. CASE Src(c) \notin Files
      BY <1>7, <1>10, <2>1 DEF CopyOpen
    <2>2. CASE Src(c) \in Files
      <3>1. /\ at[c] = "act" /\ at'[c] = "copying" /\ next'[c] = next[c] /\ Copies(c)
            /\ carried'[c] = disk[Src(c)] /\ disk' = Put(Dst(c), <<Half>>)
        BY <1>10, <2>2 DEF CopyOpen, ItemType
      <3>2. /\ Dst(c) \notin Files /\ Files' = Files \cup {Dst(c)}
            /\ Src(c)' = Src(c) /\ Dst(c)' = Dst(c) /\ Carries(c)
        BY <1>1, <1>2, <3>1 DEF Careful, Files, Put, Src, Dst, Copies, Carries, Movers
      <3>3. \A g \in Files : g # Dst(c) /\ disk'[g] = disk[g]
        BY <3>1, <3>2 DEF Put
      <3>4. Somewhere(c)'
        BY <1>1, <1>2, <3>2, <3>3 DEF Somewhere
      <3>5. Targets(c)' = Targets(c) \cup {Dst(c)}
        BY <1>2, <3>1, <3>2 DEF Targets
      <3>6. Careful(c)'
        BY <1>2, <1>3, <2>2, <3>1, <3>2, <3>3, <3>5 DEF Careful, Carries
      <3>7. QED
        BY <3>4, <3>6
    <2>3. QED
      BY <2>1, <2>2
  <1>11. CASE CopyFill(c)
    <2>1. at[c] = "copying" /\ disk' = Put(Dst(c), carried[c])
      BY <1>11 DEF CopyFill
    <2>2. /\ Carries(c) /\ Src(c) # Dst(c) /\ Src(c) \in Files /\ carried[c] = disk[Src(c)]
          /\ Files' = Files \cup {Dst(c)} /\ disk'[Dst(c)] = carried[c]
          /\ \A g \in Files : g # Dst(c) => disk'[g] = disk[g]
      BY <1>1, <2>1 DEF Careful, Put, Files
    <2>3. at'[c] # "copying"
      BY <1>11 DEF CopyFill, Advance, ItemType
    <2>4. Somewhere(c)'
      BY <1>1, <1>2, <2>1, <2>2, <2>3 DEF Somewhere
    <2>5. CASE Asked[c].tool = "file_move"
      <3>1. at'[c] = "unlink" /\ next'[c] = next[c]
        BY <1>11, <2>5 DEF CopyFill, ItemType
      <3>2. Src(c)' = Src(c) /\ Dst(c)' = Dst(c)
        BY <1>2, <3>1 DEF Src, Dst
      <3>3. Targets(c)' = Targets(c) /\ Dst(c) \in Targets(c)
        BY <1>2, <2>1, <3>1, <3>2 DEF Targets
      <3>4. Careful(c)'
        BY <1>2, <1>3, <2>2, <3>1, <3>2, <3>3 DEF Careful, Carries
      <3>5. QED
        BY <2>4, <3>4
    <2>6. CASE Asked[c].tool # "file_move"
      BY <1>6, <1>11, <2>2, <2>4, <2>6 DEF CopyFill
    <2>7. QED
      BY <2>5, <2>6
  <1>12. CASE Unlink(c)
    <2>1. at[c] = "unlink" /\ disk' = Gone({Src(c)}) /\ Advance(c)
      BY <1>12 DEF Unlink
    <2>2. /\ Src(c) # Dst(c) /\ Dst(c) \in Files /\ Files' = Files \ {Src(c)}
          /\ Src(c) \in Files => disk[Src(c)] = disk[Dst(c)]
          /\ \A g \in Files' : disk'[g] = disk[g]
      BY <1>1, <2>1 DEF Careful, Gone, Files
    <2>3. at'[c] # "copying"
      BY <2>1 DEF Advance, ItemType
    <2>4. Somewhere(c)'
      BY <1>1, <1>2, <2>2, <2>3 DEF Somewhere
    <2>5. QED
      BY <1>6, <2>1, <2>2, <2>4
  <1>13. CASE ItemFault(c)
    <2>1. CASE at[c] = "copying"
      <3>1. disk' = Gone({Dst(c)}) /\ Advance(c)
        BY <1>13, <2>1 DEF ItemFault
      <3>2. Files' = Files \ {Dst(c)} /\ \A g \in Files' : disk'[g] = disk[g]
        BY <3>1 DEF Gone, Files
      <3>3. at'[c] # "copying"
        BY <3>1 DEF Advance, ItemType
      <3>4. Somewhere(c)'
        BY <1>1, <1>2, <2>1, <3>2, <3>3 DEF Somewhere
      <3>5. QED
        BY <1>6, <3>1, <3>2, <3>4
    <2>2. CASE at[c] # "copying"
      BY <1>7, <1>13, <2>2 DEF ItemFault
    <2>3. QED
      BY <2>1, <2>2
  <1>14. QED
    BY <1>8, <1>9, <1>10, <1>11, <1>12, <1>13 DEF ItemStep

\* The call's own steps do not disturb it, and keep its plan.
LEMMA OwnKeeps ==
  ASSUME ItemType, NEW c \in Called, Alone(c), ItemStep(c)
  PROVE  Alone(c)'
  <1>1. disturbed \subseteq disturbed'
    BY DEF ItemStep, Check, Act, CopyOpen, CopyFill, Unlink, ItemFault, Disturbs, bulkHistory
  <1>2. Keeping(c)' <=> Keeping(c)
    <2>1. plan' = plan /\ before' = before
      BY DEF ItemStep, Check, Act, CopyOpen, CopyFill, Unlink, ItemFault, bulkHistory
    <2>2. QED
      BY <2>1 DEF Keeping, Sound
  <1>3. QED
    BY <1>1, <1>2, ItemGoesOn DEF Alone

\* The types go on.
LEMMA ItemTypeKeeps ==
  ASSUME ItemType, Called \subseteq Calls, Next \/ UNCHANGED allVars
  PROVE  ItemType' /\ Called' = Called
  <1>1. /\ DOMAIN at' = Called /\ DOMAIN plan' = Called /\ DOMAIN next' = Called
        /\ DOMAIN carried' = Called /\ DOMAIN before' = Called
    <2>1. CASE Called = {}
      <3>1. UNCHANGED <<at, plan, next, carried, before>> \/ \E p : CrashBulk(p)
        <4>1. CASE UNCHANGED allVars
          BY <4>1 DEF allVars, fileVars, bulkVars, bulkHistory
        <4>2. CASE Next
          BY <2>1, <4>2 DEF Next, OnFiles, Job, Consolidate, Passes, Age, AtDesk, Requesting, Crash,
                            fileVars, bulkVars, bulkHistory
        <4>3. QED
          BY <4>1, <4>2
      <3>2. QED
        BY <2>1, <3>1 DEF ItemType, CrashBulk, Called, bulkHistory
    <2>2. CASE Called # {}
      BY <2>2, ItemSteps DEF Domains, ItemType
    <2>3. QED
      BY <2>1, <2>2
  <1>2. ASSUME NEW c \in Called
        PROVE  /\ at'[c] = "idle" => next'[c] = 1
               /\ Carries(c) => \E S : plan'[c] \in Seq(S)
    <2>1. CASE Aside(c)
      BY <2>1 DEF Aside, ItemType
    <2>2. CASE \E p : Submit(c, p) /\ (Carries(c) => p = MovePlan(c))
      <3>1. PICK p : Submit(c, p) /\ (Carries(c) => p = MovePlan(c))
        BY <2>2
      <3>2. at'[c] # "idle" /\ plan'[c] = p
        BY <3>1 DEF Submit, ItemType
      <3>3. QED
        BY <3>1, <3>2, MovePlanIs
    <2>3. CASE ItemStep(c)
      <3>1. plan' = plan /\ at'[c] # "idle"
        BY <2>3 DEF ItemStep, Check, Act, CopyOpen, CopyFill, Unlink, ItemFault, Advance, ItemType,
                    bulkHistory
      <3>2. QED
        BY <3>1 DEF ItemType
    <2>4. CASE Killed(c)
      BY <2>4 DEF Killed, ItemType
    <2>5. QED
      BY <2>1, <2>2, <2>3, <2>4, ItemSteps
  <1>3. Called' = Called
    BY <1>1 DEF Called
  <1>4. QED
    BY <1>1, <1>2, <1>3 DEF ItemType, Carries

\* As long as nobody else changes files, a renamer or flatten_folder never
\* loses a document, nor does a move or copy onto free places: for any plan,
\* whatever item fails and wherever a crash stops it (executeRenamePlan,
\* moveOneFile, the copy of a move to another device).
THEOREM Surviving == Spec => []AloneLosesNothing
  <1>1. Init => ItemInv
    <2> SUFFICES ASSUME Init PROVE ItemInv
      OBVIOUS
    <2>1. PICK scene \in Scenes : BulkInit(scene[1])
      BY DEF Init
    <2>2. ItemType
      <3>1. <<>> \in Seq({})
        OBVIOUS
      <3>2. QED
        BY <2>1, <3>1 DEF BulkInit, ItemType, Called
    <2>3. \A c \in Called : Alone(c)
      BY <2>1 DEF BulkInit, Called, Alone, Ran, Underway
    <2>4. QED
      BY <2>2, <2>3 DEF ItemInv
  <1>2. ItemInv /\ BulkInv /\ [Next]_allVars => ItemInv'
    <2> SUFFICES ASSUME ItemInv, BulkInv, Next \/ UNCHANGED allVars PROVE ItemInv'
      OBVIOUS
    <2>1. ItemType /\ Called \subseteq Calls /\ \A c \in Called : Alone(c)
      BY DEF ItemInv, BulkInv, BulkType
    <2>2. ItemType' /\ Called' = Called
      BY <2>1, ItemTypeKeeps
    <2>3. ASSUME NEW c \in Called PROVE Alone(c)'
      BY <2>1, <2>3, ItemSteps, AsideKeeps, KilledKeeps, PlanKeeps, OwnKeeps
    <2>4. QED
      BY <2>2, <2>3 DEF ItemInv
  <1>3. ItemInv => AloneLosesNothing
    BY DEF ItemInv, Alone, Keeping, Somewhere, AloneLosesNothing
  <1>4. QED
    BY <1>1, <1>2, <1>3, Previewing, PTL DEF Spec

-----------------------------------------------------------------------------
(* The way of a tool call. *)

CallStates == {"idle", "before", "guard", "running", "post", "report", "after", "done", "dead"}
HookSet == Range(BeforeTool) \cup Range(AfterTool)
Told == {"call"} \X {"success", "denied", "error"}
Noted == ({h.id : h \in HookSet} \X {"success", "denied", "error"}) \cup Told

DispatchType ==
  /\ DOMAIN queue = Requested /\ DOMAIN answer = Requested /\ DOMAIN soft = Requested
  /\ DOMAIN acts = Requested /\ DOMAIN changed = Requested
  /\ hooks.before \in Seq(HookSet) /\ hooks.after \in Seq(HookSet)
  /\ Requested \subseteq Requests
  /\ trail \in [Requested -> Seq(Noted)]

\* What the records of a call say of it, by its stage s, its answer a, what its
\* handler did (w) and whether a post-hook changed the result (c); v is the one
\* record of its own, or "nothing".
Tells(s, a, w, c, v) ==
  /\ s \in CallStates
  /\ s \in {"idle", "before", "guard", "running", "post", "report"} => v = "nothing"
  /\ s \in {"idle", "before", "guard"} => a = "none" /\ w = "no"
  /\ s = "running" => a = "none" /\ w = "running"
  /\ s = "post" => \/ a = "success" /\ w = "well"
                   \/ a = "failed" /\ w \in {"badly", "no"}
  /\ s = "report" => \/ a = "refused" /\ w = "no"
                     \/ a = "failed" /\ w = "threw"
                     \/ a = "timeout" /\ w # "no"
  /\ s = "after" => v # "nothing" /\ a # "unparsed"
  /\ s = "done" => (v = "nothing" <=> a = "unparsed")
  /\ v = "denied" => w = "no"
  /\ v = "success" /\ ~c => w = "well"
  /\ w = "running" => s = "running" \/ a = "timeout"

Says(o, v) == IF v = "nothing" THEN o = <<>> ELSE o = << <<"call", v>> >>
Sayings == {"nothing", "success", "denied", "error"}
Recorded_(r) ==
  \E v \in Sayings :
    Says(Own(r), v) /\ Tells(stage[r], answer[r], acts[r], changed[r], v)

\* A hook that would block has failed, or is still to run.
Vetoed(r) ==
  /\ stage[r] = "before" =>
       \A i \in DOMAIN hooks.before : r \in hooks.before[i].vetoes =>
         hooks.before[i].id \in soft[r] \/ hooks.before[i] \in Range(queue[r])
  /\ stage[r] \in {"guard", "running", "post", "report"} \/ acts[r] # "no" =>
       \A i \in DOMAIN hooks.before :
         r \in hooks.before[i].vetoes => hooks.before[i].id \in soft[r]

Checked(r) ==
  /\ answer[r] \in {"denied", "invalid"} => answer[r] = ValidateToolInvocation(r)
  /\ stage[r] \in {"before", "after"} => queue[r] \in Seq(HookSet)

DispatchInv ==
  DispatchType /\ \A r \in Requested : Recorded_(r) /\ Vetoed(r) /\ Checked(r)

\* What a step of the tools is for the calls of the model.
LEMMA DispatchSteps ==
  ASSUME Next \/ UNCHANGED allVars
  PROVE  \/ UNCHANGED dispatchVars
         \/ \E r \in Requested : RequestStep(r)
         \/ CrashDispatch
  <1>1. CASE UNCHANGED allVars
    BY <1>1 DEF allVars
  <1>2. CASE Next
    <2>1. ASSUME NEW p \in Engaged, Crash(p) PROVE CrashDispatch \/ UNCHANGED dispatchVars
      BY <2>1 DEF Crash
    <2>2. AtDesk => UNCHANGED dispatchVars
      BY DEF AtDesk
    <2>3. Requesting => \E r \in Requested : RequestStep(r)
      BY DEF Requesting
    <2>4. QED
      BY <1>2, <2>1, <2>2, <2>3 DEF Next
  <1>3. QED
    BY <1>1, <1>2

\* What hooks are loaded is among those configured.
LEMMA LoadedHooks ==
  ASSUME NEW s \in Seq(HookSet), NEW broken
  PROVE  Loaded_(s, broken) \in Seq(HookSet)
  <1> DEFINE S == {h \in Range(s) : h.kind = "command" \/ h.id \notin broken}
  <1>1. Kept(s, S) \in Seq(HookSet \cap S)
    BY KeptIs
  <1> HIDE DEF S
  <1>2. Kept(s, S) \in Seq(HookSet)
    BY <1>1
  <1>3. QED
    BY <1>2 DEF Loaded_, S

\* The record of a hook is not one of the call's own.
LEMMA OwnGrows ==
  ASSUME DispatchType, NEW r \in Requested, NEW e \in Noted, trail'[r] = Append(trail[r], e)
  PROVE  Own(r)' = IF e \in Told THEN Append(Own(r), e) ELSE Own(r)
  <1>1. trail[r] \in Seq(Noted)
    BY DEF DispatchType
  <1>2. Kept(Append(trail[r], e), Told) =
          IF e \in Told THEN Append(Kept(trail[r], Told), e) ELSE Kept(trail[r], Told)
    <2>1. \A s \in Seq(Noted) :
            Kept(Append(s, e), Told) = IF e \in Told THEN Append(Kept(s, Told), e) ELSE Kept(s, Told)
      BY KeptAppend
    <2>2. QED
      BY <1>1, <2>1
  <1>3. Own(r) = Kept(trail[r], Told) /\ Own(r)' = Kept(trail'[r], Told)
    BY DEF Own, Told
  <1>4. QED
    BY <1>2, <1>3

LEMMA DispatchStart ==
  ASSUME Init
  PROVE  DispatchInv
  <1>1. PICK scene \in Scenes : DispatchInit(scene[1])
    BY DEF Init
  <1>2. BeforeTool \in Seq(HookSet) /\ AfterTool \in Seq(HookSet) /\ <<>> \in Seq(HookSet)
    <2>1. BeforeTool \in Seq(Range(BeforeTool)) /\ AfterTool \in Seq(Range(AfterTool))
      BY DispatchAssumption
    <2>2. Range(BeforeTool) \subseteq HookSet /\ Range(AfterTool) \subseteq HookSet
      BY DEF HookSet
    <2>3. QED
      BY <2>1, <2>2
  <1>3. hooks.before \in Seq(HookSet) /\ hooks.after \in Seq(HookSet)
    <2>1. PICK broken \in SUBSET Functions_, off \in BOOLEAN :
            hooks = IF off \/ Requests \cap scene[1] = {} THEN [before |-> <<>>, after |-> <<>>]
                    ELSE [before |-> Loaded_(BeforeTool, broken), after |-> Loaded_(AfterTool, broken)]
      BY <1>1 DEF DispatchInit
    <2>2. Loaded_(BeforeTool, broken) \in Seq(HookSet) /\ Loaded_(AfterTool, broken) \in Seq(HookSet)
      BY <1>2, LoadedHooks
    <2>3. QED
      BY <1>2, <2>1, <2>2
  <1>4. DispatchType
    BY <1>1, <1>3 DEF DispatchInit, DispatchType, Requested
  <1> SUFFICES ASSUME NEW r \in Requested PROVE Recorded_(r) /\ Vetoed(r) /\ Checked(r)
    BY <1>4 DEF DispatchInv
  <1>5. stage[r] = "idle" /\ answer[r] = "none" /\ acts[r] = "no" /\ trail[r] = <<>>
    BY <1>1 DEF DispatchInit, Requested
  <1>6. Own(r) = <<>>
    <2>1. Kept(<<>>, Told) \in Seq({} \cap Told)
      <3>1. <<>> \in Seq({})
        OBVIOUS
      <3>2. QED
        BY <3>1, KeptIs
    <2>2. QED
      BY <1>5, <2>1 DEF Own, Told
  <1>7. Tells(stage[r], answer[r], acts[r], changed[r], "nothing")
    BY <1>5 DEF Tells, CallStates
  <1>8. QED
    BY <1>5, <1>6, <1>7 DEF Recorded_, Says, Sayings, Vetoed, Checked


Good(r) == Recorded_(r) /\ Vetoed(r) /\ Checked(r)

\* One call's step is no other's.
LEMMA OneCall ==
  ASSUME DispatchInv, NEW r \in Requested, RequestStep(r),
         trail'[r] \in Seq(Noted), Good(r)'
  PROVE  DispatchInv'
  <1>1. DispatchType
    BY DEF DispatchInv
  <1>2. /\ UNCHANGED hooks /\ Requested' = Requested
        /\ DOMAIN queue' = Requested /\ DOMAIN answer' = Requested /\ DOMAIN soft' = Requested
        /\ DOMAIN acts' = Requested /\ DOMAIN changed' = Requested
    BY <1>1 DEF RequestStep, CallBegins, Resolved, HandlerStarts, TimesOut, Heeds, CallEnds, HookEnds,
                GuardEnds, HandlerEnds, PostEnds, Report, Moves, Answers_, DispatchType, Requested
  <1>3. \A q \in Requested \ {r} :
          /\ stage'[q] = stage[q] /\ queue'[q] = queue[q] /\ answer'[q] = answer[q]
          /\ soft'[q] = soft[q] /\ acts'[q] = acts[q] /\ changed'[q] = changed[q]
    BY ZenonT(30), <1>1
    DEF RequestStep, CallBegins, Resolved, HandlerStarts, TimesOut, Heeds, CallEnds, HookEnds,
        GuardEnds, HandlerEnds, PostEnds, Report, Moves, Answers_, DispatchType, Requested
  <1>4. trail' = trail \/ \E records : trail' = [trail EXCEPT ![r] = @ \o records]
    BY DEF RequestStep, CallBegins, Resolved, HandlerStarts, TimesOut, Heeds, CallEnds, HookEnds,
           GuardEnds, HandlerEnds, PostEnds, Report, Records
  <1>5. trail' \in [Requested -> Seq(Noted)] /\ \A q \in Requested \ {r} : trail'[q] = trail[q]
    BY <1>1, <1>4 DEF DispatchType
  <1>6. DispatchType'
    BY <1>1, <1>2, <1>5 DEF DispatchType
  <1>7. ASSUME NEW q \in Requested \ {r} PROVE Good(q)'
    <2>1. Recorded_(q) /\ Vetoed(q) /\ Checked(q)
      BY DEF DispatchInv
    <2>2. Own(q)' = Own(q)
      BY <1>5 DEF Own
    <2>3. Recorded_(q)'
      BY <1>3, <2>1, <2>2 DEF Recorded_
    <2>4. Vetoed(q)'
      BY <1>2, <1>3, <2>1 DEF Vetoed
    <2>5. Checked(q)'
      BY <1>3, <2>1 DEF Checked
    <2>6. QED
      BY <2>3, <2>4, <2>5 DEF Good
  <1>8. QED
    BY <1>2, <1>6, <1>7 DEF DispatchInv, Good

\* The steps that record nothing, behind the hooks before a tool.
LEMMA SilentKeeps ==
  ASSUME DispatchInv, NEW r \in Requested,
         \/ Resolved(r) \/ HandlerStarts(r) \/ TimesOut(r) \/ Heeds(r) \/ CallEnds(r)
         \/ \E verdict \in {"allow", "warn", "deny", "throws"} : GuardEnds(r, verdict)
         \/ \E how \in {"well", "badly", "threw"} : HandlerEnds(r, how)
         \/ \E how \in {"same", "changed", "throws"} : PostEnds(r, how)
  PROVE  trail'[r] \in Seq(Noted) /\ Good(r)'
  <1>1. DispatchType /\ Recorded_(r) /\ Vetoed(r) /\ Checked(r)
    BY DEF DispatchInv
  <1>2. UNCHANGED <<hooks, trail, soft>>
    BY DEF Resolved, HandlerStarts, TimesOut, Heeds, CallEnds, GuardEnds, HandlerEnds, PostEnds
  <1>3. Own(r)' = Own(r) /\ trail'[r] \in Seq(Noted)
    BY <1>1, <1>2 DEF Own, DispatchType
  <1>4. PICK v \in Sayings : Says(Own(r), v) /\ Tells(stage[r], answer[r], acts[r], changed[r], v)
    BY <1>1 DEF Recorded_
  <1>5. r \in DOMAIN stage /\ r \in DOMAIN queue /\ r \in DOMAIN answer /\ r \in DOMAIN acts
        /\ r \in DOMAIN changed
    BY <1>1 DEF DispatchType, Requested
  <1> DEFINE Past(s, w) == s \in {"guard", "running", "post", "report"} \/ w # "no"
             Still == Tells(stage'[r], answer'[r], acts'[r], changed'[r], v)
             Moved == /\ stage'[r] # "before"
                      /\ Past(stage'[r], acts'[r]) =>
                           \/ Past(stage[r], acts[r])
                           \/ stage[r] = "before" /\ queue[r] = <<>>
                      /\ stage'[r] = "after" => stage[r] = "after" /\ queue'[r] = queue[r]
                      /\ answer'[r] \in {"denied", "invalid"} => answer'[r] = answer[r]
  <1>6. ASSUME Resolved(r) PROVE Still /\ Moved
    <2>1. /\ stage[r] = "before" /\ queue[r] = <<>> /\ acts'[r] = acts[r] /\ changed'[r] = changed[r]
          /\ \/ stage'[r] = "guard" /\ answer'[r] = answer[r]
             \/ stage'[r] = "report" /\ answer'[r] = "refused"
      BY <1>5, <1>6 DEF Resolved, Moves, Answers_
    <2>2. Still
      BY <1>4, <2>1 DEF Tells, CallStates
    <2>3. Moved
      BY <1>4, <2>1 DEF Tells
    <2>4. QED
      BY <2>2, <2>3
  <1>7. ASSUME \E verdict \in {"allow", "warn", "deny", "throws"} : GuardEnds(r, verdict) PROVE Still /\ Moved
    <2>1. /\ stage[r] = "guard" /\ acts'[r] = acts[r] /\ changed'[r] = changed[r]
          /\ \/ stage'[r] = "guard" /\ answer'[r] = answer[r]
             \/ stage'[r] = "report" /\ answer'[r] = "refused"
      BY <1>5, <1>7 DEF GuardEnds, Moves, Answers_
    <2>2. Still
      BY <1>4, <2>1 DEF Tells, CallStates
    <2>3. Moved
      BY <1>4, <2>1 DEF Tells
    <2>4. QED
      BY <2>2, <2>3
  <1>8. ASSUME HandlerStarts(r) PROVE Still /\ Moved
    <2>1. /\ stage[r] = "guard" /\ changed'[r] = changed[r]
          /\ \/ stage'[r] = "running" /\ answer'[r] = answer[r] /\ acts'[r] = "running"
             \/ stage'[r] = "post" /\ answer'[r] = "failed" /\ acts'[r] = "no"
      BY <1>5, <1>8 DEF HandlerStarts, Moves, Answers_
    <2>2. Still
      BY <1>4, <2>1 DEF Tells, CallStates
    <2>3. Moved
      BY <1>4, <2>1 DEF Tells
    <2>4. QED
      BY <2>2, <2>3
  <1>9. ASSUME \E how \in {"well", "badly", "threw"} : HandlerEnds(r, how) PROVE Still /\ Moved
    <2>1. PICK how \in {"well", "badly", "threw"} : HandlerEnds(r, how)
      BY <1>9
    <2>2. acts[r] = "running" /\ acts'[r] = how /\ changed'[r] = changed[r]
      BY <1>5, <2>1 DEF HandlerEnds
    <2>3. CASE stage[r] = "running"
      <3>1. /\ stage'[r] = IF how = "threw" THEN "report" ELSE "post"
            /\ answer'[r] = IF how = "well" THEN "success" ELSE "failed"
        BY <1>5, <2>1, <2>3 DEF HandlerEnds, Moves, Answers_
      <3>2. Still
        BY <1>4, <2>2, <2>3, <3>1 DEF Tells, CallStates
      <3>3. Moved
        BY <1>4, <2>2, <2>3, <3>1 DEF Tells
      <3>4. QED
        BY <3>2, <3>3
    <2>4. CASE stage[r] # "running"
      <3>1. stage'[r] = stage[r] /\ queue'[r] = queue[r] /\ answer'[r] = answer[r]
        BY <2>1, <2>4 DEF HandlerEnds
      <3>2. Still
        BY <1>4, <2>2, <2>4, <3>1 DEF Tells, CallStates
      <3>3. Moved
        BY <1>4, <2>2, <2>4, <3>1 DEF Tells
      <3>4. QED
        BY <3>2, <3>3
    <2>5. QED
      BY <2>3, <2>4
  <1>10. ASSUME TimesOut(r) PROVE Still /\ Moved
    <2>1. /\ stage[r] = "running" /\ stage'[r] = "report" /\ answer'[r] = "timeout"
          /\ acts'[r] = acts[r] /\ changed'[r] = changed[r]
      BY <1>5, <1>10 DEF TimesOut, Moves, Answers_
    <2>2. Still
      BY <1>4, <2>1 DEF Tells, CallStates
    <2>3. Moved
      BY <1>4, <2>1 DEF Tells
    <2>4. QED
      BY <2>2, <2>3
  <1>11. ASSUME Heeds(r) PROVE Still /\ Moved
    <2>1. /\ acts[r] = "running" /\ answer[r] = "timeout" /\ acts'[r] = "stopped"
          /\ stage'[r] = stage[r] /\ queue'[r] = queue[r] /\ answer'[r] = answer[r]
          /\ changed'[r] = changed[r]
      BY <1>5, <1>11 DEF Heeds
    <2>2. Still
      BY <1>4, <2>1 DEF Tells, CallStates
    <2>3. Moved
      BY <1>4, <2>1 DEF Tells
    <2>4. QED
      BY <2>2, <2>3
  <1>12. ASSUME CallEnds(r) PROVE Still /\ Moved
    <2>1. /\ stage[r] = "after" /\ stage'[r] = "done" /\ acts'[r] = acts[r]
          /\ answer'[r] = answer[r] /\ changed'[r] = changed[r]
      BY <1>5, <1>12 DEF CallEnds, Moves
    <2>2. Still
      BY <1>4, <2>1 DEF Tells, CallStates
    <2>3. Moved
      BY <1>4, <2>1 DEF Tells
    <2>4. QED
      BY <2>2, <2>3
  <1>13. ASSUME \E how \in {"same", "changed", "throws"} : PostEnds(r, how) PROVE Still /\ Moved
    <2>1. /\ stage[r] = "post" /\ stage'[r] = "post" /\ acts'[r] = acts[r] /\ answer'[r] = answer[r]
      BY <1>5, <1>13 DEF PostEnds, Moves
    <2>2. Still
      BY <1>4, <2>1 DEF Tells, CallStates
    <2>3. Moved
      BY <1>4, <2>1 DEF Tells
    <2>4. QED
      BY <2>2, <2>3
  <1>14. Still /\ Moved
    BY <1>6, <1>7, <1>8, <1>9, <1>10, <1>11, <1>12, <1>13
  <1>15. Recorded_(r)'
    BY <1>3, <1>4, <1>14 DEF Recorded_
  <1>16. Vetoed(r)'
    <2>1. Range(<<>>) = {}
      BY DEF Range
    <2>2. QED
      BY <1>1, <1>2, <1>14, <2>1 DEF Vetoed
  <1>17. Checked(r)'
    BY <1>1, <1>14 DEF Checked
  <1>18. QED
    BY <1>3, <1>15, <1>16, <1>17 DEF Good

LEMMA Joined ==
  ASSUME NEW P, NEW s \in Seq(P), NEW e \in P, NEW f \in P
  PROVE  /\ s \o <<e>> = Append(s, e) /\ Append(s, e) \in Seq(P)
         /\ s \o (<<e>> \o <<>> \o <<>>) = Append(s, e)
         /\ s \o (<<e>> \o <<f>> \o <<>>) = Append(Append(s, e), f)
         /\ s \o (<<e>> \o <<>> \o <<f>>) = Append(Append(s, e), f)
  <1>1. s \o <<e>> = Append(s, e) /\ Append(s, e) \in Seq(P)
    OBVIOUS
  <1>2. \A q \in Seq(P) : q \o <<>> = q /\ q \o <<f>> = Append(q, f) /\ Append(q, f) \in Seq(P)
    OBVIOUS
  <1>3. \A q \in Seq(P) : s \o Append(q, f) = Append(s \o q, f)
    OBVIOUS
  <1>4. <<e>> \in Seq(P)
    OBVIOUS
  <1> DEFINE q == <<e>>
  <1> HIDE DEF q
  <1>5. q \in Seq(P) /\ s \o q = Append(s, e)
    BY <1>1, <1>4 DEF q
  <1>6. /\ q \o <<>> \o <<>> = q
        /\ q \o <<f>> \o <<>> = Append(q, f) /\ q \o <<>> \o <<f>> = Append(q, f)
    BY <1>2, <1>5
  <1>7. s \o Append(q, f) = Append(Append(s, e), f)
    BY <1>3, <1>5
  <1>8. QED
    BY <1>1, <1>5, <1>6, <1>7, Zenon DEF q

\* A call's own records, when it gets one more.
LEMMA ToldGrows ==
  ASSUME NEW s \in Seq(Noted), NEW e \in Noted
  PROVE  Kept(Append(s, e), Told) = IF e \in Told THEN Append(Kept(s, Told), e) ELSE Kept(s, Told)
  BY KeptAppend

\* The first record of its own is the only one; that of a hook is none.
LEMMA FirstOwn ==
  ASSUME NEW s \in Seq(Noted), NEW v \in {"success", "denied", "error"}
  PROVE  Says(Kept(s, Told), "nothing") => Says(Kept(Append(s, <<"call", v>>), Told), v)
  <1>1. <<"call", v>> \in Noted /\ <<"call", v>> \in Told
    BY DEF Noted, Told
  <1>2. Kept(Append(s, <<"call", v>>), Told) = Append(Kept(s, Told), <<"call", v>>)
    BY <1>1, ToldGrows
  <1>3. Append(<<>>, <<"call", v>>) = << <<"call", v>> >> /\ v # "nothing"
    OBVIOUS
  <1>4. QED
    BY <1>2, <1>3 DEF Says

LEMMA HookRecord ==
  ASSUME NEW h \in HookSet, NEW x \in {"success", "denied", "error"}
  PROVE  /\ <<h.id, x>> \in Noted
         /\ \A s \in Seq(Noted) : Kept(Append(s, <<h.id, x>>), Told) = Kept(s, Told)
  <1>1. <<h.id, x>> \in Noted
    BY DEF Noted
  <1>2. <<h.id, x>> \notin Told
    BY DispatchAssumption DEF Told, HookSet
  <1>3. QED
    BY <1>1, <1>2, ToldGrows

\* The result is recorded, once, and as what the handler did unless a post-hook
\* changed it.
LEMMA ReportKeeps ==
  ASSUME DispatchInv, NEW r \in Requested, NEW status \in {"success", "error"}, Report(r, status)
  PROVE  trail'[r] \in Seq(Noted) /\ Good(r)'
  <1>1. DispatchType /\ Recorded_(r) /\ Vetoed(r) /\ Checked(r) /\ trail[r] \in Seq(Noted)
    BY DEF DispatchInv, DispatchType
  <1>2. PICK v \in Sayings : Says(Own(r), v) /\ Tells(stage[r], answer[r], acts[r], changed[r], v)
    BY <1>1 DEF Recorded_
  <1>3. /\ stage[r] \in {"report", "post"} /\ (~changed[r] => status = StatusOf(answer[r]))
        /\ stage'[r] = "after" /\ queue'[r] = hooks.after /\ UNCHANGED <<hooks, soft>>
        /\ answer'[r] = answer[r] /\ acts'[r] = acts[r] /\ changed'[r] = changed[r]
        /\ trail'[r] = trail[r] \o << <<"call", status>> >>
    BY <1>1 DEF Report, Moves, Records, DispatchType, Requested
  <1>4. <<"call", status>> \in Noted
    BY DEF Noted, Told
  <1>5. trail'[r] = Append(trail[r], <<"call", status>>) /\ trail'[r] \in Seq(Noted)
    BY <1>1, <1>3, <1>4, Joined
  <1>6. v = "nothing"
    BY <1>2, <1>3 DEF Tells
  <1>7. Says(Own(r)', status)
    <2>1. Says(Kept(trail[r], Told), "nothing") /\ Own(r)' = Kept(trail'[r], Told)
      BY <1>2, <1>6 DEF Own, Told
    <2>2. QED
      BY <1>1, <1>5, <2>1, FirstOwn
  <1>8. Tells(stage'[r], answer'[r], acts'[r], changed'[r], status)
    BY <1>2, <1>3, <1>6 DEF Tells, StatusOf, CallStates
  <1>9. Recorded_(r)'
    BY <1>7, <1>8 DEF Recorded_, Sayings
  <1>10. Vetoed(r)'
    BY <1>1, <1>3 DEF Vetoed
  <1>11. Checked(r)'
    BY <1>1, <1>3 DEF Checked, DispatchType
  <1>12. QED
    BY <1>5, <1>9, <1>10, <1>11 DEF Good


\* A call is validated: what stops it is recorded.
LEMMA BeginKeeps ==
  ASSUME DispatchInv, NEW r \in Requested, CallBegins(r)
  PROVE  trail'[r] \in Seq(Noted) /\ Good(r)'
  <1>1. DispatchType /\ Recorded_(r) /\ trail[r] \in Seq(Noted)
    BY DEF DispatchInv, DispatchType
  <1>2. PICK v \in Sayings : Says(Own(r), v) /\ Tells(stage[r], answer[r], acts[r], changed[r], v)
    BY <1>1 DEF Recorded_
  <1>3. stage[r] = "idle" /\ UNCHANGED <<hooks, soft, acts, changed>>
    BY DEF CallBegins
  <1>4. v = "nothing" /\ answer[r] = "none" /\ acts[r] = "no"
    BY <1>2, <1>3 DEF Tells
  <1>5. r \in DOMAIN stage /\ r \in DOMAIN queue /\ r \in DOMAIN answer /\ r \in DOMAIN trail
    BY <1>1 DEF DispatchType, Requested
  <1>6. Says(Own(r), "nothing") /\ Own(r) = Kept(trail[r], Told) /\ Own(r)' = Kept(trail'[r], Told)
    BY <1>2, <1>4 DEF Own, Told
  <1>7. ValidateToolInvocation(r) \in {"ok", "denied", "invalid"}
    BY DEF ValidateToolInvocation
  <1>8. PICK verdict : verdict = ValidateToolInvocation(r)
    OBVIOUS
  <1>9. \/ /\ stage'[r] = "done" /\ answer'[r] = "unparsed" /\ trail'[r] = trail[r]
        \/ /\ stage'[r] = "after" /\ queue'[r] = hooks.after /\ answer'[r] = verdict
           /\ verdict \in {"denied", "invalid"}
           /\ trail'[r] = trail[r] \o << <<"call", StatusOf(verdict)>> >>
        \/ /\ stage'[r] = "done" /\ answer'[r] = "nudged"
           /\ trail'[r] = trail[r] \o << <<"call", "denied">> >>
        \/ /\ stage'[r] = "before" /\ queue'[r] = hooks.before /\ answer'[r] = "none"
           /\ trail'[r] = trail[r]
    <2> DEFINE readable == IsJson(SanitizeToolArguments(Request[r].raw))
               blocked == BlockedByPlan(r)
    <2>1. CASE ~readable
      BY <1>4, <1>5, <2>1 DEF CallBegins, Moves, Answers_, Records
    <2>2. CASE readable /\ verdict # "ok"
      BY <1>5, <1>7, <1>8, <2>2 DEF CallBegins, Moves, Answers_, Records
    <2>3. CASE readable /\ verdict = "ok" /\ blocked
      BY <1>5, <1>8, <2>3 DEF CallBegins, Moves, Answers_, Records
    <2>4. CASE readable /\ verdict = "ok" /\ ~blocked
      BY <1>4, <1>5, <1>8, <2>4 DEF CallBegins, Moves, Answers_, Records
    <2>5. QED
      BY <2>1, <2>2, <2>3, <2>4
  <1>10. ASSUME NEW w \in {"success", "denied", "error"},
                trail'[r] = trail[r] \o << <<"call", w>> >>
         PROVE  Says(Own(r)', w) /\ trail'[r] \in Seq(Noted)
    <2>1. <<"call", w>> \in Noted
      BY DEF Noted, Told
    <2>2. trail'[r] = Append(trail[r], <<"call", w>>) /\ trail'[r] \in Seq(Noted)
      BY <1>1, <1>10, <2>1, Joined
    <2>3. QED
      BY <1>1, <1>6, <2>2, FirstOwn
  <1>11. CASE stage'[r] = "done" /\ answer'[r] = "unparsed" /\ trail'[r] = trail[r]
    <2>1. Says(Own(r)', "nothing")
      BY <1>6, <1>11
    <2>2. Tells(stage'[r], answer'[r], acts'[r], changed'[r], "nothing")
      BY <1>3, <1>4, <1>11 DEF Tells, CallStates
    <2>3. Recorded_(r)'
      BY <2>1, <2>2 DEF Recorded_, Sayings
    <2>4. Vetoed(r)' /\ Checked(r)'
      BY <1>3, <1>4, <1>11 DEF Vetoed, Checked
    <2>5. QED
      BY <1>1, <1>11, <2>3, <2>4 DEF Good
  <1>12. CASE /\ stage'[r] = "after" /\ queue'[r] = hooks.after /\ answer'[r] = verdict
              /\ verdict \in {"denied", "invalid"}
              /\ trail'[r] = trail[r] \o << <<"call", StatusOf(verdict)>> >>
    <2>1. PICK w \in {"denied", "error"} : w = StatusOf(verdict)
      BY <1>12 DEF StatusOf
    <2>2. Says(Own(r)', w) /\ trail'[r] \in Seq(Noted)
      BY <1>10, <1>12, <2>1
    <2>3. Tells(stage'[r], answer'[r], acts'[r], changed'[r], w)
      BY <1>3, <1>4, <1>12 DEF Tells, CallStates
    <2>4. Recorded_(r)'
      BY <2>2, <2>3 DEF Recorded_, Sayings
    <2>5. Vetoed(r)' /\ Checked(r)'
      BY <1>1, <1>3, <1>4, <1>8, <1>12 DEF Vetoed, Checked, DispatchType
    <2>6. QED
      BY <2>2, <2>4, <2>5 DEF Good
  <1>13. CASE /\ stage'[r] = "done" /\ answer'[r] = "nudged"
              /\ trail'[r] = trail[r] \o << <<"call", "denied">> >>
    <2>1. Says(Own(r)', "denied") /\ trail'[r] \in Seq(Noted)
      BY <1>10, <1>13
    <2>2. Tells(stage'[r], answer'[r], acts'[r], changed'[r], "denied")
      BY <1>3, <1>4, <1>13 DEF Tells, CallStates
    <2>3. Recorded_(r)'
      BY <2>1, <2>2 DEF Recorded_, Sayings
    <2>4. Vetoed(r)' /\ Checked(r)'
      BY <1>3, <1>4, <1>13 DEF Vetoed, Checked
    <2>5. QED
      BY <2>1, <2>3, <2>4 DEF Good
  <1>14. CASE /\ stage'[r] = "before" /\ queue'[r] = hooks.before /\ answer'[r] = "none"
              /\ trail'[r] = trail[r]
    <2>1. Says(Own(r)', "nothing")
      BY <1>6, <1>14
    <2>2. Tells(stage'[r], answer'[r], acts'[r], changed'[r], "nothing")
      BY <1>3, <1>4, <1>14 DEF Tells, CallStates
    <2>3. Recorded_(r)'
      BY <2>1, <2>2 DEF Recorded_, Sayings
    <2>4. Vetoed(r)'
      BY <1>3, <1>4, <1>14 DEF Vetoed, Range
    <2>5. Checked(r)'
      BY <1>1, <1>14 DEF Checked, DispatchType
    <2>6. QED
      BY <1>1, <1>14, <2>3, <2>4, <2>5 DEF Good
  <1>15. QED
    BY <1>9, <1>11, <1>12, <1>13, <1>14


\* A hook comes to its end: one that would block does, or has failed.
LEMMA HookKeeps ==
  ASSUME DispatchInv, NEW r \in Requested,
         NEW ending \in {"silence", "nothing", "ok", "blocked", "timeout", "throws", "exit"},
         HookEnds(r, ending)
  PROVE  trail'[r] \in Seq(Noted) /\ Good(r)'
  <1> DEFINE h == Head(queue[r])
             verdict == Verdict(h, ending)
             x == Recorded(verdict)
  <1>1. DispatchType /\ Recorded_(r) /\ Vetoed(r) /\ Checked(r) /\ trail[r] \in Seq(Noted)
    BY DEF DispatchInv, DispatchType
  <1>2. PICK v \in Sayings : Says(Own(r), v) /\ Tells(stage[r], answer[r], acts[r], changed[r], v)
    BY <1>1 DEF Recorded_
  <1>3. /\ stage[r] \in {"before", "after"} /\ queue[r] # <<>> /\ ending \in Endings(h, r)
        /\ UNCHANGED <<hooks, acts, changed>>
    BY DEF HookEnds
  <1>4. r \in DOMAIN stage /\ r \in DOMAIN queue /\ r \in DOMAIN answer /\ r \in DOMAIN trail
        /\ r \in DOMAIN soft
    BY <1>1 DEF DispatchType, Requested
  <1>5. queue[r] \in Seq(HookSet)
    BY <1>1, <1>3 DEF Checked
  <1>6. h \in HookSet /\ Tail(queue[r]) \in Seq(HookSet)
        /\ Range(queue[r]) \subseteq {h} \cup Range(Tail(queue[r]))
    <2>1. PICK q \in Seq(HookSet) : q = queue[r] /\ q # <<>>
      BY <1>3, <1>5
    <2>2. Head(q) \in HookSet /\ Tail(q) \in Seq(HookSet)
      BY <2>1
    <2>3. ASSUME NEW i \in DOMAIN q PROVE q[i] = Head(q) \/ q[i] \in Range(Tail(q))
      <3>1. Len(q) \in Nat /\ DOMAIN q = 1..Len(q) /\ Len(Tail(q)) = Len(q) - 1
        BY <2>1
      <3>2. CASE i = 1
        BY <2>1, <3>2
      <3>3. CASE i # 1
        <4>1. i - 1 \in 1..Len(Tail(q)) /\ Tail(q)[i - 1] = q[i]
          BY <2>1, <3>1, <3>3
        <4>2. DOMAIN Tail(q) = 1..Len(Tail(q))
          BY <2>2
        <4>3. QED
          BY <4>1, <4>2 DEF Range
      <3>4. QED
        BY <3>2, <3>3
    <2>4. QED
      BY <2>1, <2>2, <2>3 DEF Range
  <1>7. verdict \in {"ok", "blocked", "soft_error"} /\ x \in {"success", "denied", "error"}
        /\ (r \in h.vetoes => verdict \in {"blocked", "soft_error"})
    BY <1>3 DEF Verdict, RunCommandHook, RunFunctionHook, Recorded, Endings
  <1> DEFINE e == <<h.id, x>>
             blocks == verdict = "blocked" /\ stage[r] = "before"
             misused == verdict = "blocked" /\ stage[r] = "after"
  <1>8. e \in Noted /\ \A s \in Seq(Noted) : Kept(Append(s, e), Told) = Kept(s, Told)
    <2>1. \A g \in HookSet : \A y \in {"success", "denied", "error"} :
            /\ <<g.id, y>> \in Noted
            /\ \A s \in Seq(Noted) : Kept(Append(s, <<g.id, y>>), Told) = Kept(s, Told)
      BY HookRecord
    <2> HIDE DEF h, x
    <2>2. QED
      BY <1>6, <1>7, <2>1
  <1>9. <<h.id, "error">> \in Noted
        /\ \A s \in Seq(Noted) : Kept(Append(s, <<h.id, "error">>), Told) = Kept(s, Told)
    <2>1. \A g \in HookSet :
            /\ <<g.id, "error">> \in Noted
            /\ \A s \in Seq(Noted) : Kept(Append(s, <<g.id, "error">>), Told) = Kept(s, Told)
      BY HookRecord
    <2> HIDE DEF h
    <2>2. QED
      BY <1>6, <2>1
  <1>10. <<"call", "denied">> \in Noted
    BY DEF Noted, Told
  <1>11. trail'[r] = trail[r] \o (<<e>> \o (IF blocks THEN << <<"call", "denied">> >> ELSE <<>>)
                                       \o (IF misused THEN << <<h.id, "error">> >> ELSE <<>>))
    BY <1>4 DEF HookEnds, Records
  <1>12. Own(r) = Kept(trail[r], Told) /\ Own(r)' = Kept(trail'[r], Told)
    BY DEF Own, Told
  <1>13. /\ blocks => stage'[r] = "done" /\ answer'[r] = "blocked"
         /\ ~blocks => stage'[r] = stage[r] /\ queue'[r] = Tail(queue[r]) /\ answer'[r] = answer[r]
         /\ soft'[r] = IF stage[r] = "before" /\ verdict = "soft_error"
                       THEN soft[r] \cup {h.id} ELSE soft[r]
    BY <1>4 DEF HookEnds, Moves, Answers_
  <1> HIDE DEF e, h, verdict, x
  <1>14. \A q \in Seq(Noted) : Append(q, e) \in Seq(Noted)
    BY <1>8
  <1>15. CASE blocks
    <2>1. trail'[r] = trail[r] \o (<<e>> \o << <<"call", "denied">> >> \o <<>>)
      BY <1>11, <1>15
    <2>2. trail'[r] = Append(Append(trail[r], e), <<"call", "denied">>)
      BY <1>1, <1>8, <1>10, <2>1, Joined
    <2>3. trail'[r] \in Seq(Noted)
      BY <1>1, <1>8, <1>10, <2>2, Joined
    <2>4. v = "nothing" /\ acts[r] = "no"
      BY <1>2, <1>15 DEF Tells
    <2>5. Says(Kept(Append(trail[r], e), Told), "nothing")
      BY <1>1, <1>2, <1>8, <1>12, <2>4
    <2>6. Says(Own(r)', "denied")
      BY <1>1, <1>12, <1>14, <2>2, <2>5, FirstOwn
    <2>7. Tells(stage'[r], answer'[r], acts'[r], changed'[r], "denied")
      BY <1>3, <1>13, <1>15, <2>4 DEF Tells, CallStates
    <2>8. Recorded_(r)'
      BY <2>6, <2>7 DEF Recorded_, Sayings
    <2>9. Vetoed(r)' /\ Checked(r)'
      BY <1>3, <1>13, <1>15, <2>4 DEF Vetoed, Checked
    <2>10. QED
      BY <2>3, <2>8, <2>9 DEF Good
  <1>16. CASE ~blocks
    <2>1. Own(r)' = Own(r) /\ trail'[r] \in Seq(Noted)
      <3>1. CASE misused
        <4>1. trail'[r] = trail[r] \o (<<e>> \o <<>> \o << <<h.id, "error">> >>)
          BY <1>11, <1>16, <3>1
        <4>2. trail'[r] = Append(Append(trail[r], e), <<h.id, "error">>) /\ trail'[r] \in Seq(Noted)
          BY <1>1, <1>8, <1>9, <1>14, <4>1, Joined
        <4>3. QED
          BY <1>1, <1>8, <1>9, <1>12, <1>14, <4>2
      <3>2. CASE ~misused
        <4>1. trail'[r] = trail[r] \o (<<e>> \o <<>> \o <<>>)
          BY <1>11, <1>16, <3>2
        <4>2. trail'[r] = Append(trail[r], e) /\ trail'[r] \in Seq(Noted)
          BY <1>1, <1>8, <1>10, <1>14, <4>1, Joined
        <4>3. QED
          BY <1>1, <1>8, <1>12, <4>2
      <3>3. QED
        BY <3>1, <3>2
    <2>2. Recorded_(r)'
      BY <1>2, <1>3, <1>13, <1>16, <2>1 DEF Recorded_
    <2>3. Vetoed(r)'
      <3>1. CASE stage[r] = "before"
        <4>1. acts[r] = "no" /\ stage'[r] = "before" /\ acts'[r] = "no" /\ hooks' = hooks
          BY <1>2, <1>3, <1>13, <1>16, <3>1 DEF Tells
        <4>2. ASSUME NEW i \in DOMAIN hooks.before, r \in hooks.before[i].vetoes
              PROVE  hooks.before[i].id \in soft'[r] \/ hooks.before[i] \in Range(queue'[r])
          <5>1. hooks.before[i].id \in soft[r] \/ hooks.before[i] \in Range(queue[r])
            BY <1>1, <3>1, <4>2 DEF Vetoed
          <5>2. CASE hooks.before[i] = h
            <6>1. verdict = "soft_error"
              BY <1>7, <1>16, <3>1, <4>2, <5>2
            <6>2. QED
              BY <1>13, <3>1, <5>2, <6>1
          <5>3. CASE hooks.before[i] # h
            BY <1>6, <1>13, <1>16, <5>1, <5>3
          <5>4. QED
            BY <5>2, <5>3
        <4>3. QED
          BY <4>1, <4>2 DEF Vetoed
      <3>2. CASE stage[r] = "after"
        BY <1>1, <1>3, <1>13, <1>16, <3>2 DEF Vetoed
      <3>3. QED
        BY <1>3, <3>1, <3>2
    <2>4. Checked(r)'
      BY <1>1, <1>6, <1>13, <1>16 DEF Checked
    <2>5. QED
      BY <2>1, <2>2, <2>3, <2>4 DEF Good
  <1>17. QED
    BY <1>15, <1>16

LEMMA DispatchCrashKeeps ==
  ASSUME DispatchInv, CrashDispatch
  PROVE  DispatchInv'
  <1>1. DispatchType
    BY DEF DispatchInv
  <1>2. UNCHANGED <<hooks, queue, answer, soft, changed, trail>> /\ Requested' = Requested
        /\ DOMAIN acts' = Requested
    BY DEF CrashDispatch, Requested
  <1>3. DispatchType'
    BY <1>1, <1>2 DEF DispatchType
  <1>4. ASSUME NEW r \in Requested PROVE Good(r)'
    <2>1. Recorded_(r) /\ Vetoed(r) /\ Checked(r)
      BY DEF DispatchInv
    <2>2. PICK v \in Sayings : Says(Own(r), v) /\ Tells(stage[r], answer[r], acts[r], changed[r], v)
      BY <2>1 DEF Recorded_
    <2>3. /\ stage'[r] = IF stage[r] \in {"idle", "done"} THEN stage[r] ELSE "dead"
          /\ acts'[r] = IF acts[r] = "running" THEN "stopped" ELSE acts[r]
      BY DEF CrashDispatch
    <2>4. Own(r)' = Own(r)
      BY <1>2 DEF Own
    <2>5. Tells(stage'[r], answer'[r], acts'[r], changed'[r], v)
      BY <1>2, <2>2, <2>3 DEF Tells, CallStates
    <2>6. Recorded_(r)'
      BY <2>2, <2>4, <2>5 DEF Recorded_
    <2>7. Vetoed(r)'
      BY <1>2, <2>1, <2>3 DEF Vetoed
    <2>8. Checked(r)'
      BY <1>2, <2>1, <2>3 DEF Checked
    <2>9. QED
      BY <2>6, <2>7, <2>8 DEF Good
  <1>5. QED
    BY <1>2, <1>3, <1>4 DEF DispatchInv, Good

\* What is declared to the model against what is validated.
LEMMA DeclaredFits ==
  ASSUME NEW r, NEW d \in GetToolDeclarations(r), Request[r].cap = d.name
  PROVE  LET tool == Toolbox[ResolveCapability(r)]
         IN /\ ValidateToolInvocation(r) = "denied" => tool.effect \notin Effects
            /\ ValidateToolInvocation(r) = "invalid" /\ Fits(d.parameters, Request[r].args) =>
                 \E p \in DOMAIN tool.parameters :
                   /\ tool.parameters[p].type # "string"
                   /\ tool.parameters[p].enum # {} \/ tool.parameters[p].secret
  <1>1. PICK t \in GetAvailableTools(r) :
          d = [name |-> <<Request[r].session, t>>, parameters |-> ToJsonSchema(Toolbox[t].parameters)]
    BY DEF GetToolDeclarations
  <1>2. t \in ToolsOf(r) /\ t \in DOMAIN Toolbox /\ DOMAIN Toolbox = DOMAIN ConfigTools /\ t # "none"
    BY <1>1, DispatchAssumption DEF GetAvailableTools, Toolbox
  <1>3. ResolveCapability(r) = t
    BY <1>1, <1>2 DEF ResolveCapability, MintCapabilityMap
  <1> DEFINE ps == Toolbox[t].parameters
             args == Request[r].args
             shown == ToJsonSchema(ps)
  <1>4. \A p \in DOMAIN ps :
          ps[p] \in [type : STRING, required : BOOLEAN, enum : SUBSET STRING, secret : BOOLEAN]
    BY <1>2, DispatchAssumption DEF Toolbox
  <1>5. ValidateToolInvocation(r) = "denied" => Toolbox[t].effect \notin Effects
    BY <1>1, <1>2, <1>3 DEF ValidateToolInvocation
  <1>6. ASSUME ValidateToolInvocation(r) = "invalid", Fits(shown, args)
        PROVE  \E p \in DOMAIN ps : /\ ps[p].type # "string"
                                    /\ ps[p].enum # {} \/ ps[p].secret
    <2>1. ~Parses(ps, args)
      BY <1>1, <1>2, <1>3, <1>6 DEF ValidateToolInvocation
    <2> HIDE DEF ps, args
    <2>2. PICK p \in DOMAIN ps :
            ~ IF p \notin DOMAIN args THEN ~ps[p].required
              ELSE IF ps[p].enum # {} THEN TypeOf(args[p]) = "string" /\ args[p][2] \in ps[p].enum
              ELSE TypeOf(args[p]) = ps[p].type
      BY <2>1 DEF Parses
    <2>3. /\ DOMAIN shown = DOMAIN ps /\ shown[p].required = ps[p].required
          /\ shown[p].enum = ps[p].enum
          /\ shown[p].type = IF ps[p].secret THEN "string" ELSE ps[p].type
      BY <1>4, <2>2 DEF ToJsonSchema
    <2>4. IF p \in DOMAIN args
          THEN TypeOf(args[p]) = shown[p].type /\ (shown[p].enum # {} => args[p][2] \in shown[p].enum)
          ELSE ~shown[p].required
      BY <1>6, <2>3 DEF Fits
    <2>5. QED
      BY <2>2, <2>3, <2>4
  <1>7. QED
    BY <1>1, <1>3, <1>5, <1>6

LEMMA SaysOnly ==
  ASSUME NEW v \in Sayings, NEW o, Says(o, v)
  PROVE  /\ Len(o) <= 1 /\ (o = <<>> <=> v = "nothing")
         /\ o = << <<"call", "denied">> >> => v = "denied"
         /\ o = << <<"call", "success">> >> => v = "success"
  <1>1. CASE v = "nothing"
    <2>1. o = <<>> /\ Len(<<>>) = 0
      BY <1>1 DEF Says
    <2>2. \A e : <<e>> # <<>>
      OBVIOUS
    <2>3. QED
      BY <1>1, <2>1, <2>2
  <1>2. CASE v # "nothing"
    <2>1. o = << <<"call", v>> >>
      BY <1>2 DEF Says
    <2>2. Len(o) = 1 /\ o # <<>> /\ o[1][2] = v
      BY <2>1
    <2>3. QED
      BY <1>2, <2>2
  <1>3. QED
    BY <1>1, <1>2

\* The audit log tells of every call once, and tells what its handler did; a
\* hook that would block has failed where the call ran; and a call that keeps
\* to what was declared is refused for two reasons only: for any catalog, hooks,
\* calls and crashes, and whatever the handlers do (inference.ts, invoke.ts).
THEOREM Answering == Spec => []AnswersTrue
  <1>1. Init => DispatchInv
    BY DispatchStart
  <1>2. DispatchInv /\ [Next]_allVars => DispatchInv'
    <2> SUFFICES ASSUME DispatchInv, Next \/ UNCHANGED allVars PROVE DispatchInv'
      OBVIOUS
    <2>1. CASE UNCHANGED dispatchVars
      BY <2>1 DEF dispatchVars, DispatchInv, DispatchType, Recorded_, Vetoed, Checked, Own, Requested
    <2>2. ASSUME NEW r \in Requested, RequestStep(r) PROVE DispatchInv'
      <3>1. trail'[r] \in Seq(Noted) /\ Good(r)'
        BY <2>2, BeginKeeps, HookKeeps, SilentKeeps, ReportKeeps DEF RequestStep
      <3>2. QED
        BY <2>2, <3>1, OneCall
    <2>3. QED
      BY <2>1, <2>2, DispatchSteps, DispatchCrashKeeps
  <1>3. DispatchInv => AnswersTrue
    <2> SUFFICES ASSUME DispatchInv, NEW r \in Requested
                 PROVE  /\ Len(Own(r)) <= 1
                        /\ stage[r] = "done" => (Own(r) = <<>> <=> answer[r] = "unparsed")
                        /\ Own(r) = << <<"call", "denied">> >> => acts[r] = "no"
                        /\ Own(r) = << <<"call", "success">> >> /\ ~changed[r] => acts[r] = "well"
                        /\ stage[r] \in {"report", "post", "after", "done"} /\ acts[r] = "running" =>
                             answer[r] = "timeout"
                        /\ acts[r] # "no" =>
                             \A i \in DOMAIN hooks.before :
                               r \in hooks.before[i].vetoes => hooks.before[i].id \in soft[r]
                        /\ \A d \in GetToolDeclarations(r) :
                             LET tool == Toolbox[ResolveCapability(r)]
                             IN Request[r].cap = d.name =>
                                  /\ answer[r] = "denied" => tool.effect \notin Effects
                                  /\ answer[r] = "invalid" /\ Fits(d.parameters, Request[r].args) =>
                                       \E p \in DOMAIN tool.parameters :
                                         /\ tool.parameters[p].type # "string"
                                         /\ tool.parameters[p].enum # {} \/ tool.parameters[p].secret
      BY DEF AnswersTrue
    <2>1. Recorded_(r) /\ Vetoed(r) /\ Checked(r)
      BY DEF DispatchInv
    <2>2. PICK v \in Sayings : Says(Own(r), v) /\ Tells(stage[r], answer[r], acts[r], changed[r], v)
      BY <2>1 DEF Recorded_
    <2>3. PICK o : o = Own(r) /\ Says(o, v)
      BY <2>2
    <2>4. /\ Len(o) <= 1 /\ (o = <<>> <=> v = "nothing")
          /\ o = << <<"call", "denied">> >> => v = "denied"
          /\ o = << <<"call", "success">> >> => v = "success"
      BY <2>2, <2>3, SaysOnly
    <2>5. /\ stage[r] = "done" => (v = "nothing" <=> answer[r] = "unparsed")
          /\ v = "denied" => acts[r] = "no"
          /\ v = "success" /\ ~changed[r] => acts[r] = "well"
          /\ stage[r] # "running" /\ acts[r] = "running" => answer[r] = "timeout"
      BY <2>2 DEF Tells
    <2>6. acts[r] # "no" =>
            \A i \in DOMAIN hooks.before :
              r \in hooks.before[i].vetoes => hooks.before[i].id \in soft[r]
      BY <2>1 DEF Vetoed
    <2>7. answer[r] \in {"denied", "invalid"} => answer[r] = ValidateToolInvocation(r)
      BY <2>1 DEF Checked
    <2>8. QED
      BY <2>3, <2>4, <2>5, <2>6, <2>7, DeclaredFits
  <1>4. QED
    BY <1>1, <1>2, <1>3, PTL DEF Spec


-----------------------------------------------------------------------------
(* The todo lists. *)

HasKey(t, s) == \E i \in DOMAIN t : t[i][1] = s
\* The i-th use in u is the last of a session's.
IsLast(u, i, s) == i \in DOMAIN u /\ u[i][1] = s /\ \A k \in i + 1 .. Len(u) : u[k][1] # s
UsedAfter(u, i) == {u[k][1] : k \in {k \in i + 1 .. Len(u) : u[k][2]}}

\* The lists t are in the order of their sessions' last uses u.
Listed(t, u) ==
  /\ \E P : t \in Seq(P)
  /\ \E P : u \in Seq(P \X BOOLEAN)
  /\ \A a \in DOMAIN t : \E i : IsLast(u, i, t[a][1]) /\ u[i][2]
  /\ \A a, b \in DOMAIN t : a < b =>
       \A i, k : IsLast(u, i, t[a][1]) /\ IsLast(u, k, t[b][1]) => i < k
Remembered_(t, u) ==
  \A i \in DOMAIN u : u[i][2] /\ IsLast(u, i, u[i][1]) =>
    HasKey(t, u[i][1]) \/ ~(Cardinality(UsedAfter(u, i)) < MaxLists)

DeskInv ==
  Listed(todos, uses) /\ Remembered_(todos, uses) /\ Len(todos) <= MaxLists

\* What a step of the tools is for the lists.
LEMMA DeskSteps ==
  ASSUME Next \/ UNCHANGED allVars
  PROVE  \/ UNCHANGED <<todos, uses>>
         \/ \E s, list : SetList(s, list) /\ uses' = Append(uses, <<s, TRUE>>)
         \/ \E s : todos' = Dropped(todos, s) /\ uses' = Append(uses, <<s, FALSE>>)
         \/ todos' = <<>> /\ uses' = <<>>
  <1>1. CASE UNCHANGED allVars
    BY <1>1 DEF allVars, deskAll, deskVars, deskHistory
  <1>2. CASE Next
    <2>1. ASSUME AtDesk
          PROVE  \/ UNCHANGED <<todos, uses>>
                 \/ \E s, list : SetList(s, list) /\ uses' = Append(uses, <<s, TRUE>>)
                 \/ \E s : todos' = Dropped(todos, s) /\ uses' = Append(uses, <<s, FALSE>>)
      <3>1. DeskPasses => UNCHANGED <<todos, uses>>
        BY DEF DeskPasses, SinkChanges, WindowEnds, deskHistory
      <3>2. ASSUME NEW e \in Sent, ErrandStep(e)
            PROVE  \/ UNCHANGED <<todos, uses>>
                   \/ \E s, list : SetList(s, list) /\ uses' = Append(uses, <<s, TRUE>>)
                   \/ \E s : todos' = Dropped(todos, s) /\ uses' = Append(uses, <<s, FALSE>>)
        <4>1. TodoList(e) => \/ UNCHANGED <<todos, uses>>
                             \/ \E s, list : SetList(s, list) /\ uses' = Append(uses, <<s, TRUE>>)
          BY DEF TodoList, TouchSession, Used
        <4>2. TodoSet(e) \/ TodoUpdate(e) =>
                \/ UNCHANGED <<todos, uses>>
                \/ \E s, list : SetList(s, list) /\ uses' = Append(uses, <<s, TRUE>>)
          BY DEF TodoSet, TodoUpdate, Used
        <4>3. TodoClear(e) => \E s : todos' = Dropped(todos, s) /\ uses' = Append(uses, <<s, FALSE>>)
          BY DEF TodoClear
        <4>4. PlanEnter(e) \/ PlanExit(e) \/ PlanStatus(e) \/ Writes(e)
              \/ TimerStart(e) \/ TimerCheck(e) \/ TimerList(e) \/ TimerStop(e)
                => UNCHANGED <<todos, uses>>
          BY DEF PlanEnter, PlanExit, PlanStatus, Writes, TimerStart, TimerCheck, TimerList,
                 TimerStop, deskHistory
        <4>5. MessageSend(e) \/ (\E ok \in BOOLEAN : Delivered(e, ok))
              \/ SubagentSpawn(e) \/ ChildTurn(e) \/ Deadline(e)
              \/ (\E result \in {"text", "tool_calls", "empty", "error", "thrown"} :
                    ChildStreamed(e, result))
              \/ (\E ok \in BOOLEAN : ChildTools(e, ok))
                => UNCHANGED <<todos, uses>>
          BY DEF MessageSend, Delivered, SubagentSpawn, ChildTurn, Deadline, ChildStreamed,
                 ChildTools, deskHistory
        <4>6. QED
          BY <3>2, <4>1, <4>2, <4>3, <4>4, <4>5 DEF ErrandStep
      <3>3. QED
        BY <2>1, <3>1, <3>2 DEF AtDesk
    <2>2. ASSUME NEW p \in Engaged, Crash(p)
          PROVE  UNCHANGED <<todos, uses>> \/ (todos' = <<>> /\ uses' = <<>>)
      BY <2>2 DEF Crash, CrashDesk, deskAll, deskVars, deskHistory
    <2>3. (OnFiles /\ UNCHANGED <<lookVars, deskAll, dispatchVars>>)
          \/ (\E l \in Asking : LookupStep(l) /\ UNCHANGED <<fileVars, deskAll, dispatchVars>>)
          \/ Requesting => UNCHANGED <<todos, uses>>
      BY DEF Requesting, deskAll, deskVars, deskHistory
    <2>4. QED
      BY <1>2, <2>1, <2>2, <2>3 DEF Next
  <1>3. QED
    BY <1>1, <1>2

\* Some of the lists, in the same order.
Part(q, t) ==
  /\ \E P : q \in Seq(P)
  /\ \E h : /\ h \in [1..Len(q) -> 1..Len(t)]
            /\ \A a \in 1..Len(q) : q[a] = t[h[a]]
            /\ \A a, b \in 1..Len(q) : a < b => h[a] < h[b]

LEMMA PartListed ==
  ASSUME NEW t, NEW u, NEW q, Listed(t, u), Part(q, t)
  PROVE  Listed(q, u)
  <1>1. PICK h : /\ h \in [1..Len(q) -> 1..Len(t)]
                 /\ \A a \in 1..Len(q) : q[a] = t[h[a]]
                 /\ \A a, b \in 1..Len(q) : a < b => h[a] < h[b]
    BY DEF Part
  <1>2. DOMAIN q = 1..Len(q)
    BY DEF Part
  <1>3. DOMAIN t = 1..Len(t)
    BY DEF Listed
  <1>4. \A a \in DOMAIN q : h[a] \in DOMAIN t /\ q[a] = t[h[a]]
    BY <1>1, <1>2, <1>3
  <1>5. \A a \in DOMAIN q : \E i : IsLast(u, i, q[a][1]) /\ u[i][2]
    BY <1>4 DEF Listed
  <1>6. \A a, b \in DOMAIN q : a < b =>
          \A i, k : IsLast(u, i, q[a][1]) /\ IsLast(u, k, q[b][1]) => i < k
    BY <1>1, <1>2, <1>4 DEF Listed
  <1>7. QED
    BY <1>5, <1>6 DEF Listed, Part

\* Whose last use is which, after one more.
OneUse(P, u, s, v, w) ==
  /\ w \in Seq((P \cup {s}) \X BOOLEAN) /\ Len(w) = Len(u) + 1 /\ Len(u) \in Nat
  /\ w[Len(u) + 1] = <<s, v>>
  /\ \A i \in 1..Len(u) : w[i] = u[i]
  /\ \A i, x : x # s => (IsLast(w, i, x) <=> IsLast(u, i, x))
  /\ \A i : IsLast(w, i, s) <=> i = Len(u) + 1
LEMMA LastUses ==
  ASSUME NEW P, NEW u \in Seq(P \X BOOLEAN), NEW s, NEW v \in BOOLEAN, NEW w,
         w = Append(u, <<s, v>>)
  PROVE  OneUse(P, u, s, v, w)
  <1>1. u \in Seq((P \cup {s}) \X BOOLEAN)
    OBVIOUS
  <1>2. /\ w \in Seq((P \cup {s}) \X BOOLEAN) /\ Len(w) = Len(u) + 1 /\ Len(u) \in Nat
        /\ w[Len(u) + 1] = <<s, v>>
        /\ \A i \in 1..Len(u) : w[i] = u[i]
    BY <1>1
  <1>3. PICK n \in Nat : n = Len(u)
    BY <1>2
  <1>4. DOMAIN w = 1..n + 1 /\ DOMAIN u = 1..n /\ w[n + 1][1] = s
    BY <1>2, <1>3
  <1>5. ASSUME NEW i, NEW x, x # s PROVE IsLast(w, i, x) <=> IsLast(u, i, x)
    <2>1. i \in 1..n + 1 /\ w[i][1] = x => i \in 1..n
      BY <1>4, <1>5
    <2>2. ASSUME i \in 1..n PROVE IsLast(w, i, x) <=> IsLast(u, i, x)
      <3>1. \A k \in i + 1 .. n + 1 : k \in 1..n \/ k = n + 1
        BY <2>2
      <3>2. \A k \in i + 1 .. n : k \in i + 1 .. n + 1 /\ k \in 1..n
        BY <2>2
      <3>3. (\A k \in i + 1 .. n + 1 : w[k][1] # x) <=> (\A k \in i + 1 .. n : u[k][1] # x)
        <4>1. ASSUME \A k \in i + 1 .. n + 1 : w[k][1] # x, NEW k \in i + 1 .. n PROVE u[k][1] # x
          BY <1>2, <1>3, <3>2, <4>1
        <4>2. ASSUME \A k \in i + 1 .. n : u[k][1] # x, NEW k \in i + 1 .. n + 1 PROVE w[k][1] # x
          <5>1. CASE k = n + 1
            BY <1>4, <1>5, <5>1
          <5>2. CASE k # n + 1
            <6>1. k \in i + 1 .. n /\ k \in 1..n
              BY <2>2, <5>2
            <6>2. QED
              BY <1>2, <1>3, <4>2, <6>1
          <5>3. QED
            BY <5>1, <5>2
        <4>3. QED
          BY <4>1, <4>2
      <3>4. w[i] = u[i] /\ i \in 1..n + 1
        BY <1>2, <1>3, <2>2
      <3>5. QED
        BY <1>2, <1>3, <1>4, <2>2, <3>3, <3>4 DEF IsLast
    <2>3. QED
      BY <1>4, <2>1, <2>2 DEF IsLast
  <1>6. ASSUME NEW i PROVE IsLast(w, i, s) <=> i = n + 1
    <2>1. i \in 1..n => n + 1 \in i + 1 .. n + 1
      BY <1>3
    <2>2. ~ \E k : k \in n + 1 + 1 .. n + 1
      BY <1>3
    <2>3. i \in 1..n + 1 => i \in 1..n \/ i = n + 1
      BY <1>3
    <2>4. n + 1 \in 1..n + 1
      BY <1>3
    <2>5. QED
      BY <1>2, <1>3, <1>4, <2>1, <2>2, <2>3, <2>4 DEF IsLast
  <1>7. QED
    BY <1>2, <1>3, <1>5, <1>6 DEF OneUse

\* A session that has no list uses one, or gives its up.
LEMMA ListedNext ==
  ASSUME NEW q, NEW u, Listed(q, u), NEW s, ~HasKey(q, s), NEW v \in BOOLEAN, NEW list,
         NEW w, w = Append(u, <<s, v>>), NEW r, r = Append(q, <<s, list>>)
  PROVE  /\ Listed(q, w)
         /\ v => Listed(r, w)
  <1>1. PICK P : u \in Seq(P \X BOOLEAN)
    BY DEF Listed
  <1>2. /\ w \in Seq((P \cup {s}) \X BOOLEAN) /\ Len(w) = Len(u) + 1 /\ Len(u) \in Nat
        /\ w[Len(u) + 1] = <<s, v>>
        /\ \A i \in 1..Len(u) : w[i] = u[i]
        /\ \A i, x : x # s => (IsLast(w, i, x) <=> IsLast(u, i, x))
        /\ \A i : IsLast(w, i, s) <=> i = Len(u) + 1
    <2>1. OneUse(P, u, s, v, w)
      BY <1>1, LastUses
    <2>2. QED
      BY <2>1 DEF OneUse
  <1>3. \A a \in DOMAIN q : q[a][1] # s
    BY DEF HasKey
  <1>4. \A i, x : IsLast(u, i, x) => i \in 1..Len(u)
    BY <1>1 DEF IsLast
  <1>5. \A a \in DOMAIN q : \E i : IsLast(w, i, q[a][1]) /\ w[i][2]
    <2> SUFFICES ASSUME NEW a \in DOMAIN q PROVE \E i : IsLast(w, i, q[a][1]) /\ w[i][2]
      OBVIOUS
    <2>1. PICK i : IsLast(u, i, q[a][1]) /\ u[i][2]
      BY DEF Listed
    <2>2. IsLast(w, i, q[a][1]) /\ w[i] = u[i]
      BY <1>2, <1>3, <1>4, <2>1
    <2>3. QED
      BY <2>1, <2>2
  <1>6. \A a, b \in DOMAIN q : a < b =>
          \A i, k : IsLast(w, i, q[a][1]) /\ IsLast(w, k, q[b][1]) => i < k
    <2> SUFFICES ASSUME NEW a \in DOMAIN q, NEW b \in DOMAIN q, a < b, NEW i, NEW k,
                        IsLast(w, i, q[a][1]), IsLast(w, k, q[b][1])
                 PROVE  i < k
      OBVIOUS
    <2>1. IsLast(u, i, q[a][1]) /\ IsLast(u, k, q[b][1])
      BY <1>2, <1>3
    <2>2. QED
      BY <2>1 DEF Listed
  <1>7. Listed(q, w)
    BY <1>2, <1>5, <1>6 DEF Listed
  <1>8. ASSUME v = TRUE PROVE Listed(r, w)
    <2>1. PICK Q : q \in Seq(Q)
      BY DEF Listed
    <2>2. PICK n \in Nat : n = Len(q)
      BY <2>1
    <2>3. /\ r \in Seq(Q \cup {<<s, list>>}) /\ DOMAIN r = 1..n + 1 /\ DOMAIN q = 1..n
          /\ r[n + 1][1] = s /\ \A a \in 1..n : r[a] = q[a]
      <3>1. q \in Seq(Q \cup {<<s, list>>})
        BY <2>1
      <3>2. /\ r \in Seq(Q \cup {<<s, list>>}) /\ Len(r) = n + 1
            /\ r[n + 1] = <<s, list>> /\ \A a \in 1..n : r[a] = q[a]
        BY <2>2, <3>1
      <3>3. QED
        BY <2>1, <2>2, <3>2
    <2>4. \A a \in DOMAIN r : a \in DOMAIN q \/ a = n + 1
      BY <2>3
    <2>5. \A a \in DOMAIN r : \E i : IsLast(w, i, r[a][1]) /\ w[i][2]
      <3>1. IsLast(w, Len(u) + 1, s)
        BY <1>2
      <3>2. w[Len(u) + 1][2]
        BY <1>2, <1>8
      <3> SUFFICES ASSUME NEW a \in DOMAIN r PROVE \E i : IsLast(w, i, r[a][1]) /\ w[i][2]
        OBVIOUS
      <3>3. CASE a = n + 1
        BY <2>3, <3>1, <3>2, <3>3
      <3>4. CASE a \in DOMAIN q
        <4>1. r[a] = q[a]
          BY <2>3, <3>4
        <4>2. QED
          BY <1>5, <3>4, <4>1
      <3>5. QED
        BY <2>4, <3>3, <3>4
    <2>6. ASSUME NEW a \in DOMAIN r, NEW b \in DOMAIN r, a < b, NEW i, NEW k,
                 IsLast(w, i, r[a][1]), IsLast(w, k, r[b][1])
          PROVE  i < k
      <3>1. a \in DOMAIN q /\ r[a] = q[a]
        BY <2>3, <2>6
      <3>2. CASE b \in DOMAIN q
        BY <1>6, <2>3, <2>6, <3>1, <3>2
      <3>3. CASE b = n + 1
        <4>1. k = Len(u) + 1
          BY <1>2, <2>3, <2>6, <3>3
        <4>2. i \in 1..Len(u)
          BY <1>2, <1>3, <1>4, <2>6, <3>1
        <4>3. QED
          BY <1>2, <4>1, <4>2
      <3>4. QED
        BY <2>4, <3>2, <3>3
    <2>7. QED
      BY ZenonT(30), <1>2, <2>3, <2>5, <2>6 DEF Listed
  <1>9. QED
    BY <1>7, <1>8


\* Who used a list later still did after one more use, and they are finitely many.
LEMMA UsersGrow ==
  ASSUME NEW P, NEW u \in Seq(P \X BOOLEAN), NEW s, NEW v \in BOOLEAN, NEW w,
         w = Append(u, <<s, v>>), NEW i \in 1..Len(u)
  PROVE  /\ UsedAfter(u, i) \subseteq UsedAfter(w, i)
         /\ v => s \in UsedAfter(w, i)
         /\ IsFiniteSet(UsedAfter(w, i))
         /\ IsFiniteSet(UsedAfter(u, i))
  <1>1. OneUse(P, u, s, v, w)
    BY LastUses
  <1>2. PICK n \in Nat : n = Len(u) /\ Len(w) = n + 1 /\ i \in 1..n
    BY <1>1 DEF OneUse
  <1>3. \A k \in i + 1 .. n : k \in i + 1 .. n + 1 /\ k \in 1..n
    BY <1>2
  <1>4. \A k \in i + 1 .. n : w[k] = u[k]
    BY <1>1, <1>2, <1>3 DEF OneUse
  <1>5. UsedAfter(u, i) \subseteq UsedAfter(w, i)
    BY <1>2, <1>3, <1>4 DEF UsedAfter
  <1>6. n + 1 \in i + 1 .. n + 1 /\ w[n + 1] = <<s, v>>
    BY <1>1, <1>2 DEF OneUse
  <1>7. v => s \in UsedAfter(w, i)
    BY <1>2, <1>6 DEF UsedAfter
  <1>8. IsFiniteSet(UsedAfter(w, i))
    <2> DEFINE K == {k \in i + 1 .. Len(w) : w[k][2]}
               f == [k \in K |-> w[k][1]]
    <2>1. IsFiniteSet(i + 1 .. n + 1)
      BY <1>2, FS_Interval
    <2>2. K \subseteq i + 1 .. n + 1
      BY <1>2
    <2>3. IsFiniteSet(K)
      BY <2>1, <2>2, FS_Subset
    <2>4. f \in Surjection(K, UsedAfter(w, i))
      BY DEF UsedAfter, Surjection
    <2>5. QED
      BY <2>3, <2>4, FS_Surjection
  <1>9. IsFiniteSet(UsedAfter(u, i))
    BY <1>5, <1>8, FS_Subset
  <1>10. QED
    BY <1>5, <1>7, <1>8, <1>9

\* When the oldest of MAX_TODO_SESSIONS lists makes room for another, that many
\* sessions have used theirs since.
LEMMA Crowded ==
  ASSUME NEW t, NEW u, Listed(t, u), Len(t) = MaxLists, NEW s, ~HasKey(t, s), NEW w,
         w = Append(u, <<s, TRUE>>), NEW i, IsLast(u, i, t[1][1])
  PROVE  ~(Cardinality(UsedAfter(w, i)) < MaxLists)
  <1>1. PICK P : u \in Seq(P \X BOOLEAN)
    BY DEF Listed
  <1>2. i \in 1..Len(u)
    BY <1>1 DEF IsLast
  <1>3. OneUse(P, u, s, TRUE, w) /\ s \in UsedAfter(w, i) /\ IsFiniteSet(UsedAfter(w, i))
    <2>1. OneUse(P, u, s, TRUE, w)
      BY <1>1, LastUses
    <2>2. s \in UsedAfter(w, i) /\ IsFiniteSet(UsedAfter(w, i))
      BY <1>1, <1>2, UsersGrow
    <2>3. QED
      BY <2>1, <2>2
  <1>4. MaxLists \in Nat \ {0} /\ DOMAIN t = 1..MaxLists
    BY DeskAssumption DEF Listed
  <1>5. ASSUME NEW a \in 2..MaxLists PROVE t[a][1] \in UsedAfter(w, i) /\ t[a][1] # s
    <2>1. a \in DOMAIN t /\ 1 \in DOMAIN t /\ 1 < a
      BY <1>4
    <2>2. PICK k : IsLast(u, k, t[a][1]) /\ u[k][2]
      BY <2>1 DEF Listed
    <2>3. i < k
      BY <2>1, <2>2 DEF Listed
    <2>4. k \in 1..Len(u)
      BY <1>1, <2>2 DEF IsLast
    <2>5. k \in i + 1 .. Len(w) /\ w[k] = u[k]
      BY <1>2, <1>3, <2>3, <2>4 DEF OneUse
    <2>6. w[k][2] /\ w[k][1] = t[a][1]
      BY <2>2, <2>5 DEF IsLast
    <2>7. QED
      BY <2>1, <2>5, <2>6 DEF UsedAfter, HasKey
  <1>6. ASSUME NEW a \in 1..MaxLists, NEW b \in 1..MaxLists, a < b PROVE t[a][1] # t[b][1]
    <2>1. a \in DOMAIN t /\ b \in DOMAIN t
      BY <1>4
    <2>2. PICK k : IsLast(u, k, t[a][1])
      BY <2>1 DEF Listed
    <2>3. IsLast(u, k, t[b][1]) => k < k
      BY <1>6, <2>1, <2>2 DEF Listed
    <2>4. k \in 1..Len(u)
      BY <1>1, <2>2 DEF IsLast
    <2>5. QED
      BY <2>2, <2>3, <2>4
  <1> DEFINE f == [a \in 1..MaxLists |-> IF a = 1 THEN s ELSE t[a][1]]
  <1>7. \A a \in 1..MaxLists : a = 1 \/ a \in 2..MaxLists
    BY <1>4
  <1>8. \A a \in 1..MaxLists : f[a] \in UsedAfter(w, i)
    BY <1>3, <1>5, <1>7
  <1>9. ASSUME NEW a \in 1..MaxLists, NEW b \in 1..MaxLists, a # b PROVE f[a] # f[b]
    <2>1. CASE a = 1
      BY <1>5, <1>7, <1>9, <2>1
    <2>2. CASE b = 1
      BY <1>5, <1>7, <1>9, <2>2
    <2>3. CASE a # 1 /\ b # 1
      <3>1. f[a] = t[a][1] /\ f[b] = t[b][1]
        BY <2>3
      <3>2. a < b \/ b < a
        BY <1>4, <1>9
      <3>3. QED
        BY <1>6, <3>1, <3>2
    <2>4. QED
      BY <2>1, <2>2, <2>3
  <1>10. f \in Injection(1..MaxLists, UsedAfter(w, i))
    <2> HIDE DEF f
    <2>1. f \in [1..MaxLists -> UsedAfter(w, i)]
      BY <1>8 DEF f
    <2>2. QED
      BY <1>9, <2>1 DEF Injection, IsInjective
  <1>11. Cardinality(1..MaxLists) <= Cardinality(UsedAfter(w, i))
    BY <1>3, <1>10, FS_Injection
  <1>12. Cardinality(1..MaxLists) = MaxLists
    BY <1>4, FS_Interval
  <1>13. Cardinality(UsedAfter(w, i)) \in Nat
    BY <1>3, FS_CardinalityType
  <1>14. QED
    BY <1>4, <1>11, <1>12, <1>13

\* A list is forgotten only when it is given up, or is the oldest of too many.
LEMMA RememberedNext ==
  ASSUME NEW t, NEW u, Listed(t, u), Remembered_(t, u), NEW s, NEW v \in BOOLEAN, NEW w,
         w = Append(u, <<s, v>>), NEW r, v => HasKey(r, s),
         \A x : HasKey(t, x) /\ x # s =>
           \/ HasKey(r, x)
           \/ v = TRUE /\ Len(t) = MaxLists /\ ~HasKey(t, s) /\ x = t[1][1]
  PROVE  Remembered_(r, w)
  <1>1. PICK P : u \in Seq(P \X BOOLEAN)
    BY DEF Listed
  <1>2. OneUse(P, u, s, v, w)
    BY <1>1, LastUses
  <1> SUFFICES ASSUME NEW i \in DOMAIN w, w[i][2], IsLast(w, i, w[i][1]), ~HasKey(r, w[i][1])
               PROVE  ~(Cardinality(UsedAfter(w, i)) < MaxLists)
    BY DEF Remembered_
  <1>3. w[i][1] # s
    <2>1. SUFFICES ASSUME w[i][1] = s PROVE FALSE
      OBVIOUS
    <2>2. i = Len(u) + 1 /\ w[i] = <<s, v>>
      BY <1>2, <2>1 DEF OneUse
    <2>3. v
      BY <2>2
    <2>4. QED
      BY <2>1, <2>3
  <1>4. IsLast(u, i, w[i][1])
    BY <1>2, <1>3 DEF OneUse
  <1>5. i \in 1..Len(u) /\ w[i] = u[i] /\ i \in DOMAIN u
    BY <1>1, <1>2, <1>4 DEF OneUse, IsLast
  <1>6. CASE HasKey(t, w[i][1])
    <2>1. v = TRUE /\ Len(t) = MaxLists /\ ~HasKey(t, s) /\ w[i][1] = t[1][1]
      BY <1>3, <1>6
    <2>2. IsLast(u, i, t[1][1])
      BY <1>4, <2>1
    <2>3. w = Append(u, <<s, TRUE>>)
      BY <2>1
    <2>4. QED
      BY <2>1, <2>2, <2>3, Crowded
  <1>7. CASE ~HasKey(t, w[i][1])
    <2>1. ~(Cardinality(UsedAfter(u, i)) < MaxLists)
      BY <1>4, <1>5, <1>7 DEF Remembered_
    <2>2. /\ UsedAfter(u, i) \subseteq UsedAfter(w, i)
          /\ IsFiniteSet(UsedAfter(w, i)) /\ IsFiniteSet(UsedAfter(u, i))
      BY <1>1, <1>5, UsersGrow
    <2>3. Cardinality(UsedAfter(u, i)) <= Cardinality(UsedAfter(w, i))
      BY <2>2, FS_Subset
    <2>4. Cardinality(UsedAfter(u, i)) \in Nat /\ Cardinality(UsedAfter(w, i)) \in Nat
          /\ MaxLists \in Nat
      BY <2>2, FS_CardinalityType, DeskAssumption
    <2>5. QED
      BY <2>1, <2>3, <2>4
  <1>8. QED
    BY <1>6, <1>7

\* Without the list of a session: the others are there, in their order.
LEMMA DropsOne ==
  ASSUME NEW P, NEW t \in Seq(P), NEW s, NEW q, q = Dropped(t, s)
  PROVE  /\ Part(q, t) /\ ~HasKey(q, s) /\ q \in Seq(P)
         /\ \A x : HasKey(t, x) /\ x # s => HasKey(q, x)
         /\ Len(q) \in Nat /\ Len(q) <= Len(t) /\ (HasKey(t, s) => Len(q) < Len(t))
  <1> DEFINE S == {l \in Range(t) : l[1] # s}
  <1>1. q \in Seq(P \cap S) /\ Picked(q, t, Len(t), S)
    BY KeptIs, KeptPicks DEF Dropped
  <1>2. q \in Seq(P) /\ DOMAIN q = 1..Len(q) /\ DOMAIN t = 1..Len(t) /\ Len(q) \in Nat
    BY <1>1
  <1>3. \A a \in 1..Len(t) : t[a] \in S <=> t[a][1] # s
    BY <1>2 DEF Range
  <1> HIDE DEF S
  <1>4. PICK h : Picks(h, q, t, Len(t), S)
    BY <1>1 DEF Picked
  <1>5. Part(q, t)
    BY <1>2, <1>4 DEF Picks, Part
  <1>6. \A a \in 1..Len(q) : h[a] \in 1..Len(t) /\ q[a] = t[h[a]] /\ t[h[a]] \in S
    BY <1>4 DEF Picks
  <1>7. ~HasKey(q, s)
    BY <1>2, <1>3, <1>6 DEF HasKey
  <1>8. ASSUME NEW x, HasKey(t, x), x # s PROVE HasKey(q, x)
    <2>1. PICK a \in 1..Len(t) : t[a][1] = x
      BY <1>2, <1>8 DEF HasKey
    <2>2. t[a] \in S
      BY <1>3, <1>8, <2>1
    <2>3. PICK b \in 1..Len(q) : h[b] = a
      BY <1>4, <2>2 DEF Picks
    <2>4. QED
      BY <1>2, <1>6, <2>1, <2>3 DEF HasKey
  <1>9. Len(q) <= Len(t) /\ (HasKey(t, s) => Len(q) < Len(t))
    BY <1>1, <1>2, <1>3 DEF Picked, HasKey
  <1>10. QED
    BY <1>2, <1>5, <1>7, <1>8, <1>9


\* Room is made for one more list: the oldest goes if there are too many.
LEMMA MakesRoom ==
  ASSUME NEW P, NEW t \in Seq(P), Len(t) <= MaxLists, NEW q, q = EnsureCapacity(t)
  PROVE  /\ Part(q, t) /\ q \in Seq(P) /\ Len(q) < MaxLists
         /\ \A x : HasKey(t, x) => HasKey(q, x) \/ (Len(t) = MaxLists /\ x = t[1][1])
         /\ \A x : HasKey(q, x) => HasKey(t, x)
  <1>1. MaxLists \in Nat \ {0} /\ Len(t) \in Nat /\ DOMAIN t = 1..Len(t)
    BY DeskAssumption
  <1>2. CASE Len(t) < MaxLists
    <2>1. q = t
      BY <1>2 DEF EnsureCapacity
    <2>2. Part(t, t)
      <3> DEFINE h == [a \in 1..Len(t) |-> a]
      <3>1. /\ h \in [1..Len(t) -> 1..Len(t)]
            /\ \A a \in 1..Len(t) : t[a] = t[h[a]]
            /\ \A a, b \in 1..Len(t) : a < b => h[a] < h[b]
        OBVIOUS
      <3> HIDE DEF h
      <3>2. QED
        BY <3>1 DEF Part
    <2>3. QED
      BY <1>2, <2>1, <2>2
  <1>3. CASE ~(Len(t) < MaxLists)
    <2>1. Len(t) = MaxLists /\ Len(t) - MaxLists + 2 = 2
      <3>1. PICK l \in Nat : l = Len(t) /\ l <= MaxLists
        BY <1>1
      <3>2. l = MaxLists
        <4>1. PICK m \in Nat : m = MaxLists
          BY <1>1
        <4>2. l <= m /\ ~(l < m)
          BY <1>3, <3>1, <4>1
        <4>3. l = m
          BY <4>2
        <4>4. QED
          BY <4>1, <4>3
      <3>3. l - l + 2 = 2
        BY <3>1
      <3>4. QED
        BY <3>1, <3>2, <3>3
    <2>2. q = SubSeq(t, 2, Len(t))
      BY <1>3, <2>1 DEF EnsureCapacity
    <2>3. /\ q \in Seq(P) /\ Len(q) = Len(t) - 1
          /\ \A a \in 1..Len(q) : q[a] = t[a + 1]
      BY <1>1, <2>1, <2>2
    <2>4. PICK m \in Nat : m = Len(q) /\ Len(t) = m + 1
      BY <1>1, <2>1, <2>3
    <2>5. DOMAIN q = 1..m
      BY <2>3, <2>4
    <2>6. Part(q, t)
      <3> DEFINE h == [a \in 1..m |-> a + 1]
      <3>1. /\ h \in [1..m -> 1..m + 1]
            /\ \A a \in 1..m : h[a] = a + 1
            /\ \A a, b \in 1..m : a < b => h[a] < h[b]
        BY <2>4
      <3> HIDE DEF h
      <3>2. \A a \in 1..m : q[a] = t[h[a]]
        BY <2>3, <2>4, <3>1
      <3>3. QED
        BY <2>3, <2>4, <3>1, <3>2 DEF Part
    <2>7. ASSUME NEW x, HasKey(t, x), x # t[1][1] PROVE HasKey(q, x)
      <3>1. PICK a \in 1..m + 1 : t[a][1] = x
        BY <1>1, <2>4, <2>7 DEF HasKey
      <3>2. a - 1 \in 1..m /\ (a - 1) + 1 = a
        BY <2>4, <2>7, <3>1
      <3>3. q[a - 1] = t[a]
        BY <2>3, <2>4, <3>2
      <3>4. QED
        BY <2>5, <3>1, <3>2, <3>3 DEF HasKey
    <2>8. ASSUME NEW x, HasKey(q, x) PROVE HasKey(t, x)
      <3>1. PICK a \in 1..m : q[a][1] = x
        BY <2>5, <2>8 DEF HasKey
      <3>2. a + 1 \in 1..m + 1 /\ q[a] = t[a + 1]
        BY <2>3, <2>4, <3>1
      <3>3. QED
        BY <1>1, <2>4, <3>1, <3>2 DEF HasKey
    <2>9. Len(q) < MaxLists
      BY <1>1, <2>1, <2>3
    <2>10. QED
      BY <2>1, <2>3, <2>6, <2>7, <2>8, <2>9
  <1>4. QED
    BY <1>2, <1>3

LEMMA SetKeeps ==
  ASSUME DeskInv, NEW s, NEW list, SetList(s, list), uses' = Append(uses, <<s, TRUE>>)
  PROVE  DeskInv'
  <1>1. Listed(todos, uses) /\ Remembered_(todos, uses) /\ Len(todos) <= MaxLists
    BY DEF DeskInv
  <1>2. PICK P : todos \in Seq(P)
    BY <1>1 DEF Listed
  <1>3. HasList(s) <=> HasKey(todos, s)
    BY DEF HasList, HasKey
  <1>4. PICK base : base = IF HasKey(todos, s) THEN todos ELSE EnsureCapacity(todos)
    OBVIOUS
  <1>5. PICK q : q = Dropped(base, s)
    OBVIOUS
  <1>6. todos' = Append(q, <<s, list>>)
    BY <1>3, <1>4, <1>5 DEF SetList
  <1>7. MaxLists \in Nat \ {0} /\ Len(todos) \in Nat
    BY <1>2, DeskAssumption
  <1>8. /\ base \in Seq(P) /\ Listed(base, uses)
        /\ \A x : HasKey(todos, x) => HasKey(base, x) \/ (/\ Len(todos) = MaxLists /\ x = todos[1][1]
                                                          /\ ~HasKey(todos, s))
        /\ ~HasKey(base, s) => Len(base) < MaxLists
        /\ Len(base) <= MaxLists
    <2>1. CASE HasKey(todos, s)
      BY <1>1, <1>2, <1>4, <2>1
    <2>2. CASE ~HasKey(todos, s)
      <3>1. base = EnsureCapacity(todos)
        BY <1>4, <2>2
      <3>2. /\ Part(base, todos) /\ base \in Seq(P) /\ Len(base) < MaxLists
            /\ \A x : HasKey(todos, x) => HasKey(base, x) \/ (Len(todos) = MaxLists /\ x = todos[1][1])
        BY <1>1, <1>2, <3>1, MakesRoom
      <3>3. Listed(base, uses)
        BY <1>1, <3>2, PartListed
      <3>4. Len(base) <= MaxLists
        BY <1>7, <3>2
      <3>5. QED
        BY <2>2, <3>2, <3>3, <3>4
    <2>3. QED
      BY <2>1, <2>2
  <1>9. /\ Part(q, base) /\ ~HasKey(q, s) /\ q \in Seq(P)
        /\ \A x : HasKey(base, x) /\ x # s => HasKey(q, x)
        /\ Len(q) \in Nat /\ Len(q) <= Len(base) /\ (HasKey(base, s) => Len(q) < Len(base))
    BY <1>5, <1>8, DropsOne
  <1>10. Listed(q, uses)
    BY <1>8, <1>9, PartListed
  <1>11. Listed(todos', uses')
    BY <1>6, <1>9, <1>10, ListedNext
  <1>12. /\ Len(todos') = Len(q) + 1 /\ HasKey(todos', s)
         /\ \A x : HasKey(q, x) => HasKey(todos', x)
    <2>1. PICK r : r = Append(q, <<s, list>>)
      OBVIOUS
    <2>2. /\ Len(r) = Len(q) + 1 /\ DOMAIN r = 1..Len(q) + 1 /\ DOMAIN q = 1..Len(q)
          /\ r[Len(q) + 1] = <<s, list>> /\ \A a \in 1..Len(q) : r[a] = q[a]
      <3>1. q \in Seq(P \cup {<<s, list>>})
        BY <1>9
      <3>2. QED
        BY <2>1, <3>1
    <2>3. HasKey(r, s)
      <3>1. Len(q) + 1 \in 1..Len(q) + 1
        BY <1>9
      <3>2. QED
        BY <2>2, <3>1 DEF HasKey
    <2>4. \A x : HasKey(q, x) => HasKey(r, x)
      <3>1. \A a \in 1..Len(q) : a \in 1..Len(q) + 1
        BY <1>9
      <3>2. QED
        BY <2>2, <3>1 DEF HasKey
    <2>5. QED
      BY <1>6, <2>1, <2>2, <2>3, <2>4
  <1>13. Len(todos') <= MaxLists
    <2>1. Len(base) \in Nat
      BY <1>8
    <2>2. Len(q) < MaxLists
      BY <1>7, <1>8, <1>9, <2>1
    <2>3. QED
      BY <1>7, <1>9, <1>12, <2>2
  <1>14. \A x : HasKey(todos, x) /\ x # s =>
           \/ HasKey(todos', x)
           \/ TRUE = TRUE /\ Len(todos) = MaxLists /\ ~HasKey(todos, s) /\ x = todos[1][1]
    BY <1>8, <1>9, <1>12
  <1>15. Remembered_(todos', uses')
    BY <1>1, <1>12, <1>14, RememberedNext
  <1>16. QED
    BY <1>11, <1>13, <1>15 DEF DeskInv, Listed, Remembered_

LEMMA ClearKeeps ==
  ASSUME DeskInv, NEW s, todos' = Dropped(todos, s), uses' = Append(uses, <<s, FALSE>>)
  PROVE  DeskInv'
  <1>1. Listed(todos, uses) /\ Remembered_(todos, uses) /\ Len(todos) <= MaxLists
    BY DEF DeskInv
  <1>2. PICK P : todos \in Seq(P)
    BY <1>1 DEF Listed
  <1>3. /\ Part(todos', todos) /\ ~HasKey(todos', s)
        /\ \A x : HasKey(todos, x) /\ x # s => HasKey(todos', x)
        /\ Len(todos') \in Nat /\ Len(todos') <= Len(todos)
    BY <1>2, DropsOne
  <1>4. Listed(todos', uses)
    BY <1>1, <1>3, PartListed
  <1>5. Listed(todos', uses')
    BY <1>3, <1>4, ListedNext
  <1>6. Remembered_(todos', uses')
    BY <1>1, <1>3, RememberedNext
  <1>7. Len(todos') <= MaxLists
    <2>1. Len(todos) \in Nat /\ MaxLists \in Nat
      BY <1>2, DeskAssumption
    <2>2. QED
      BY <1>1, <1>3, <2>1
  <1>8. QED
    BY <1>5, <1>6, <1>7 DEF DeskInv, Listed, Remembered_

\* A list is forgotten only for lack of room, and then the one that was not
\* used for longest, for any cap, sessions and errands (todo.ts).
THEOREM Remembering == Spec => []RecentKept
  <1>1. ASSUME todos = <<>>, uses = <<>> PROVE DeskInv
    <2>1. \A P : <<>> \in Seq(P)
      OBVIOUS
    <2>2. DOMAIN todos = {} /\ DOMAIN uses = {} /\ Len(todos) = 0
      BY <1>1
    <2>3. QED
      BY <1>1, <2>1, <2>2, DeskAssumption DEF DeskInv, Listed, Remembered_
  <1>2. Init => DeskInv
    <2>1. Init => todos = <<>> /\ uses = <<>>
      BY DEF Init, DeskInit
    <2>2. QED
      BY <1>1, <2>1
  <1>3. DeskInv /\ [Next]_allVars => DeskInv'
    <2> SUFFICES ASSUME DeskInv, Next \/ UNCHANGED allVars PROVE DeskInv'
      OBVIOUS
    <2>1. CASE UNCHANGED <<todos, uses>>
      BY <2>1 DEF DeskInv, Listed, Remembered_
    <2>2. CASE todos' = <<>> /\ uses' = <<>>
      <3>1. \A P : <<>> \in Seq(P)
        OBVIOUS
      <3>2. DOMAIN todos' = {} /\ DOMAIN uses' = {} /\ Len(todos') = 0
        BY <2>2
      <3>3. QED
        BY <2>2, <3>1, <3>2, DeskAssumption DEF DeskInv, Listed, Remembered_
    <2>3. QED
      BY <2>1, <2>2, DeskSteps, SetKeeps, ClearKeeps
  <1>4. DeskInv => RecentKept
    <2> SUFFICES ASSUME DeskInv, NEW i \in DOMAIN uses, uses[i][2],
                        \A k \in {k \in i + 1 .. Len(uses) : TRUE} : uses[k][1] # uses[i][1],
                        Cardinality({uses[k][1] : k \in {k \in {k \in i + 1 .. Len(uses) : TRUE} :
                                                           uses[k][2]}}) < MaxLists
                 PROVE  HasList(uses[i][1])
      BY DEF RecentKept
    <2>1. IsLast(uses, i, uses[i][1])
      BY DEF IsLast
    <2>2. UsedAfter(uses, i) = {uses[k][1] : k \in {k \in {k \in i + 1 .. Len(uses) : TRUE} :
                                                      uses[k][2]}}
      BY DEF UsedAfter
    <2>3. QED
      BY <2>1, <2>2 DEF DeskInv, Remembered_, HasKey, HasList
  <1>5. QED
    BY <1>2, <1>3, <1>4, PTL DEF Spec

-----------------------------------------------------------------------------
(* Documents, and whoever changes them. *)

\* A sequence, of whatever it holds.
Proper(s) == s \in Seq(Range(s))

LEMMA ProperIn ==
  ASSUME NEW S, NEW s \in Seq(S)
  PROVE  Proper(s) /\ Range(s) \subseteq S
  <1>1. Len(s) \in Nat /\ DOMAIN s = 1..Len(s) /\ \A i \in 1..Len(s) : s[i] \in S
    OBVIOUS
  <1>2. Range(s) \subseteq S /\ \A i \in 1..Len(s) : s[i] \in Range(s)
    BY <1>1 DEF Range
  <1>3. s \in [1..Len(s) -> Range(s)]
    BY <1>1, <1>2
  <1>4. QED
    BY <1>1, <1>2, <1>3 DEF Proper

LEMMA ProperWithin ==
  ASSUME NEW s, Proper(s), NEW S, Range(s) \subseteq S
  PROVE  s \in Seq(S)
  BY DEF Proper

\* The order a directory is listed in.
LEMMA ListedOnce ==
  ASSUME NEW S, IsFiniteSet(S)
  PROVE  SetToSeq(S) \in Seq(S) /\ Range(SetToSeq(S)) = S
  <1> DEFINE n == Cardinality(S)
             s == SetToSeq(S)
  <1>1. n \in Nat /\ ExistsBijection(1..n, S)
    BY FS_CardinalityType
  <1>2. PICK g \in Bijection(1..n, S) : TRUE
    BY <1>1 DEF ExistsBijection
  <1>3. g \in [1..n -> S] /\ IsInjective(g)
    BY <1>2 DEF Bijection, Injection, IsInjective
  <1>4. s \in [1..n -> S] /\ IsInjective(s)
    BY <1>3 DEF SetToSeq
  <1> HIDE DEF s
  <1>5. s \in Injection(1..n, S) /\ IsFiniteSet(1..n) /\ Cardinality(1..n) = n
    BY <1>1, <1>4, FS_Interval DEF Injection, IsInjective
  <1>6. s \in Surjection(1..n, S)
    BY <1>5, FS_Injection
  <1>7. \A e \in S : \E i \in 1..n : s[i] = e
    BY <1>6 DEF Surjection
  <1> HIDE DEF n
  <1>8. s \in Seq(S)
    BY <1>1, <1>4
  <1>9. Range(s) = S
    BY <1>4, <1>7 DEF Range
  <1>10. QED
    BY <1>8, <1>9 DEF s

LEMMA ReversedToo ==
  ASSUME NEW S, NEW s \in Seq(S)
  PROVE  Reverse(s) \in Seq(S) /\ Range(Reverse(s)) = Range(s)
  <1> DEFINE n == Len(s)
             t == Reverse(s)
  <1>1. n \in Nat /\ DOMAIN s = 1..n /\ \A i \in 1..n : s[i] \in S
    OBVIOUS
  <1>2. t = [i \in 1..n |-> s[(n - i) + 1]]
    BY DEF Reverse
  <1> HIDE DEF n, t
  <1>3. \A i \in 1..n : (n - i) + 1 \in 1..n /\ (n - ((n - i) + 1)) + 1 = i
    BY <1>1
  <1>4. t \in [1..n -> S] /\ \A i \in 1..n : t[i] = s[(n - i) + 1] /\ s[i] = t[(n - i) + 1]
    BY <1>1, <1>2, <1>3
  <1>5. t \in Seq(S)
    BY <1>1, <1>4
  <1>6. Range(t) = Range(s)
    BY SMTT(30), <1>1, <1>3, <1>4 DEF Range
  <1>7. QED
    BY <1>5, <1>6 DEF t

LEMMA ReaddirIs ==
  ASSUME NEW items, IsFiniteSet(items), NEW listing \in Readdir(items)
  PROVE  listing \in Seq(items) /\ Range(listing) = items
  BY ListedOnce, ReversedToo DEF Readdir

LEMMA KeptRange ==
  ASSUME NEW P, NEW S, NEW s \in Seq(P)
  PROVE  Kept(s, S) \in Seq(P) /\ Range(Kept(s, S)) = Range(s) \cap S
  <1> DEFINE q == Kept(s, S)
  <1>1. /\ q \in Seq(P) /\ Len(q) \in Nat /\ Len(s) \in Nat
        /\ \A i \in 1..Len(q) : q[i] \in S /\ \E j \in 1..Len(s) : q[i] = s[j]
    BY KeptFrom
  <1>2. Picked(q, s, Len(s), S)
    BY KeptPicks
  <1> HIDE DEF q
  <1>3. \A j \in 1..Len(s) : s[j] \in S => \E i \in 1..Len(q) : q[i] = s[j]
    BY <1>2 DEF Picked, Picks
  <1>4. Range(q) = {q[i] : i \in 1..Len(q)} /\ Range(s) = {s[i] : i \in 1..Len(s)}
    BY <1>1 DEF Range
  <1>5. Range(q) = Range(s) \cap S
    BY <1>1, <1>3, <1>4
  <1>6. QED
    BY <1>1, <1>5 DEF q

-----------------------------------------------------------------------------
(* Plans: where the items of a bulk call come from and go to. *)

\* What is true of the first and carried on by each step is true all the way.
LEMMA Upwards ==
  ASSUME NEW n \in Nat, NEW f, NEW A, f[0] \in A,
         \A i \in 1..n : f[i - 1] \in A => f[i] \in A
  PROVE  \A i \in 0..n : f[i] \in A
  <1> DEFINE Bad == {i \in Nat : i <= n /\ f[i] \notin A}
  <1>1. Bad = {}
    <2>1. SUFFICES ASSUME Bad # {} PROVE FALSE
      OBVIOUS
    <2>2. PICK i \in Bad : \A k \in Bad : ~(k < i)
      BY <2>1, Least
    <2>3. i # 0
      BY <2>2
    <2>4. i \in 1..n /\ i - 1 \in Nat /\ i - 1 < i /\ i - 1 <= n
      BY <2>2, <2>3
    <2>5. f[i - 1] \in A
      BY <2>2, <2>4
    <2>6. QED
      BY <2>2, <2>4, <2>5
  <1>2. QED
    BY <1>1

\* A plan that has nothing to do with a directory.
Spares(p, d) == \A i \in DOMAIN p : p[i][1][1] # d /\ p[i][2][1] # d

\* One step of a plan, of a renamer or of flatten_folder, and all steps.
NewOf(c, f) ==
  <<f[1], IF f[2] \in DOMAIN Asked[c].names THEN Asked[c].names[f[2]] ELSE f[2]>>
Renamed(c, acc, f) ==
  IF NewOf(c, f)[2] = "" \/ NewOf(c, f) \in acc.used THEN acc
  ELSE [used |-> (acc.used \ {f}) \cup {NewOf(c, f)}, plan |-> Append(acc.plan, <<f, NewOf(c, f)>>)]
FreeName(acc, f) == UniqueTargetName(acc.used, f[2])
Flattened(c, acc, f) ==
  [used |-> acc.used \cup {FreeName(acc, f)},
   plan |-> Append(acc.plan, <<f, <<Asked[c].root, FreeName(acc, f)>>>>)]
Planned(renames, c, acc, f) == IF renames THEN Renamed(c, acc, f) ELSE Flattened(c, acc, f)
Plans(t, renames, c, base, s) ==
  t = [i \in 0 .. Len(s) |-> IF i = 0 THEN base ELSE Planned(renames, c, t[i - 1], s[i])]

LEMMA PlansExist ==
  ASSUME NEW renames, NEW c, NEW base, NEW s, Len(s) \in Nat
  PROVE  \E t : Plans(t, renames, c, base, s)
  <1> DEFINE n == Len(s)
             Val(f, i) == IF i = 0 THEN base ELSE Planned(renames, c, f[i - 1], s[i])
             Is(m, f) == /\ f = [i \in 0..m |-> f[i]]
                         /\ \A i \in 0..m : f[i] = Val(f, i)
             Gaps == {m \in Nat : m <= n /\ ~ \E f : Is(m, f)}
  <1>1. Gaps = {}
    <2>1. SUFFICES ASSUME Gaps # {} PROVE FALSE
      OBVIOUS
    <2>2. PICK m \in Gaps : \A k \in Gaps : ~(k < m)
      BY <2>1, Least
    <2>3. m \in Nat /\ m > 0 /\ m <= n
      <3>1. Is(0, [i \in 0..0 |-> base])
        OBVIOUS
      <3> HIDE DEF Is
      <3>2. 0 \notin Gaps
        BY <3>1
      <3>3. QED
        BY <2>2, <3>2
    <2>4. PICK g : Is(m - 1, g)
      <3> HIDE DEF Is
      <3>1. QED
        BY <2>2, <2>3
    <2> DEFINE new == Planned(renames, c, g[m - 1], s[m])
               h == [i \in 0..m |-> IF i = m THEN new ELSE g[i]]
    <2>5. /\ h = [i \in 0..m |-> h[i]]
          /\ \A i \in 0..m - 1 : h[i] = g[i]
          /\ h[m] = new
      BY <2>3
    <2> HIDE DEF h
    <2>6. ASSUME NEW i \in 0..m PROVE h[i] = Val(h, i)
      <3>1. CASE i = m
        <4>1. m - 1 \in 0..m - 1
          BY <2>3
        <4>2. h[m - 1] = g[m - 1] /\ m # 0
          <5>1. \A k \in 0..m - 1 : h[k] = g[k]
            BY <2>5
          <5>2. QED
            BY <2>3, <4>1, <5>1
        <4>3. h[m] = Planned(renames, c, h[m - 1], s[m])
          BY <2>5, <4>2
        <4>4. QED
          BY <3>1, <4>2, <4>3
      <3>2. CASE i # m
        <4>1. i \in 0..m - 1 /\ (i # 0 => i - 1 \in 0..m - 1)
          BY <2>3, <3>2
        <4>2. h[i] = g[i] /\ (i # 0 => h[i - 1] = g[i - 1]) /\ g[i] = Val(g, i)
          BY <2>4, <2>5, <4>1
        <4>3. QED
          BY <4>2
      <3>3. QED
        BY <3>1, <3>2
    <2>7. Is(m, h)
      BY <2>5, <2>6
    <2>8. QED
      BY <2>7
  <1>2. PICK f : Is(n, f)
    <2> HIDE DEF Is
    <2>1. QED
      BY <1>1
  <1>3. Plans(f, renames, c, base, s)
    BY <1>2 DEF Plans
  <1>4. QED
    BY <1>3

\* The items of a plan that is put together step by step.
ItemsOf(renames, c, P, N) ==
  IF renames THEN {<<f, NewOf(c, f)>> : f \in P}
  ELSE {<<f, <<Asked[c].root, name>>>> : f \in P, name \in N}

LEMMA PlansAre ==
  ASSUME NEW renames \in BOOLEAN, NEW c, NEW base, base.plan = <<>>, NEW P, NEW s \in Seq(P),
         NEW t, Plans(t, renames, c, base, s)
  PROVE  \E N : t[Len(s)].plan \in Seq(ItemsOf(renames, c, P, N))
  <1> DEFINE n == Len(s)
             N == {FreeName(t[i - 1], s[i]) : i \in 1..n}
             items == ItemsOf(renames, c, P, N)
             A == Seq(items)
             g == [i \in 0..n |-> t[i].plan]
  <1>1. n \in Nat /\ \A i \in 1..n : s[i] \in P
    OBVIOUS
  <1>2. t[0] = base /\ \A i \in 1..n : t[i] = Planned(renames, c, t[i - 1], s[i])
    BY <1>1 DEF Plans
  <1>3. ASSUME NEW i \in 1..n, t[i - 1].plan \in A PROVE t[i].plan \in A
    <2> DEFINE acc == t[i - 1]  f == s[i]
    <2>1. t[i] = Planned(renames, c, acc, f) /\ f \in P /\ acc.plan \in A
      BY <1>1, <1>2, <1>3
    <2>2. FreeName(acc, f) \in N
      OBVIOUS
    <2> HIDE DEF acc, f, N
    <2>3. CASE renames
      <3>1. <<f, NewOf(c, f)>> \in items
        BY <2>1, <2>3 DEF ItemsOf
      <3> HIDE DEF items
      <3>2. Append(acc.plan, <<f, NewOf(c, f)>>) \in A
        BY <2>1, <3>1
      <3>3. t[i].plan \in {acc.plan, Append(acc.plan, <<f, NewOf(c, f)>>)}
        <4>1. t[i] = Renamed(c, acc, f)
          BY <2>1, <2>3 DEF Planned
        <4>2. CASE NewOf(c, f)[2] = "" \/ NewOf(c, f) \in acc.used
          BY <4>1, <4>2 DEF Renamed
        <4>3. CASE ~(NewOf(c, f)[2] = "" \/ NewOf(c, f) \in acc.used)
          <5> DEFINE more == Append(acc.plan, <<f, NewOf(c, f)>>)
          <5>1. t[i] = [used |-> (acc.used \ {f}) \cup {NewOf(c, f)}, plan |-> more]
            BY <4>1, <4>3 DEF Renamed
          <5> HIDE DEF more
          <5>2. t[i].plan = more
            BY <5>1
          <5>3. QED
            BY <5>2 DEF more
        <4>4. QED
          BY <4>2, <4>3
      <3>4. QED
        BY <2>1, <3>2, <3>3
    <2>4. CASE ~renames
      <3>1. <<f, <<Asked[c].root, FreeName(acc, f)>>>> \in items
        BY <2>1, <2>2, <2>4 DEF ItemsOf
      <3> HIDE DEF items
      <3>2. Append(acc.plan, <<f, <<Asked[c].root, FreeName(acc, f)>>>>) \in A
        BY <2>1, <3>1
      <3>3. t[i].plan = Append(acc.plan, <<f, <<Asked[c].root, FreeName(acc, f)>>>>)
        BY <2>1, <2>4 DEF Planned, Flattened
      <3>4. QED
        BY <3>2, <3>3
    <2>5. QED
      BY <2>3, <2>4
  <1> HIDE DEF n, items, N
  <1>4. g[0] \in A /\ \A i \in 1..n : g[i - 1] \in A => g[i] \in A
    <2>1. 0 \in 0..n /\ \A i \in 1..n : i \in 0..n /\ i - 1 \in 0..n
      BY <1>1
    <2>2. <<>> \in A
      OBVIOUS
    <2> HIDE DEF A
    <2>3. QED
      BY <1>2, <1>3, <2>1, <2>2
  <1> HIDE DEF A, g
  <1>5. \A i \in 0..n : g[i] \in A
    BY <1>1, <1>4, Upwards
  <1>6. g[n] \in A /\ g[n] = t[n].plan
    BY <1>1, <1>5 DEF g
  <1>7. t[Len(s)].plan \in Seq(ItemsOf(renames, c, P, N))
    BY <1>6 DEF A, items, n
  <1>8. QED
    BY <1>7

LEMMA RenamePlanIs ==
  ASSUME NEW c, NEW S, NEW files \in Seq(S)
  PROVE  RenamePlan(c, files) \in Seq({<<f, NewOf(c, f)>> : f \in S})
  <1> DEFINE base == [used |-> Range(files), plan |-> <<>>]
             t == CHOOSE t : Plans(t, TRUE, c, base, files)
  <1>1. base.plan = <<>> /\ Len(files) \in Nat
    OBVIOUS
  <1>2. Plans(t, TRUE, c, base, files)
    BY <1>1, PlansExist
  <1>3. RenamePlan(c, files) = t[Len(files)].plan
    BY DEF RenamePlan, Plans, Planned, Renamed, NewOf
  <1> HIDE DEF t, base
  <1>4. PICK N : t[Len(files)].plan \in Seq(ItemsOf(TRUE, c, S, N))
    BY <1>1, <1>2, PlansAre
  <1>5. ItemsOf(TRUE, c, S, N) = {<<f, NewOf(c, f)>> : f \in S}
    BY DEF ItemsOf
  <1>6. QED
    BY <1>3, <1>4, <1>5

LEMMA FlattenPlanIs ==
  ASSUME NEW c, NEW S, NEW files \in Seq(S)
  PROVE  \E N : FlattenPlan(c, files) \in
                  Seq({<<f, <<Asked[c].root, name>>>> : f \in S, name \in N})
  <1> DEFINE root == Asked[c].root
             deep == Kept(files, {f \in Range(files) : f[1] # root})
             base == [used |-> {f[2] : f \in {f \in Range(files) : f[1] = root}}, plan |-> <<>>]
             t == CHOOSE t : Plans(t, FALSE, c, base, deep)
  <1>1. deep \in Seq(S) /\ base.plan = <<>>
    BY KeptRange
  <1>2. Len(deep) \in Nat
    BY <1>1
  <1>3. FlattenPlan(c, files) = t[Len(deep)].plan
    BY DEF FlattenPlan, Plans, Planned, Flattened, FreeName
  <1> HIDE DEF deep, base
  <1>4. Plans(t, FALSE, c, base, deep)
    BY <1>2, PlansExist
  <1> HIDE DEF t
  <1>5. PICK N : t[Len(deep)].plan \in Seq(ItemsOf(FALSE, c, S, N))
    BY <1>1, <1>4, PlansAre
  <1> DEFINE items == {<<f, <<root, name>>>> : f \in S, name \in N}
  <1>6. ItemsOf(FALSE, c, S, N) = items
    BY DEF ItemsOf
  <1> HIDE DEF items
  <1>7. FlattenPlan(c, files) \in Seq(items)
    BY <1>3, <1>5, <1>6
  <1>8. QED
    BY <1>7 DEF items

\* The plan a call may submit.
PlannedBy(c, p) ==
  \/ Asked[c].tool \in Movers /\ p = MovePlan(c)
  \/ /\ Asked[c].tool \notin Movers
     /\ \E files \in WalkFiles(c) :
          p \in {RenamePlan(c, files), FlattenPlan(c, files), JunkPlan(c, files)}

LEMMA PlansSpare ==
  ASSUME NEW c \in Calls, NEW p, IsFiniteSet(Files), PlannedBy(c, p)
  PROVE  Proper(p) /\ \A d : d # "" /\ KeepsOff(c, d) => Spares(p, d)
  <1> DEFINE a == Asked[c]
  <1>1. CASE a.tool \in Movers /\ p = MovePlan(c)
    <2> DEFINE To(src) == IF a.to[2] = "" THEN <<a.to[1], src[2]>> ELSE a.to
               T == {src \in Files : To(src)[1] \notin Protected}
               good == Kept(a.sources, T)
               S == {<<src, To(src)>> : src \in Range(a.sources)}
    <2>1. a.sources \in Seq(STRING \X STRING)
      BY <1>1, BulkAssumption
    <2>2. a.sources \in Seq(Range(a.sources))
      BY <2>1, ProperIn DEF Proper
    <2>3. good \in Seq(Range(a.sources))
      <3> HIDE DEF T
      <3>1. QED
        BY <2>2, KeptRange
    <2>4. p = [i \in DOMAIN good |-> <<good[i], To(good[i])>>]
      BY <1>1 DEF MovePlan
    <2> HIDE DEF good
    <2>5. DOMAIN good = 1..Len(good) /\ Len(good) \in Nat
          /\ \A i \in 1..Len(good) : good[i] \in Range(a.sources)
      BY <2>3
    <2>6. p \in [1..Len(good) -> S]
      BY <2>4, <2>5
    <2>7. p \in Seq(S)
      <3> HIDE DEF S
      <3>1. QED
        BY <2>5, <2>6
    <2>8. ASSUME NEW d, KeepsOff(c, d), NEW i \in DOMAIN p
          PROVE  p[i][1][1] # d /\ p[i][2][1] # d
      <3>1. PICK src \in Range(a.sources) : p[i] = <<src, To(src)>>
        BY <2>5, <2>6
      <3>2. src[1] # d /\ a.to[1] # d
        BY <1>1, <2>8 DEF KeepsOff, Range
      <3>3. To(src)[1] = a.to[1]
        OBVIOUS
      <3> HIDE DEF To
      <3>4. p[i][1] = src /\ p[i][2] = To(src)
        BY <3>1
      <3>5. QED
        BY <3>2, <3>3, <3>4
    <2>9. QED
      BY <2>7, <2>8, ProperIn DEF Spares
  <1>2. ASSUME a.tool \notin Movers, NEW files \in WalkFiles(c),
               p \in {RenamePlan(c, files), FlattenPlan(c, files), JunkPlan(c, files)}
        PROVE  Proper(p) /\ \A d : d # "" /\ KeepsOff(c, d) => Spares(p, d)
    <2> DEFINE S == {f \in Files : f[1] \in a.folder /\ f[2] \notin Hidden}
    <2>1. files \in Seq(S)
      <3>1. IsFiniteSet(S)
        BY FS_Subset
      <3>2. files \in Readdir(S)
        BY DEF WalkFiles
      <3> HIDE DEF S
      <3>3. QED
        BY <3>1, <3>2, ReaddirIs
    <2>2. \A f \in S : f[1] \in a.folder
      OBVIOUS
    <2> HIDE DEF S
    <2>3. \E T : /\ p \in Seq(T)
                 /\ \A e \in T : e[1] \in S /\ e[2][1] \in {e[1][1], a.root, ""}
      <3>1. CASE p = RenamePlan(c, files)
        <4> DEFINE T == {<<f, NewOf(c, f)>> : f \in S}
        <4>1. p \in Seq(T)
          BY <2>1, <3>1, RenamePlanIs
        <4>2. \A e \in T : e[1] \in S /\ e[2][1] = e[1][1]
          BY DEF NewOf
        <4>3. QED
          BY <4>1, <4>2
      <3>2. CASE p = FlattenPlan(c, files)
        <4>1. PICK N : p \in Seq({<<f, <<a.root, name>>>> : f \in S, name \in N})
          BY <2>1, <3>2, FlattenPlanIs
        <4> DEFINE T == {<<f, <<a.root, name>>>> : f \in S, name \in N}
        <4>2. \A e \in T : e[1] \in S /\ e[2][1] = a.root
          OBVIOUS
        <4>3. p \in Seq(T)
          BY <4>1
        <4> HIDE DEF T
        <4>4. QED
          BY <4>2, <4>3
      <3>3. CASE p = JunkPlan(c, files)
        <4> DEFINE K == {f \in Range(files) : f[2] \in a.names}
                   junk == Kept(files, K)
                   T == {<<f, Nowhere>> : f \in S}
        <4>1. junk \in Seq(S)
          <5> HIDE DEF K
          <5>1. QED
            BY <2>1, KeptRange
        <4>2. p = [i \in DOMAIN junk |-> <<junk[i], Nowhere>>]
          BY <3>3 DEF JunkPlan
        <4> HIDE DEF junk
        <4>3. DOMAIN junk = 1..Len(junk) /\ Len(junk) \in Nat
              /\ \A i \in 1..Len(junk) : junk[i] \in S
          BY <4>1
        <4>4. p \in [1..Len(junk) -> T]
          BY <4>2, <4>3
        <4>5. \A e \in T : e[1] \in S /\ e[2][1] = ""
          <5>1. Nowhere[1] = ""
            BY DEF Nowhere
          <5>2. \A e \in T : e[1] \in S /\ e[2] = Nowhere
            OBVIOUS
          <5>3. QED
            BY <5>1, <5>2
        <4> HIDE DEF T
        <4>6. p \in Seq(T)
          BY <4>3, <4>4
        <4>7. QED
          BY <4>5, <4>6
      <3>4. QED
        BY <1>2, <3>1, <3>2, <3>3
    <2>4. PICK T : /\ p \in Seq(T)
                   /\ \A e \in T : e[1] \in S /\ e[2][1] \in {e[1][1], a.root, ""}
      BY <2>3
    <2>5. ASSUME NEW d, d # "", KeepsOff(c, d), NEW i \in DOMAIN p
          PROVE  p[i][1][1] # d /\ p[i][2][1] # d
      <3>1. p[i] \in T
        <4>1. p \in Seq(T)
          BY <2>4
        <4>2. DOMAIN p = 1..Len(p) /\ \A k \in 1..Len(p) : p[k] \in T
          BY <4>1
        <4>3. QED
          BY <4>2
      <3>2. p[i][1][1] \in a.folder /\ p[i][2][1] \in {p[i][1][1], a.root, ""}
        BY <2>2, <2>4, <3>1
      <3>3. QED
        BY <1>2, <2>5, <3>2 DEF KeepsOff
    <2>6. QED
      BY <2>4, <2>5, ProperIn DEF Spares
  <1>3. QED
    BY <1>1, <1>2 DEF PlannedBy

-----------------------------------------------------------------------------
(* What the handlers make of a document. *)

\* A document, and if bad has Half, one that nobody has cut short.
Clean(bad, s) == Proper(s) /\ bad \cap Range(s) = {}

LEMMA CleanIs ==
  ASSUME NEW bad \in SUBSET {Half}, NEW S, bad \cap S = {}, NEW s \in Seq(S)
  PROVE  Clean(bad, s)
  BY ProperIn DEF Clean

LEMMA CleanIn ==
  ASSUME NEW bad \in SUBSET {Half}, NEW s, Clean(bad, s)
  PROVE  /\ s \in Seq(Range(s)) /\ bad \cap Range(s) = {} /\ Len(s) \in Nat
         /\ DOMAIN s = 1..Len(s) /\ \A i \in 1..Len(s) : s[i] \in Range(s)
  <1>1. s \in Seq(Range(s))
    BY DEF Clean, Proper
  <1>2. DOMAIN s = 1..Len(s) /\ Len(s) \in Nat
    BY <1>1
  <1>3. \A i \in 1..Len(s) : s[i] \in Range(s)
    BY <1>2 DEF Range
  <1>4. QED
    BY <1>1, <1>2, <1>3 DEF Clean

LEMMA CleanEmpty ==
  ASSUME NEW bad \in SUBSET {Half}
  PROVE  Clean(bad, <<>>)
  <1>1. <<>> \in Seq({})
    OBVIOUS
  <1>2. QED
    BY <1>1, CleanIs

LEMMA CleanOne ==
  ASSUME NEW bad \in SUBSET {Half}, NEW e, e # Half
  PROVE  Clean(bad, <<e>>)
  <1>1. <<e>> \in Seq({e}) /\ bad \cap {e} = {}
    OBVIOUS
  <1>2. QED
    BY <1>1, CleanIs

LEMMA CleanConcat ==
  ASSUME NEW bad \in SUBSET {Half}, NEW s, NEW t, Clean(bad, s), Clean(bad, t)
  PROVE  Clean(bad, s \o t)
  <1> DEFINE S == Range(s) \cup Range(t)
  <1>1. bad \cap S = {}
    BY CleanIn
  <1>2. s \in Seq(S) /\ t \in Seq(S)
    <2>1. Range(s) \subseteq S /\ Range(t) \subseteq S /\ Proper(s) /\ Proper(t)
      BY DEF Clean
    <2> HIDE DEF S
    <2>2. QED
      BY <2>1, ProperWithin
  <1> HIDE DEF S
  <1>3. s \o t \in Seq(S)
    BY <1>2
  <1>4. QED
    BY <1>1, <1>3, CleanIs

LEMMA CleanAppend ==
  ASSUME NEW bad \in SUBSET {Half}, NEW s, Clean(bad, s), NEW e, e # Half
  PROVE  Clean(bad, Append(s, e))
  <1> DEFINE S == Range(s) \cup {e}
  <1>1. bad \cap S = {}
    BY CleanIn
  <1>2. s \in Seq(S) /\ e \in S
    <2>1. Range(s) \subseteq S /\ Proper(s) /\ e \in S
      BY DEF Clean
    <2> HIDE DEF S
    <2>2. QED
      BY <2>1, ProperWithin
  <1> HIDE DEF S
  <1>3. Append(s, e) \in Seq(S)
    BY <1>2
  <1>4. QED
    BY <1>1, <1>3, CleanIs

LEMMA CleanKept ==
  ASSUME NEW bad \in SUBSET {Half}, NEW s, Clean(bad, s), NEW S
  PROVE  Clean(bad, Kept(s, S))
  <1>1. s \in Seq(Range(s)) /\ bad \cap Range(s) = {}
    BY CleanIn
  <1>2. Kept(s, S) \in Seq(Range(s))
    BY <1>1, KeptRange
  <1>3. QED
    BY <1>1, <1>2, CleanIs

LEMMA CleanReplaced ==
  ASSUME NEW bad \in SUBSET {Half}, NEW s, Clean(bad, s), NEW i, NEW e, e # Half
  PROVE  Clean(bad, ReplaceAt(s, i, e))
  <1> DEFINE S == Range(s) \cup {e}  t == ReplaceAt(s, i, e)  n == Len(s)
  <1>1. n \in Nat /\ s \in [1..n -> S] /\ bad \cap S = {} /\ e \in S
    <2>1. s \in Seq(Range(s)) /\ bad \cap Range(s) = {} /\ DOMAIN s = 1..n /\ n \in Nat
      BY CleanIn
    <2>2. s \in [1..n -> Range(s)]
      BY <2>1
    <2>3. QED
      BY <2>1, <2>2
  <1>2. t = [s EXCEPT ![i] = e]
    BY DEF ReplaceAt
  <1> HIDE DEF S, n, t
  <1>3. t \in [1..n -> S]
    BY <1>1, <1>2
  <1>4. t \in Seq(S)
    BY <1>1, <1>3
  <1>5. QED
    BY <1>1, <1>4, CleanIs DEF t

LEMMA CleanSub ==
  ASSUME NEW bad \in SUBSET {Half}, NEW s, Clean(bad, s),
         NEW m \in Nat \ {0}, NEW n \in Int, n <= Len(s)
  PROVE  Clean(bad, SubSeq(s, m, n))
  <1>1. Len(s) \in Nat /\ \A i \in 1..Len(s) : s[i] \in Range(s)
    BY CleanIn
  <1>2. \A i \in m..n : i \in 1..Len(s)
    BY <1>1
  <1>3. SubSeq(s, m, n) \in Seq(Range(s))
    BY <1>1, <1>2, SubSeqProperties
  <1>4. QED
    BY <1>3, CleanIn, CleanIs

\* An entry with an id of its own.
LEMMA NotHalf ==
  ASSUME NEW a, NEW b, NEW c, a # "half"
  PROVE  <<a, b, c>> # Half
  BY DEF Half

\* The smallest of some numbers.
LEMMA MinIs ==
  ASSUME NEW S \in SUBSET Nat, S # {}
  PROVE  Min(S) \in S /\ \A x \in S : Min(S) <= x
  <1>1. PICK n \in S : \A k \in S : ~(k < n)
    BY Least
  <1>2. \A k \in S : n <= k
    BY <1>1
  <1>3. QED
    BY <1>2 DEF Min

LEMMA CleanSet ==
  ASSUME NEW bad \in SUBSET {Half}, NEW s, Clean(bad, s), NEW a, NEW b, NEW c, a # "half"
  PROVE  Clean(bad, Set(s, a, b, c))
  <1> DEFINE i == SelectInSeq(s, LAMBDA e : e[1] = a /\ e[2] = b)
  <1>1. Set(s, a, b, c) = ReplaceAt(s, i, <<a, b, c>>)
    BY DEF Set
  <1> HIDE DEF i
  <1>2. QED
    BY <1>1, NotHalf, CleanReplaced

LEMMA CleanMerge ==
  ASSUME NEW bad \in SUBSET {Half}, NEW s, Clean(bad, s), NEW w, w.id # "half"
  PROVE  Clean(bad, Merge(s, w))
  BY CleanSet, CleanAppend, NotHalf DEF Merge, Entry

LEMMA CleanWithout ==
  ASSUME NEW bad \in SUBSET {Half}, NEW s, Clean(bad, s), NEW a, NEW b
  PROVE  Clean(bad, Without(s, a, b))
  BY CleanKept DEF Without

LEMMA CleanParts ==
  ASSUME NEW bad \in SUBSET {Half}, NEW s, Clean(bad, s)
  PROVE  /\ Clean(bad, Active(s)) /\ Clean(bad, Loaded(s))
         /\ Clean(bad, Said(s)) /\ Clean(bad, Unsaid(s))
  BY CleanKept, CleanEmpty DEF Active, Said, Unsaid, Loaded

LEMMA CleanTail ==
  ASSUME NEW bad \in SUBSET {Half}, NEW s, Clean(bad, s)
  PROVE  Clean(bad, Tail_(s))
  <1> DEFINE I == {i \in 1..Len(s) : s[i][1] = "sentinel"}
  <1>1. Len(s) \in Nat /\ I \in SUBSET Nat
    BY CleanIn
  <1>2. CASE I = {}
    <2>1. Tail_(s) = <<>>
      BY <1>2 DEF Tail_, SelectInSeq
    <2>2. QED
      BY <2>1, CleanEmpty
  <1>3. CASE I # {}
    <2> DEFINE m == Min(I)
    <2>1. m \in I
      BY <1>1, <1>3, MinIs
    <2>2. m \in 1..Len(s)
      BY <2>1
    <2>3. Tail_(s) = IF m = 0 THEN <<>> ELSE SubSeq(s, m + 1, Len(s))
      BY <1>3 DEF Tail_, SelectInSeq
    <2> HIDE DEF m, I
    <2>4. m + 1 \in Nat \ {0} /\ m # 0 /\ Len(s) \in Int
      BY <1>1, <2>2
    <2>5. Clean(bad, SubSeq(s, m + 1, Len(s)))
      BY <1>1, <2>4, CleanSub
    <2>6. QED
      BY <2>3, <2>4, <2>5
  <1>4. QED
    BY <1>2, <1>3

\* What the program makes of one entry after the other.
LEMMA CleanMade ==
  ASSUME NEW bad \in SUBSET {Half}, NEW n \in Nat,
         NEW t, t = [i \in 1..n |-> t[i]], \A i \in 1..n : t[i] \notin bad
  PROVE  Clean(bad, t)
  <1> DEFINE S == {t[i] : i \in 1..n}
  <1>1. t \in [1..n -> S] /\ bad \cap S = {}
    OBVIOUS
  <1> HIDE DEF S
  <1>2. t \in Seq(S)
    BY <1>1
  <1>3. QED
    BY <1>1, <1>2, CleanIs

LEMMA CleanIndex ==
  ASSUME NEW bad \in SUBSET {Half}, NEW s, Clean(bad, s)
  PROVE  Clean(bad, ChangedIndex(s))
  <1> DEFINE heads == {e \in Range(s) : e[1] = "header"}
             h == Kept(s, heads)
             t == [i \in DOMAIN h |-> <<"manifest", h[i][2], "">>]
             top == << <<"manifest", "", "">> >>
             mark == << <<"sentinel", "", "">> >>
  <1>1. Clean(bad, h)
    <2> HIDE DEF heads
    <2>1. QED
      BY CleanKept
  <1>2. ChangedIndex(s) = ((top \o t) \o mark) \o Tail_(s)
    BY DEF ChangedIndex, FormatManifest
  <1> HIDE DEF h
  <1>3. Clean(bad, t)
    <2>1. DOMAIN h = 1..Len(h) /\ Len(h) \in Nat
      BY <1>1, CleanIn
    <2>2. t = [i \in 1..Len(h) |-> t[i]] /\ \A i \in 1..Len(h) : t[i] = <<"manifest", h[i][2], "">>
      BY <2>1
    <2> HIDE DEF t
    <2>3. \A i \in 1..Len(h) : t[i] # Half
      BY <2>2, NotHalf
    <2>4. \A i \in 1..Len(h) : t[i] \notin bad
      BY <2>3
    <2>5. QED
      BY <2>1, <2>2, <2>4, CleanMade
  <1>4. Clean(bad, top) /\ Clean(bad, mark)
    BY NotHalf, CleanOne
  <1> HIDE DEF t, top, mark
  <1>5. QED
    BY <1>2, <1>3, <1>4, CleanTail, CleanConcat

LEMMA CleanCompacted ==
  ASSUME NEW bad \in SUBSET {Half}, NEW s, Clean(bad, s), Len(Said(s)) >= 4
  PROVE  Clean(bad, Compacted(s))
  <1> DEFINE mark == << <<"said", "", "summary">> >>
             n == Len(Said(s))
             last == SubSeq(Said(s), n - 1, n)
  <1>1. Compacted(s) = (Unsaid(s) \o mark) \o last
    BY DEF Compacted
  <1>2. Clean(bad, last)
    <2>1. Clean(bad, Said(s)) /\ n \in Nat /\ n >= 4
      BY CleanParts, CleanIn
    <2>2. n <= Len(Said(s)) /\ last = SubSeq(Said(s), n - 1, n)
      BY <2>1
    <2> HIDE DEF n, last
    <2>3. n - 1 \in Nat \ {0} /\ n \in Int
      BY <2>1
    <2>4. QED
      BY <2>1, <2>2, <2>3, CleanSub
  <1>3. Clean(bad, mark)
    BY NotHalf, CleanOne
  <1> HIDE DEF mark, last
  <1>4. QED
    BY <1>1, <1>2, <1>3, CleanParts, CleanConcat

LEMMA CleanEdited ==
  ASSUME NEW bad \in SUBSET {Half}, NEW s, Clean(bad, s), NEW w, w.value # "half"
  PROVE  Clean(bad, Edited(w, s))
  <1> DEFINE t == Edited(w, s)
  <1>1. DOMAIN s = 1..Len(s) /\ Len(s) \in Nat /\ \A i \in 1..Len(s) : s[i] \notin bad
    BY CleanIn
  <1>2. /\ t = [i \in 1..Len(s) |-> t[i]]
        /\ \A i \in 1..Len(s) : t[i] = IF s[i][1] = w.id THEN <<w.value, "", "">> ELSE s[i]
    BY <1>1 DEF Edited
  <1> HIDE DEF t
  <1>3. <<w.value, "", "">> # Half
    BY NotHalf
  <1>4. \A i \in 1..Len(s) : t[i] \notin bad
    BY <1>1, <1>2, <1>3
  <1>5. Clean(bad, t)
    BY <1>1, <1>2, <1>4, CleanMade
  <1>6. QED
    BY <1>5 DEF t

Known == ReadOps \cup SessionOps \cup TaskOps \cup NoteOps \cup MergeOps \cup SecretOps
           \cup {"identity_set", "seed", "file_write", "file_edit", "memory_append",
                 "memory_overwrite", "feature_write", "dream", "hand", "breaks"}

\* What a handler writes is whole if what it has read is.
LEMMA ChangedClean ==
  ASSUME NEW bad \in SUBSET {Half}, NEW w, w.op \in Known \ ReadOps,
         w.id # "half", w.op = "file_edit" => w.value # "half",
         NEW s, Clean(bad, s), w.op = "compact" => Len(Said(s)) >= 4, NEW n
  PROVE  Clean(bad, Changed(w, s, n))
  <1>1. Clean(bad, Merge(s, w)) /\ Clean(bad, Merge(Loaded(s), w)) /\ Clean(bad, <<Entry(w)>>)
        /\ Clean(bad, Append(s, Entry(w)))
    BY CleanParts, CleanMerge, CleanOne, CleanAppend, NotHalf DEF Entry
  <1>2. CASE w.op = "identity_update"
    BY <1>1, <1>2 DEF Changed, ChangedIdentity, NoteOps, SecretOps
  <1>3. CASE w.op = "user_profile_update"
    BY <1>1, <1>3 DEF Changed, ChangedProfile, NoteOps, SecretOps
  <1>4. CASE w.op = "identity_set"
    BY <1>1, <1>4 DEF Changed, IdentitySet, NoteOps, SecretOps
  <1>5. CASE w.op = "seed"
    BY <1>1, <1>5 DEF Changed, Seeded, NoteOps, SecretOps
  <1>6. CASE w.op \in NoteOps
    <2>1. Changed(w, s, n) = ChangedNotes(w, s)
      BY <1>6 DEF Changed, NoteOps, SecretOps
    <2>2. Clean(bad, Append(s, Entry(w))) /\ Clean(bad, Set(s, w.id, "", w.value))
          /\ Clean(bad, Without(s, w.id, ""))
      BY CleanAppend, CleanSet, CleanWithout, NotHalf DEF Entry
    <2>3. QED
      BY <1>6, <2>1, <2>2 DEF ChangedNotes, NoteOps
  <1>7. CASE w.op \in {"create_list", "add_item", "delete_list"}
    <2>1. Changed(w, s, n) = ChangedLists(w, s)
      BY <1>7 DEF Changed, NoteOps, SecretOps
    <2> DEFINE a == <<w.id, "", w.value>>  b == <<w.id, w.part, "open">>
    <2>2. a # Half /\ b # Half
      BY NotHalf
    <2>3. ChangedLists(w, s) = CASE w.op = "create_list" -> s \o << a, b >>
            [] w.op = "add_item" -> Append(s, b)
            [] w.op = "delete_list" -> Kept(s, {e \in Range(s) : e[1] # w.id})
      BY DEF ChangedLists
    <2> HIDE DEF a, b
    <2>4. Clean(bad, <<a, b>>)
      <3>1. <<a, b>> \in Seq({a, b})
        OBVIOUS
      <3>2. QED
        BY <2>2, <3>1, CleanIs
    <2>5. Clean(bad, s \o <<a, b>>) /\ Clean(bad, Append(s, b))
          /\ Clean(bad, Kept(s, {e \in Range(s) : e[1] # w.id}))
      BY <2>2, <2>4, CleanConcat, CleanAppend, CleanKept
    <2>6. QED
      BY <1>7, <2>1, <2>3, <2>5
  <1>8. CASE w.op \in {"check", "uncheck", "remove_item"}
    <2>1. Changed(w, s, n) = ChangedItems(w, s)
      BY <1>8 DEF Changed, NoteOps, SecretOps
    <2>2. QED
      BY <1>8, <2>1, CleanSet, CleanWithout DEF ChangedItems
  <1>9. CASE w.op = "turn"
    <2>1. Changed(w, s, n) = Append(s, <<"said", ToString(n), w.value>>)
      BY <1>9 DEF Changed, Turned, NoteOps, SecretOps
    <2>2. QED
      BY <2>1, NotHalf, CleanAppend
  <1>10. CASE w.op = "clear"
    BY <1>10, CleanParts DEF Changed, Cleared, NoteOps, SecretOps
  <1>11. CASE w.op = "compact"
    BY <1>11, CleanCompacted DEF Changed, NoteOps, SecretOps
  <1>12. CASE w.op = "away"
    BY <1>1, <1>12 DEF Changed, MarkedAway, NoteOps, SecretOps
  <1>13. CASE w.op = "back"
    BY <1>13, CleanSet DEF Changed, MarkedBack, NoteOps, SecretOps
  <1>14. CASE w.op = "layer2"
    BY <1>1, <1>14 DEF Changed, Layer2Set, NoteOps, SecretOps
  <1>15. CASE w.op = "file_write"
    BY <1>1, <1>15 DEF Changed, Written, NoteOps, SecretOps
  <1>16. CASE w.op = "file_edit"
    BY <1>16, CleanEdited DEF Changed, NoteOps, SecretOps
  <1>17. CASE w.op \in {"memory_append", "memory_overwrite"}
    BY <1>1, <1>17 DEF Changed, Remembered, NoteOps, SecretOps
  <1>18. CASE w.op = "feature_write"
    BY <1>1, <1>18 DEF Changed, FeatureWritten, NoteOps, SecretOps
  <1>19. CASE w.op \in SecretOps
    BY <1>1, <1>19 DEF Changed, NoteOps, SecretOps
  <1>20. CASE w.op = "dream"
    BY <1>20, CleanIndex DEF Changed, NoteOps, SecretOps
  <1>21. CASE w.op \in {"hand", "breaks"}
    <2>1. Changed(w, s, n) = ByHand(w, s)
      BY <1>21 DEF Changed, NoteOps, SecretOps
    <2>2. Clean(bad, << <<"broken", "", "">> >>)
      BY NotHalf, CleanOne
    <2>3. QED
      BY <1>1, <2>1, <2>2 DEF ByHand
  <1>22. QED
    <2>1. \/ w.op \in SessionOps \cup TaskOps \cup NoteOps \cup MergeOps \cup SecretOps
          \/ w.op \in {"identity_set", "seed", "file_write", "file_edit", "memory_append",
                       "memory_overwrite", "feature_write", "dream", "hand", "breaks"}
      BY DEF Known
    <2>2. w.op \in SessionOps => w.op \in {"turn", "clear", "compact", "away", "back", "layer2"}
      BY DEF SessionOps
    <2>3. w.op \in TaskOps => \/ w.op \in {"create_list", "add_item", "delete_list"}
                              \/ w.op \in {"check", "uncheck", "remove_item"}
      BY DEF TaskOps
    <2>4. w.op \in MergeOps => w.op \in {"identity_update", "user_profile_update"}
      BY DEF MergeOps
    <2>5. QED
      BY <1>2, <1>3, <1>4, <1>5, <1>6, <1>7, <1>8, <1>9, <1>10, <1>11, <1>12, <1>13, <1>14, <1>15,
         <1>16, <1>17, <1>18, <1>19, <1>20, <1>21, <2>1, <2>2, <2>3, <2>4

\* What a reader sees of a whole document is whole.
LEMMA ShownClean ==
  ASSUME NEW bad \in SUBSET {Half}, NEW s, Clean(bad, s),
         NEW w, w.op = "file_read" => w.value \in (Nat \ {0}) \X Nat
  PROVE  Clean(bad, Shown(w, s))
  <1>0. Len(s) \in Nat
    BY CleanIn
  <1>1. CASE w.op = "file_read"
    <2> DEFINE m == w.value[1]
               k == Min({Len(s), m + w.value[2] - 1})
    <2>1. m \in Nat \ {0} /\ w.value[2] \in Nat
      BY <1>1
    <2>2. {Len(s), m + w.value[2] - 1} \in SUBSET Nat
      BY <1>0, <2>1
    <2>3. k \in {Len(s), m + w.value[2] - 1} /\ k <= Len(s)
      BY <2>2, MinIs
    <2>4. Shown(w, s) = SubSeq(s, m, k)
      BY <1>1 DEF Shown, ShownLines
    <2>5. k \in Int
      BY <2>2, <2>3
    <2> HIDE DEF k, m
    <2>6. QED
      BY <2>1, <2>3, <2>4, <2>5, CleanSub
  <1>2. CASE w.op = "memory_read"
    <2> DEFINE k == Min({Len(s), TextCap})
    <2>1. TextCap \in Nat
      BY DocumentsAssumption
    <2>2. k \in {Len(s), TextCap} /\ k <= Len(s)
      <3>1. {Len(s), TextCap} \in SUBSET Nat
        BY <1>0, <2>1
      <3>2. QED
        BY <3>1, MinIs
    <2>3. Shown(w, s) = SubSeq(s, 1, k)
      BY <1>2 DEF Shown, ShownMemory
    <2>4. k \in Int
      BY <1>0, <2>1, <2>2
    <2> HIDE DEF k
    <2>5. QED
      BY <2>2, <2>3, <2>4, CleanSub
  <1>3. CASE w.op = "notes_read"
    BY <1>3, CleanParts DEF Shown, ShownNotes
  <1>4. CASE w.op = "list"
    BY <1>4, CleanKept DEF Shown, ShownTasks
  <1>5. CASE w.op = "feature_read"
    BY <1>5, CleanEmpty DEF Shown, ShownFeature
  <1>6. CASE w.op = "identity_show"
    BY <1>6, CleanParts DEF Shown
  <1>7. CASE w.op = "notes_prompt"
    BY <1>7, CleanParts, CleanEmpty DEF Shown, NotesSection
  <1>8. CASE w.op = "tasks_prompt"
    BY <1>8, CleanKept DEF Shown, TasksSection
  <1>9. CASE w.op = "user_profile_prompt"
    <2> DEFINE Field(name) == Kept(s, {e \in Range(s) : e[1] = name})
               others == Kept(s, {e \in Range(s) : e[1] \notin ProfileFields})
    <2>1. \A name : Clean(bad, Field(name))
      BY CleanKept
    <2>2. Clean(bad, others)
      BY CleanKept
    <2>3. Shown(w, s) =
            IF Broken(s) THEN <<>>
            ELSE Field("name") \o Field("communicationStyle") \o Field("interests")
                   \o Field("location") \o Field("observedPatterns") \o Field("notes") \o others
      BY <1>9 DEF Shown, ProfileSection
    <2> HIDE DEF Field, others
    <2>4. QED
      BY <2>1, <2>2, <2>3, CleanConcat, CleanEmpty
  <1>10. CASE w.op \notin {"notes_read", "list", "file_read", "memory_read", "feature_read",
                           "identity_show", "notes_prompt", "tasks_prompt", "user_profile_prompt"}
    BY <1>10 DEF Shown
  <1>11. QED
    BY <1>1, <1>2, <1>3, <1>4, <1>5, <1>6, <1>7, <1>8, <1>9, <1>10

-----------------------------------------------------------------------------
(* What a step of the tools is for the files. *)

FileQuiet == UNCHANGED <<disk, phase, copy, ready, crowded, at, plan, next, carried>>
CallsStay == UNCHANGED <<at, plan, next, carried>>
JobsStay == UNCHANGED <<phase, copy, ready, crowded>>

LEMMA DreamsStay ==
  ASSUME Next \/ UNCHANGED allVars
  PROVE  Dreams' = Dreams
  BY DreamSteps DEF GateStep, Gate, TimeGate, LockRead, LockWrite, LockConfirm, Release, SessionsGate,
     Tick, CrashDream, Dreams, dreamVars, dreamHistory

LEMMA FileSteps ==
  ASSUME Next \/ UNCHANGED allVars
  PROVE  \/ FileQuiet
         \/ CallsStay /\ \E j \in Present : DocumentStep(j)
         \/ CallsStay /\ \E j \in Dreams : DreamRead(j)
         \/ JobsStay /\ \E c \in Called : ItemStep(c) \/ \E p : PlannedBy(c, p) /\ Submit(c, p)
         \/ \E p \in Engaged : CrashDocuments(p) /\ CrashBulk(p)
  <1>1. CASE UNCHANGED allVars
    BY <1>1 DEF FileQuiet, allVars, fileVars, docVars, docHistory, bulkVars
  <1>2. CASE Next
    <2>1. CASE OnFiles
      <3>1. ASSUME NEW j \in Present, Job(j) PROVE CallsStay /\ DocumentStep(j)
        BY <3>1 DEF Job, CallsStay, bulkVars
      <3>2. ASSUME NEW c \in Called, Bulk(c)
            PROVE  JobsStay /\ (ItemStep(c) \/ \E p : PlannedBy(c, p) /\ Submit(c, p))
        <4>1. JobsStay
          BY <3>2 DEF Bulk, JobsStay, docHistory
        <4>2. CASE FileMove(c) \/ FileCopy(c)
          BY <4>1, <4>2 DEF FileMove, FileCopy, PlannedBy, Movers
        <4>3. CASE \/ RenameFilesDirty(c) \/ RenameEpisodes(c) \/ RenameRomFiles(c)
                   \/ FlattenFolder(c) \/ CleanJunkFiles(c)
          <5>1. Asked[c].tool \notin Movers
            BY <4>3 DEF RenameFilesDirty, RenameEpisodes, RenameRomFiles, FlattenFolder,
                        CleanJunkFiles, Movers
          <5>2. PICK files \in WalkFiles(c) :
                  \/ Submit(c, RenamePlan(c, files)) \/ Submit(c, FlattenPlan(c, files))
                  \/ Submit(c, JunkPlan(c, files))
            BY <4>3 DEF RenameFilesDirty, RenameEpisodes, RenameRomFiles, FlattenFolder,
                        CleanJunkFiles
          <5>3. QED
            BY <4>1, <5>1, <5>2 DEF PlannedBy
        <4>4. CASE Check(c) \/ Act(c) \/ CopyOpen(c) \/ CopyFill(c) \/ Unlink(c) \/ ItemFault(c)
          BY <4>1, <4>4 DEF ItemStep
        <4>5. QED
          BY <3>2, <4>2, <4>3, <4>4 DEF Bulk, CallStep
      <3>3. ASSUME NEW j \in Dreams, Consolidate(j) PROVE FileQuiet \/ (CallsStay /\ DreamRead(j))
        BY <3>3 DEF Consolidate, FileQuiet, CallsStay, bulkVars, docVars, docHistory
      <3>4. Passes => FileQuiet
        BY DEF Passes, Age, Expire, FileQuiet, bulkVars, docVars, docHistory
      <3>5. QED
        BY <2>1, <3>1, <3>2, <3>3, <3>4 DEF OnFiles
    <2>2. CASE \/ \E l \in Asking : LookupStep(l) /\ UNCHANGED <<fileVars, deskAll, dispatchVars>>
               \/ AtDesk \/ Requesting
      BY <2>2 DEF AtDesk, Requesting, fileVars, FileQuiet, bulkVars, docVars, docHistory
    <2>3. ASSUME NEW p \in Engaged, Crash(p) PROVE CrashDocuments(p) /\ CrashBulk(p)
      BY <2>3 DEF Crash
    <2>4. QED
      BY <1>2, <2>1, <2>2, <2>3 DEF Next
  <1>3. QED
    BY <1>1, <1>2

\* A document that takes the place of another, or of none.
Carry(a, b) == [g \in (Files \ {a}) \cup {b} |-> IF g = b THEN disk[a] ELSE disk[g]]

LEMMA DiskNext ==
  ASSUME IsFiniteSet(Files), \A f \in Files : Proper(disk[f]),
         \/ disk' = disk
         \/ \E fs : disk' = Gone(fs)
         \/ \E f : \E doc : Proper(doc) /\ disk' = Put(f, doc)
         \/ \E a \in Files : \E b : disk' = Carry(a, b)
  PROVE  IsFiniteSet(Files)' /\ \A f \in Files' : Proper(disk'[f])
  <1>1. CASE disk' = disk
    BY <1>1 DEF Files
  <1>2. ASSUME NEW fs, disk' = Gone(fs) PROVE IsFiniteSet(Files)' /\ \A f \in Files' : Proper(disk'[f])
    <2>1. Files' = Files \ fs /\ \A f \in Files' : disk'[f] = disk[f]
      BY <1>2 DEF Gone, Files
    <2>2. QED
      BY <2>1, FS_Subset
  <1>3. ASSUME NEW f, NEW doc, Proper(doc), disk' = Put(f, doc)
        PROVE  IsFiniteSet(Files)' /\ \A g \in Files' : Proper(disk'[g])
    <2>1. Files' = Files \cup {f}
      BY <1>3 DEF Put, Files
    <2>2. \A g \in Files' : disk'[g] = doc \/ (g \in Files /\ disk'[g] = disk[g])
      BY <1>3, <2>1 DEF Put
    <2>3. QED
      BY <1>3, <2>1, <2>2, FS_AddElement
  <1>4. ASSUME NEW a \in Files, NEW b, disk' = Carry(a, b)
        PROVE  IsFiniteSet(Files)' /\ \A g \in Files' : Proper(disk'[g])
    <2>1. Files' = (Files \ {a}) \cup {b}
      BY <1>4 DEF Carry, Files
    <2>2. \A g \in Files' : disk'[g] = disk[a] \/ (g \in Files /\ disk'[g] = disk[g])
      BY <1>4, <2>1 DEF Carry
    <2>3. IsFiniteSet(Files \ {a})
      BY FS_Subset
    <2>4. QED
      BY <2>1, <2>2, <2>3, FS_AddElement
  <1>5. QED
    BY <1>1, <1>2, <1>3, <1>4

-----------------------------------------------------------------------------
(* Files, copies and plans are what they are called. *)

FileTypes ==
  /\ Present \subseteq Jobs /\ Called \subseteq Calls /\ Dreams \subseteq Present
  /\ IsFiniteSet(Files) /\ \A f \in Files : Proper(disk[f])
  /\ DOMAIN copy = Present /\ copy = [j \in Present |-> copy[j]]
  /\ \A j \in Present : Proper(copy[j])

\* A job that is going to write does write, and has not been refused.
Writing ==
  \A j \in Present : phase[j] \in {"held", "open"} =>
    /\ Work[j].op \notin ReadOps
    /\ Work[j].op = "compact" => Len(Said(copy[j])) >= 4

ItemsIn ==
  /\ DOMAIN plan = Called /\ DOMAIN next = Called /\ DOMAIN carried = Called
  /\ \A c \in Called :
       /\ Proper(carried[c]) /\ Proper(plan[c]) /\ next[c] \in Nat
       /\ at[c] = "idle" => next[c] = 1
       /\ at[c] \in Underway => next[c] \in 1 .. Len(plan[c])

FileInv == FileTypes /\ Writing /\ ItemsIn

LEMMA WorkIs ==
  ASSUME NEW j \in Jobs
  PROVE  /\ Work[j].op \in Known /\ Work[j].id # "half" /\ Work[j].file[1] # ""
         /\ Work[j].op = "file_edit" => Work[j].value # "half"
         /\ Work[j].op = "file_read" => Work[j].value \in (Nat \ {0}) \X Nat
         /\ \A k \in Jobs : TmpOf(j) # Work[k].file /\ (j # k => TmpOf(j) # TmpOf(k))
  BY WorkAssumption DEF Known

\* What a job has in memory once it has read, and where it goes from there.
LEMMA Taken ==
  ASSUME NEW bad \in SUBSET {Half}, NEW j \in Jobs, IsFiniteSet(Files), TakesIn(j),
         Work[j].file \in Files => Clean(bad, disk[Work[j].file])
  PROVE  \E doc : \E to \in {"refused", "done", "held"} :
           /\ Clean(bad, doc)
           /\ copy' = [copy EXCEPT ![j] = doc] /\ phase' = [phase EXCEPT ![j] = to]
           /\ to = "held" => /\ Work[j].op \notin ReadOps
                             /\ Work[j].op = "compact" => Len(Said(doc)) >= 4
  <1> DEFINE w == Work[j]
             there == w.file \in Files
             was == IF there THEN disk[w.file] ELSE <<>>
             doc == IF w.op \in ReadOps THEN Shown(w, was)
                    ELSE IF w.op = "dream" THEN ScanMemdir(w.file) \o was
                    ELSE IF w.op \in NoteOps THEN Active(was) ELSE was
             to == IF Refused(w, there, was) THEN "refused"
                   ELSE IF w.op \in ReadOps \/ KnowsCapSecret(w, there) \/ KnowsSessionSecret(w, was)
                   THEN "done" ELSE "held"
  <1>1. copy' = [copy EXCEPT ![j] = doc] /\ phase' = [phase EXCEPT ![j] = to]
    BY DEF TakesIn
  <1>2. Clean(bad, was)
    BY CleanEmpty
  <1>3. Clean(bad, Shown(w, was))
    <2> HIDE DEF was
    <2>1. QED
      BY <1>2, WorkIs, ShownClean
  <1>4. Clean(bad, ScanMemdir(w.file))
    <2> DEFINE S == {f \in Files \ Temps : f[1] = w.file[1] /\ f # w.file}
               m == SetToSeq(S)
               t == ScanMemdir(w.file)
    <2>1. m \in Seq(S)
      <3>1. IsFiniteSet(S)
        BY FS_Subset
      <3> HIDE DEF S
      <3>2. QED
        BY <3>1, ListedOnce
    <2>2. t = [i \in DOMAIN m |-> <<"header", m[i][2], "">>]
      BY DEF ScanMemdir
    <2> HIDE DEF m, t, S
    <2>3. DOMAIN m = 1..Len(m) /\ Len(m) \in Nat
      BY <2>1
    <2>4. t = [i \in 1..Len(m) |-> t[i]] /\ \A i \in 1..Len(m) : t[i] = <<"header", m[i][2], "">>
      BY <2>2, <2>3
    <2>5. \A i \in 1..Len(m) : t[i] # Half
      BY <2>4, NotHalf
    <2>6. \A i \in 1..Len(m) : t[i] \notin bad
      BY <2>5
    <2>7. QED
      BY <2>3, <2>4, <2>6, CleanMade DEF t
  <1>5. Clean(bad, doc)
    <2> HIDE DEF was
    <2>1. QED
      BY <1>2, <1>3, <1>4, CleanConcat, CleanParts
  <1>6. to = "held" => /\ w.op \notin ReadOps
                       /\ w.op = "compact" => Len(Said(doc)) >= 4
    <2>1. to = "held" => w.op \notin ReadOps /\ ~Refused(w, there, was)
      OBVIOUS
    <2>2. w.op = "compact" /\ to = "held" => doc = was /\ ~RefusesCompact(was)
      <3> HIDE DEF was, to
      <3>1. QED
        BY <2>1 DEF Refused, NoteOps
    <2>3. Len(Said(was)) \in Nat
      <3> HIDE DEF was
      <3>1. QED
        BY <1>2, CleanParts, CleanIn
    <2> HIDE DEF was, to, doc
    <2>4. QED
      BY <2>1, <2>2, <2>3 DEF RefusesCompact
  <1>7. to \in {"refused", "done", "held"}
    OBVIOUS
  <1> HIDE DEF doc, to
  <1>8. QED
    BY <1>1, <1>5, <1>6, <1>7

\* What a job's own step does to its copy, its phase and the disk.
JobDoes(bad, j, doc, to) ==
  /\ Clean(bad, doc)
  /\ copy' = [copy EXCEPT ![j] = doc] /\ phase' = [phase EXCEPT ![j] = to]
  /\ to \in {"held", "open"} => /\ Work[j].op \notin ReadOps
                                /\ Work[j].op = "compact" => Len(Said(doc)) >= 4
  /\ \/ to # "filled" /\ (disk' = disk \/ \E fs : disk' = Gone(fs))
     \/ to = "open" /\ disk' = Put(TmpOf(j), <<Half>>)
     \/ to = "filled" /\ TmpOf(j) \notin Files /\ disk' = disk
     \/ to = "filled" /\ disk' = Put(TmpOf(j), doc)
     \/ /\ to # "filled" /\ phase[j] = "filled" /\ TmpOf(j) \in Files
        /\ disk' = Carry(TmpOf(j), Work[j].file)

LEMMA JobSteps ==
  ASSUME NEW bad \in SUBSET {Half}, NEW j \in Present, FileTypes, Writing,
         Clean(bad, copy[j]), Work[j].file \in Files => Clean(bad, disk[Work[j].file]),
         DocumentStep(j) \/ DreamRead(j)
  PROVE  \E doc : \E to : JobDoes(bad, j, doc, to)
  <1>0. j \in Jobs /\ IsFiniteSet(Files)
    BY DEF FileTypes
  <1>1. copy = [copy EXCEPT ![j] = copy[j]]
    <2>1. copy = [k \in Present |-> copy[k]]
      BY DEF FileTypes
    <2>2. QED
      BY <2>1
  <1>2. ASSUME TakesIn(j), disk' = disk \/ \E fs : disk' = Gone(fs)
        PROVE  \E doc : \E to : JobDoes(bad, j, doc, to)
    BY <1>0, <1>2, Taken DEF JobDoes
  <1>3. CASE Sweep(j)
    BY <1>2, <1>3 DEF Sweep
  <1>4. CASE Read(j)
    BY <1>2, <1>4 DEF Read
  <1>5. CASE DreamRead(j)
    BY <1>2, <1>5 DEF DreamRead
  <1>6. CASE Enter(j)
    <2>1. JobDoes(bad, j, copy[j], "entering")
      BY <1>1, <1>6 DEF Enter, JobDoes
    <2>2. QED
      BY <2>1
  <1>7. CASE SecretUnread(j)
    <2>1. Work[j].op \notin ReadOps /\ Work[j].op # "compact"
      BY <1>7 DEF SecretUnread, ReadOps, ShowOps, PromptOps
    <2>2. JobDoes(bad, j, copy[j], "held")
      BY <1>1, <1>7, <2>1 DEF SecretUnread, JobDoes
    <2>3. QED
      BY <2>2
  <1>8. CASE Open(j)
    <2>1. JobDoes(bad, j, copy[j], "open")
      BY <1>1, <1>8 DEF Open, JobDoes, Writing
    <2>2. QED
      BY <2>1
  <1>9. CASE Fill(j)
    <2> DEFINE doc == Changed(Work[j], copy[j], saves[j])
    <2>1. Clean(bad, doc)
      <3>1. Work[j].op \in Known \ ReadOps /\ (Work[j].op = "compact" => Len(Said(copy[j])) >= 4)
        BY <1>0, <1>9, WorkIs DEF Fill, Writing
      <3>2. QED
        BY <1>0, <3>1, WorkIs, ChangedClean
    <2>2. /\ copy' = [copy EXCEPT ![j] = doc] /\ phase' = [phase EXCEPT ![j] = "filled"]
          /\ disk' = IF TmpOf(j) \in Files THEN Put(TmpOf(j), copy'[j]) ELSE disk
      BY <1>9 DEF Fill
    <2> HIDE DEF doc
    <2>3. copy'[j] = doc
      BY <2>2 DEF FileTypes
    <2>4. JobDoes(bad, j, doc, "filled")
      BY <2>1, <2>2, <2>3 DEF JobDoes
    <2>5. QED
      BY <2>4
  <1>10. CASE Rename(j)
    <2>1. CASE TmpOf(j) \in Files
      <3> DEFINE to == IF Work[j].op = "turn" /\ saves'[j] < MaxSaves THEN "held" ELSE "done"
      <3>1. /\ phase[j] = "filled" /\ copy' = copy /\ disk' = Carry(TmpOf(j), Work[j].file)
            /\ phase' = [phase EXCEPT ![j] = to]
        BY <1>10, <2>1 DEF Rename, Carry
      <3>2. to = "held" => Work[j].op \notin ReadOps /\ Work[j].op # "compact"
        BY DEF ReadOps, ShowOps, PromptOps
      <3>3. to \in {"held", "done"}
        OBVIOUS
      <3> HIDE DEF to
      <3>4. JobDoes(bad, j, copy[j], to)
        BY <1>1, <2>1, <3>1, <3>2, <3>3 DEF JobDoes
      <3>5. QED
        BY <3>4
    <2>2. CASE TmpOf(j) \notin Files
      <3>1. JobDoes(bad, j, copy[j], "failed")
        BY <1>1, <1>10, <2>2 DEF Rename, JobDoes
      <3>2. QED
        BY <3>1
    <2>3. QED
      BY <2>1, <2>2
  <1>11. CASE Fault(j)
    <2>1. JobDoes(bad, j, copy[j], "failed")
      BY <1>1, <1>11 DEF Fault, JobDoes
    <2>2. QED
      BY <2>1
  <1>12. QED
    BY <1>3, <1>4, <1>5, <1>6, <1>7, <1>8, <1>9, <1>10, <1>11 DEF DocumentStep

\* One item: where its document comes from and goes to, nothing else.
LEMMA ItemTouches ==
  ASSUME NEW c \in Called, ItemStep(c)
  PROVE  /\ at[c] \in Underway
         /\ \A f : f # Src(c) /\ f # Dst(c) =>
              (f \in Files' <=> f \in Files) /\ (f \in Files => disk'[f] = disk[f])
  <1>1. at[c] \in Underway
    BY DEF ItemStep, Check, Act, CopyOpen, CopyFill, Unlink, ItemFault, Underway
  <1>2. \/ disk' = disk
        \/ disk' = Gone({Src(c)}) \/ disk' = Gone({Dst(c)})
        \/ Src(c) \in Files /\ disk' = Carry(Src(c), Dst(c))
        \/ \E doc : disk' = Put(Dst(c), doc)
    BY DEF ItemStep, Check, Act, CopyOpen, CopyFill, Unlink, ItemFault, Carry
  <1>3. QED
    BY <1>1, <1>2 DEF Gone, Carry, Put, Files

LEMMA ItemDisk ==
  ASSUME NEW c \in Called, ItemStep(c), FileTypes, ItemsIn
  PROVE  /\ \/ disk' = disk
            \/ \E fs : disk' = Gone(fs)
            \/ \E f : \E doc : Proper(doc) /\ disk' = Put(f, doc)
            \/ \E a \in Files : \E b : disk' = Carry(a, b)
         /\ plan' = plan
         /\ carried' = carried \/ \E doc : Proper(doc) /\ carried' = [carried EXCEPT ![c] = doc]
         /\ \/ next' = next /\ \E to \in Underway : at' = [at EXCEPT ![c] = to]
            \/ Advance(c)
  <1>1. Proper(<<Half>>)
    <2>1. <<Half>> \in Seq({Half})
      OBVIOUS
    <2>2. QED
      BY <2>1, ProperIn
  <1>2. Proper(carried[c])
    BY DEF ItemsIn
  <1>3. Src(c) \in Files => Proper(disk[Src(c)])
    BY DEF FileTypes
  <1>4. QED
    BY <1>1, <1>2, <1>3 DEF ItemStep, Check, Act, CopyOpen, CopyFill, Unlink, ItemFault, Carry, Underway

LEMMA FileStart ==
  ASSUME Init
  PROVE  FileInv
  <1>1. PICK scene \in Scenes :
          DocumentsInit(scene[1], scene[2]) /\ DreamInit(scene[1]) /\ BulkInit(scene[1])
    BY DEF Init
  <1>2. Present = Jobs \cap scene[1] /\ Called = Calls \cap scene[1] /\ Dreams \subseteq Present
    BY <1>1 DEF DocumentsInit, BulkInit, DreamInit, Present, Called, Dreams
  <1>3. IsFiniteSet(Files) /\ \A f \in Files : Proper(disk[f])
    BY <1>1, ToolsAssumption DEF DocumentsInit, Files, Proper
  <1>4. Proper(<<>>)
    <2>1. <<>> \in Seq({})
      OBVIOUS
    <2>2. QED
      BY <2>1, ProperIn
  <1>5. copy = [j \in Present |-> <<>>] /\ \A j \in Present : phase[j] = "idle"
    BY <1>1, <1>2 DEF DocumentsInit
  <1>6. FileTypes
    BY <1>2, <1>3, <1>4, <1>5 DEF FileTypes
  <1>7. ItemsIn
    BY <1>1, <1>2, <1>4 DEF BulkInit, ItemsIn, Underway
  <1>8. QED
    BY <1>5, <1>6, <1>7 DEF FileInv, Writing

LEMMA ItemsNext ==
  ASSUME FileInv, NEW c \in Called,
         ItemStep(c) \/ \E p : PlannedBy(c, p) /\ Submit(c, p)
  PROVE  ItemsIn' /\ Called' = Called
  <1>1. CASE ItemStep(c)
    <2>1. /\ plan' = plan
          /\ carried' = carried \/ \E doc : Proper(doc) /\ carried' = [carried EXCEPT ![c] = doc]
          /\ \/ next' = next /\ \E to \in Underway : at' = [at EXCEPT ![c] = to]
             \/ Advance(c)
          /\ at[c] \in Underway
      BY <1>1, ItemDisk, ItemTouches DEF FileInv
    <2>2. Called' = Called
      BY <2>1 DEF Called, Advance
    <2>3. ASSUME NEW k \in Called PROVE Proper(carried'[k]) /\ DOMAIN carried' = Called
      BY <2>1 DEF FileInv, ItemsIn
    <2>4. Len(plan[c]) \in Nat /\ next[c] \in 1 .. Len(plan[c])
      BY <2>1 DEF FileInv, ItemsIn, Proper
    <2>5. CASE next' = next /\ \E to \in Underway : at' = [at EXCEPT ![c] = to]
      <3>1. PICK to \in Underway : at' = [at EXCEPT ![c] = to]
        BY <2>5
      <3>2. to # "idle"
        BY DEF Underway
      <3>3. QED
        BY <2>1, <2>2, <2>3, <2>4, <2>5, <3>1, <3>2 DEF FileInv, ItemsIn, Called
    <2>6. CASE Advance(c)
      <3>1. /\ at' = [at EXCEPT ![c] = IF next[c] = Len(plan[c]) THEN "done" ELSE "check"]
            /\ next' = [next EXCEPT ![c] = next[c] + 1]
        BY <2>6 DEF Advance
      <3>2. next[c] + 1 \in Nat /\ (next[c] # Len(plan[c]) => next[c] + 1 \in 1 .. Len(plan[c]))
        BY <2>4
      <3>3. QED
        BY <2>1, <2>2, <2>3, <3>1, <3>2 DEF FileInv, ItemsIn, Called, Underway
    <2>7. QED
      BY <2>1, <2>2, <2>5, <2>6
  <1>2. ASSUME NEW p, PlannedBy(c, p), Submit(c, p) PROVE ItemsIn' /\ Called' = Called
    <2>1. Proper(p)
      BY <1>2, PlansSpare DEF FileInv, FileTypes
    <2>2. \E to : /\ at' = [at EXCEPT ![c] = to] /\ to # "idle"
                  /\ to \in Underway => p # <<>>
      <3> DEFINE confirmed == /\ Asked[c].confirm # "none"
                              /\ Confirms(c, p, previews[Asked[c].process])
                 to == IF Asked[c].dry THEN "previewed"
                       ELSE IF Len(p) > Threshold /\ ~confirmed THEN "refused"
                       ELSE IF p = <<>> THEN "done" ELSE "check"
      <3>1. at' = [at EXCEPT ![c] = to]
        BY <1>2 DEF Submit
      <3>2. to # "idle" /\ (to \in Underway => p # <<>>)
        BY DEF Underway
      <3> HIDE DEF to
      <3>3. QED
        BY <3>1, <3>2
    <2>3. at[c] = "idle" /\ plan' = [plan EXCEPT ![c] = p] /\ next' = next /\ carried' = carried
      BY <1>2 DEF Submit
    <2>4. Called' = Called /\ next[c] = 1
      BY <2>2, <2>3 DEF Called, FileInv, ItemsIn
    <2>5. p # <<>> => 1 \in 1 .. Len(p)
      BY <2>1 DEF Proper
    <2>6. QED
      BY <2>1, <2>2, <2>3, <2>4, <2>5 DEF FileInv, ItemsIn, Called
  <1>3. QED
    BY <1>1, <1>2

LEMMA FileStep ==
  ASSUME FileInv, Next \/ UNCHANGED allVars
  PROVE  FileInv'
  <1>0. Dreams' = Dreams /\ FileTypes /\ Writing /\ ItemsIn
    BY DreamsStay DEF FileInv
  <1>1. CASE FileQuiet
    BY <1>0, <1>1 DEF FileQuiet, FileInv, FileTypes, Writing, ItemsIn, Present, Called, Files
  <1>2. ASSUME CallsStay, NEW j \in Present, DocumentStep(j) \/ DreamRead(j)
        PROVE  FileInv'
    <2>1. ItemsIn' /\ Called' = Called
      BY <1>0, <1>2 DEF CallsStay, ItemsIn, Called
    <2>2. \A s : Clean({}, s) <=> Proper(s)
      BY DEF Clean
    <2>3. PICK doc : \E to : JobDoes({}, j, doc, to)
      <3>1. {} \in SUBSET {Half}
        OBVIOUS
      <3>2. Clean({}, copy[j]) /\ (Work[j].file \in Files => Clean({}, disk[Work[j].file]))
        BY <1>0, <2>2 DEF FileTypes
      <3>3. QED
        BY <1>0, <1>2, <3>1, <3>2, JobSteps
    <2>4. PICK to : JobDoes({}, j, doc, to)
      BY <2>3
    <2>5. Proper(doc) /\ copy' = [copy EXCEPT ![j] = doc] /\ phase' = [phase EXCEPT ![j] = to]
      BY <2>2, <2>4 DEF JobDoes
    <2>6. Present' = Present
      BY <2>5 DEF Present
    <2>7. Proper(<<Half>>)
      <3>1. <<Half>> \in Seq({Half})
        OBVIOUS
      <3>2. QED
        BY <3>1, ProperIn
    <2>8. IsFiniteSet(Files)' /\ \A f \in Files' : Proper(disk'[f])
      <3>1. \/ disk' = disk
            \/ \E fs : disk' = Gone(fs)
            \/ \E f : \E d : Proper(d) /\ disk' = Put(f, d)
            \/ \E a \in Files : \E b : disk' = Carry(a, b)
        BY <2>4, <2>5, <2>7 DEF JobDoes
      <3>2. QED
        BY <1>0, <3>1, DiskNext DEF FileTypes
    <2>9. DOMAIN copy' = Present' /\ copy' = [k \in Present' |-> copy'[k]]
          /\ \A k \in Present : Proper(copy'[k])
      BY <1>0, <2>5, <2>6 DEF FileTypes
    <2>10. Writing'
      <3>1. to \in {"held", "open"} => /\ Work[j].op \notin ReadOps
                                       /\ Work[j].op = "compact" => Len(Said(doc)) >= 4
        BY <2>4 DEF JobDoes
      <3>2. SUFFICES ASSUME NEW k \in Present, phase'[k] \in {"held", "open"}
                     PROVE  /\ Work[k].op \notin ReadOps
                            /\ Work[k].op = "compact" => Len(Said(copy'[k])) >= 4
        BY <2>6 DEF Writing, Said
      <3>3. CASE k = j
        <4>1. phase'[k] = to /\ copy'[k] = doc
          BY <1>0, <2>5, <3>3 DEF FileTypes, Present
        <4>2. QED
          BY <3>1, <3>2, <3>3, <4>1
      <3>4. CASE k # j
        <4>1. phase'[k] = phase[k] /\ copy'[k] = copy[k]
          BY <1>0, <2>5, <3>4 DEF FileTypes, Present
        <4>2. QED
          BY <1>0, <3>2, <4>1 DEF Writing
      <3>5. QED
        BY <3>3, <3>4
    <2>11. FileTypes'
      BY <1>0, <2>1, <2>6, <2>8, <2>9 DEF FileTypes
    <2>12. QED
      BY <2>1, <2>10, <2>11 DEF FileInv
  <1>3. ASSUME JobsStay, NEW c \in Called, ItemStep(c) \/ \E p : PlannedBy(c, p) /\ Submit(c, p)
        PROVE  FileInv'
    <2>1. ItemsIn' /\ Called' = Called
      BY <1>3, ItemsNext
    <2>2. Present' = Present /\ copy' = copy /\ Writing'
      BY <1>0, <1>3 DEF JobsStay, Writing, Present, Said
    <2>3. IsFiniteSet(Files)' /\ \A f \in Files' : Proper(disk'[f])
      <3>1. \/ disk' = disk
            \/ \E fs : disk' = Gone(fs)
            \/ \E f : \E doc : Proper(doc) /\ disk' = Put(f, doc)
            \/ \E a \in Files : \E b : disk' = Carry(a, b)
        BY <1>0, <1>3, ItemDisk DEF Submit
      <3>2. QED
        BY <1>0, <3>1, DiskNext DEF FileTypes
    <2>4. QED
      BY <1>0, <2>1, <2>2, <2>3 DEF FileInv, FileTypes
  <1>4. ASSUME NEW p \in Engaged, CrashDocuments(p), CrashBulk(p) PROVE FileInv'
    <2>1. Present' = Present /\ copy' = copy /\ disk' = disk
          /\ \A j \in Present : phase'[j] \in {phase[j], "dead"}
      BY <1>4 DEF CrashDocuments, Present
    <2>2. Called' = Called /\ UNCHANGED <<plan, next, carried>>
          /\ \A c \in Called : at'[c] \in {at[c], "dead"}
      BY <1>4 DEF CrashBulk, Called
    <2>3. FileTypes' /\ Writing'
      BY <1>0, <2>1, <2>2 DEF FileTypes, Writing, Files, Said
    <2>4. ItemsIn'
      BY <1>0, <2>2 DEF ItemsIn, Underway
    <2>5. QED
      BY <2>3, <2>4 DEF FileInv
  <1>5. QED
    <2>1. \A j \in Dreams : j \in Present
      BY <1>0 DEF FileTypes
    <2>2. QED
      BY <1>1, <1>2, <1>3, <1>4, <2>1, FileSteps

LEMMA Filing == Spec => []FileInv
  BY FileStart, FileStep, PTL DEF Spec

-----------------------------------------------------------------------------
(* Whole documents. *)

WholeAt(j) ==
  /\ Clean({Half}, copy[j])
  /\ Work[j].file \in Files => Clean({Half}, disk[Work[j].file])
  /\ phase[j] = "filled" /\ TmpOf(j) \in Files => Clean({Half}, disk[TmpOf(j)])

PlansApart ==
  \A c \in Called, j \in Present :
    KeepsOff(c, Work[j].file[1]) /\ Spares(plan[c], Work[j].file[1])

WholeInv == PlansApart /\ \A j \in Present : WholeAt(j)

LEMMA WholeStart ==
  ASSUME BulkApart, Init
  PROVE  WholeInv
  <1>1. PICK scene \in Scenes : DocumentsInit(scene[1], scene[2]) /\ BulkInit(scene[1])
    BY DEF Init
  <1>2. Present = Jobs \cap scene[1] /\ Called = Calls \cap scene[1]
    BY <1>1 DEF DocumentsInit, BulkInit, Present, Called
  <1>3. \A c \in Called : \A d : Spares(plan[c], d)
    <2>1. \A c \in Called : plan[c] = <<>>
      BY <1>1, <1>2 DEF BulkInit
    <2>2. DOMAIN <<>> = {}
      OBVIOUS
    <2>3. QED
      BY <2>1, <2>2 DEF Spares
  <1>4. PlansApart
    BY <1>2, <1>3 DEF PlansApart, BulkApart
  <1>5. \A f \in Files : Clean({Half}, disk[f])
    BY <1>1, ToolsAssumption DEF DocumentsInit, Files, Clean, Proper
  <1>6. \A j \in Present : copy[j] = <<>> /\ phase[j] = "idle"
    BY <1>1, <1>2 DEF DocumentsInit
  <1>7. QED
    BY <1>4, <1>5, <1>6, CleanEmpty DEF WholeInv, WholeAt

LEMMA WholeByJob ==
  ASSUME FileInv, WholeInv, CallsStay, NEW j \in Present, DocumentStep(j) \/ DreamRead(j)
  PROVE  WholeInv'
  <1>0. FileTypes /\ Writing /\ Present \subseteq Jobs /\ j \in Jobs
    BY DEF FileInv, FileTypes
  <1>1. PICK doc : \E to : JobDoes({Half}, j, doc, to)
    BY <1>0, JobSteps DEF WholeInv, WholeAt
  <1>2. PICK to : JobDoes({Half}, j, doc, to)
    BY <1>1
  <1>3. /\ Clean({Half}, doc) /\ Present' = Present
        /\ copy'[j] = doc /\ phase'[j] = to
        /\ \A k \in Present : k # j => copy'[k] = copy[k] /\ phase'[k] = phase[k]
    BY <1>0, <1>2 DEF JobDoes, FileTypes, Present
  <1>4. PlansApart'
    BY <1>3 DEF WholeInv, PlansApart, CallsStay, Called
  <1>5. ASSUME NEW k \in Present PROVE WholeAt(k)'
    <2> DEFINE f == Work[k].file
    <2>0. /\ k \in Jobs /\ WholeAt(k) /\ TmpOf(j) # f /\ TmpOf(k) # Work[j].file
          /\ k # j => TmpOf(j) # TmpOf(k)
      BY <1>0, WorkIs DEF WholeInv
    <2>1. Clean({Half}, copy'[k])
      BY <1>3, <2>0 DEF WholeAt
    <2>2. CASE /\ disk' = disk \/ \E fs : disk' = Gone(fs)
               /\ to # "filled" \/ TmpOf(j) \notin Files
      <3>1. \A g \in Files' : g \in Files /\ disk'[g] = disk[g]
        BY <2>2 DEF Gone, Files
      <3>2. k = j => to # "filled" \/ TmpOf(j) \notin Files'
        BY <2>2, <3>1
      <3>3. QED
        BY <1>3, <2>0, <2>1, <3>1, <3>2 DEF WholeAt
    <2>3. CASE to = "open" /\ disk' = Put(TmpOf(j), <<Half>>)
      <3>1. \A g \in Files' : g # TmpOf(j) => g \in Files /\ disk'[g] = disk[g]
        BY <2>3 DEF Put, Files
      <3>2. QED
        BY <1>3, <2>0, <2>1, <2>3, <3>1 DEF WholeAt
    <2>4. CASE to = "filled" /\ disk' = Put(TmpOf(j), doc)
      <3>1. /\ \A g \in Files' : g # TmpOf(j) => g \in Files /\ disk'[g] = disk[g]
            /\ disk'[TmpOf(j)] = doc
        BY <2>4 DEF Put, Files
      <3>2. QED
        BY <1>3, <2>0, <2>1, <2>4, <3>1 DEF WholeAt
    <2>5. CASE /\ to # "filled" /\ phase[j] = "filled" /\ TmpOf(j) \in Files
               /\ disk' = Carry(TmpOf(j), Work[j].file)
      <3>1. /\ \A g \in Files' : g # Work[j].file => g \in Files /\ disk'[g] = disk[g]
            /\ disk'[Work[j].file] = disk[TmpOf(j)]
        BY <2>5 DEF Carry, Files
      <3>2. Clean({Half}, disk[TmpOf(j)])
        BY <2>5 DEF WholeInv, WholeAt
      <3>3. QED
        BY <1>3, <2>0, <2>1, <2>5, <3>1, <3>2 DEF WholeAt
    <2>6. QED
      BY <1>2, <2>2, <2>3, <2>4, <2>5 DEF JobDoes
  <1>6. QED
    BY <1>3, <1>4, <1>5 DEF WholeInv

LEMMA WholeByCall ==
  ASSUME FileInv, WholeInv, JobsStay, NEW c \in Called,
         ItemStep(c) \/ \E p : PlannedBy(c, p) /\ Submit(c, p)
  PROVE  WholeInv'
  <1>1. Called' = Called /\ Present' = Present /\ copy' = copy /\ phase' = phase
    BY ItemsNext DEF JobsStay, Present
  <1>2. CASE ItemStep(c)
    <2>1. /\ at[c] \in Underway /\ plan' = plan
          /\ \A f : f # Src(c) /\ f # Dst(c) =>
               (f \in Files' <=> f \in Files) /\ (f \in Files => disk'[f] = disk[f])
      BY <1>2, ItemTouches, ItemDisk DEF FileInv
    <2>2. next[c] \in DOMAIN plan[c]
      BY <2>1 DEF FileInv, ItemsIn, Proper
    <2>3. \A j \in Present : Src(c)[1] # Work[j].file[1] /\ Dst(c)[1] # Work[j].file[1]
      BY <2>2 DEF WholeInv, PlansApart, Spares, Src, Dst
    <2>4. \A j \in Present : TmpOf(j)[1] = Work[j].file[1]
      BY DEF TmpOf
    <2>5. ASSUME NEW j \in Present PROVE WholeAt(j)'
      <3>1. \A f \in {Work[j].file, TmpOf(j)} :
               (f \in Files' <=> f \in Files) /\ (f \in Files => disk'[f] = disk[f])
        BY <2>1, <2>3, <2>4
      <3>2. WholeAt(j)
        BY DEF WholeInv
      <3>3. QED
        BY <1>1, <3>1, <3>2 DEF WholeAt
    <2>6. QED
      BY <1>1, <2>1, <2>5 DEF WholeInv, PlansApart
  <1>3. ASSUME NEW p, PlannedBy(c, p), Submit(c, p) PROVE WholeInv'
    <2>1. plan' = [plan EXCEPT ![c] = p] /\ disk' = disk
      BY <1>3 DEF Submit
    <2>2. \A d : d # "" /\ KeepsOff(c, d) => Spares(p, d)
      BY <1>3, PlansSpare DEF FileInv, FileTypes
    <2>3. \A j \in Present : Work[j].file[1] # ""
      BY WorkIs DEF FileInv, FileTypes
    <2>4. PlansApart'
      BY <1>1, <2>1, <2>2, <2>3 DEF WholeInv, PlansApart, FileInv, ItemsIn
    <2>5. QED
      BY <1>1, <2>1, <2>4 DEF WholeInv, WholeAt, Files
  <1>4. QED
    BY <1>2, <1>3

LEMMA WholeStep ==
  ASSUME FileInv, WholeInv, Next \/ UNCHANGED allVars
  PROVE  WholeInv'
  <1>1. CASE FileQuiet
    BY <1>1 DEF FileQuiet, WholeInv, WholeAt, PlansApart, Present, Called, Files
  <1>2. ASSUME NEW p \in Engaged, CrashDocuments(p), CrashBulk(p) PROVE WholeInv'
    <2>1. Present' = Present /\ copy' = copy /\ disk' = disk
          /\ \A j \in Present : phase'[j] \in {phase[j], "dead"}
      BY <1>2 DEF CrashDocuments, Present
    <2>2. Called' = Called /\ plan' = plan
      BY <1>2 DEF CrashBulk, Called
    <2>3. QED
      BY <2>1, <2>2 DEF WholeInv, WholeAt, PlansApart, Files
  <1>3. \A j \in Dreams : j \in Present
    BY DEF FileInv, FileTypes
  <1>4. QED
    BY <1>1, <1>2, <1>3, WholeByJob, WholeByCall, FileSteps

\* Whatever crashes or fails and whoever reads meanwhile, a document is there
\* as some save left it and never cut short, as long as the bulk tools of the
\* same scene keep out of its directory (fs.ts, writeFileAtomic).
THEOREM WholeDocuments ==
  ASSUME BulkApart
  PROVE  Spec => []Whole
  <1>1. Init => WholeInv
    BY WholeStart
  <1>2. FileInv /\ WholeInv /\ [Next]_allVars => WholeInv'
    BY WholeStep
  <1>3. WholeInv => Whole
    BY DEF WholeInv, WholeAt, Whole, Clean
  <1>4. QED
    BY <1>1, <1>2, <1>3, Filing, PTL DEF Spec

-----------------------------------------------------------------------------
(* Saves that land. *)

StoresApart ==
  \A j, k \in Present : InSessions(j) /\ Work[j].file[1] = Work[k].file[1] =>
    InSessions(k) /\ ProcessOf[j] = ProcessOf[k]

\* A job of a session gets to its document behind the initialization of the
\* directory, and another initialization after that is a crowd.
ReadyFirst ==
  \A j \in Present :
    /\ phase[j] = "entering" => InSessions(j)
    /\ InSessions(j) /\ phase[j] \in {"held", "open", "filled"} => ProcessOf[j] \in ready
    /\ phase[j] = "entering" /\ ProcessOf[j] \in ready => ProcessOf[j] \in crowded
    /\ \A k \in Present :
         /\ phase[j] = "entering" /\ phase[k] = "entering" /\ j # k /\ ProcessOf[j] = ProcessOf[k]
         => ProcessOf[j] \in crowded

\* A temporary file is missing only where there was a crowd.
TempsThere ==
  \A j \in Present :
    phase[j] \in {"open", "filled"} /\ TmpOf(j) \notin Files => ProcessOf[j] \in crowded

LandInv ==
  /\ \A j \in Dreams : Work[j].op = "dream"
  /\ StoresApart /\ ReadyFirst /\ TempsThere

LEMMA LandStart ==
  ASSUME OneStore, Init
  PROVE  LandInv
  <1>1. PICK scene \in Scenes : DocumentsInit(scene[1], scene[2]) /\ DreamInit(scene[1])
    BY DEF Init
  <1>2. Present = Jobs \cap scene[1] /\ \A j \in Present : phase[j] = "idle"
    BY <1>1 DEF DocumentsInit, Present
  <1>3. \A j \in Dreams : Work[j].op = "dream"
    BY <1>1 DEF DreamInit, Dreams
  <1>4. StoresApart
    BY <1>2 DEF StoresApart, OneStore
  <1>5. QED
    BY <1>2, <1>3, <1>4 DEF LandInv, ReadyFirst, TempsThere

\* Where a job goes: everyone else stays where it is.
LEMMA PhaseGoes ==
  ASSUME NEW j \in Present, NEW to, phase' = [phase EXCEPT ![j] = to]
  PROVE  Present' = Present /\ \A k \in Present : phase'[k] = IF k = j THEN to ELSE phase[k]
  BY DEF Present

\* A step that neither begins nor ends an initialization.
LEMMA LandQuiet ==
  ASSUME LandInv, Dreams' = Dreams, NEW j \in Present, NEW to,
         phase' = [phase EXCEPT ![j] = to], to # "entering", UNCHANGED <<ready, crowded>>,
         to \in {"held", "open", "filled"} =>
           ~InSessions(j) \/ phase[j] \in {"held", "open", "filled"} \/ ProcessOf[j] \in ready,
         to \in {"open", "filled"} =>
           TmpOf(j) \in Files' \/ (phase[j] \in {"open", "filled"} /\ TmpOf(j) \notin Files),
         \A k \in Present : k # j /\ TmpOf(k) \in Files => TmpOf(k) \in Files'
  PROVE  LandInv'
  <1>1. Present' = Present /\ \A k \in Present : phase'[k] = IF k = j THEN to ELSE phase[k]
    BY PhaseGoes
  <1>2. ReadyFirst'
    BY <1>1 DEF LandInv, ReadyFirst
  <1>3. TempsThere'
    BY <1>1 DEF LandInv, TempsThere
  <1>4. QED
    BY <1>1, <1>2, <1>3 DEF LandInv, StoresApart

LEMMA LandByJob ==
  ASSUME FileInv, LandInv, Dreams' = Dreams, NEW j \in Present, DocumentStep(j)
  PROVE  LandInv'
  <1>0. /\ j \in Jobs /\ Present \subseteq Jobs
        /\ \A k \in Present : TmpOf(j) # Work[k].file /\ TmpOf(k) # Work[j].file
                              /\ (k # j => TmpOf(j) # TmpOf(k))
    BY WorkIs DEF FileInv, FileTypes
  <1>1. ASSUME TakesIn(j)
        PROVE  \E to \in {"refused", "done", "held"} : phase' = [phase EXCEPT ![j] = to]
    <2>1. {} \in SUBSET {Half} /\ IsFiniteSet(Files)
          /\ (Work[j].file \in Files => Clean({}, disk[Work[j].file]))
      BY DEF FileInv, FileTypes, Clean
    <2>2. QED
      BY <1>0, <1>1, <2>1, Taken
  <1>2. CASE Enter(j)
    <2>1. /\ phase[j] = "idle" /\ InSessions(j) /\ ProcessOf[j] \notin ready
          /\ phase' = [phase EXCEPT ![j] = "entering"] /\ UNCHANGED <<disk, ready>>
          /\ crowded' = crowded \cup
               {ProcessOf[k] : k \in {k \in Present : phase[k] = "entering" /\ ProcessOf[k] = ProcessOf[j]}}
      BY <1>2 DEF Enter
    <2>2. Present' = Present /\ \A k \in Present : phase'[k] = IF k = j THEN "entering" ELSE phase[k]
      BY <2>1, PhaseGoes
    <2>3. crowded \subseteq crowded'
          /\ \A k \in Present : phase[k] = "entering" /\ ProcessOf[k] = ProcessOf[j] => ProcessOf[j] \in crowded'
      BY <2>1
    <2>4. ReadyFirst'
      <3>1. SUFFICES ASSUME NEW k \in Present
                     PROVE  /\ phase'[k] = "entering" => InSessions(k)
                            /\ InSessions(k) /\ phase'[k] \in {"held", "open", "filled"} => ProcessOf[k] \in ready
                            /\ phase'[k] = "entering" /\ ProcessOf[k] \in ready => ProcessOf[k] \in crowded'
                            /\ \A m \in Present :
                                 /\ phase'[k] = "entering" /\ phase'[m] = "entering" /\ k # m
                                 /\ ProcessOf[k] = ProcessOf[m]
                                 => ProcessOf[k] \in crowded'
        BY <2>1, <2>2 DEF ReadyFirst, InSessions
      <3>2. ReadyFirst
        BY DEF LandInv
      <3>3. CASE k = j
        BY <2>1, <2>2, <2>3, <3>3
      <3>4. CASE k # j
        <4>1. phase'[k] = phase[k]
          BY <2>2, <3>4
        <4>2. QED
          BY <2>1, <2>2, <2>3, <3>2, <3>4, <4>1 DEF ReadyFirst
      <3>5. QED
        BY <3>3, <3>4
    <2>5. TempsThere'
      BY <2>1, <2>2, <2>3 DEF LandInv, TempsThere, Files
    <2>6. QED
      BY <2>2, <2>4, <2>5 DEF LandInv, StoresApart, InSessions
  <1>3. CASE Sweep(j)
    <2>1. /\ phase[j] = "entering" /\ ready' = ready \cup {ProcessOf[j]} /\ crowded' = crowded
          /\ disk' = Gone({f \in Temps : f[1] = Work[j].file[1]})
      BY <1>3 DEF Sweep
    <2>2. PICK to \in {"refused", "done", "held"} : phase' = [phase EXCEPT ![j] = to]
      BY <1>1, <1>3 DEF Sweep
    <2>3. Present' = Present /\ \A k \in Present : phase'[k] = IF k = j THEN to ELSE phase[k]
      BY <2>2, PhaseGoes
    <2>4. InSessions(j)
      BY <2>1 DEF LandInv, ReadyFirst
    <2>5. ReadyFirst'
      <3>1. ReadyFirst
        BY DEF LandInv
      <3>2. \A k \in Present : phase'[k] = "entering" => k # j /\ phase[k] = "entering"
        BY <2>2, <2>3
      <3>3. \A k \in Present : phase'[k] \in {"held", "open", "filled"} /\ k # j
                               => phase[k] \in {"held", "open", "filled"}
        BY <2>3
      <3>4. QED
        BY <2>1, <2>3, <3>1, <3>2, <3>3 DEF ReadyFirst, InSessions
    <2>6. TempsThere'
      <3>1. SUFFICES ASSUME NEW k \in Present, phase'[k] \in {"open", "filled"}, TmpOf(k) \notin Files'
                     PROVE  ProcessOf[k] \in crowded
        BY <2>1, <2>3 DEF TempsThere, TmpOf
      <3>2. k # j /\ phase[k] \in {"open", "filled"}
        BY <2>2, <2>3, <3>1
      <3>3. CASE TmpOf(k) \notin Files
        BY <3>2, <3>3 DEF LandInv, TempsThere
      <3>4. CASE TmpOf(k) \in Files
        <4>1. TmpOf(k)[1] = Work[j].file[1]
          BY <2>1, <3>1, <3>4 DEF Gone, Files
        <4>2. Work[j].file[1] = Work[k].file[1]
          BY <4>1 DEF TmpOf
        <4>3. InSessions(k) /\ ProcessOf[j] = ProcessOf[k]
          BY <2>4, <4>2 DEF LandInv, StoresApart
        <4>4. ProcessOf[j] \in ready
          BY <3>2, <4>3 DEF LandInv, ReadyFirst
        <4>5. QED
          BY <2>1, <4>3, <4>4 DEF LandInv, ReadyFirst
      <3>5. QED
        BY <3>3, <3>4
    <2>7. QED
      BY <2>3, <2>5, <2>6 DEF LandInv, StoresApart, InSessions
  <1>4. CASE Read(j)
    <2>1. PICK to \in {"refused", "done", "held"} : phase' = [phase EXCEPT ![j] = to]
      BY <1>1, <1>4 DEF Read
    <2>2. UNCHANGED <<ready, crowded>> /\ (InSessions(j) => ProcessOf[j] \in ready)
          /\ (disk' = disk \/ disk' = Gone({Work[j].file}))
      BY <1>4 DEF Read
    <2>3. \A k \in Present : TmpOf(k) \in Files => TmpOf(k) \in Files'
      BY <1>0, <2>2 DEF Gone, Files
    <2>4. QED
      BY <2>1, <2>2, <2>3, LandQuiet
  <1>5. CASE SecretUnread(j)
    <2>1. ~InSessions(j) /\ phase' = [phase EXCEPT ![j] = "held"] /\ UNCHANGED <<disk, ready, crowded>>
      BY <1>5 DEF SecretUnread, InSessions, SessionOps
    <2>2. QED
      BY <2>1, LandQuiet DEF Files
  <1>6. CASE Open(j)
    <2>1. /\ phase[j] = "held" /\ phase' = [phase EXCEPT ![j] = "open"] /\ UNCHANGED <<ready, crowded>>
          /\ disk' = Put(TmpOf(j), <<Half>>)
      BY <1>6 DEF Open, docHistory
    <2>2. Files' = Files \cup {TmpOf(j)}
      BY <2>1 DEF Put, Files
    <2>3. QED
      BY <2>1, <2>2, LandQuiet
  <1>7. CASE Fill(j)
    <2>1. /\ phase[j] = "open" /\ phase' = [phase EXCEPT ![j] = "filled"] /\ UNCHANGED <<ready, crowded>>
          /\ disk' = IF TmpOf(j) \in Files THEN Put(TmpOf(j), copy'[j]) ELSE disk
      BY <1>7 DEF Fill, docHistory
    <2>2. Files' = Files
      BY <2>1 DEF Put, Files
    <2>3. QED
      BY <2>1, <2>2, LandQuiet
  <1>8. CASE Rename(j)
    <2>1. phase[j] = "filled" /\ UNCHANGED <<ready, crowded>>
      BY <1>8 DEF Rename
    <2>2. \E to : /\ phase' = [phase EXCEPT ![j] = to] /\ to \in {"held", "done", "failed"}
                  /\ disk' = disk \/ disk' = Carry(TmpOf(j), Work[j].file)
      BY <1>8 DEF Rename, Carry
    <2>3. \A k \in Present : k # j /\ TmpOf(k) \in Files => TmpOf(k) \in Files'
      BY <1>0, <2>2 DEF Carry, Files
    <2>4. QED
      BY <2>1, <2>2, <2>3, LandQuiet
  <1>9. CASE Fault(j)
    <2>1. /\ phase' = [phase EXCEPT ![j] = "failed"] /\ UNCHANGED <<ready, crowded>>
          /\ disk' = Gone({TmpOf(j)})
      BY <1>9 DEF Fault, docHistory
    <2>2. \A k \in Present : k # j /\ TmpOf(k) \in Files => TmpOf(k) \in Files'
      BY <1>0, <2>1 DEF Gone, Files
    <2>3. QED
      BY <2>1, <2>2, LandQuiet
  <1>10. QED
    BY <1>2, <1>3, <1>4, <1>5, <1>6, <1>7, <1>8, <1>9 DEF DocumentStep

\* The bulk tools keep out of the directories of the jobs.
LEMMA LandByCall ==
  ASSUME FileInv, WholeInv, LandInv, Dreams' = Dreams, JobsStay, NEW c \in Called,
         ItemStep(c) \/ \E p : PlannedBy(c, p) /\ Submit(c, p)
  PROVE  LandInv'
  <1>1. Present' = Present /\ phase' = phase /\ ready' = ready /\ crowded' = crowded
    BY DEF JobsStay, Present
  <1>2. \A j \in Present : TmpOf(j) \in Files => TmpOf(j) \in Files'
    <2>1. CASE ItemStep(c)
      <3>1. /\ at[c] \in Underway
            /\ \A f : f # Src(c) /\ f # Dst(c) => (f \in Files' <=> f \in Files)
        BY <2>1, ItemTouches
      <3>2. next[c] \in DOMAIN plan[c]
        BY <3>1 DEF FileInv, ItemsIn, Proper
      <3>3. \A j \in Present : Src(c)[1] # Work[j].file[1] /\ Dst(c)[1] # Work[j].file[1]
        BY <3>2 DEF WholeInv, PlansApart, Spares, Src, Dst
      <3>4. \A j \in Present : TmpOf(j)[1] = Work[j].file[1]
        BY DEF TmpOf
      <3>5. QED
        BY <3>1, <3>3, <3>4
    <2>2. CASE \E p : PlannedBy(c, p) /\ Submit(c, p)
      <3>1. disk' = disk
        BY <2>2 DEF Submit
      <3>2. QED
        BY <3>1 DEF Files
    <2>3. QED
      BY <2>1, <2>2
  <1>3. QED
    BY <1>1, <1>2 DEF LandInv, StoresApart, ReadyFirst, TempsThere

LEMMA LandStep ==
  ASSUME FileInv, WholeInv, LandInv, Next \/ UNCHANGED allVars
  PROVE  LandInv'
  <1>0. Dreams' = Dreams /\ \A j \in Dreams : j \in Present /\ Work[j].op = "dream"
    BY DreamsStay DEF FileInv, FileTypes, LandInv
  <1>1. CASE FileQuiet
    BY <1>0, <1>1 DEF FileQuiet, LandInv, StoresApart, ReadyFirst, TempsThere, Present, Files
  <1>2. ASSUME NEW p \in Engaged, CrashDocuments(p), CrashBulk(p) PROVE LandInv'
    <2>1. /\ Present' = Present /\ disk' = disk /\ crowded' = crowded /\ ready' = ready \ {p}
          /\ \A j \in Present :
               phase'[j] = IF ProcessOf[j] = p /\ phase[j] \in Busy THEN "dead" ELSE phase[j]
      BY <1>2 DEF CrashDocuments, Present, docHistory
    <2>2. \A j \in Present : /\ phase'[j] \in {phase[j], "dead"}
                             /\ phase'[j] \in Busy => ProcessOf[j] # p
      BY <2>1 DEF Busy
    <2>3. ReadyFirst'
      BY <2>1, <2>2 DEF LandInv, ReadyFirst, Busy, InSessions
    <2>4. TempsThere'
      BY <2>1, <2>2 DEF LandInv, TempsThere, Files, TmpOf
    <2>5. QED
      BY <1>0, <2>1, <2>3, <2>4 DEF LandInv, StoresApart, InSessions
  <1>3. ASSUME NEW j \in Dreams, DreamRead(j) PROVE LandInv'
    <2>1. j \in Present /\ j \in Jobs /\ ~InSessions(j)
      BY <1>0 DEF InSessions, SessionOps, FileInv, FileTypes
    <2>2. TakesIn(j) /\ UNCHANGED <<disk, ready, crowded>>
      BY <1>3 DEF DreamRead
    <2>3. PICK to \in {"refused", "done", "held"} : phase' = [phase EXCEPT ![j] = to]
      <3>1. {} \in SUBSET {Half} /\ IsFiniteSet(Files)
            /\ (Work[j].file \in Files => Clean({}, disk[Work[j].file]))
        BY DEF FileInv, FileTypes, Clean
      <3>2. QED
        BY <2>1, <2>2, <3>1, Taken
    <2>4. Files' = Files
      BY <2>2 DEF Files
    <2>5. QED
      BY <1>0, <2>1, <2>2, <2>3, <2>4, LandQuiet
  <1>4. QED
    BY <1>0, <1>1, <1>2, <1>3, LandByJob, LandByCall, FileSteps

\* A save that finds its temporary file gone does so in a process where two
\* calls initialized the session directory, as long as the bulk tools keep out
\* of that directory and one process has it (store.ts, ensureDir).
THEOREM SavesLandUnlessCrowded ==
  ASSUME BulkApart, OneStore
  PROVE  Spec => SavesLand
  <1> DEFINE Lands == \A j \in Present : phase'[j] = "failed" /\ Rename(j) => ProcessOf[j] \in crowded
  <1>1. Init => WholeInv /\ LandInv
    BY WholeStart, LandStart
  <1>2. FileInv /\ WholeInv /\ LandInv /\ [Next]_allVars => (WholeInv /\ LandInv)'
    BY WholeStep, LandStep
  <1>3. LandInv => Lands
    <2>1. ASSUME LandInv, NEW j \in Present, phase'[j] = "failed", Rename(j)
          PROVE  phase[j] = "filled" /\ TmpOf(j) \notin Files
      <3>1. phase[j] = "filled"
        BY <2>1 DEF Rename
      <3>2. TmpOf(j) \in Files =>
              phase'[j] = IF Work[j].op = "turn" /\ saves'[j] < MaxSaves THEN "held" ELSE "done"
        BY <2>1 DEF Rename, Present
      <3>3. QED
        BY <2>1, <3>1, <3>2
    <2>2. QED
      BY <2>1 DEF LandInv, TempsThere
  <1>4. LandInv => [Lands]_<<docVars, docHistory>>
    BY <1>3
  <1>5. QED
    BY <1>1, <1>2, <1>4, Filing, PTL DEF Spec, SavesLand

-----------------------------------------------------------------------------
(* Lookups: the directories a walk gets to. *)

LEMMA ReachSelf ==
  ASSUME NEW q, NEW d \in DOMAIN Below
  PROVE  d \in Reach(q, d)
  BY DEF Reach

LEMMA ReachOn ==
  ASSUME NEW q, NEW r, NEW x \in Reach(q, r), NEW e \in Children(q, x)
  PROVE  e \in Reach(q, r) /\ x \in DOMAIN Below /\ e \in DOMAIN Below
  <1>1. x \in DOMAIN Below /\ r \in DOMAIN Below
    BY DEF Reach
  <1>2. e \in DOMAIN Below
    BY <1>1, LookupsAssumption DEF Children
  <1>3. ASSUME NEW dirs \in SUBSET DOMAIN Below, r \in dirs, Closed(q, dirs) PROVE e \in dirs
    BY <1>3 DEF Reach, Closed
  <1>4. QED
    BY <1>1, <1>2, <1>3 DEF Reach

\* Whatever lies below a directory is that directory or lies below a child.
LEMMA ReachSplit ==
  ASSUME NEW q, NEW d, NEW x \in Reach(q, d)
  PROVE  x = d \/ \E e \in Children(q, d) : x \in Reach(q, e)
  <1> DEFINE D == {y \in DOMAIN Below : y = d \/ \E e \in Children(q, d) : y \in Reach(q, e)}
  <1>1. d \in DOMAIN Below
    BY DEF Reach
  <1>2. ASSUME NEW y \in D, NEW z \in Children(q, y) PROVE z \in D
    <2>1. CASE y = d
      <3>1. z \in DOMAIN Below
        BY <1>1, <1>2, <2>1, LookupsAssumption DEF Children
      <3>2. z \in Reach(q, z)
        BY <3>1, ReachSelf
      <3>3. QED
        BY <1>2, <2>1, <3>1, <3>2
    <2>2. CASE y # d
      <3>1. PICK e \in Children(q, d) : y \in Reach(q, e)
        BY <2>2
      <3>2. z \in Reach(q, e) /\ z \in DOMAIN Below
        BY <1>2, <3>1, ReachOn
      <3>3. QED
        BY <3>1, <3>2
    <2>3. QED
      BY <2>1, <2>2
  <1>3. D \in SUBSET DOMAIN Below /\ d \in D
    BY <1>1
  <1>4. Closed(q, D)
    <2> HIDE DEF D
    <2>1. QED
      BY <1>2 DEF Closed
  <1>5. x \in D
    <2> HIDE DEF D
    <2>1. QED
      BY <1>3, <1>4 DEF Reach
  <1>6. QED
    BY <1>5

-----------------------------------------------------------------------------
(* Lookups: the stack of a walk. *)

LEMMA RangeConcat ==
  ASSUME NEW s, NEW t, Proper(s), Proper(t)
  PROVE  Proper(s \o t) /\ Range(s \o t) = Range(s) \cup Range(t)
  <1> DEFINE S == Range(s) \cup Range(t)
  <1>1. s \in Seq(S) /\ t \in Seq(S)
    <2>1. Range(s) \subseteq S /\ Range(t) \subseteq S
      OBVIOUS
    <2> HIDE DEF S
    <2>2. QED
      BY <2>1, ProperWithin
  <1>2. /\ Len(s) \in Nat /\ DOMAIN s = 1..Len(s) /\ Len(t) \in Nat /\ DOMAIN t = 1..Len(t)
        /\ Range(s) = {s[i] : i \in 1..Len(s)} /\ Range(t) = {t[i] : i \in 1..Len(t)}
    <2> HIDE DEF S
    <2>1. DOMAIN s = 1..Len(s) /\ DOMAIN t = 1..Len(t) /\ Len(s) \in Nat /\ Len(t) \in Nat
      BY <1>1
    <2>2. QED
      BY <2>1 DEF Range
  <1> HIDE DEF S
  <1>3. s \o t \in Seq(S) /\ Len(s \o t) = Len(s) + Len(t)
    BY <1>1
  <1>4. /\ \A i \in 1..Len(s) : (s \o t)[i] = s[i]
        /\ \A i \in 1..Len(t) : (s \o t)[Len(s) + i] = t[i]
    BY <1>1, <1>2
  <1>5. Proper(s \o t) /\ Range(s \o t) \subseteq S
    BY <1>3, ProperIn
  <1>6. Range(s \o t) = {(s \o t)[i] : i \in 1..Len(s) + Len(t)}
    <2>1. DOMAIN (s \o t) = 1..Len(s) + Len(t)
      BY <1>1, <1>3
    <2>2. QED
      BY <2>1 DEF Range
  <1>7. \A i \in 1..Len(t) : Len(s) + i \in 1..Len(s) + Len(t)
    BY <1>2
  <1>8. \A i \in 1..Len(s) : i \in 1..Len(s) + Len(t)
    BY <1>2
  <1>9. S \subseteq Range(s \o t)
    BY <1>2, <1>4, <1>6, <1>7, <1>8 DEF S
  <1>10. QED
    BY <1>5, <1>9 DEF S

LEMMA RangeOne ==
  ASSUME NEW e
  PROVE  Proper(<<e>>) /\ Range(<<e>>) = {e}
  <1>1. <<e>> \in Seq({e})
    OBVIOUS
  <1>2. Range(<<e>>) = {e}
    BY DEF Range
  <1>3. QED
    BY <1>1, <1>2, ProperIn

LEMMA RangeAppend ==
  ASSUME NEW s, Proper(s), NEW e
  PROVE  Proper(Append(s, e)) /\ Range(Append(s, e)) = Range(s) \cup {e}
  <1>1. Append(s, e) = s \o <<e>>
    <2> DEFINE S == Range(s) \cup {e}
    <2>1. s \in Seq(S) /\ e \in S
      BY ProperWithin
    <2> HIDE DEF S
    <2>2. QED
      BY <2>1
  <1>2. QED
    BY <1>1, RangeOne, RangeConcat

\* A sequence is its first and the rest, and what is before the last, and it.
LEMMA RangeEnds ==
  ASSUME NEW s, Proper(s), s # <<>>
  PROVE  /\ Proper(Tail(s)) /\ Range(s) = {Head(s)} \cup Range(Tail(s))
         /\ Proper(Front(s)) /\ Range(s) = Range(Front(s)) \cup {Last(s)}
  <1> DEFINE S == Range(s)  n == Len(s)
  <1>1. s \in Seq(S)
    BY DEF Proper
  <1>2. DOMAIN s = 1..n /\ Range(s) = {s[i] : i \in 1..n} /\ n \in Nat /\ n > 0
    <2> HIDE DEF S
    <2>1. DOMAIN s = 1..n /\ n \in Nat /\ n > 0
      BY <1>1
    <2>2. QED
      BY <2>1 DEF Range
  <1> HIDE DEF S
  <1>3. Tail(s) \in Seq(S) /\ Front(s) \in Seq(S) /\ Head(s) = s[1]
        /\ Len(Tail(s)) = n - 1 /\ Len(Front(s)) = n - 1
    BY <1>1, <1>2 DEF Front
  <1>4. /\ \A i \in 1..n - 1 : Tail(s)[i] = s[i + 1] /\ Front(s)[i] = s[i]
        /\ DOMAIN Tail(s) = 1..n - 1 /\ DOMAIN Front(s) = 1..n - 1
    BY <1>1, <1>2, <1>3 DEF Front
  <1>5. Range(Tail(s)) = {s[i + 1] : i \in 1..n - 1} /\ Range(Front(s)) = {s[i] : i \in 1..n - 1}
    BY <1>4 DEF Range
  <1>6. Last(s) = s[n]
    BY DEF Last
  <1> HIDE DEF n
  <1>7. \A i \in 1..n : i = 1 \/ \E k \in 1..n - 1 : i = k + 1
    <2>1. \A i \in 1..n : i = 1 \/ (i - 1 \in 1..n - 1 /\ i = (i - 1) + 1)
      BY <1>2
    <2>2. QED
      BY <2>1
  <1>8. /\ 1 \in 1..n /\ n \in 1..n
        /\ \A i \in 1..n - 1 : i \in 1..n /\ i + 1 \in 1..n
        /\ \A i \in 1..n : i = n \/ i \in 1..n - 1
    BY <1>2
  <1>9. Proper(Tail(s)) /\ Proper(Front(s))
    BY <1>3, ProperIn
  <1>10. Range(s) = {s[1]} \cup {s[i + 1] : i \in 1..n - 1}
    BY <1>2, <1>7, <1>8
  <1>11. Range(s) = {s[i] : i \in 1..n - 1} \cup {s[n]}
    BY <1>2, <1>7, <1>8
  <1>12. QED
    BY <1>3, <1>5, <1>6, <1>9, <1>10, <1>11

\* The items of a stack, and a stack without directories that are through.
ItemsIn_(s) == UNION {Range(frame) : frame \in Range(s)}
Framed(s) == Proper(s) /\ \A frame \in Range(s) : Proper(frame)
Stacked(s) == Framed(s) /\ <<>> \notin Range(s)

LEMMA RangeNone == Proper(<<>>) /\ Range(<<>>) = {} /\ \A s : Proper(s) /\ Range(s) = {} => s = <<>>
  <1>1. <<>> \in Seq({}) /\ DOMAIN <<>> = {}
    OBVIOUS
  <1>2. ASSUME NEW s, Proper(s), Range(s) = {} PROVE s = <<>>
    BY <1>2 DEF Proper
  <1>3. QED
    BY <1>1, <1>2, ProperIn DEF Range

LEMMA Trimmed ==
  ASSUME NEW s, Framed(s)
  PROVE  Stacked(Trim(s)) /\ ItemsIn_(Trim(s)) = ItemsIn_(s)
  <1>1. s \in Seq(Range(s))
    BY DEF Framed, Proper
  <1>2. Proper(Trim(s)) /\ Range(Trim(s)) = Range(s) \ {<<>>}
    <2> DEFINE P == Range(s)  S == Range(s) \ {<<>>}
    <2>1. s \in Seq(P) /\ Range(s) \cap S = S
      BY <1>1
    <2> HIDE DEF P, S
    <2>2. Kept(s, S) \in Seq(P) /\ Range(Kept(s, S)) = Range(s) \cap S
      BY <2>1, KeptRange
    <2>3. Trim(s) = Kept(s, S)
      BY DEF Trim, S
    <2>4. QED
      BY <2>1, <2>2, <2>3, ProperIn DEF S
  <1>3. QED
    BY <1>2, RangeNone DEF Framed, Stacked, ItemsIn_

\* The stack without the item at hand.
RestOf(s) == Front(s) \o << Tail(Last(s)) >>

LEMMA Popped ==
  ASSUME NEW s, Stacked(s), s # <<>>
  PROVE  /\ Framed(RestOf(s)) /\ Framed(Front(s))
         /\ ItemsIn_(RestOf(s)) \subseteq ItemsIn_(s)
         /\ ItemsIn_(s) = ItemsIn_(RestOf(s)) \cup {Head(Last(s))}
         /\ ItemsIn_(Front(s)) \subseteq ItemsIn_(s)
  <1> DEFINE last == Last(s)  front == Front(s)
  <1>1. Proper(front) /\ Range(s) = Range(front) \cup {last}
    BY RangeEnds DEF Stacked, Framed
  <1>2. Proper(last) /\ last # <<>>
    BY <1>1 DEF Stacked, Framed
  <1>3. Proper(Tail(last)) /\ Range(last) = {Head(last)} \cup Range(Tail(last))
    BY <1>2, RangeEnds
  <1>4. Proper(RestOf(s)) /\ Range(RestOf(s)) = Range(front) \cup {Tail(last)}
    <2>1. RestOf(s) = front \o <<Tail(last)>>
      BY DEF RestOf
    <2> HIDE DEF last, front
    <2>2. Proper(<<Tail(last)>>) /\ Range(<<Tail(last)>>) = {Tail(last)}
      BY RangeOne
    <2>3. QED
      BY <1>1, <2>1, <2>2, RangeConcat
  <1> HIDE DEF last, front
  <1>5. Framed(RestOf(s)) /\ Framed(front)
    BY <1>1, <1>3, <1>4 DEF Framed, Stacked
  <1>6. ItemsIn_(RestOf(s)) = ItemsIn_(front) \cup Range(Tail(last))
    BY <1>4 DEF ItemsIn_
  <1>7. ItemsIn_(s) = ItemsIn_(front) \cup Range(last)
    BY <1>1 DEF ItemsIn_
  <1>8. QED
    BY <1>3, <1>5, <1>6, <1>7 DEF last, front

-----------------------------------------------------------------------------
(* Lookups: what a walk knows of the files it is about. *)

FoundIn(h) == {e[1] : e \in Range(h)}

\* An item a walk has listed: a directory it gets to, or a file that is of the
\* query by its place, and matched when it was listed if its name says so.
InSight(q, ev, item) ==
  /\ item[2] = "" => q.tool = "file_list" \/ (q.root[2] = "" /\ item[1] \in Reached[q])
  /\ item[2] # "" =>
       /\ Rooted(q, item)
       /\ q.tool = "glob_search" /\ item[2] \in q.names => item \in ev
       /\ q.tool = "search_files" /\ NameScore(q, item) > 0 => item \in ev
       /\ q.tool = "file_list" => item \in ev

\* The walk comes to f by way of the item.
Covers(q, item, f) ==
  \/ item = f
  \/ item[2] = "" /\ q.tool = "file_list" /\ item = q.root
  \/ item[2] = "" /\ q.tool # "file_list" /\ f[1] \in Reach(q, item[1])

WalkIs(q, files, s, h, c, st, ev) ==
  /\ Stacked(s) /\ Proper(h)
  /\ st \subseteq About(q, files) /\ About(q, files) \subseteq ev
  /\ \A item \in ItemsIn_(s) : InSight(q, ev, item)
  /\ ~c => \A f \in st : f \in FoundIn(h) \/ \E item \in ItemsIn_(s) : Covers(q, item, f)
  /\ \A f \in FoundIn(h) : f[2] # "" => f \in ev
  /\ q.tool = "grep_search" /\ s # <<>> => ~c /\ (~q.only => Len(h) < q.max)
  /\ q.tool = "file_list" => q.root[2] = "" /\ q.root[1] \in DOMAIN Below

DoneIs(h, c, st, ev) ==
  /\ ~c => st \subseteq FoundIn(h)
  /\ \A f \in FoundIn(h) : f[2] # "" => f \in ev

\* The files change under a walk.
LEMMA WalkWitnesses ==
  ASSUME NEW q, NEW files, NEW files2, NEW s, NEW h, NEW c, NEW st, NEW ev,
         WalkIs(q, files, s, h, c, st, ev)
  PROVE  WalkIs(q, files2, s, h, c, st \cap About(q, files2), ev \cup About(q, files2))
  <1>1. \A item \in ItemsIn_(s) : InSight(q, ev \cup About(q, files2), item)
    BY DEF WalkIs, InSight
  <1>2. QED
    BY <1>1 DEF WalkIs

\* An item is through: what it covered is found, or the walk was cut off.
LEMMA WalkPasses ==
  ASSUME NEW q, NEW files, NEW s, NEW h, NEW c, NEW st, NEW ev, NEW h2, NEW c2,
         WalkIs(q, files, s, h, c, st, ev), s # <<>>, Proper(h2),
         FoundIn(h) \subseteq FoundIn(h2), \A f \in FoundIn(h2) : f[2] # "" => f \in ev,
         ~c2 => ~c /\ \A f \in st : Covers(q, Head(Last(s)), f) => f \in FoundIn(h2),
         q.tool = "grep_search" => ~c2 /\ (~q.only => Len(h2) < q.max)
  PROVE  WalkIs(q, files, Trim(RestOf(s)), h2, c2, st, ev)
  <1> DEFINE r == Trim(RestOf(s))
  <1>1. Stacked(r) /\ ItemsIn_(r) \subseteq ItemsIn_(s)
        /\ ItemsIn_(s) = ItemsIn_(r) \cup {Head(Last(s))}
    BY Popped, Trimmed DEF WalkIs
  <1> HIDE DEF r
  <1>2. ~c2 => \A f \in st : f \in FoundIn(h2) \/ \E item \in ItemsIn_(r) : Covers(q, item, f)
    BY <1>1 DEF WalkIs
  <1>3. \A item \in ItemsIn_(r) : InSight(q, ev, item)
    BY <1>1 DEF WalkIs
  <1>4. WalkIs(q, files, r, h2, c2, st, ev)
    BY <1>1, <1>2, <1>3 DEF WalkIs
  <1>5. QED
    BY <1>4 DEF r

\* A walk that was cut off.
LEMMA WalkCut ==
  ASSUME NEW q, NEW files, NEW s, NEW h, NEW c, NEW st, NEW ev, NEW s2, NEW h2, NEW c2, c2,
         WalkIs(q, files, s, h, c, st, ev), Stacked(s2), ItemsIn_(s2) \subseteq ItemsIn_(s),
         Proper(h2), \A f \in FoundIn(h2) : f[2] # "" => f \in ev,
         q.tool = "grep_search" => s2 = <<>>
  PROVE  WalkIs(q, files, s2, h2, c2, st, ev)
  BY DEF WalkIs

LEMMA NoItems == Stacked(<<>>) /\ ItemsIn_(<<>>) = {} /\ FoundIn(<<>>) = {} /\ Proper(<<>>)
  BY RangeNone DEF Stacked, Framed, ItemsIn_, FoundIn

LEMMA FoundAppend ==
  ASSUME NEW h, Proper(h), NEW f, NEW n, NEW size
  PROVE  /\ Proper(Append(h, <<f, n, size>>))
         /\ FoundIn(Append(h, <<f, n, size>>)) = FoundIn(h) \cup {f}
  <1> DEFINE e == <<f, n, size>>
  <1>1. e[1] = f
    OBVIOUS
  <1> HIDE DEF e
  <1>2. Proper(Append(h, e)) /\ Range(Append(h, e)) = Range(h) \cup {e}
    BY RangeAppend
  <1>3. FoundIn(Append(h, e)) = FoundIn(h) \cup {f}
    BY <1>1, <1>2 DEF FoundIn
  <1>4. QED
    BY <1>2, <1>3 DEF e

\* The lines of a document that match.
LEMMA LinesAre ==
  ASSUME NEW q, NEW doc, Proper(doc)
  PROVE  Proper(Lines(q, doc)) /\ Len(Lines(q, doc)) \in Nat
         /\ (doc = <<>> => Lines(q, doc) = <<>>)
  <1> DEFINE all == [i \in DOMAIN doc |-> i]
             S == {i \in DOMAIN doc : doc[i][1] \in q.text}
  <1>1. DOMAIN doc = 1..Len(doc) /\ Len(doc) \in Nat
    BY DEF Proper
  <1>2. all \in Seq(DOMAIN doc)
    BY <1>1
  <1>3. Lines(q, doc) = Kept(all, S)
    BY DEF Lines
  <1>4. doc = <<>> => all = <<>>
    OBVIOUS
  <1> HIDE DEF all, S
  <1>5. Kept(all, S) \in Seq(DOMAIN doc)
    BY <1>2, KeptRange
  <1>6. QED
    BY <1>3, <1>4, <1>5, ProperIn, KeptEmpty

-----------------------------------------------------------------------------
(* Lookups: each step of a walk. *)

LookTypes ==
  /\ Asking \subseteq Lookups
  /\ DOMAIN stack = Asking /\ DOMAIN hits = Asking /\ DOMAIN cut = Asking

LookAt(l) ==
  /\ looks[l] = "idle" => hits[l] = <<>> /\ ~cut[l]
  /\ looks[l] = "walking" =>
       WalkIs(Query[l], disk, stack[l], hits[l], cut[l], steady[l], ever[l])
  /\ looks[l] = "done" => DoneIs(hits[l], cut[l], steady[l], ever[l])

LookInv == LookTypes /\ \A l \in Asking : LookAt(l)

LEMMA QueryIs ==
  ASSUME NEW l \in Lookups
  PROVE  /\ Query[l].tool \in {"glob_search", "grep_search", "search_files", "file_list"}
         /\ Query[l].max \in Nat /\ (Query[l].tool = "grep_search" => Query[l].max > 0)
         /\ Reached[Query[l]] = Reach(Query[l], Query[l].root[1])
  <1>1. Query[l].tool \in {"glob_search", "grep_search", "search_files", "file_list"}
    BY LookupsAssumption
  <1>2. Query[l].max \in IF Query[l].tool = "grep_search" THEN Nat \ {0} ELSE Nat
    BY LookupsAssumption
  <1>3. Query[l].max \in Nat /\ (Query[l].tool = "grep_search" => Query[l].max > 0)
    <2>1. CASE Query[l].tool = "grep_search"
      <3>1. Query[l].max \in Nat \ {0}
        BY <1>2, <2>1
      <3>2. QED
        BY <3>1
    <2>2. CASE Query[l].tool # "grep_search"
      BY <1>2, <2>2
    <2>3. QED
      BY <2>1, <2>2
  <1>4. Query[l] \in Range(Query)
    BY LookupsAssumption DEF Range
  <1>5. Reached[Query[l]] = Reach(Query[l], Query[l].root[1])
    BY <1>4 DEF Reached
  <1>6. QED
    BY <1>1, <1>3, <1>5

LEMMA ScoresAre ==
  ASSUME NEW l \in Lookups, Query[l].tool = "search_files", NEW f, NEW doc, Proper(doc)
  PROVE  /\ NameScore(Query[l], f) \in Nat /\ ContentScore(Query[l], f, doc) \in Nat
         /\ ContentScore(Query[l], f, <<>>) = 0
  <1> DEFINE q == Query[l]  n == Len(Lines(q, doc))
  <1>1. NameScore(q, f) \in Nat
    BY LookupsAssumption DEF NameScore
  <1>2. n \in Nat /\ Len(Lines(q, <<>>)) = 0
    BY LinesAre, NoItems
  <1>3. ContentScore(q, f, <<>>) = 0
    BY <1>2 DEF ContentScore
  <1>4. ContentScore(q, f, doc) = IF f[2] \in Binary \/ n = 0 THEN 0 ELSE 30 + 2 * Min({n, 5})
    BY DEF ContentScore
  <1> HIDE DEF n
  <1>5. Min({n, 5}) \in Nat
    <2>1. {n, 5} \in SUBSET Nat /\ {n, 5} # {}
      BY <1>2
    <2>2. QED
      BY <2>1, MinIs
  <1>6. QED
    BY <1>1, <1>3, <1>4, <1>5

\* A file whose name scores matches whatever is in it.
LEMMA NameMatches ==
  ASSUME NEW l \in Lookups, Query[l].tool = "search_files", NEW f, NEW doc, Proper(doc),
         NameScore(Query[l], f) > 0
  PROVE  Matches(Query[l], f, doc)
  <1>1. NameScore(Query[l], f) \in Nat /\ ContentScore(Query[l], f, doc) \in Nat
    BY ScoresAre
  <1>2. Score(Query[l], f, doc) > 0
    BY <1>1 DEF Score
  <1>3. QED
    BY <1>2 DEF Matches

\* A file that is there, where the walk gets to.
LEMMA FileListed ==
  ASSUME FileInv, NEW l \in Lookups, NEW f \in Files, f[2] # "", Rooted(Query[l], f),
         Query[l].tool = "file_list" => f[1] = Query[l].root[1],
         NEW ev, About(Query[l], disk) \subseteq ev
  PROVE  InSight(Query[l], ev, f)
  <1> DEFINE q == Query[l]
  <1>1. Proper(disk[f])
    BY DEF FileInv, FileTypes
  <1>2. Matches(q, f, disk[f]) => f \in ev
    BY DEF About, Files
  <1>3. q.tool = "glob_search" /\ f[2] \in q.names => f \in ev
    BY <1>2 DEF Matches
  <1>4. q.tool = "search_files" /\ NameScore(q, f) > 0 => f \in ev
    BY <1>1, <1>2, NameMatches
  <1>5. q.tool = "file_list" => f \in ev
    BY <1>2 DEF Matches
  <1>6. QED
    BY <1>3, <1>4, <1>5 DEF InSight

LEMMA StartsWalk ==
  ASSUME FileInv, LookInv, NEW l \in Asking, Start(l), Witnessed, disk' = disk
  PROVE  LookAt(l)'
  <1> DEFINE q == Query[l]
             A == About(q, disk)
             folder == q.root[2] = ""
             good == IF folder THEN q.root[1] \in DOMAIN Below
                     ELSE q.tool \in {"grep_search", "search_files"} /\ q.root \in Files
             to == IF good THEN "walking" ELSE IF q.tool = "glob_search" THEN "done" ELSE "refused"
  <1>0. l \in Lookups /\ LookTypes /\ hits[l] = <<>> /\ ~cut[l] /\ looks[l] = "idle"
    BY DEF LookInv, LookTypes, LookAt, Start
  <1>1. /\ hits'[l] = <<>> /\ ~cut'[l] /\ looks'[l] = to
        /\ stack'[l] = IF good THEN << <<q.root>> >> ELSE <<>>
    BY <1>0 DEF Start, LookTypes, Asking
  <1>2. steady'[l] = A /\ ever'[l] = A
    BY <1>0 DEF Witnessed
  <1>3. CASE good
    <2> DEFINE s == << <<q.root>> >>
    <2>1. Stacked(s) /\ ItemsIn_(s) = {q.root}
      <3> DEFINE frame == <<q.root>>
      <3>1. Proper(frame) /\ Range(frame) = {q.root} /\ frame # <<>>
        BY RangeOne
      <3> HIDE DEF frame
      <3>2. Proper(<<frame>>) /\ Range(<<frame>>) = {frame}
        BY RangeOne
      <3>3. Stacked(<<frame>>) /\ ItemsIn_(<<frame>>) = {q.root}
        BY <3>1, <3>2 DEF Stacked, Framed, ItemsIn_
      <3>4. QED
        BY <3>3 DEF frame
    <2> HIDE DEF s
    <2>2. folder => q.root[1] \in Reached[q]
      BY <1>0, <1>3, QueryIs, ReachSelf
    <2>3. InSight(q, A, q.root)
      <3>1. CASE folder
        BY <2>2, <3>1 DEF InSight
      <3>2. CASE ~folder
        <4>1. q.root \in Files /\ Rooted(q, q.root) /\ q.tool # "file_list"
          BY <1>3, <3>2 DEF Rooted
        <4>2. QED
          BY <1>0, <3>2, <4>1, FileListed
      <3>3. QED
        BY <3>1, <3>2
    <2>4. \A f \in A : Covers(q, q.root, f)
      <3>1. SUFFICES ASSUME NEW f \in A PROVE Covers(q, q.root, f)
        OBVIOUS
      <3>2. Rooted(q, f)
        BY DEF About
      <3>3. folder => f[1] \in Reach(q, q.root[1])
        BY <1>0, <3>2, QueryIs DEF Rooted
      <3>4. ~folder => f = q.root
        BY <3>2 DEF Rooted
      <3> HIDE DEF A
      <3>5. QED
        BY <3>3, <3>4 DEF Covers
    <2>5. q.tool = "grep_search" => 0 < q.max
      BY <1>0, QueryIs
    <2>6. Len(<<>>) = 0
      OBVIOUS
    <2>7. q.tool = "file_list" => folder /\ q.root[1] \in DOMAIN Below
      BY <1>3
    <2>8. ASSUME NEW c, ~c PROVE WalkIs(q, disk, s, <<>>, c, A, A)
      <3> HIDE DEF A
      <3>1. QED
        BY <2>1, <2>3, <2>4, <2>5, <2>6, <2>7, <2>8, NoItems DEF WalkIs, A
    <2>9. WalkIs(q, disk', stack'[l], hits'[l], cut'[l], steady'[l], ever'[l])
      <3>1. stack'[l] = s
        BY <1>1, <1>3 DEF s
      <3> HIDE DEF A
      <3>2. QED
        BY <1>1, <1>2, <2>8, <3>1
    <2>10. QED
      BY <1>1, <1>3, <2>9 DEF LookAt
  <1>4. CASE ~good
    <2>1. q.tool = "glob_search" => A = {}
      <3>1. folder => Reached[q] = {}
        BY <1>0, <1>4, QueryIs DEF Reach
      <3>2. q.tool = "glob_search" => \A f : ~Rooted(q, f)
        BY <3>1 DEF Rooted
      <3>3. QED
        BY <3>2 DEF About
    <2>2. looks'[l] \notin {"idle", "walking"} /\ (looks'[l] = "done" => q.tool = "glob_search")
      BY <1>1, <1>4
    <2> HIDE DEF A
    <2>3. looks'[l] = "done" => DoneIs(hits'[l], cut'[l], steady'[l], ever'[l])
      BY <1>1, <1>2, <2>1, <2>2, NoItems DEF DoneIs
    <2>4. QED
      BY <2>2, <2>3 DEF LookAt
  <1>5. QED
    BY <1>3, <1>4

\* What every step of a walk starts from.
LEMMA WalkHas ==
  ASSUME LookInv, NEW l \in Asking, Walking(l)
  PROVE  /\ l \in Lookups /\ LookTypes /\ looks[l] = "walking" /\ stack[l] # <<>>
         /\ WalkIs(Query[l], disk, stack[l], hits[l], cut[l], steady[l], ever[l])
         /\ Here(l) = Head(Last(stack[l])) /\ Rest(l) = RestOf(stack[l])
         /\ InSight(Query[l], ever[l], Here(l))
  <1>1. looks[l] = "walking" /\ stack[l] # <<>> /\ LookTypes /\ LookAt(l)
    BY DEF Walking, LookInv
  <1>2. Here(l) = Head(Last(stack[l])) /\ Rest(l) = RestOf(stack[l])
    BY DEF Here, Rest, RestOf
  <1>3. WalkIs(Query[l], disk, stack[l], hits[l], cut[l], steady[l], ever[l])
    BY <1>1 DEF LookAt
  <1>4. Head(Last(stack[l])) \in ItemsIn_(stack[l])
    BY <1>1, <1>3, Popped DEF WalkIs
  <1>5. QED
    BY <1>1, <1>2, <1>3, <1>4 DEF WalkIs, LookTypes

WalksOn(l) == WalkIs(Query[l], disk, stack'[l], hits'[l], cut'[l], steady[l], ever[l])

LEMMA GivesUp ==
  ASSUME LookInv, NEW l \in Asking, GiveUp(l)
  PROVE  WalksOn(l)
  <1>1. Walking(l) /\ hits' = hits /\ cut' = [cut EXCEPT ![l] = TRUE] /\ stack' = [stack EXCEPT ![l] = <<>>]
    BY DEF GiveUp
  <1>2. /\ LookTypes
        /\ WalkIs(Query[l], disk, stack[l], hits[l], cut[l], steady[l], ever[l])
    BY <1>1, WalkHas
  <1>3. stack'[l] = <<>> /\ cut'[l] = TRUE /\ hits'[l] = hits[l]
    BY <1>1, <1>2 DEF LookTypes
  <1>4. WalkIs(Query[l], disk, <<>>, hits[l], TRUE, steady[l], ever[l])
    BY <1>2, NoItems, WalkCut DEF WalkIs
  <1>5. QED
    BY <1>3, <1>4 DEF WalksOn

LEMMA EntryGoes ==
  ASSUME LookInv, NEW l \in Asking, Entry_(l)
  PROVE  WalksOn(l)
  <1> DEFINE q == Query[l]  s == stack[l]  h == hits[l]  f == Here(l)
             size == IF f \in Files THEN Len(disk[f]) ELSE 0
             h2 == Append(h, <<f, 0, size>>)
  <1>1. /\ Walking(l) /\ q.tool = "file_list" /\ f # q.root /\ cut' = cut
        /\ hits' = [hits EXCEPT ![l] = h2] /\ stack' = [stack EXCEPT ![l] = Trim(Rest(l))]
    BY DEF Entry_, After
  <1>2. /\ LookTypes /\ s # <<>> /\ WalkIs(q, disk, s, h, cut[l], steady[l], ever[l])
        /\ f = Head(Last(s)) /\ Rest(l) = RestOf(s) /\ InSight(q, ever[l], f)
    BY <1>1, WalkHas
  <1>3. Proper(h2) /\ FoundIn(h2) = FoundIn(h) \cup {f}
    <2>1. Proper(h)
      BY <1>2 DEF WalkIs
    <2> HIDE DEF size, h, f
    <2>2. QED
      BY <2>1, FoundAppend
  <1>4. stack'[l] = Trim(RestOf(s)) /\ cut'[l] = cut[l] /\ hits'[l] = h2
    BY <1>1, <1>2 DEF LookTypes
  <1> HIDE DEF h2
  <1>5. \A g \in FoundIn(h2) : g[2] # "" => g \in ever[l]
    BY <1>1, <1>2, <1>3 DEF WalkIs, InSight
  <1>6. \A g \in steady[l] : Covers(q, Head(Last(s)), g) => g \in FoundIn(h2)
    BY <1>1, <1>2, <1>3 DEF Covers
  <1> HIDE DEF f, s, h
  <1>7. WalkIs(q, disk, Trim(RestOf(s)), h2, cut[l], steady[l], ever[l])
    <2>1. q.tool # "grep_search" /\ FoundIn(h) \subseteq FoundIn(h2)
      BY <1>1, <1>3
    <2> HIDE DEF q
    <2>2. QED
      BY <1>2, <1>3, <1>5, <1>6, <2>1, WalkPasses
  <1>8. QED
    BY <1>4, <1>7 DEF WalksOn, s

LEMMA GlobGoes ==
  ASSUME LookInv, NEW l \in Asking, Glob(l)
  PROVE  WalksOn(l)
  <1> DEFINE q == Query[l]  s == stack[l]  h == hits[l]  f == Here(l)
             good == f[2] \in q.names
             full == good /\ Len(h) + 1 >= 2 * GlobCap
             h2 == IF good THEN Append(h, <<f, 0, 0>>) ELSE h
             c2 == cut[l] \/ full
  <1>1. /\ Walking(l) /\ q.tool = "glob_search" /\ f[2] # ""
        /\ cut' = [cut EXCEPT ![l] = c2] /\ hits' = [hits EXCEPT ![l] = h2]
        /\ stack' = [stack EXCEPT ![l] = Trim(IF full THEN Front(s) ELSE Rest(l))]
    BY DEF Glob
  <1>2. /\ LookTypes /\ s # <<>> /\ WalkIs(q, disk, s, h, cut[l], steady[l], ever[l])
        /\ f = Head(Last(s)) /\ Rest(l) = RestOf(s) /\ InSight(q, ever[l], f)
    BY <1>1, WalkHas
  <1>3. Proper(h2) /\ FoundIn(h2) = FoundIn(h) \cup (IF good THEN {f} ELSE {})
    <2>1. Proper(h)
      BY <1>2 DEF WalkIs
    <2> HIDE DEF h, f
    <2>2. Proper(Append(h, <<f, 0, 0>>)) /\ FoundIn(Append(h, <<f, 0, 0>>)) = FoundIn(h) \cup {f}
      BY <2>1, FoundAppend
    <2> HIDE DEF good
    <2>3. QED
      BY <2>1, <2>2
  <1>4. /\ stack'[l] = Trim(IF full THEN Front(s) ELSE RestOf(s))
        /\ cut'[l] = c2 /\ hits'[l] = h2
    <2> HIDE DEF h2, c2, full
    <2>1. QED
      BY <1>1, <1>2 DEF LookTypes
  <1> HIDE DEF h2
  <1>5. \A g \in FoundIn(h2) : g[2] # "" => g \in ever[l]
    BY <1>1, <1>2, <1>3 DEF WalkIs, InSight
  <1>6. \A g \in steady[l] : Covers(q, Head(Last(s)), g) => g \in FoundIn(h2)
    <2>1. SUFFICES ASSUME NEW g \in steady[l], Covers(q, f, g) PROVE g \in FoundIn(h2)
      BY <1>2
    <2>2. g = f
      BY <1>1, <2>1 DEF Covers
    <2>3. Matches(q, g, disk[g])
      BY <1>2 DEF WalkIs, About
    <2>4. good
      BY <1>1, <2>2, <2>3 DEF Matches
    <2>5. QED
      BY <1>3, <2>2, <2>4
  <1> HIDE DEF f, s, h, q, c2
  <1>7. CASE full
    <2>1. Stacked(Trim(Front(s))) /\ ItemsIn_(Trim(Front(s))) \subseteq ItemsIn_(s)
      BY <1>2, Popped, Trimmed DEF WalkIs
    <2>2. q.tool # "grep_search" /\ c2
      BY <1>1, <1>7 DEF c2
    <2>3. WalkIs(q, disk, Trim(Front(s)), h2, c2, steady[l], ever[l])
      BY <1>2, <1>3, <1>5, <2>1, <2>2, WalkCut
    <2>4. QED
      BY <1>4, <1>7, <2>3 DEF WalksOn, q
  <1>8. CASE ~full
    <2>1. q.tool # "grep_search" /\ FoundIn(h) \subseteq FoundIn(h2) /\ (~c2 => ~cut[l])
      BY <1>1, <1>3 DEF c2
    <2>2. WalkIs(q, disk, Trim(RestOf(s)), h2, cut[l], steady[l], ever[l])
      BY <1>2, <1>3, <1>5, <1>6, <2>1, WalkPasses
    <2>3. WalkIs(q, disk, Trim(RestOf(s)), h2, c2, steady[l], ever[l])
      BY <2>1, <2>2 DEF WalkIs
    <2>4. QED
      BY <1>4, <1>8, <2>3 DEF WalksOn, q
  <1>9. QED
    BY <1>7, <1>8

LEMMA SearchGoes ==
  ASSUME FileInv, LookInv, NEW l \in Asking, Search(l)
  PROVE  WalksOn(l)
  <1> DEFINE q == Query[l]  s == stack[l]  h == hits[l]  f == Here(l)
             doc == IF f \in Files THEN disk[f] ELSE <<>>
             score == Score(q, f, doc)
             good == score > 0
             h2 == IF good THEN Append(h, <<f, 0, score>>) ELSE h
  <1>1. /\ Walking(l) /\ q.tool = "search_files" /\ f[2] # "" /\ cut' = cut
        /\ hits' = [hits EXCEPT ![l] = h2] /\ stack' = [stack EXCEPT ![l] = Trim(Rest(l))]
    BY DEF Search, After
  <1>2. /\ l \in Lookups /\ LookTypes /\ s # <<>>
        /\ WalkIs(q, disk, s, h, cut[l], steady[l], ever[l])
        /\ f = Head(Last(s)) /\ Rest(l) = RestOf(s) /\ InSight(q, ever[l], f)
    BY <1>1, WalkHas
  <1>3. Proper(h2) /\ FoundIn(h2) = FoundIn(h) \cup (IF good THEN {f} ELSE {})
    <2>1. Proper(h)
      BY <1>2 DEF WalkIs
    <2> HIDE DEF h, f, score
    <2>2. /\ Proper(Append(h, <<f, 0, score>>))
          /\ FoundIn(Append(h, <<f, 0, score>>)) = FoundIn(h) \cup {f}
      BY <2>1, FoundAppend
    <2> HIDE DEF good
    <2>3. QED
      BY <2>1, <2>2
  <1>4. stack'[l] = Trim(RestOf(s)) /\ cut'[l] = cut[l] /\ hits'[l] = h2
    <2> HIDE DEF h2
    <2>1. QED
      BY <1>1, <1>2 DEF LookTypes
  <1> HIDE DEF h2
  <1>5. good => f \in ever[l]
    <2>1. CASE f \in Files
      <3>1. good => f \in About(q, disk)
        BY <1>1, <1>2, <2>1 DEF About, Matches, InSight, Files
      <3>2. QED
        BY <1>2, <3>1 DEF WalkIs
    <2>2. CASE f \notin Files
      <3>1. doc = <<>> /\ Proper(doc)
        BY <2>2, NoItems
      <3>2. ContentScore(q, f, <<>>) = 0 /\ NameScore(q, f) \in Nat
        BY <1>1, <1>2, <3>1, ScoresAre
      <3>3. good => NameScore(q, f) > 0
        BY <3>1, <3>2 DEF Score
      <3>4. QED
        BY <1>1, <1>2, <3>3 DEF InSight
    <2>3. QED
      BY <2>1, <2>2
  <1>6. \A g \in FoundIn(h2) : g[2] # "" => g \in ever[l]
    <2> HIDE DEF good
    <2>1. QED
      BY <1>2, <1>3, <1>5 DEF WalkIs
  <1>7. \A g \in steady[l] : Covers(q, Head(Last(s)), g) => g \in FoundIn(h2)
    <2>1. SUFFICES ASSUME NEW g \in steady[l], Covers(q, f, g) PROVE g \in FoundIn(h2)
      BY <1>2
    <2>2. g = f
      BY <1>1, <2>1 DEF Covers
    <2>3. g \in Files /\ Matches(q, g, disk[g])
      BY <1>2 DEF WalkIs, About, Files
    <2>4. good
      BY <1>1, <2>2, <2>3 DEF Matches
    <2> HIDE DEF good
    <2>5. QED
      BY <1>3, <2>2, <2>4
  <1> HIDE DEF f, s, h, q, good
  <1>8. q.tool # "grep_search" /\ FoundIn(h) \subseteq FoundIn(h2)
    BY <1>1, <1>3
  <1>9. WalkIs(q, disk, Trim(RestOf(s)), h2, cut[l], steady[l], ever[l])
    BY <1>2, <1>3, <1>6, <1>7, <1>8, WalkPasses
  <1>10. QED
    BY <1>4, <1>9 DEF WalksOn, q

\* The first few of a sequence.
LEMMA RangeSub ==
  ASSUME NEW s, Proper(s), NEW k \in Nat, k <= Len(s)
  PROVE  /\ Proper(SubSeq(s, 1, k)) /\ Range(SubSeq(s, 1, k)) \subseteq Range(s)
         /\ k = Len(s) => SubSeq(s, 1, k) = s
  <1> DEFINE S == Range(s)
  <1>1. s \in Seq(S)
    BY DEF Proper
  <1> HIDE DEF S
  <1>2. SubSeq(s, 1, k) \in Seq(S)
    BY <1>1
  <1>3. k = Len(s) => SubSeq(s, 1, k) = s
    BY <1>1
  <1>4. QED
    BY <1>2, <1>3, ProperIn DEF S

\* What a file adds to the hits of grep_search.
HitsOf(f, lines, n) == [i \in 1 .. n |-> <<f, lines[i], 0>>]

LEMMA GrepHits ==
  ASSUME NEW h, Proper(h), NEW f, NEW lines, NEW n \in Nat
  PROVE  /\ Proper(h \o HitsOf(f, lines, n)) /\ Len(h \o HitsOf(f, lines, n)) = Len(h) + n
         /\ FoundIn(h \o HitsOf(f, lines, n)) = FoundIn(h) \cup (IF n > 0 THEN {f} ELSE {})
  <1> DEFINE t == HitsOf(f, lines, n)
             S == {<<f, lines[i], 0>> : i \in 1..n}
  <1>1. /\ t = [i \in 1..n |-> t[i]] /\ \A i \in 1..n : t[i] \in S /\ t[i][1] = f
    BY DEF HitsOf
  <1> HIDE DEF S, t
  <1>2. t \in Seq(S) /\ Len(t) = n /\ DOMAIN t = 1..n
    BY <1>1
  <1>3. Proper(t) /\ Range(t) = {t[i] : i \in 1..n}
    BY <1>2, ProperIn DEF Range
  <1>4. FoundIn(t) = IF n > 0 THEN {f} ELSE {}
    <2>1. \A e \in Range(t) : e[1] = f
      BY <1>1, <1>3
    <2>2. n > 0 => t[1] \in Range(t)
      BY <1>3
    <2>3. ~(n > 0) => Range(t) = {}
      BY <1>3
    <2>4. QED
      BY <2>1, <2>2, <2>3 DEF FoundIn
  <1>5. Proper(h \o t) /\ Range(h \o t) = Range(h) \cup Range(t)
    BY <1>3, RangeConcat
  <1>6. FoundIn(h \o t) = FoundIn(h) \cup FoundIn(t)
    BY <1>5 DEF FoundIn
  <1>7. Len(h \o t) = Len(h) + n
    BY <1>2 DEF Proper
  <1>8. QED
    BY <1>4, <1>5, <1>6, <1>7 DEF t

LEMMA GrepGoes ==
  ASSUME FileInv, LookInv, NEW l \in Asking, Grep(l)
  PROVE  WalksOn(l)
  <1> DEFINE q == Query[l]  s == stack[l]  h == hits[l]  f == Here(l)
             lines == IF f \in Files /\ Admits(q, f) THEN Lines(q, disk[f]) ELSE <<>>
             n == Len(lines)
             free == q.max - Len(h)
             taken == IF q.only THEN Min({1, n}) ELSE Min({free, n})
             full == ~q.only /\ taken > 0 /\ taken = free
             h2 == h \o [i \in 1 .. taken |-> <<f, lines[i], 0>>]
  <1>1. /\ Walking(l) /\ q.tool = "grep_search" /\ f[2] # "" /\ cut' = [cut EXCEPT ![l] = full]
        /\ hits' = [hits EXCEPT ![l] = h2]
        /\ stack' = [stack EXCEPT ![l] = IF full THEN <<>> ELSE Trim(Rest(l))]
    BY DEF Grep, After
  <1>2. /\ l \in Lookups /\ LookTypes /\ s # <<>>
        /\ WalkIs(q, disk, s, h, cut[l], steady[l], ever[l])
        /\ f = Head(Last(s)) /\ Rest(l) = RestOf(s) /\ InSight(q, ever[l], f)
    BY <1>1, WalkHas
  <1>3. n \in Nat /\ (n > 0 => f \in Files /\ Admits(q, f) /\ Lines(q, disk[f]) # <<>>)
        /\ (f \in Files /\ Admits(q, f) /\ Lines(q, disk[f]) # <<>> => n > 0)
    <2>1. CASE f \in Files /\ Admits(q, f)
      <3>1. Proper(disk[f])
        BY <2>1 DEF FileInv, FileTypes
      <3>2. Proper(Lines(q, disk[f])) /\ Len(Lines(q, disk[f])) \in Nat
        BY <3>1, LinesAre
      <3>3. Lines(q, disk[f]) # <<>> <=> Len(Lines(q, disk[f])) > 0
        BY <3>2 DEF Proper
      <3>4. QED
        BY <2>1, <3>2, <3>3
    <2>2. CASE ~(f \in Files /\ Admits(q, f))
      BY <2>2
    <2>3. QED
      BY <2>1, <2>2
  <1>4. ~cut[l] /\ Proper(h) /\ Len(h) \in Nat /\ q.max \in Nat /\ (~q.only => Len(h) < q.max)
    <2>1. q.max \in Nat
      BY <1>2, QueryIs
    <2>2. ~cut[l] /\ Proper(h) /\ (~q.only => Len(h) < q.max)
      BY <1>1, <1>2 DEF WalkIs
    <2>3. Len(h) \in Nat
      BY <2>2 DEF Proper
    <2>4. QED
      BY <2>1, <2>2, <2>3
  <1> HIDE DEF n, lines
  <1>5. taken \in Nat /\ (taken > 0 <=> n > 0) /\ (~q.only => taken <= free /\ free > 0)
    <2>1. CASE q.only
      <3>1. {1, n} \in SUBSET Nat /\ {1, n} # {}
        BY <1>3
      <3>2. Min({1, n}) \in {1, n} /\ Min({1, n}) <= 1 /\ Min({1, n}) <= n
        BY <3>1, MinIs
      <3>3. QED
        BY <1>3, <2>1, <3>2
    <2>2. CASE ~q.only
      <3>1. free \in Nat /\ free > 0
        BY <1>4, <2>2
      <3> HIDE DEF free
      <3>2. {free, n} \in SUBSET Nat /\ {free, n} # {}
        BY <1>3, <3>1
      <3>3. Min({free, n}) \in {free, n} /\ Min({free, n}) <= free /\ Min({free, n}) <= n
        BY <3>2, MinIs
      <3>4. QED
        BY <1>3, <2>2, <3>1, <3>3
    <2>3. QED
      BY <2>1, <2>2
  <1>6. Proper(h2) /\ Len(h2) = Len(h) + taken
        /\ FoundIn(h2) = FoundIn(h) \cup (IF taken > 0 THEN {f} ELSE {})
    <2> HIDE DEF taken, h, f
    <2> DEFINE t == HitsOf(f, lines, taken)
    <2>1. /\ Proper(h \o t) /\ Len(h \o t) = Len(h) + taken
          /\ FoundIn(h \o t) = FoundIn(h) \cup (IF taken > 0 THEN {f} ELSE {})
      BY <1>4, <1>5, GrepHits
    <2>2. h2 = h \o t
      BY DEF HitsOf
    <2> HIDE DEF t, h2
    <2>3. QED
      BY <2>1, <2>2
  <1>7. /\ stack'[l] = (IF full THEN <<>> ELSE Trim(RestOf(s)))
        /\ cut'[l] = full /\ hits'[l] = h2
    <2> HIDE DEF full, h2
    <2>1. QED
      BY <1>1, <1>2 DEF LookTypes
  <1>8. taken > 0 => f \in ever[l]
    <2>1. taken > 0 => f \in About(q, disk)
      BY <1>1, <1>2, <1>3, <1>5 DEF About, Matches, InSight, Files
    <2>2. QED
      BY <1>2, <2>1 DEF WalkIs
  <1>9. \A g \in steady[l] : Covers(q, Head(Last(s)), g) => taken > 0 /\ g = f
    <2>1. SUFFICES ASSUME NEW g \in steady[l], Covers(q, f, g) PROVE taken > 0 /\ g = f
      BY <1>2
    <2>2. g = f
      BY <1>1, <2>1 DEF Covers
    <2>3. g \in Files /\ Matches(q, g, disk[g])
      BY <1>2 DEF WalkIs, About, Files
    <2>4. n > 0
      BY <1>1, <1>3, <2>2, <2>3 DEF Matches
    <2>5. QED
      BY <1>5, <2>2, <2>4
  <1>10. ~full /\ ~q.only => Len(h2) < q.max
    BY <1>4, <1>5, <1>6
  <1> HIDE DEF taken, h2, free, f, h, s, q
  <1>11. (\A g \in FoundIn(h2) : g[2] # "" => g \in ever[l]) /\ FoundIn(h) \subseteq FoundIn(h2)
    BY <1>2, <1>6, <1>8 DEF WalkIs
  <1>12. \A g \in steady[l] : Covers(q, Head(Last(s)), g) => g \in FoundIn(h2)
    BY <1>6, <1>9
  <1> HIDE DEF full
  <1>13. CASE full
    <2>1. WalkIs(q, disk, <<>>, h2, full, steady[l], ever[l])
      BY <1>2, <1>6, <1>11, <1>13, NoItems, WalkCut DEF WalkIs
    <2>2. QED
      BY <1>7, <1>13, <2>1 DEF WalksOn, q
  <1>14. CASE ~full
    <2>1. ~q.only => Len(h2) < q.max
      BY <1>10, <1>14
    <2>2. WalkIs(q, disk, Trim(RestOf(s)), h2, cut[l], steady[l], ever[l])
      BY <1>2, <1>4, <1>6, <1>11, <1>12, <2>1, WalkPasses
    <2>3. WalkIs(q, disk, Trim(RestOf(s)), h2, full, steady[l], ever[l])
      BY <1>4, <1>14, <2>2 DEF WalkIs
    <2>4. QED
      BY <1>7, <1>14, <2>3 DEF WalksOn, q
  <1>15. QED
    BY <1>13, <1>14

\* Directories as items.
Folders(dirs) == {<<d, "">> : d \in dirs}

LEMMA FoldersFinite ==
  ASSUME NEW dirs \in SUBSET DOMAIN Below
  PROVE  IsFiniteSet(Folders(dirs))
  <1>1. IsFiniteSet(dirs)
    BY LookupsAssumption, FS_Subset
  <1>2. IsFiniteSet({""})
    BY FS_Singleton
  <1>3. IsFiniteSet(dirs \X {""})
    BY <1>1, <1>2, FS_Product
  <1>4. ASSUME NEW item \in Folders(dirs) PROVE item \in dirs \X {""}
    <2>1. PICK d \in dirs : item = <<d, "">>
      BY DEF Folders
    <2>2. QED
      BY <2>1
  <1>5. Folders(dirs) \subseteq dirs \X {""}
    <2> DEFINE product == dirs \X {""}
    <2>1. \A item \in Folders(dirs) : item \in product
      BY <1>4
    <2> HIDE DEF product
    <2>2. Folders(dirs) \subseteq product
      BY <2>1
    <2>3. QED
      BY <2>2 DEF product
  <1>6. QED
    BY <1>3, <1>5, FS_Subset

LEMMA FolderIs ==
  ASSUME NEW dirs, NEW item \in Folders(dirs)
  PROVE  item[2] = "" /\ item[1] \in dirs
  <1>1. PICK d \in dirs : item = <<d, "">>
    BY DEF Folders
  <1>2. QED
    BY <1>1

\* The items of a walk that goes on with a listing on top.
LEMMA Entered ==
  ASSUME NEW s, Framed(s), NEW listing, Proper(listing)
  PROVE  /\ Stacked(Trim(Append(s, listing)))
         /\ ItemsIn_(Trim(Append(s, listing))) = ItemsIn_(s) \cup Range(listing)
  <1>1. Proper(Append(s, listing)) /\ Range(Append(s, listing)) = Range(s) \cup {listing}
    BY RangeAppend DEF Framed
  <1>2. Framed(Append(s, listing))
    BY <1>1 DEF Framed
  <1>3. ItemsIn_(Append(s, listing)) = ItemsIn_(s) \cup Range(listing)
    BY <1>1 DEF ItemsIn_
  <1>4. QED
    BY <1>2, <1>3, Trimmed

LEMMA EntersFolder ==
  ASSUME FileInv, LookInv, NEW l \in Asking, EnterFolder(l)
  PROVE  WalksOn(l)
  <1> DEFINE q == Query[l]  s == stack[l]  h == hits[l]  d == Here(l)[1]
             files == {f \in Files : f[1] = d}
             items == files \cup Folders(Children(q, d))
  <1>1. /\ Walking(l) /\ Here(l)[2] = "" /\ q.tool # "file_list"
        /\ hits' = hits /\ cut' = cut
    BY DEF EnterFolder
  <1>2. PICK listing \in Readdir(items) : stack' = [stack EXCEPT ![l] = Trim(Append(Rest(l), listing))]
    BY DEF EnterFolder, Folders
  <1>3. /\ l \in Lookups /\ LookTypes /\ s # <<>>
        /\ WalkIs(q, disk, s, h, cut[l], steady[l], ever[l])
        /\ Here(l) = Head(Last(s)) /\ Rest(l) = RestOf(s) /\ InSight(q, ever[l], Here(l))
    BY <1>1, WalkHas
  <1>4. q.root[2] = "" /\ d \in Reached[q] /\ Reached[q] = Reach(q, q.root[1])
    BY <1>1, <1>3, QueryIs DEF InSight
  <1>5. ASSUME NEW e \in Children(q, d) PROVE e \in Reached[q] /\ e \in DOMAIN Below
    <2> HIDE DEF d, q
    <2>1. d \in Reach(q, q.root[1])
      BY <1>4
    <2>2. e \in Reach(q, q.root[1]) /\ e \in DOMAIN Below
      BY <2>1, ReachOn
    <2>3. QED
      BY <1>4, <2>2
  <1>6. IsFiniteSet(items)
    <2>1. IsFiniteSet(files)
      BY FS_Subset DEF FileInv, FileTypes
    <2>2. IsFiniteSet(Folders(Children(q, d)))
      <3>1. Children(q, d) \in SUBSET DOMAIN Below
        BY <1>5
      <3>2. QED
        BY <3>1, FoldersFinite
    <2> HIDE DEF files
    <2>3. QED
      BY <2>1, <2>2, FS_Union
  <1> DEFINE r == RestOf(s)  s2 == Trim(Append(r, listing))
  <1>7. Proper(listing) /\ Range(listing) = items
    <2> HIDE DEF items
    <2>1. QED
      BY <1>2, <1>6, ReaddirIs, ProperIn
  <1>8. Framed(r) /\ ItemsIn_(s) = ItemsIn_(r) \cup {Here(l)}
    BY <1>3, Popped DEF WalkIs
  <1>9. Stacked(s2) /\ ItemsIn_(s2) = ItemsIn_(r) \cup items
    <2> HIDE DEF items, r
    <2>1. QED
      BY <1>7, <1>8, Entered
  <1>10. stack'[l] = s2 /\ cut'[l] = cut[l] /\ hits'[l] = h
    BY <1>1, <1>2, <1>3 DEF LookTypes
  <1>11. ASSUME NEW item \in items PROVE InSight(q, ever[l], item)
    <2>1. CASE item[2] = ""
      <3>1. item[1] \in Reached[q]
        <4>1. CASE item \in files
          BY <1>4, <4>1
        <4>2. CASE item \in Folders(Children(q, d))
          <5>1. item[1] \in Children(q, d)
            BY <4>2, FolderIs
          <5>2. QED
            BY <1>5, <5>1
        <4>3. QED
          BY <4>1, <4>2
      <3>2. QED
        BY <1>4, <2>1, <3>1 DEF InSight
    <2>2. CASE item[2] # ""
      <3>1. item \in Files /\ item[1] = d
        <4>1. item \in files
          BY <2>2, FolderIs
        <4>2. QED
          BY <4>1
      <3>2. Rooted(q, item)
        BY <1>4, <3>1 DEF Rooted
      <3>3. About(q, disk) \subseteq ever[l]
        BY <1>3 DEF WalkIs
      <3>4. QED
        BY <1>1, <1>3, <2>2, <3>1, <3>2, <3>3, FileListed
    <2>3. QED
      BY <2>1, <2>2
  <1>12. ASSUME NEW f \in steady[l], Covers(q, Here(l), f)
         PROVE  \E item \in items : Covers(q, item, f)
    <2>1. f \in Files /\ f[2] # ""
      BY <1>3 DEF WalkIs, About, Files
    <2>2. f[1] \in Reach(q, d)
      BY <1>1, <1>12, <2>1 DEF Covers
    <2>3. CASE f[1] = d
      BY <2>1, <2>3 DEF Covers
    <2>4. CASE f[1] # d
      <3>1. PICK e \in Children(q, d) : f[1] \in Reach(q, e)
        BY <2>2, <2>4, ReachSplit
      <3>2. <<e, "">> \in items /\ Covers(q, <<e, "">>, f)
        BY <1>1, <3>1 DEF Folders, Covers
      <3>3. QED
        BY <3>2
    <2>5. QED
      BY <2>3, <2>4
  <1> HIDE DEF items, r, s2, s, h
  <1>13. \A item \in ItemsIn_(s2) : InSight(q, ever[l], item)
    BY <1>3, <1>8, <1>9, <1>11 DEF WalkIs
  <1>14. ~cut[l] => \A f \in steady[l] :
           f \in FoundIn(h) \/ \E item \in ItemsIn_(s2) : Covers(q, item, f)
    BY <1>3, <1>8, <1>9, <1>12 DEF WalkIs
  <1>15. WalkIs(q, disk, s2, h, cut[l], steady[l], ever[l])
    BY <1>3, <1>9, <1>13, <1>14 DEF WalkIs
  <1>16. QED
    BY <1>10, <1>15 DEF WalksOn

LEMMA ListsFolder ==
  ASSUME FileInv, LookInv, NEW l \in Asking, ListFolder(l)
  PROVE  WalksOn(l)
  <1> DEFINE q == Query[l]  s == stack[l]  h == hits[l]  d == q.root[1]
             files == {f \in Files : f[1] = d}
             items == Folders(Below[d]) \cup files
  <1>1. Walking(l) /\ q.tool = "file_list" /\ Here(l) = q.root /\ hits' = hits
    BY DEF ListFolder
  <1>2. PICK listing \in Readdir(items) :
          /\ stack' = [stack EXCEPT ![l] =
               Trim(<<SubSeq(listing, 1, Min({ListCap, Len(listing)}))>>)]
          /\ cut' = [cut EXCEPT ![l] = Len(listing) > ListCap]
    BY DEF ListFolder, Folders
  <1>3. /\ l \in Lookups /\ LookTypes /\ s # <<>>
        /\ WalkIs(q, disk, s, h, cut[l], steady[l], ever[l])
    BY <1>1, WalkHas
  <1>4. q.root[2] = "" /\ d \in DOMAIN Below /\ d \in Reached[q]
    BY <1>1, <1>3, QueryIs, ReachSelf DEF WalkIs
  <1>5. IsFiniteSet(items)
    <2>1. IsFiniteSet(files)
      BY FS_Subset DEF FileInv, FileTypes
    <2>2. IsFiniteSet(Folders(Below[d]))
      BY <1>4, LookupsAssumption, FoldersFinite
    <2> HIDE DEF files
    <2>3. QED
      BY <2>1, <2>2, FS_Union
  <1>6. Proper(listing) /\ Range(listing) = items /\ Len(listing) \in Nat
    <2> HIDE DEF items
    <2>1. listing \in Seq(items) /\ Range(listing) = items
      BY <1>2, <1>5, ReaddirIs
    <2>2. QED
      BY <2>1, ProperIn
  <1> DEFINE k == Min({ListCap, Len(listing)})
             frame == SubSeq(listing, 1, k)
             s2 == Trim(<<frame>>)
             c2 == Len(listing) > ListCap
  <1>7. k \in Nat /\ k <= Len(listing) /\ (~c2 => k = Len(listing))
    <2>1. {ListCap, Len(listing)} \in SUBSET Nat /\ ListCap \in Nat
      BY <1>6, LookupsAssumption
    <2>2. k \in {ListCap, Len(listing)} /\ k <= ListCap /\ k <= Len(listing)
      BY <2>1, MinIs
    <2> HIDE DEF k
    <2>3. QED
      BY <1>6, <2>1, <2>2
  <1>8. stack'[l] = s2 /\ cut'[l] = c2 /\ hits'[l] = h
    BY <1>1, <1>2, <1>3 DEF LookTypes
  <1> HIDE DEF k, c2
  <1>9. Proper(frame) /\ Range(frame) \subseteq items /\ (~c2 => frame = listing)
    BY <1>6, <1>7, RangeSub
  <1> HIDE DEF frame
  <1>10. Stacked(s2) /\ ItemsIn_(s2) = Range(frame)
    <2>1. Proper(<<frame>>) /\ Range(<<frame>>) = {frame}
      BY RangeOne
    <2>2. Framed(<<frame>>) /\ ItemsIn_(<<frame>>) = Range(frame)
      BY <1>9, <2>1 DEF Framed, ItemsIn_
    <2>3. QED
      BY <2>2, Trimmed
  <1>11. ASSUME NEW item \in items PROVE InSight(q, ever[l], item)
    <2>1. CASE item[2] = ""
      BY <1>1, <2>1 DEF InSight
    <2>2. CASE item[2] # ""
      <3>1. item \in Files /\ item[1] = d
        <4>1. item \in files
          BY <2>2, FolderIs
        <4>2. QED
          BY <4>1
      <3>2. Rooted(q, item)
        BY <1>4, <3>1 DEF Rooted
      <3>3. About(q, disk) \subseteq ever[l]
        BY <1>3 DEF WalkIs
      <3>4. QED
        BY <1>1, <1>3, <2>2, <3>1, <3>2, <3>3, FileListed
    <2>3. QED
      BY <2>1, <2>2
  <1>12. ASSUME NEW f \in steady[l] PROVE f \in items
    <2>1. f \in Files /\ Matches(q, f, disk[f])
      BY <1>3 DEF WalkIs, About, Files
    <2>2. f[1] = d
      BY <1>1, <2>1 DEF Matches
    <2>3. QED
      BY <2>1, <2>2
  <1> HIDE DEF items, s2, s, h
  <1>13. \A item \in ItemsIn_(s2) : InSight(q, ever[l], item)
    BY <1>9, <1>10, <1>11
  <1>14. ~c2 => \A f \in steady[l] :
           f \in FoundIn(h) \/ \E item \in ItemsIn_(s2) : Covers(q, item, f)
    BY <1>6, <1>9, <1>10, <1>12 DEF Covers
  <1>15. WalkIs(q, disk, s2, h, c2, steady[l], ever[l])
    BY <1>1, <1>3, <1>10, <1>13, <1>14 DEF WalkIs
  <1>16. QED
    BY <1>8, <1>15 DEF WalksOn

\* As many of the hits as there are: all of them.
LEMMA AllKept ==
  ASSUME NEW s, Proper(s), NEW best \in kSubset(Len(s), Range(s))
  PROVE  best = Range(s)
  <1> DEFINE n == Len(s)  R == Range(s)
  <1>1. best \in SUBSET R /\ Cardinality(best) = n
    BY DEF kSubset
  <1>2. n \in Nat /\ s \in Seq(R) /\ R = {s[i] : i \in DOMAIN s}
    BY DEF Proper, Range
  <1> HIDE DEF R, n
  <1>3. s \in Surjection(1..n, R)
    <2>1. DOMAIN s = 1..n /\ s \in [1..n -> R]
      BY <1>2 DEF n
    <2>2. QED
      BY <1>2, <2>1 DEF Surjection
  <1>4. IsFiniteSet(1..n) /\ Cardinality(1..n) = n
    BY <1>2, FS_Interval
  <1>5. IsFiniteSet(R) /\ Cardinality(R) <= n
    BY <1>3, <1>4, FS_Surjection
  <1>6. Cardinality(best) <= Cardinality(R) /\ (Cardinality(R) = Cardinality(best) => R = best)
    BY <1>1, <1>5, FS_Subset
  <1>7. Cardinality(R) \in Nat
    BY <1>5, FS_CardinalityType
  <1>8. QED
    BY <1>1, <1>2, <1>5, <1>6, <1>7 DEF R

LEMMA FinishGoes ==
  ASSUME LookInv, NEW l \in Asking, Finish(l)
  PROVE  looks'[l] = "done" /\ DoneIs(hits'[l], cut'[l], steady[l], ever[l])
  <1> DEFINE q == Query[l]  h == hits[l]  n == Len(h)
             room == CASE q.tool = "glob_search" -> GlobCap
                       [] q.tool = "search_files" -> q.max
                       [] OTHER -> n
             few == Min({room, n})
  <1>1. /\ looks[l] = "walking" /\ stack[l] = <<>> /\ LookTypes /\ LookAt(l) /\ l \in Lookups
    BY DEF Finish, LookInv, LookTypes
  <1>2. WalkIs(q, disk, <<>>, h, cut[l], steady[l], ever[l])
    BY <1>1 DEF LookAt
  <1>3. /\ Proper(h) /\ n \in Nat /\ (~cut[l] => steady[l] \subseteq FoundIn(h))
        /\ \A f \in FoundIn(h) : f[2] # "" => f \in ever[l]
    <2>1. Proper(h)
      BY <1>2 DEF WalkIs
    <2>2. n \in Nat
      BY <2>1 DEF Proper
    <2> HIDE DEF n, h
    <2>3. QED
      BY <1>2, <2>1, <2>2, NoItems DEF WalkIs
  <1>4. room \in Nat
    BY <1>1, <1>3, QueryIs, LookupsAssumption
  <1>5. few \in Nat /\ few <= n
    <2> HIDE DEF room, n
    <2>1. {room, n} \in SUBSET Nat
      BY <1>3, <1>4
    <2>2. few \in {room, n} /\ few <= n
      BY <2>1, MinIs
    <2>3. QED
      BY <2>1, <2>2
  <1>6. looks'[l] = "done" /\ cut'[l] = (cut[l] \/ few < n)
    BY <1>1 DEF Finish, LookTypes, Asking
  <1>7. /\ Range(hits'[l]) \subseteq Range(h)
        /\ few = n => Range(hits'[l]) = Range(h)
    <2>1. CASE q.tool = "search_files"
      <3>1. PICK best \in kSubset(few, Range(h)) : hits' = [hits EXCEPT ![l] = Kept(@, best)]
        BY <2>1 DEF Finish
      <3>2. hits'[l] = Kept(h, best)
        BY <1>1, <3>1 DEF LookTypes
      <3> HIDE DEF few, n, h
      <3>3. h \in Seq(Range(h))
        BY <1>3 DEF Proper
      <3>4. Range(hits'[l]) = Range(h) \cap best
        BY <3>2, <3>3, KeptRange
      <3>5. few = n => best = Range(h)
        BY <1>3, <3>1, AllKept DEF n
      <3>6. QED
        BY <3>4, <3>5
    <2>2. CASE q.tool # "search_files"
      <3>1. hits' = [hits EXCEPT ![l] = SubSeq(@, 1, few)]
        BY <2>2 DEF Finish
      <3>2. hits'[l] = SubSeq(h, 1, few)
        BY <1>1, <3>1 DEF LookTypes
      <3> HIDE DEF few, h
      <3>3. QED
        BY <1>3, <1>5, <3>2, RangeSub DEF n
    <2>3. QED
      BY <2>1, <2>2
  <1> HIDE DEF few, n, h
  <1>8. FoundIn(hits'[l]) \subseteq FoundIn(h) /\ (few = n => FoundIn(hits'[l]) = FoundIn(h))
    BY <1>7 DEF FoundIn
  <1>9. ~cut'[l] => ~cut[l] /\ few = n
    <2>1. ~cut'[l] => ~cut[l] /\ ~(few < n)
      BY <1>6, Zenon
    <2>2. few \in Nat /\ n \in Nat /\ few <= n
      BY <1>3, <1>5
    <2>3. ~(few < n) => few = n
      BY <2>2
    <2>4. QED
      BY <2>1, <2>3
  <1>10. DoneIs(hits'[l], cut'[l], steady[l], ever[l])
    BY <1>3, <1>8, <1>9 DEF DoneIs
  <1>11. QED
    BY <1>6, <1>10

-----------------------------------------------------------------------------
(* Lookups: nothing is missed. *)

\* g is f but for what it says of l.
Only(f, g, l) == DOMAIN g = DOMAIN f /\ \A k \in DOMAIN f : k # l => g[k] = f[k]

LEMMA OnlyOne ==
  ASSUME NEW f, NEW l, NEW v
  PROVE  Only(f, [f EXCEPT ![l] = v], l) /\ Only(f, f, l)
  BY DEF Only

LEMMA LookupFrames ==
  ASSUME NEW l \in Asking, LookupStep(l)
  PROVE  Only(looks, looks', l) /\ Only(stack, stack', l) /\ Only(hits, hits', l) /\ Only(cut, cut', l)
  <1>1. CASE Start(l)
    BY <1>1, OnlyOne DEF Start
  <1>2. CASE EnterFolder(l)
    <2>1. \E v : stack' = [stack EXCEPT ![l] = v]
      BY <1>2 DEF EnterFolder
    <2>2. looks' = looks /\ hits' = hits /\ cut' = cut
      BY <1>2 DEF EnterFolder
    <2>3. QED
      BY <2>1, <2>2, OnlyOne
  <1>3. CASE ListFolder(l)
    BY <1>3, OnlyOne DEF ListFolder
  <1>4. CASE Entry_(l)
    BY <1>4, OnlyOne DEF Entry_
  <1>5. CASE Glob(l)
    BY <1>5, OnlyOne DEF Glob
  <1>6. CASE Grep(l)
    BY <1>6, OnlyOne DEF Grep
  <1>7. CASE Search(l)
    BY <1>7, OnlyOne DEF Search
  <1>8. CASE GiveUp(l)
    BY <1>8, OnlyOne DEF GiveUp
  <1>9. CASE Finish(l)
    <2>1. /\ Only(looks, looks', l) /\ Only(cut, cut', l) /\ Only(stack, stack', l)
      BY <1>9, OnlyOne DEF Finish
    <2>2. \E v : hits' = [hits EXCEPT ![l] = v]
      BY <1>9 DEF Finish
    <2>3. QED
      BY <2>1, <2>2, OnlyOne
  <1>10. QED
    BY <1>1, <1>2, <1>3, <1>4, <1>5, <1>6, <1>7, <1>8, <1>9 DEF LookupStep

\* Others change files: whatever a lookup knows stays true.
LEMMA LookWitnessed ==
  ASSUME NEW l \in Asking, LookAt(l), Witnessed, looks'[l] = looks[l], stack'[l] = stack[l],
         hits'[l] = hits[l], cut'[l] = cut[l]
  PROVE  LookAt(l)'
  <1> DEFINE q == Query[l]
  <1>1. CASE looks[l] = "walking"
    <2>1. WalkIs(q, disk, stack[l], hits[l], cut[l], steady[l], ever[l])
      BY <1>1 DEF LookAt
    <2>2. steady'[l] = steady[l] \cap About(q, disk') /\ ever'[l] = ever[l] \cup About(q, disk')
      BY <1>1 DEF Witnessed
    <2>3. WalkIs(q, disk', stack[l], hits[l], cut[l], steady[l] \cap About(q, disk'),
                 ever[l] \cup About(q, disk'))
      BY <2>1, WalkWitnesses
    <2>4. WalkIs(q, disk', stack'[l], hits'[l], cut'[l], steady'[l], ever'[l])
      BY <2>2, <2>3
    <2>5. QED
      BY <1>1, <2>4 DEF LookAt
  <1>2. CASE looks[l] # "walking"
    <2>1. looks[l] = "done" => steady'[l] = steady[l] /\ ever'[l] = ever[l]
      BY DEF Witnessed
    <2>2. looks[l] = "done" => DoneIs(hits'[l], cut'[l], steady'[l], ever'[l])
      BY <2>1 DEF LookAt
    <2>3. QED
      BY <1>2, <2>2 DEF LookAt
  <1>3. QED
    BY <1>1, <1>2

LEMMA LookupGoes ==
  ASSUME FileInv, LookInv, NEW l \in Asking, LookupStep(l), Witnessed, disk' = disk
  PROVE  LookAt(l)'
  <1> DEFINE q == Query[l]
  <1>0. LookTypes /\ LookAt(l)
    BY DEF LookInv
  <1>1. CASE Start(l)
    BY <1>1, StartsWalk
  <1>2. ASSUME looks[l] = "walking" PROVE steady'[l] = steady[l] /\ ever'[l] = ever[l]
    <2>1. steady[l] \subseteq About(q, disk) /\ About(q, disk) \subseteq ever[l]
      BY <1>0, <1>2 DEF LookAt, WalkIs
    <2>2. steady'[l] = steady[l] \cap About(q, disk') /\ ever'[l] = ever[l] \cup About(q, disk')
      BY <1>2 DEF Witnessed
    <2>3. QED
      BY <2>1, <2>2
  <1>3. CASE Finish(l)
    <2>1. looks[l] = "walking"
      BY <1>3 DEF Finish
    <2>2. looks'[l] = "done" /\ DoneIs(hits'[l], cut'[l], steady[l], ever[l])
      BY <1>3, FinishGoes
    <2>3. DoneIs(hits'[l], cut'[l], steady'[l], ever'[l])
      BY <1>2, <2>1, <2>2
    <2>4. QED
      BY <2>2, <2>3 DEF LookAt
  <1>4. CASE ~Start(l) /\ ~Finish(l)
    <2>1. WalksOn(l)
      BY <1>4, EntersFolder, ListsFolder, EntryGoes, GlobGoes, GrepGoes, SearchGoes, GivesUp
         DEF LookupStep
    <2>2. looks' = looks /\ Walking(l)
      BY <1>4 DEF LookupStep, EnterFolder, ListFolder, Entry_, Glob, Grep, Search, GiveUp
    <2>3. looks[l] = "walking" /\ looks'[l] = "walking"
      BY <2>2 DEF Walking
    <2>4. WalkIs(q, disk', stack'[l], hits'[l], cut'[l], steady'[l], ever'[l])
      BY <1>2, <2>1, <2>3 DEF WalksOn
    <2>5. QED
      BY <2>3, <2>4 DEF LookAt
  <1>5. QED
    BY <1>1, <1>3, <1>4

LEMMA LookSteps ==
  ASSUME Next \/ UNCHANGED allVars
  PROVE  \/ UNCHANGED <<disk, lookAll>>
         \/ UNCHANGED lookVars /\ Witnessed
         \/ \E l \in Asking : LookupStep(l) /\ disk' = disk /\ Witnessed
         \/ \E p : CrashLookups(p) /\ Witnessed
  BY DEF Next, AtDesk, Requesting, Crash, allVars, fileVars, docVars

LEMMA LookStart ==
  ASSUME Init
  PROVE  LookInv
  <1>1. PICK scene \in Scenes : LookupsInit(scene[1])
    BY DEF Init
  <1>2. Asking = Lookups \cap scene[1]
    BY <1>1 DEF LookupsInit, Asking
  <1>3. LookTypes /\ \A l \in Asking : looks[l] = "idle" /\ hits[l] = <<>> /\ ~cut[l]
    BY <1>1, <1>2 DEF LookupsInit, LookTypes, Asking
  <1>4. QED
    BY <1>3 DEF LookInv, LookAt

LEMMA LookStep ==
  ASSUME FileInv, LookInv, Next \/ UNCHANGED allVars
  PROVE  LookInv'
  <1>0. LookTypes /\ \A l \in Asking : LookAt(l)
    BY DEF LookInv
  <1>1. CASE UNCHANGED <<disk, lookAll>>
    BY <1>0, <1>1 DEF LookInv, LookTypes, LookAt, Asking, lookAll, lookVars, lookHistory
  <1>2. CASE UNCHANGED lookVars /\ Witnessed
    <2>1. Asking' = Asking /\ LookTypes' /\ UNCHANGED <<looks, stack, hits, cut>>
      BY <1>0, <1>2 DEF LookTypes, Asking, lookVars
    <2>2. \A l \in Asking : LookAt(l)'
      BY <1>0, <1>2, <2>1, LookWitnessed
    <2>3. QED
      BY <2>1, <2>2 DEF LookInv
  <1>3. ASSUME NEW l \in Asking, LookupStep(l), disk' = disk, Witnessed PROVE LookInv'
    <2>1. /\ Only(looks, looks', l) /\ Only(stack, stack', l) /\ Only(hits, hits', l)
          /\ Only(cut, cut', l)
      BY <1>3, LookupFrames
    <2>2. Asking' = Asking /\ LookTypes'
      BY <1>0, <2>1 DEF Only, LookTypes, Asking
    <2>3. LookAt(l)'
      BY <1>3, LookupGoes
    <2>4. ASSUME NEW k \in Asking, k # l PROVE LookAt(k)'
      <3>1. looks'[k] = looks[k] /\ stack'[k] = stack[k] /\ hits'[k] = hits[k] /\ cut'[k] = cut[k]
        BY <1>0, <2>1, <2>4 DEF Only, LookTypes, Asking
      <3>2. QED
        BY <1>0, <1>3, <3>1, LookWitnessed
    <2>5. QED
      BY <2>2, <2>3, <2>4 DEF LookInv
  <1>4. ASSUME NEW p, CrashLookups(p), Witnessed PROVE LookInv'
    <2>1. /\ Asking' = Asking /\ LookTypes' /\ UNCHANGED <<stack, hits, cut>>
          /\ \A l \in Asking : looks'[l] \in {looks[l], "dead"}
      BY <1>0, <1>4 DEF CrashLookups, LookTypes, Asking
    <2>2. ASSUME NEW l \in Asking PROVE LookAt(l)'
      <3>1. CASE looks'[l] = looks[l]
        BY <1>0, <1>4, <2>1, <3>1, LookWitnessed
      <3>2. CASE looks'[l] = "dead"
        BY <3>2 DEF LookAt
      <3>3. QED
        BY <2>1, <3>1, <3>2
    <2>3. QED
      BY <2>1, <2>2 DEF LookInv
  <1>5. QED
    BY <1>1, <1>2, <1>3, <1>4, LookSteps

\* Nothing is missed: whatever others do to the files while a lookup walks, one
\* that does not say it was cut off has found every file that matched from its
\* start to its end (glob_search, grep_search, search_files, file_list), and
\* what it has found did match at some time.
THEOREM NothingMissed ==
  Spec => []NoneMissed
  <1>1. LookInv => NoneMissed
    BY DEF LookInv, LookAt, DoneIs, NoneMissed, Found, FoundIn
  <1>2. QED
    BY <1>1, LookStart, LookStep, Filing, PTL DEF Spec
=============================================================================
