--------------------------- MODULE ServiceProofs ----------------------------
(***************************************************************************)
(* Theorems about the services beside the agent, for any constants that    *)
(* meet their modules' assumptions: the audit log (Audit), the scheduler   *)
(* and its clock (Scheduler, Cron), and the gateway's edge with its        *)
(* circuit breaker, kill links and limiters (Edge, Admin, Limiter).  The   *)
(* three parts share the lemmas about sequences and filters, and nothing   *)
(* else.                                                                   *)
(***************************************************************************)
EXTENDS Audit, Scheduler, Edge, FilterTheorems, FiniteSetTheorems

-----------------------------------------------------------------------------
(***************************************************************************)
(* The audit log.                                                          *)
(***************************************************************************)

\* What a sequence holds after an append at its end, and that it stays without
\* repetition when the element is new.
LEMMA AppendSet ==
  ASSUME NEW S, NEW s \in Seq(S), NEW e \in S
  PROVE  /\ ToSet(Append(s, e)) = ToSet(s) \cup {e}
         /\ Distinct(s) /\ e \notin ToSet(s) => Distinct(Append(s, e))
  <1> DEFINE a == Append(s, e)
  <1>1. /\ a \in Seq(S) /\ DOMAIN a = 1 .. Len(s) + 1
        /\ DOMAIN s = 1 .. Len(s) /\ Len(s) \in Nat
        /\ a[Len(s) + 1] = e
        /\ \A i \in 1 .. Len(s) : a[i] = s[i]
    OBVIOUS
  <1>2. ToSet(a) = ToSet(s) \cup {e}
    <2>1. DOMAIN a = DOMAIN s \cup {Len(s) + 1}
      BY <1>1
    <2>2. QED
      BY <1>1, <2>1 DEF ToSet
  <1>3. ASSUME Distinct(s), e \notin ToSet(s) PROVE Distinct(a)
    <2>1. \A i \in 1 .. Len(s) : s[i] # e
      BY <1>1, <1>3 DEF ToSet
    <2>2. QED
      BY <1>1, <1>3, <2>1 DEF Distinct
  <1>4. QED
    BY <1>2, <1>3

\* The same for one sequence appended to another.
LEMMA ConcatSet ==
  ASSUME NEW S, NEW s \in Seq(S), NEW r \in Seq(S)
  PROVE  /\ ToSet(s \o r) = ToSet(s) \cup ToSet(r)
         /\ Distinct(s) /\ Distinct(r) /\ ToSet(s) \cap ToSet(r) = {} => Distinct(s \o r)
  <1> DEFINE c == s \o r
  <1>1. /\ c \in Seq(S) /\ DOMAIN c = 1 .. Len(s) + Len(r)
        /\ DOMAIN s = 1 .. Len(s) /\ DOMAIN r = 1 .. Len(r)
        /\ Len(s) \in Nat /\ Len(r) \in Nat
        /\ \A i \in 1 .. Len(s) : c[i] = s[i]
        /\ \A i \in 1 .. Len(r) : c[Len(s) + i] = r[i]
    OBVIOUS
  <1>2. \A k \in DOMAIN c : k \in 1 .. Len(s) \/ \E i \in 1 .. Len(r) : k = Len(s) + i
    <2>1. SUFFICES ASSUME NEW k \in DOMAIN c, k \notin 1 .. Len(s)
                   PROVE  \E i \in 1 .. Len(r) : k = Len(s) + i
      OBVIOUS
    <2>2. k - Len(s) \in 1 .. Len(r) /\ k = Len(s) + (k - Len(s))
      BY <1>1, <2>1
    <2>3. QED
      BY <2>2
  <1>3. ToSet(c) = ToSet(s) \cup ToSet(r)
    <2>1. ToSet(c) \subseteq ToSet(s) \cup ToSet(r)
      BY <1>1, <1>2 DEF ToSet
    <2>2. ToSet(s) \subseteq ToSet(c)
      BY <1>1 DEF ToSet
    <2>3. ToSet(r) \subseteq ToSet(c)
      <3>1. \A i \in 1 .. Len(r) : Len(s) + i \in DOMAIN c
        BY <1>1
      <3>2. QED
        BY <1>1, <3>1 DEF ToSet
    <2>4. QED
      BY <2>1, <2>2, <2>3
  <1>4. ASSUME Distinct(s), Distinct(r), ToSet(s) \cap ToSet(r) = {} PROVE Distinct(c)
    <2>1. \A i \in 1 .. Len(s) : \A j \in 1 .. Len(r) : s[i] # r[j]
      BY <1>1, <1>4 DEF ToSet
    <2>2. \A i, j \in 1 .. Len(s) : s[i] = s[j] => i = j
      BY <1>1, <1>4 DEF Distinct
    <2>3. \A i, j \in 1 .. Len(r) : r[i] = r[j] => i = j
      BY <1>1, <1>4 DEF Distinct
    <2>4. SUFFICES ASSUME NEW i \in DOMAIN c, NEW j \in DOMAIN c, c[i] = c[j]
                   PROVE  i = j
      BY DEF Distinct
    <2>5. CASE i \in 1 .. Len(s) /\ j \in 1 .. Len(s)
      BY <1>1, <2>2, <2>4, <2>5
    <2>6. CASE i \in 1 .. Len(s) /\ \E b \in 1 .. Len(r) : j = Len(s) + b
      BY <1>1, <2>1, <2>4, <2>6
    <2>7. CASE j \in 1 .. Len(s) /\ \E a \in 1 .. Len(r) : i = Len(s) + a
      BY <1>1, <2>1, <2>4, <2>7
    <2>8. CASE (\E a \in 1 .. Len(r) : i = Len(s) + a) /\ \E b \in 1 .. Len(r) : j = Len(s) + b
      <3>1. PICK a \in 1 .. Len(r) : i = Len(s) + a
        BY <2>8
      <3>2. PICK b \in 1 .. Len(r) : j = Len(s) + b
        BY <2>8
      <3>3. r[a] = r[b]
        BY <1>1, <2>4, <3>1, <3>2
      <3>4. QED
        BY <2>3, <3>1, <3>2, <3>3
    <2>9. QED
      BY <1>2, <2>4, <2>5, <2>6, <2>7, <2>8
  <1>5. QED
    BY <1>3, <1>4

-----------------------------------------------------------------------------
(* The inductive invariant.  seq is taken from the ring, so the ring must end *)
(* with the entry recorded last; an entry is new because all the others are   *)
(* known; and a flush holds lines only while it is appending.                 *)

\* An entry some process has recorded so far.
Known(e) == e[1] < boot \/ (e[1] = boot /\ e[2] < recorded)

RingEnd ==
  /\ entries = <<>> => recorded = 0
  /\ entries # <<>> => Last(entries) = <<boot, recorded - 1>>

AllKnown == \A e \in ToSet(disk) \cup ToSet(pending) \cup InFlight : Known(e)

Buffers ==
  /\ Distinct(pending)
  /\ \A f \in Flushes : Distinct(lines[f]) /\ (pc[f] # "append" => lines[f] = <<>>)

AuditInv == AuditTypeOK /\ RingEnd /\ AllKnown /\ Buffers /\ WrittenOnce /\ NothingForgotten

Place == {"idle", "waiting", "dir", "append", "snapshot", "done"}

\* Where a flush goes when it begins, and when it is over.
LEMMA BeginType == \A b : Begin(b) \in {"snapshot", "dir"}
  BY DEF Begin

LEMMA OverType ==
  ASSUME pc \in [Flushes -> Place], NEW f \in Flushes, Over(f)
  PROVE  /\ pc' \in [Flushes -> Place]
         /\ \A g \in Flushes : g # f /\ pc[g] = "append" => pc'[g] = "append"
  <1>1. \A g \in Flushes : pc'[g] \in Place /\ (g # f /\ pc[g] = "append" => pc'[g] = "append")
    BY BeginType DEF Over, Place
  <1>2. QED
    BY <1>1 DEF Over

\* The empty sequence holds nothing.
LEMMA EmptySet == ToSet(<<>>) = {} /\ Distinct(<<>>)
  BY DEF ToSet, Distinct

\* What is being appended, flush by flush.
LEMMA InFlightIs == \A e : e \in InFlight <=> \E f \in Flushes : e \in ToSet(lines[f])
  BY DEF InFlight

\* A step that only moves flushes keeps the invariant, if none of them leaves
\* its append.
LEMMA MoveStep ==
  ASSUME AuditInv, UNCHANGED <<boot, entries, recorded, pending, lines, disk, lost>>,
         pc' \in [Flushes -> Place], called' \in BOOLEAN,
         \A f \in Flushes : pc[f] = "append" => pc'[f] = "append"
  PROVE  AuditInv'
  <1>1. AuditTypeOK'
    BY DEF AuditInv, AuditTypeOK, Place
  <1>2. InFlight' = InFlight
    BY DEF InFlight
  <1>3. RingEnd' /\ AllKnown'
    BY <1>2 DEF AuditInv, RingEnd, AllKnown, Known
  <1>4. Buffers'
    BY DEF AuditInv, Buffers
  <1>5. WrittenOnce' /\ NothingForgotten'
    BY <1>2 DEF AuditInv, WrittenOnce, NothingForgotten
  <1>6. QED
    BY <1>1, <1>3, <1>4, <1>5 DEF AuditInv

\* The next seq is the number of entries recorded, and the ring stays a ring
\* that ends with the new entry.
LEMMA RecordRing ==
  ASSUME AuditTypeOK, RingEnd, recorded < MaxRecords
  PROVE  /\ NextSeq = recorded
         /\ <<boot, NextSeq>> \in AuditEntry
         /\ Rotated \in Seq(AuditEntry) /\ Len(Rotated) < MaxEntries
  <1>1. NextSeq = recorded
    <2>1. CASE entries = <<>>
      BY <2>1 DEF RingEnd, NextSeq
    <2>2. CASE entries # <<>>
      <3>1. Last(entries)[2] = recorded - 1
        BY <2>2 DEF RingEnd
      <3>2. QED
        BY <2>2, <3>1 DEF NextSeq, AuditTypeOK
    <2>3. QED
      BY <2>1, <2>2
  <1>2. <<boot, NextSeq>> \in AuditEntry
    BY <1>1, AuditAssumption DEF AuditTypeOK, AuditEntry
  <1>3. CASE Len(entries) >= MaxEntries
    <2>1. entries \in Seq(AuditEntry) /\ entries # <<>> /\ Len(entries) = MaxEntries
      BY <1>3, AuditAssumption DEF AuditTypeOK
    <2>2. Tail(entries) \in Seq(AuditEntry) /\ Len(Tail(entries)) = Len(entries) - 1
      BY <2>1
    <2>3. QED
      BY <1>1, <1>2, <1>3, <2>1, <2>2, AuditAssumption DEF Rotated
  <1>4. CASE ~(Len(entries) >= MaxEntries)
    BY <1>1, <1>2, <1>4, AuditAssumption DEF Rotated, AuditTypeOK
  <1>5. QED
    BY <1>3, <1>4

\* record: the new entry is in no buffer and not in the file.
LEMMA RecordStep ==
  ASSUME AuditInv, Record
  PROVE  AuditInv'
  <1>0. PICK e : e = <<boot, NextSeq>>
    OBVIOUS
  <1> DEFINE buffer == Append(pending, e)
  <1>1. AuditTypeOK /\ RingEnd /\ recorded < MaxRecords
    BY DEF AuditInv, Record
  <1>2. e = <<boot, recorded>> /\ e \in AuditEntry
    BY <1>0, <1>1, RecordRing
  <1>3. /\ recorded' = recorded + 1 /\ recorded \in 0 .. MaxRecords
        /\ entries' = Append(Rotated, e)
        /\ pending' = buffer
        /\ UNCHANGED <<boot, called, lines, disk, lost>>
    BY <1>0, <1>1 DEF Record, AuditTypeOK
  <1>4. entries' \in Seq(AuditEntry) /\ Len(entries') <= MaxEntries /\ entries' # <<>>
        /\ Last(entries') = e
    BY <1>1, <1>2, <1>3, RecordRing, AuditAssumption DEF Last
  <1>5. pending \in Seq(AuditEntry) /\ pending' \in Seq(AuditEntry)
    BY <1>1, <1>2, <1>3 DEF AuditTypeOK
  <1>6. pc' \in [Flushes -> Place] /\ \A f \in Flushes : pc[f] = "append" <=> pc'[f] = "append"
    <2>1. pc \in [Flushes -> Place]
      BY <1>1 DEF AuditTypeOK, Place
    <2>2. CASE AutoFlushDue(buffer)
      <3>1. pc' = [pc EXCEPT ![Recording] = Begin(buffer)] /\ pc[Recording] = "idle"
        BY <1>0, <2>2 DEF Record, AutoFlushDue
      <3>2. QED
        BY <2>1, <3>1, BeginType DEF Place
    <2>3. CASE ~AutoFlushDue(buffer)
      BY <1>0, <2>1, <2>3 DEF Record
    <2>4. QED
      BY <2>2, <2>3
  <1>7. AuditTypeOK'
    <2>1. recorded' \in 0 .. MaxRecords
      BY <1>1, <1>3, AuditAssumption
    <2>2. QED
      BY <1>1, <1>3, <1>4, <1>5, <1>6, <2>1 DEF AuditTypeOK, Place
  <1>8. RingEnd'
    BY <1>2, <1>3, <1>4 DEF RingEnd
  <1>9. InFlight' = InFlight
    BY <1>3 DEF InFlight
  <1>10. \A x \in AuditEntry : Known(x) => Known(x)' /\ x # e
    BY <1>2, <1>3 DEF Known, AuditEntry
  <1>11. ToSet(disk) \cup ToSet(pending) \cup InFlight \subseteq AuditEntry
    BY <1>1 DEF AuditTypeOK, ToSet, InFlight
  <1>12. Known(e)'
    BY <1>2, <1>3 DEF Known
  <1>13. e \notin ToSet(disk) \cup ToSet(pending) \cup InFlight
    BY <1>10, <1>11 DEF AuditInv, AllKnown
  <1>14. ToSet(pending') = ToSet(pending) \cup {e}
    BY <1>2, <1>3, <1>5, AppendSet
  <1>15. Distinct(pending')
    <2>1. Distinct(pending) /\ e \notin ToSet(pending)
      BY <1>13 DEF AuditInv, Buffers
    <2>2. QED
      BY <1>2, <1>3, <1>5, <2>1, AppendSet
  <1>16. AllKnown'
    <2> DEFINE all == ToSet(disk) \cup ToSet(pending) \cup InFlight
    <2>1. \A x \in all : Known(x)'
      BY <1>10, <1>11 DEF AuditInv, AllKnown
    <2>2. (ToSet(disk) \cup ToSet(pending) \cup InFlight)' = all \cup {e}
      BY <1>3, <1>9, <1>14
    <2>3. \A x \in all \cup {e} : Known(x)'
      BY <1>12, <2>1
    <2>4. QED
      <3> HIDE DEF all
      <3>1. QED
        BY <2>2, <2>3 DEF AllKnown
  <1>17. Buffers'
    BY <1>3, <1>6, <1>15 DEF AuditInv, Buffers
  <1>18. WrittenOnce'
    BY <1>3, <1>9, <1>13, <1>14 DEF AuditInv, WrittenOnce
  <1>19. NothingForgotten'
    <2> DEFINE held == ToSet(pending') \cup InFlight \cup ToSet(disk) \cup lost
    <2>a. recorded' - 1 = recorded
      BY <1>3
    <2>b. held = (ToSet(pending) \cup InFlight \cup ToSet(disk) \cup lost)'
      BY <1>3, <1>9
    <2>1. SUFFICES ASSUME NEW k \in 0 .. recorded PROVE <<boot, k>> \in held
      <3> HIDE DEF held
      <3>1. QED
        BY <1>3, <2>a, <2>b DEF NothingForgotten
    <2>2. CASE k = recorded
      BY <1>2, <1>14, <2>2
    <2>3. CASE k # recorded
      <3>1. k \in 0 .. recorded - 1
        BY <1>3, <2>3
      <3>2. QED
        BY <1>14, <3>1 DEF AuditInv, NothingForgotten
    <2>4. QED
      BY <2>2, <2>3
  <1>20. QED
    BY <1>7, <1>8, <1>16, <1>17, <1>18, <1>19 DEF AuditInv

\* flushToDisk takes the buffer: what is known only changes hands.
LEMMA TakeStep ==
  ASSUME AuditInv, NEW f \in Flushes, AppendStarts(f)
  PROVE  AuditInv'
  <1>1. /\ lines' = [lines EXCEPT ![f] = pending] /\ pending' = <<>>
        /\ pc' = [pc EXCEPT ![f] = "append"] /\ pc[f] = "dir"
        /\ UNCHANGED <<boot, entries, recorded, called, disk, lost>>
    BY DEF AppendStarts, Take
  <1>2. AuditTypeOK /\ lines[f] = <<>>
    BY <1>1 DEF AuditInv, Buffers
  <1>3. \A g \in Flushes : lines'[g] = IF g = f THEN pending ELSE lines[g]
    BY <1>1, <1>2 DEF AuditTypeOK
  <1>4. AuditTypeOK'
    BY <1>1, <1>2 DEF AuditTypeOK
  <1>5. \A e : e \in InFlight' <=> e \in InFlight \cup ToSet(pending)
    <2>1. \A e : e \in InFlight' <=> \E g \in Flushes : e \in ToSet(lines'[g])
      BY DEF InFlight
    <2>2. QED
      BY <1>2, <1>3, <2>1, InFlightIs, EmptySet
  <1>6. RingEnd' /\ AllKnown'
    BY <1>1, <1>5, EmptySet DEF AuditInv, RingEnd, AllKnown, Known
  <1>7. Buffers'
    <2>1. \A g \in Flushes : pc'[g] = IF g = f THEN "append" ELSE pc[g]
      BY <1>1, <1>2 DEF AuditTypeOK
    <2>2. QED
      BY <1>1, <1>3, <2>1, EmptySet DEF AuditInv, Buffers
  <1>8. WrittenOnce'
    <2>1. \A g \in Flushes : g # f => ToSet(lines[g]) \cap ToSet(pending) = {}
      BY InFlightIs DEF AuditInv, WrittenOnce
    <2>2. \A g, h \in Flushes : g # h => ToSet(lines'[g]) \cap ToSet(lines'[h]) = {}
      BY <1>3, <2>1 DEF AuditInv, WrittenOnce
    <2>3. QED
      BY <1>1, <1>5, <2>2, EmptySet DEF AuditInv, WrittenOnce
  <1>9. NothingForgotten'
    BY <1>1, <1>5, EmptySet DEF AuditInv, NothingForgotten
  <1>10. QED
    BY <1>4, <1>6, <1>7, <1>8, <1>9 DEF AuditInv

\* A flush that gives up its lines leaves the other flushes theirs.
LEMMA Released ==
  ASSUME AuditTypeOK, NEW f \in Flushes, lines' = [lines EXCEPT ![f] = <<>>]
  PROVE  /\ lines' \in [Flushes -> Seq(AuditEntry)]
         /\ \A g \in Flushes : lines'[g] = IF g = f THEN <<>> ELSE lines[g]
         /\ \A e : e \in InFlight' <=> \E g \in Flushes : g # f /\ e \in ToSet(lines[g])
  <1>1. \A g \in Flushes : lines'[g] = IF g = f THEN <<>> ELSE lines[g]
    BY DEF AuditTypeOK
  <1>2. \A e : e \in InFlight' <=> \E g \in Flushes : e \in ToSet(lines'[g])
    BY DEF InFlight
  <1>3. lines' \in [Flushes -> Seq(AuditEntry)]
    BY DEF AuditTypeOK
  <1>4. QED
    BY <1>1, <1>2, <1>3, EmptySet

\* appendFile has succeeded: the lines move from the flush to the file.
LEMMA AppendStep ==
  ASSUME AuditInv, NEW f \in Flushes, AppendEnds(f)
  PROVE  AuditInv'
  <1>1. /\ disk' = disk \o lines[f]
        /\ lines' = [lines EXCEPT ![f] = <<>>]
        /\ pc' = [pc EXCEPT ![f] = "snapshot"]
        /\ UNCHANGED <<boot, entries, recorded, pending, called, lost>>
    BY DEF AppendEnds, memVars
  <1>2. AuditTypeOK
    BY DEF AuditInv
  <1>3. lines[f] \in Seq(AuditEntry) /\ disk \in Seq(AuditEntry)
    BY <1>2 DEF AuditTypeOK
  <1>4. ToSet(disk') = ToSet(disk) \cup ToSet(lines[f])
    BY <1>1, <1>3, ConcatSet
  <1>5. \A g \in Flushes : lines'[g] = IF g = f THEN <<>> ELSE lines[g]
    BY <1>1, <1>2, Released
  <1>6. \A e : e \in InFlight' <=> \E g \in Flushes : g # f /\ e \in ToSet(lines[g])
    BY <1>1, <1>2, Released
  <1>7. ToSet(lines[f]) \subseteq InFlight /\ InFlight' \subseteq InFlight
    BY <1>6, InFlightIs
  <1>8. InFlight \subseteq InFlight' \cup ToSet(lines[f])
    BY <1>6, InFlightIs
  <1>9. AuditTypeOK'
    <2>1. disk' \in Seq(AuditEntry)
      BY <1>1, <1>3
    <2>2. lines' \in [Flushes -> Seq(AuditEntry)]
      BY <1>1, <1>2, Released
    <2>3. QED
      BY <1>1, <1>2, <2>1, <2>2 DEF AuditTypeOK
  <1>10. RingEnd' /\ AllKnown'
    BY <1>1, <1>4, <1>7 DEF AuditInv, RingEnd, AllKnown, Known
  <1>11. Buffers'
    <2>1. \A g \in Flushes : pc'[g] = IF g = f THEN "snapshot" ELSE pc[g]
      BY <1>1, <1>2 DEF AuditTypeOK
    <2>2. QED
      BY <1>1, <1>5, <2>1, EmptySet DEF AuditInv, Buffers
  <1>12. WrittenOnce'
    <2>1. Distinct(disk')
      BY <1>1, <1>3, <1>7, ConcatSet DEF AuditInv, WrittenOnce, Buffers
    <2>2. ToSet(disk') \cap (ToSet(pending) \cup InFlight') = {}
      <3>1. ToSet(lines[f]) \cap InFlight' = {}
        BY <1>6 DEF AuditInv, WrittenOnce
      <3>2. QED
        BY <1>4, <1>7, <3>1 DEF AuditInv, WrittenOnce
    <2>3. \A g, h \in Flushes : g # h => ToSet(lines'[g]) \cap ToSet(lines'[h]) = {}
      BY <1>5, EmptySet DEF AuditInv, WrittenOnce
    <2>4. QED
      BY <1>1, <1>7, <2>1, <2>2, <2>3 DEF AuditInv, WrittenOnce
  <1>13. NothingForgotten'
    BY <1>1, <1>4, <1>8 DEF AuditInv, NothingForgotten
  <1>14. QED
    BY <1>9, <1>10, <1>11, <1>12, <1>13 DEF AuditInv

\* appendFile has failed: the lines count as lost.
LEMMA FailStep ==
  ASSUME AuditInv, NEW f \in Flushes, AppendFails(f)
  PROVE  AuditInv'
  <1>1. /\ lost' = lost \cup ToSet(lines[f])
        /\ lines' = [lines EXCEPT ![f] = <<>>]
        /\ Over(f)
        /\ UNCHANGED <<boot, entries, recorded, pending, called, disk>>
    BY DEF AppendFails, memVars
  <1>2. AuditTypeOK /\ pc \in [Flushes -> Place]
    BY DEF AuditInv, AuditTypeOK, Place
  <1>3. \A g \in Flushes : lines'[g] = IF g = f THEN <<>> ELSE lines[g]
    BY <1>1, <1>2, Released
  <1>4. \A e : e \in InFlight' <=> \E g \in Flushes : g # f /\ e \in ToSet(lines[g])
    BY <1>1, <1>2, Released
  <1>5. InFlight' \subseteq InFlight /\ InFlight \subseteq InFlight' \cup ToSet(lines[f])
    BY <1>4, InFlightIs
  <1>6. pc' \in [Flushes -> Place] /\ \A g \in Flushes : g # f /\ pc[g] = "append" => pc'[g] = "append"
    BY <1>1, <1>2, OverType
  <1>7. AuditTypeOK'
    <2>1. ToSet(lines[f]) \subseteq AuditEntry
      BY <1>2 DEF AuditTypeOK, ToSet
    <2>2. lines' \in [Flushes -> Seq(AuditEntry)]
      BY <1>1, <1>2, Released
    <2>3. QED
      BY <1>1, <1>2, <1>6, <2>1, <2>2 DEF AuditTypeOK, Place
  <1>8. RingEnd' /\ AllKnown'
    BY <1>1, <1>5 DEF AuditInv, RingEnd, AllKnown, Known
  <1>9. Buffers'
    BY <1>1, <1>3, <1>6, EmptySet DEF AuditInv, Buffers
  <1>10. WrittenOnce'
    <2>1. \A g, h \in Flushes : g # h => ToSet(lines'[g]) \cap ToSet(lines'[h]) = {}
      BY <1>3, EmptySet DEF AuditInv, WrittenOnce
    <2>2. QED
      BY <1>1, <1>5, <2>1 DEF AuditInv, WrittenOnce
  <1>11. NothingForgotten'
    BY <1>1, <1>5 DEF AuditInv, NothingForgotten
  <1>12. QED
    BY <1>7, <1>8, <1>9, <1>10, <1>11 DEF AuditInv

\* A restart: nothing is recorded yet, and what is in the file was recorded by
\* an earlier process.
LEMMA RestartStep ==
  ASSUME AuditInv, Reboot
  PROVE  AuditInv'
  <1>1. /\ boot < MaxBoots /\ boot' = boot + 1
        /\ entries' = <<>> /\ recorded' = 0 /\ pending' = <<>> /\ called' = FALSE
        /\ pc' = [f \in Flushes |-> "idle"]
        /\ lines' = [f \in Flushes |-> <<>>]
        /\ lost' = lost \cup ToSet(pending) \cup InFlight
        /\ disk' = disk
    BY DEF Reboot
  <1>2. AuditTypeOK /\ boot \in Nat
    BY AuditAssumption DEF AuditInv, AuditTypeOK
  <1>3. InFlight' = {}
    <2>1. \A f \in Flushes : ToSet(lines'[f]) = {}
      BY <1>1, EmptySet
    <2>2. InFlight' = UNION {ToSet(lines'[f]) : f \in Flushes}
      BY DEF InFlight
    <2>3. QED
      BY <2>1, <2>2
  <1>4. ToSet(pending) \cup InFlight \cup ToSet(disk) \subseteq AuditEntry
    BY <1>2 DEF AuditTypeOK, ToSet, InFlight
  <1>5. AuditTypeOK'
    <2>1. boot' \in 1 .. MaxBoots /\ 0 \in 0 .. MaxRecords /\ MaxEntries \in Nat
      BY <1>1, <1>2, AuditAssumption DEF AuditTypeOK
    <2>2. lost' \subseteq AuditEntry
      BY <1>1, <1>2, <1>4 DEF AuditTypeOK
    <2>3. <<>> \in Seq(AuditEntry) /\ Len(<<>>) = 0
      OBVIOUS
    <2>4. lines' \in [Flushes -> Seq(AuditEntry)] /\ pc' \in [Flushes -> Place]
      BY <1>1, <2>3 DEF Place
    <2>5. called' \in BOOLEAN /\ recorded' \in 0 .. MaxRecords
      BY <1>1, <2>1
    <2>6. entries' \in Seq(AuditEntry) /\ Len(entries') <= MaxEntries /\ pending' \in Seq(AuditEntry)
      BY <1>1, <2>3, AuditAssumption
    <2>7. disk' \in Seq(AuditEntry)
      BY <1>1, <1>2 DEF AuditTypeOK
    <2>8. QED
      BY <2>1, <2>2, <2>4, <2>5, <2>6, <2>7 DEF AuditTypeOK, Place
  <1>6. RingEnd'
    BY <1>1 DEF RingEnd
  <1>7. AllKnown'
    <2>1. \A e \in AuditEntry : Known(e) => Known(e)'
      BY <1>1, <1>2 DEF Known, AuditEntry
    <2>2. QED
      BY <1>1, <1>3, <1>4, <2>1, EmptySet DEF AuditInv, AllKnown
  <1>8. Buffers'
    BY <1>1, EmptySet DEF Buffers
  <1>9. WrittenOnce'
    BY <1>1, <1>3, EmptySet DEF AuditInv, WrittenOnce
  <1>10. NothingForgotten'
    BY <1>1 DEF NothingForgotten
  <1>11. QED
    BY <1>5, <1>6, <1>7, <1>8, <1>9, <1>10 DEF AuditInv

\* The invariant holds at the start and every step keeps it.
LEMMA AuditInductive == AuditSpec => []AuditInv
  <1>1. AuditInit => AuditInv
    <2> SUFFICES ASSUME AuditInit PROVE AuditInv
      OBVIOUS
    <2>1. AuditTypeOK
      <3>1. 1 \in 1 .. MaxBoots /\ 0 \in 0 .. MaxRecords
        BY AuditAssumption
      <3>2. <<>> \in Seq(AuditEntry) /\ Len(<<>>) = 0 /\ 0 <= MaxEntries
        BY AuditAssumption
      <3>3. pc \in [Flushes -> Place] /\ lines \in [Flushes -> Seq(AuditEntry)]
        BY <3>2 DEF AuditInit, Place
      <3>4. QED
        BY <3>1, <3>2, <3>3 DEF AuditInit, AuditTypeOK, Place
    <2>2. InFlight = {}
      BY EmptySet DEF AuditInit, InFlight
    <2>3. RingEnd /\ AllKnown /\ Buffers /\ WrittenOnce /\ NothingForgotten
      BY <2>2, EmptySet DEF AuditInit, RingEnd, AllKnown, Buffers, WrittenOnce, NothingForgotten
    <2>4. QED
      BY <2>1, <2>3 DEF AuditInv
  <1>2. AuditInv /\ [AuditNext]_auditVars => AuditInv'
    <2> SUFFICES ASSUME AuditInv, [AuditNext]_auditVars PROVE AuditInv'
      OBVIOUS
    <2>1. pc \in [Flushes -> Place] /\ called \in BOOLEAN
      BY DEF AuditInv, AuditTypeOK, Place
    <2>2. CASE Record
      BY <2>2, RecordStep
    <2>3. CASE Reboot
      BY <2>3, RestartStep
    <2>4. ASSUME NEW f \in Calls, FlushCalled(f) PROVE AuditInv'
      <3>1. f \in Flushes /\ pc[f] = "idle"
        BY <2>4 DEF FlushCalled, Flushes
      <3>2. pc' = [pc EXCEPT ![f] = IF pc[Recording] # "idle" THEN "waiting" ELSE Begin(pending)]
        BY <2>4 DEF FlushCalled
      <3>3. pc' \in [Flushes -> Place] /\ \A g \in Flushes : pc[g] = "append" => pc'[g] = "append"
        BY <2>1, <3>1, <3>2, BeginType DEF Place
      <3>4. called' \in BOOLEAN /\ UNCHANGED <<boot, entries, recorded, pending, lines, disk, lost>>
        BY <2>4 DEF FlushCalled
      <3>5. QED
        BY <3>3, <3>4, MoveStep
    <2>5. ASSUME NEW f \in Flushes, DirFails(f) \/ SnapshotEnds(f) PROVE AuditInv'
      <3>1. pc[f] # "append" /\ Over(f)
        BY <2>5 DEF DirFails, SnapshotEnds
      <3>2. pc' \in [Flushes -> Place] /\ \A g \in Flushes : pc[g] = "append" => pc'[g] = "append"
        BY <2>1, <3>1, OverType
      <3>3. called' \in BOOLEAN /\ UNCHANGED <<boot, entries, recorded, pending, lines, disk, lost>>
        BY <2>1, <2>5 DEF DirFails, SnapshotEnds, memVars
      <3>4. QED
        BY <3>2, <3>3, MoveStep
    <2>6. ASSUME NEW f \in Flushes, Flush(f) PROVE AuditInv'
      BY <2>5, <2>6, TakeStep, AppendStep, FailStep DEF Flush
    <2>7. CASE UNCHANGED auditVars
      <3>1. UNCHANGED <<boot, entries, recorded, pending, lines, disk, lost>> /\ pc' = pc /\ called' = called
        BY <2>7 DEF auditVars, memVars
      <3>2. QED
        BY <2>1, <3>1, MoveStep
    <2>8. QED
      BY <2>2, <2>3, <2>4, <2>6, <2>7 DEF AuditNext
  <1>3. QED
    BY <1>1, <1>2, PTL DEF AuditSpec

\* The variables of the audit log keep their types: seq never leaves the range
\* of what was recorded, the ring never outgrows its capacity.
THEOREM AuditTyping == AuditSpec => []AuditTypeOK
  <1>1. AuditInv => AuditTypeOK
    BY DEF AuditInv
  <1>2. QED
    BY <1>1, AuditInductive, PTL

\* However flushes overlap, fail and are cut off, no entry reaches the file
\* twice and none is both in the file and still to be written.
THEOREM OnceOnly == AuditSpec => []WrittenOnce
  <1>1. AuditInv => WrittenOnce
    BY DEF AuditInv
  <1>2. QED
    BY <1>1, AuditInductive, PTL

\* Every entry of the running process is in the file, on its way there, or
\* among those whose append failed.
THEOREM Retained == AuditSpec => []NothingForgotten
  <1>1. AuditInv => NothingForgotten
    BY DEF AuditInv
  <1>2. QED
    BY <1>1, AuditInductive, PTL

-----------------------------------------------------------------------------
(* Order.  Without an explicit call only one flush is ever under way, so    *)
(* that the file, the lines it appends and the buffer follow one another.   *)

\* The entries of start b are in s in the order they were recorded in.
Ascending(b, s) ==
  \A i, j \in DOMAIN s : i < j /\ s[i][1] = b /\ s[j][1] = b => s[i][2] < s[j][2]

\* Those in s were recorded before those in r.
Before(b, s, r) ==
  \A x \in ToSet(s), y \in ToSet(r) : x[1] = b /\ y[1] = b => x[2] < y[2]

OnlyRecording == \A f \in Calls : pc[f] = "idle" /\ lines[f] = <<>>

OneAfterAnother ==
  /\ Ascending(boot, disk) /\ Ascending(boot, lines[Recording]) /\ Ascending(boot, pending)
  /\ Before(boot, disk, lines[Recording])
  /\ Before(boot, disk, pending)
  /\ Before(boot, lines[Recording], pending)

OrderInv == ~called => OnlyRecording /\ OneAfterAnother

LEMMA AscendingConcat ==
  ASSUME NEW s \in Seq(AuditEntry), NEW r \in Seq(AuditEntry), NEW b,
         Ascending(b, s), Ascending(b, r), Before(b, s, r)
  PROVE  Ascending(b, s \o r)
  <1> DEFINE c == s \o r
  <1>1. /\ Len(s) \in Nat /\ Len(r) \in Nat /\ DOMAIN c = 1 .. Len(s) + Len(r)
        /\ DOMAIN s = 1 .. Len(s) /\ DOMAIN r = 1 .. Len(r)
        /\ \A i \in 1 .. Len(s) : c[i] = s[i]
        /\ \A i \in 1 .. Len(s) + Len(r) : i > Len(s) => c[i] = r[i - Len(s)]
    OBVIOUS
  <1> HIDE DEF c
  <1>2. SUFFICES ASSUME NEW i \in DOMAIN c, NEW j \in DOMAIN c, i < j, c[i][1] = b, c[j][1] = b
                 PROVE  c[i][2] < c[j][2]
    BY DEF Ascending, c
  <1>3. CASE j <= Len(s)
    <2>1. i \in DOMAIN s /\ j \in DOMAIN s /\ c[i] = s[i] /\ c[j] = s[j]
      BY <1>1, <1>2, <1>3
    <2>2. QED
      BY <1>2, <2>1 DEF Ascending
  <1>4. CASE i <= Len(s) /\ j > Len(s)
    <2>1. i \in DOMAIN s /\ j - Len(s) \in DOMAIN r /\ c[i] = s[i] /\ c[j] = r[j - Len(s)]
      BY <1>1, <1>2, <1>4
    <2>2. c[i] \in ToSet(s) /\ c[j] \in ToSet(r)
      BY <2>1 DEF ToSet
    <2>3. QED
      BY <1>2, <2>2 DEF Before
  <1>5. CASE i > Len(s)
    <2>1. /\ i - Len(s) \in DOMAIN r /\ j - Len(s) \in DOMAIN r /\ i - Len(s) < j - Len(s)
          /\ c[i] = r[i - Len(s)] /\ c[j] = r[j - Len(s)]
      BY <1>1, <1>2, <1>5
    <2>2. QED
      BY <1>2, <2>1 DEF Ascending
  <1>6. QED
    BY <1>1, <1>2, <1>3, <1>4, <1>5

LEMMA AscendingAppend ==
  ASSUME NEW s \in Seq(AuditEntry), NEW e \in AuditEntry, NEW b, Ascending(b, s),
         \A x \in ToSet(s) : x[1] = b => x[2] < e[2]
  PROVE  Ascending(b, Append(s, e))
  <1> DEFINE a == Append(s, e)
  <1>1. /\ Len(s) \in Nat /\ DOMAIN a = 1 .. Len(s) + 1 /\ DOMAIN s = 1 .. Len(s)
        /\ \A i \in DOMAIN s : a[i] = s[i]
        /\ a[Len(s) + 1] = e
    OBVIOUS
  <1>2. \A i \in DOMAIN s : s[i] \in ToSet(s)
    BY DEF ToSet
  <1> HIDE DEF a
  <1>3. \A i, j \in DOMAIN a : i < j /\ a[i][1] = b /\ a[j][1] = b => a[i][2] < a[j][2]
    <2>1. SUFFICES ASSUME NEW i \in DOMAIN a, NEW j \in DOMAIN a, i < j, a[i][1] = b, a[j][1] = b
                   PROVE  a[i][2] < a[j][2]
      OBVIOUS
    <2>2. i \in DOMAIN s /\ a[i] = s[i]
      BY <1>1, <2>1
    <2>3. CASE j \in DOMAIN s
      BY <1>1, <2>1, <2>2, <2>3 DEF Ascending
    <2>4. CASE j = Len(s) + 1
      BY <1>1, <1>2, <2>1, <2>2, <2>4
    <2>5. QED
      BY <1>1, <2>3, <2>4
  <1>4. QED
    BY <1>3 DEF Ascending, a

LEMMA EmptyOrder ==
  ASSUME NEW b, NEW s
  PROVE  Ascending(b, <<>>) /\ Before(b, <<>>, s) /\ Before(b, s, <<>>)
  BY EmptySet DEF Ascending, Before

\* A flush that is over leaves idle calls idle, if none waits.
LEMMA OverIdle ==
  ASSUME AuditInv, Over(Recording), OnlyRecording
  PROVE  \A f \in Calls : pc'[f] = "idle"
  BY AuditAssumption DEF Over, OnlyRecording, Flushes

\* record: the new entry is the latest of its process.
LEMMA RecordOrder ==
  ASSUME AuditInv, OrderInv, Record
  PROVE  OrderInv'
  <1>0. PICK e : e = <<boot, NextSeq>>
    OBVIOUS
  <1>1. AuditTypeOK /\ RingEnd /\ AllKnown /\ recorded < MaxRecords
    BY DEF AuditInv, Record
  <1>2. e = <<boot, recorded>> /\ e \in AuditEntry
    BY <1>0, <1>1, RecordRing
  <1>3. pending' = Append(pending, e) /\ UNCHANGED <<boot, called, lines, disk>>
    BY <1>0 DEF Record
  <1>4. SUFFICES ASSUME ~called PROVE OnlyRecording' /\ OneAfterAnother'
    BY <1>3 DEF OrderInv
  <1>5. OnlyRecording /\ OneAfterAnother
    BY <1>4 DEF OrderInv
  <1>6. OnlyRecording'
    <2>1. \A f \in Calls : f \in Flushes /\ f # Recording /\ pc'[f] = pc[f]
      BY <1>1, AuditAssumption DEF Record, AuditTypeOK, Flushes
    <2>2. QED
      BY <1>3, <1>5, <2>1 DEF OnlyRecording
  <1>7. \A x \in ToSet(disk) \cup ToSet(pending) \cup InFlight : x[1] = boot => x[2] < e[2]
    <2>1. e[2] = recorded /\ boot \in Nat
      BY <1>1, <1>2, AuditAssumption DEF AuditTypeOK
    <2>2. \A x : Known(x) /\ x[1] = boot => x[2] < recorded
      BY <2>1 DEF Known
    <2>3. QED
      BY <1>1, <2>1, <2>2 DEF AllKnown
  <1>8. lines[Recording] \in Seq(AuditEntry) /\ ToSet(lines[Recording]) \subseteq InFlight
        /\ pending \in Seq(AuditEntry)
    BY <1>1, InFlightIs DEF AuditTypeOK, Flushes
  <1>9. ToSet(pending') = ToSet(pending) \cup {e}
    BY <1>2, <1>3, <1>8, AppendSet
  <1>10. Ascending(boot, pending')
    BY <1>2, <1>3, <1>5, <1>7, <1>8, AscendingAppend DEF OneAfterAnother
  <1>11. Before(boot, disk, pending') /\ Before(boot, lines[Recording], pending')
    BY <1>5, <1>7, <1>8, <1>9 DEF OneAfterAnother, Before
  <1>12. OneAfterAnother'
    BY <1>3, <1>5, <1>10, <1>11 DEF OneAfterAnother
  <1>13. QED
    BY <1>6, <1>12

\* A step of the flush record started, the only one there is.
LEMMA FlushOrder ==
  ASSUME AuditInv, OrderInv, NEW f \in Flushes, Flush(f)
  PROVE  OrderInv'
  <1>1. AuditTypeOK /\ UNCHANGED <<boot, called>>
    BY DEF AuditInv, Flush, AppendStarts, DirFails, AppendEnds, AppendFails, SnapshotEnds, memVars
  <1>2. SUFFICES ASSUME ~called PROVE OnlyRecording' /\ OneAfterAnother'
    BY <1>1 DEF OrderInv
  <1>3. OnlyRecording /\ OneAfterAnother
    BY <1>2 DEF OrderInv
  <1>4. f = Recording
    BY <1>3 DEF OnlyRecording, Flushes, Flush, AppendStarts, DirFails, AppendEnds,
                AppendFails, SnapshotEnds
  <1>5. /\ lines[f] \in Seq(AuditEntry) /\ disk \in Seq(AuditEntry) /\ pending \in Seq(AuditEntry)
        /\ \A g \in Calls : g \in Flushes /\ g # f
    BY <1>1, <1>4, AuditAssumption DEF AuditTypeOK, Flushes
  <1>6. CASE AppendStarts(f)
    <2>1. /\ lines' = [lines EXCEPT ![f] = pending] /\ pending' = <<>> /\ disk' = disk
          /\ pc' = [pc EXCEPT ![f] = "append"]
      BY <1>6 DEF AppendStarts, Take
    <2>2. OnlyRecording'
      BY <1>1, <1>3, <1>5, <2>1 DEF OnlyRecording, AuditTypeOK
    <2>3. lines'[f] = pending
      BY <1>1, <2>1 DEF AuditTypeOK
    <2>4. OneAfterAnother'
      BY <1>1, <1>3, <1>4, <2>1, <2>3, EmptyOrder DEF OneAfterAnother
    <2>5. QED
      BY <2>2, <2>4
  <1>7. CASE AppendEnds(f)
    <2>1. /\ lines' = [lines EXCEPT ![f] = <<>>] /\ pending' = pending /\ disk' = disk \o lines[f]
          /\ pc' = [pc EXCEPT ![f] = "snapshot"]
      BY <1>7 DEF AppendEnds, memVars
    <2>2. OnlyRecording'
      BY <1>1, <1>3, <1>5, <2>1 DEF OnlyRecording, AuditTypeOK
    <2>3. lines'[f] = <<>> /\ ToSet(disk') = ToSet(disk) \cup ToSet(lines[f])
      BY <1>1, <1>5, <2>1, ConcatSet DEF AuditTypeOK
    <2>4. Ascending(boot, disk')
      BY <1>3, <1>4, <1>5, <2>1, AscendingConcat DEF OneAfterAnother
    <2>5. Before(boot, disk', pending)
      BY <1>3, <1>4, <2>3 DEF OneAfterAnother, Before
    <2>6. OneAfterAnother'
      BY <1>1, <1>3, <1>4, <2>1, <2>3, <2>4, <2>5, EmptyOrder DEF OneAfterAnother
    <2>7. QED
      BY <2>2, <2>6
  <1>8. CASE AppendFails(f)
    <2>1. /\ lines' = [lines EXCEPT ![f] = <<>>] /\ pending' = pending /\ disk' = disk
          /\ Over(f)
      BY <1>8 DEF AppendFails, memVars
    <2>2. OnlyRecording'
      BY <1>1, <1>3, <1>4, <1>5, <2>1, OverIdle DEF OnlyRecording, AuditTypeOK
    <2>3. lines'[f] = <<>>
      BY <1>1, <2>1 DEF AuditTypeOK
    <2>4. OneAfterAnother'
      BY <1>1, <1>3, <1>4, <2>1, <2>3, EmptyOrder DEF OneAfterAnother
    <2>5. QED
      BY <2>2, <2>4
  <1>9. CASE DirFails(f) \/ SnapshotEnds(f)
    <2>1. Over(f) /\ UNCHANGED <<lines, pending, disk>>
      BY <1>9 DEF DirFails, SnapshotEnds, memVars
    <2>2. QED
      BY <1>1, <1>3, <1>4, <2>1, OverIdle DEF OnlyRecording, OneAfterAnother
  <1>10. QED
    BY <1>6, <1>7, <1>8, <1>9 DEF Flush

\* A restart: nothing in the file is of the new process.
LEMMA RestartOrder ==
  ASSUME AuditInv, Reboot
  PROVE  OrderInv'
  <1>1. /\ boot' = boot + 1 /\ disk' = disk /\ pending' = <<>>
        /\ pc' = [f \in Flushes |-> "idle"] /\ lines' = [f \in Flushes |-> <<>>]
    BY DEF Reboot
  <1>2. OnlyRecording' /\ lines'[Recording] = <<>>
    BY <1>1 DEF OnlyRecording, Flushes
  <1>3. \A x \in ToSet(disk) : x[1] # boot + 1
    <2>1. ToSet(disk) \subseteq AuditEntry /\ boot \in Nat
      BY AuditAssumption DEF AuditInv, AuditTypeOK, ToSet
    <2>2. \A x \in ToSet(disk) : Known(x)
      BY DEF AuditInv, AllKnown
    <2>3. QED
      BY <2>1, <2>2 DEF Known, AuditEntry
  <1>4. Ascending(boot', disk')
    <2>1. \A i \in DOMAIN disk : disk[i][1] # boot + 1
      BY <1>3 DEF ToSet
    <2>2. QED
      BY <1>1, <2>1 DEF Ascending
  <1>5. OneAfterAnother'
    BY <1>1, <1>2, <1>4, EmptyOrder DEF OneAfterAnother
  <1>6. QED
    BY <1>2, <1>5 DEF OrderInv

\* As long as flush is not called, what a process appends is in the order it
\* was recorded in, whatever fails and however often it is restarted: the
\* chain of hashes on disk can be followed line by line.  (record, flushToDisk)
THEOREM Chained == AuditSpec => []InOrder
  <1>1. AuditInit => OrderInv
    <2> SUFFICES ASSUME AuditInit PROVE OrderInv
      OBVIOUS
    <2>1. lines[Recording] = <<>> /\ disk = <<>> /\ pending = <<>> /\ OnlyRecording
      BY DEF AuditInit, OnlyRecording, Flushes
    <2>2. QED
      BY <2>1, EmptyOrder DEF OrderInv, OneAfterAnother
  <1>2. AuditInv /\ OrderInv /\ [AuditNext]_auditVars => OrderInv'
    <2> SUFFICES ASSUME AuditInv, OrderInv, [AuditNext]_auditVars PROVE OrderInv'
      OBVIOUS
    <2>1. CASE Record
      BY <2>1, RecordOrder
    <2>2. CASE Reboot
      BY <2>2, RestartOrder
    <2>3. ASSUME NEW f \in Calls, FlushCalled(f) PROVE OrderInv'
      BY <2>3 DEF FlushCalled, OrderInv
    <2>4. ASSUME NEW f \in Flushes, Flush(f) PROVE OrderInv'
      BY <2>4, FlushOrder
    <2>5. CASE UNCHANGED auditVars
      BY <2>5 DEF auditVars, memVars, OrderInv, OnlyRecording, OneAfterAnother
    <2>6. QED
      BY <2>1, <2>2, <2>3, <2>4, <2>5 DEF AuditNext
  <1>3. OrderInv => InOrder
    BY DEF OrderInv, OneAfterAnother, Ascending, InOrder
  <1>4. QED
    BY <1>1, <1>2, <1>3, AuditInductive, PTL DEF AuditSpec

-----------------------------------------------------------------------------
(***************************************************************************)
(* The scheduler.                                                          *)
(***************************************************************************)

(* The local clock. *)

\* The least of a set of instants.
LEMMA MinOf ==
  ASSUME NEW T \in SUBSET Nat, T # {}
  PROVE  Min(T) \in T /\ \A k \in T : Min(T) <= k
  <1>1. PICK n \in T : \A k \in T : n <= k
    BY LeastOf
  <1>2. QED
    BY <1>1 DEF Min

\* An instant is taken for the first one that shows the same time.
LEMMA FloorIs ==
  ASSUME NEW m \in Instant_
  PROVE  /\ Floor(m) \in Instant_ /\ Floor(m) <= m /\ Wall[Floor(m)] = Wall[m]
         /\ \A k \in Instant_ : Wall[k] = Wall[m] => Floor(m) <= k
  <1> DEFINE same == {k \in Instant_ : Wall[k] = Wall[m]}
  <1>1. same \subseteq Nat /\ same # {} /\ m \in same
    BY DEF Instant_
  <1>2. Min(same) \in same /\ \A k \in same : Min(same) <= k
    BY <1>1, MinOf
  <1>3. InstantOf(Wall[m]) = Min(same)
    BY <1>1 DEF InstantOf
  <1>4. Floor(m) = Min(same)
    BY <1>3 DEF Floor, Floors, Instant_
  <1>5. QED
    BY <1>1, <1>2, <1>4

\* Two instants are taken for the same one if they show the same time.
LEMMA FloorSame ==
  ASSUME NEW m \in Instant_, NEW k \in Instant_
  PROVE  (Floor(m) = Floor(k)) <=> (Wall[m] = Wall[k])
  <1>1. Floor(m) = Floor(k) => Wall[m] = Wall[k]
    BY FloorIs
  <1>2. ASSUME Wall[m] = Wall[k] PROVE Floor(m) = Floor(k)
    <2>1. Floor(m) <= Floor(k) /\ Floor(k) <= Floor(m)
      BY <1>2, FloorIs
    <2>2. Floor(m) \in Nat /\ Floor(k) \in Nat
      BY FloorIs DEF Instant_
    <2>3. QED
      BY <2>1, <2>2
  <1>3. QED
    BY <1>1, <1>2

\* The instants taken for an earlier one are those that repeat a time.
LEMMA AgainRepeats == Again = Repeats
  <1>1. ASSUME NEW m \in Instant_ PROVE Floor(m) # m <=> m \in Repeats
    <2>1. Floor(m) \in Instant_ /\ Floor(m) <= m /\ Wall[Floor(m)] = Wall[m]
          /\ \A k \in Instant_ : Wall[k] = Wall[m] => Floor(m) <= k
      BY FloorIs
    <2>2. ASSUME Floor(m) # m PROVE m \in Repeats
      <3>1. Floor(m) \in 1 .. m - 1
        BY <2>1, <2>2 DEF Instant_
      <3>2. QED
        BY <2>1, <3>1 DEF Repeats
    <2>3. ASSUME m \in Repeats PROVE Floor(m) # m
      <3>1. PICK k \in 1 .. m - 1 : Wall[k] = Wall[m]
        BY <2>3 DEF Repeats
      <3>2. k \in Instant_ /\ k < m
        BY <3>1 DEF Instant_
      <3>3. QED
        BY <2>1, <3>1, <3>2 DEF Instant_
    <2>4. QED
      BY <2>2, <2>3
  <1>2. QED
    BY <1>1 DEF Again, Repeats

\* Times are shown first in their order.
LEMMA FirstInOrder ==
  ASSUME NEW m \in Instant_ \ Repeats, NEW k \in Instant_ \ Repeats
  PROVE  k < m <=> Wall[k] < Wall[m]
  <1>1. k < m => Wall[k] < Wall[m]
    BY WallAssumption
  <1>2. m < k => Wall[m] < Wall[k]
    BY WallAssumption
  <1>3. k \in Nat /\ m \in Nat /\ Wall[k] \in Nat /\ Wall[m] \in Nat
    BY CronAssumption DEF Instant_
  <1>4. QED
    BY <1>1, <1>2, <1>3

\* The first instant that shows a time is no repetition.
LEMMA FloorFirst ==
  ASSUME NEW m \in Instant_
  PROVE  Floor(m) \in Instant_ \ Repeats
  <1>1. Floor(m) \in Instant_ /\ Floor(Floor(m)) = Floor(m)
    <2>1. Floor(m) \in Instant_ /\ Wall[Floor(m)] = Wall[m]
      BY FloorIs
    <2>2. QED
      BY <2>1, FloorSame
  <1>2. QED
    BY <1>1, AgainRepeats DEF Again

\* What was shown between two instants of the same time is shown again: the
\* repeated hour is repeated as a whole.
LEMMA RepeatedWhole ==
  ASSUME NEW t \in Instant_, NEW c \in Instant_, NEW l \in Instant_,
         t < c, c < l, Wall[t] = Wall[l]
  PROVE  \E m \in Repeats : Wall[m] = Wall[c]
  <1>1. CASE c \in Repeats
    BY <1>1
  <1>2. CASE c \notin Repeats
    <2> DEFINE End == Len(Wall)
               Past == {k \in Instant_ : k >= l /\ Wall[k] >= Wall[c]}
    <2>1. \A k \in Instant_ : k \in Nat /\ k >= 1 /\ k <= End /\ Wall[k] \in Nat
      BY SMTT(30), CronAssumption DEF Instant_
    <2>2. End \in Instant_ \ Repeats /\ End \in Nat
      BY CronAssumption, WallAssumption DEF Instant_
    <2>3. End \in Past
      <3>1. c < End /\ l <= End
        BY <2>1, <2>2
      <3>2. Wall[c] < Wall[End]
        BY <1>2, <2>2, <3>1, FirstInOrder
      <3>3. QED
        BY <2>1, <2>2, <3>1, <3>2
    <2>4. PICK n \in Past : \A k \in Past : n <= k
      <3>1. Past \in SUBSET Nat /\ Past # {}
        BY <2>1, <2>3
      <3> HIDE DEF Past
      <3>2. QED
        BY <3>1, LeastOf
    <2>5. Wall[l] < Wall[c]
      <3>1. Floor(t) \in Instant_ \ Repeats /\ Floor(t) <= t /\ Wall[Floor(t)] = Wall[t]
        BY FloorIs, FloorFirst
      <3>2. Floor(t) < c
        BY <2>1, <3>1
      <3>3. QED
        BY <1>2, <3>1, <3>2, FirstInOrder
    <2>6. n > l /\ n - 1 \in Instant_ /\ n - 1 >= l /\ n \in Instant_
      BY <2>1, <2>4, <2>5 DEF Instant_
    <2>7. Wall[n - 1] < Wall[c]
      <3>1. n - 1 \notin Past
        BY <2>1, <2>4, <2>6
      <3>2. QED
        BY <2>1, <2>6, <3>1
    <2>8. n - 1 \in Repeats
      <3>1. SUFFICES ASSUME n - 1 \in Instant_ \ Repeats PROVE FALSE
        BY <2>6
      <3>2. c < n - 1
        BY <2>1, <2>6
      <3>3. Wall[c] < Wall[n - 1]
        BY <1>2, <3>1, <3>2, FirstInOrder
      <3>4. QED
        BY <2>1, <2>6, <2>7, <3>3
    <2>9. Wall[n] = Wall[c]
      <3>1. Wall[n] <= Wall[n - 1] + 1
        BY <2>1, <2>6, <2>8, WallAssumption
      <3>2. QED
        BY <2>1, <2>4, <2>6, <2>7, <3>1
    <2>10. n \in Repeats
      <3>1. c \in 1 .. n - 1
        BY <2>1, <2>6
      <3>2. QED
        BY <2>6, <2>9, <3>1 DEF Repeats
    <2>11. QED
      BY <2>9, <2>10
  <1>3. QED
    BY <1>1, <1>2


-----------------------------------------------------------------------------
(* nextCronMatch. *)

\* n is the first instant after m that is no repetition, or 0 if there is none.
Follows(m, n) ==
  \/ n = 0 /\ \A k \in Instant_ \ Repeats : k <= m
  \/ n \in Instant_ \ Repeats /\ m < n /\ \A k \in Instant_ \ Repeats : k <= m \/ n <= k

\* A minute more on the local clock leads there: over the repetition of an
\* hour and over a gap.  (setMinutes)
LEMMA NextMinute ==
  ASSUME NEW m \in Instant_ \ Repeats
  PROVE  Follows(m, InstantOf(Wall[m] + 1))
  <1> DEFINE w == Wall[m] + 1
             same == {k \in Instant_ : Wall[k] = w}
             below == {k \in Instant_ : k < Len(Wall) /\ Wall[k] < w /\ Wall[k + 1] > w}
  <1>1. \A k \in Instant_ : k \in Nat /\ k >= 1 /\ k <= Len(Wall) /\ Wall[k] \in Nat
    BY CronAssumption DEF Instant_
  <1>2. \A k \in Instant_ \ Repeats : k < m <=> Wall[k] < Wall[m]
    BY FirstInOrder
  <1>3. CASE same # {}
    <2>1. PICK k \in Instant_ : Wall[k] = w
      BY <1>3
    <2>2. InstantOf(w) = Floor(k)
      <3>1. same = {j \in Instant_ : Wall[j] = Wall[k]}
        BY <2>1
      <3>2. InstantOf(w) = Min(same) /\ InstantOf(Wall[k]) = Min(same)
        BY <1>3, <2>1, <3>1 DEF InstantOf
      <3>3. Floor(k) = InstantOf(Wall[k])
        BY <1>1 DEF Floor, Floors
      <3>4. QED
        BY <3>2, <3>3
    <2> DEFINE n == Floor(k)
    <2>3. n \in Instant_ \ Repeats /\ Wall[n] = w
      BY <2>1, FloorIs, FloorFirst
    <2> HIDE DEF n
    <2>4. m < n
      BY <1>1, <2>3, FirstInOrder
    <2>5. \A j \in Instant_ \ Repeats : j <= m \/ n <= j
      <3>1. SUFFICES ASSUME NEW j \in Instant_ \ Repeats, j < n PROVE j <= m
        BY <1>1, <2>3
      <3>2. Wall[j] < Wall[n]
        BY <2>3, <3>1, FirstInOrder
      <3>3. ~(Wall[m] < Wall[j])
        BY <1>1, <2>3, <3>2
      <3>4. ~(m < j)
        BY <3>3, FirstInOrder
      <3>5. QED
        BY <1>1, <3>4
    <2>6. QED
      BY <2>2, <2>3, <2>4, <2>5 DEF Follows, n
  <1>4. CASE same = {}
    <2>1. \A k \in Instant_ : Wall[k] # w
      BY <1>4
    <2>2. ASSUME NEW k \in below PROVE k = m /\ m + 1 \in Instant_ \ Repeats
      <3>1. k \in Instant_ /\ k + 1 \in Instant_ /\ Wall[k] <= Wall[m] /\ Wall[k + 1] > w
        BY <1>1, <2>2 DEF Instant_
      <3>2. k \notin Repeats
        <4>1. SUFFICES ASSUME k \in Repeats PROVE FALSE
          OBVIOUS
        <4>2. Wall[k + 1] <= Wall[k] + 1
          BY <4>1, WallAssumption
        <4>3. QED
          BY <1>1, <3>1, <4>2
      <3>3. k <= m
        <4>1. ~(Wall[m] < Wall[k])
          BY <1>1, <3>1
        <4>2. ~(m < k)
          BY <3>1, <3>2, <4>1, FirstInOrder
        <4>3. QED
          BY <1>1, <3>1, <4>2
      <3>4. Floor(k + 1) \in Instant_ \ Repeats /\ Floor(k + 1) <= k + 1
            /\ Wall[Floor(k + 1)] = Wall[k + 1]
        BY <3>1, FloorIs, FloorFirst
      <3>5. m < Floor(k + 1)
        <4>1. Wall[m] < Wall[Floor(k + 1)]
          BY <1>1, <3>1, <3>4
        <4>2. QED
          BY <3>4, <4>1, FirstInOrder
      <3>6. k = m /\ Floor(k + 1) = m + 1
        BY <1>1, <3>1, <3>3, <3>4, <3>5
      <3>7. QED
        BY <3>4, <3>6
    <2>3. CASE below # {}
      <3>1. below = {m} /\ m + 1 \in Instant_ \ Repeats
        BY <2>2, <2>3
      <3>2. Min(below) = m
        BY <3>1 DEF Min
      <3>3. InstantOf(w) = Min(below) + (w - Wall[Min(below)])
        BY <1>4, <2>3 DEF InstantOf
      <3>4. InstantOf(w) = m + 1
        BY <1>1, <3>2, <3>3
      <3>5. QED
        BY <1>1, <3>1, <3>4 DEF Follows
    <2>4. CASE below = {}
      <3>1. InstantOf(w) = 0
        BY <1>4, <2>4 DEF InstantOf
      <3>2. \A k \in Instant_ \ Repeats : k <= m
        <4>1. SUFFICES ASSUME NEW j \in Instant_ \ Repeats, m < j PROVE FALSE
          BY <1>1
        <4> DEFINE Past == {k \in Instant_ : k > m /\ Wall[k] > Wall[m]}
        <4>2. j \in Past
          BY <4>1, FirstInOrder, <1>1
        <4>3. PICK n \in Past : \A k \in Past : n <= k
          <5>1. Past \in SUBSET Nat /\ Past # {}
            BY <1>1, <4>2
          <5> HIDE DEF Past
          <5>2. QED
            BY <5>1, LeastOf
        <4>4. n \in Instant_ /\ n > m /\ Wall[n] > w /\ n - 1 \in Instant_ /\ n - 1 < Len(Wall)
          BY <1>1, <2>1, <4>3 DEF Instant_
        <4>5. Wall[n - 1] <= Wall[m]
          <5>1. CASE n - 1 = m
            BY <1>1, <5>1
          <5>2. CASE n - 1 # m
            <6>1. n - 1 \notin Past /\ n - 1 > m
              BY <1>1, <4>3, <4>4, <5>2
            <6>2. QED
              BY <1>1, <4>4, <6>1
          <5>3. QED
            BY <5>1, <5>2
        <4>6. n - 1 \in below
          BY <1>1, <4>4, <4>5
        <4>7. QED
          BY <2>4, <4>6
      <3>3. QED
        BY <3>1, <3>2 DEF Follows
    <2>5. QED
      BY <2>3, <2>4
  <1>5. QED
    BY <1>3, <1>4

\* What nextCronMatch finds in a number of steps, from what it finds in one
\* less.
Scans(f, cron, left) ==
  f[left] = [m \in Instant_ |->
               IF left = 0 \/ InstantOf(Wall[m] + 1) = 0 THEN 0
               ELSE IF CronMatches(cron, InstantOf(Wall[m] + 1)) THEN InstantOf(Wall[m] + 1)
               ELSE f[left - 1][InstantOf(Wall[m] + 1)]]

\* The function nextCronMatch is translated to.
Scanner(f, cron) ==
  f = [left \in 0 .. Len(Wall) |->
         [m \in Instant_ |->
            IF left = 0 \/ InstantOf(Wall[m] + 1) = 0 THEN 0
            ELSE IF CronMatches(cron, InstantOf(Wall[m] + 1)) THEN InstantOf(Wall[m] + 1)
            ELSE f[left - 1][InstantOf(Wall[m] + 1)]]]

\* There is such a function: one for n - 1 steps is extended to n.
LEMMA ScannerExists ==
  ASSUME NEW cron
  PROVE  \E f : Scanner(f, cron)
  <1> DEFINE Is(n, f) == /\ f = [i \in 0 .. n |-> f[i]]
                         /\ \A i \in 0 .. n : Scans(f, cron, i)
             Missing == {n \in Nat : n <= Len(Wall) /\ ~ \E f : Is(n, f)}
  <1>1. Missing = {}
    <2>1. SUFFICES ASSUME Missing # {} PROVE FALSE
      OBVIOUS
    <2>2. PICK n \in Missing : \A k \in Missing : ~(k < n)
      BY <2>1, Least
    <2>3. n \in Nat /\ n > 0
      <3> DEFINE zero == [i \in 0 .. 0 |-> [m \in Instant_ |-> 0]]
      <3>1. zero = [i \in 0 .. 0 |-> zero[i]] /\ zero[0] = [m \in Instant_ |-> 0]
            /\ \A i \in 0 .. 0 : i = 0
        OBVIOUS
      <3> HIDE DEF zero
      <3>2. Is(0, zero)
        BY <3>1 DEF Scans
      <3> HIDE DEF Is
      <3>3. 0 \notin Missing
        BY <3>2
      <3>4. QED
        BY <2>2, <3>3
    <2>4. PICK g : Is(n - 1, g)
      <3> HIDE DEF Is
      <3>1. QED
        BY <2>2, <2>3
    <2> DEFINE top == [m \in Instant_ |->
                         IF n = 0 \/ InstantOf(Wall[m] + 1) = 0 THEN 0
                         ELSE IF CronMatches(cron, InstantOf(Wall[m] + 1))
                              THEN InstantOf(Wall[m] + 1)
                         ELSE g[n - 1][InstantOf(Wall[m] + 1)]]
               h == [i \in 0 .. n |-> IF i = n THEN top ELSE g[i]]
    <2> HIDE DEF top
    <2>5. /\ h = [i \in 0 .. n |-> h[i]]
          /\ \A i \in 0 .. n - 1 : h[i] = g[i]
          /\ h[n] = top
      BY <2>3
    <2> HIDE DEF h
    <2>6. ASSUME NEW i \in 0 .. n PROVE Scans(h, cron, i)
      <3>1. CASE i = n
        <4>1. n - 1 \in 0 .. n - 1
          BY <2>3
        <4>2. h[n - 1] = g[n - 1]
          BY <2>5, <4>1
        <4>3. QED
          BY <2>3, <2>5, <3>1, <4>2 DEF Scans, top
      <3>2. CASE i # n
        <4>1. i \in 0 .. n - 1 /\ (i # 0 => i - 1 \in 0 .. n - 1)
          BY <2>3, <3>2
        <4>2. h[i] = g[i] /\ (i # 0 => h[i - 1] = g[i - 1]) /\ Scans(g, cron, i)
          BY <2>4, <2>5, <4>1
        <4>3. QED
          BY <4>2 DEF Scans
      <3>3. QED
        BY <3>1, <3>2
    <2>7. Is(n, h)
      BY <2>5, <2>6
    <2>8. QED
      BY <2>7, <2>2
  <1>2. Len(Wall) \in Nat
    BY CronAssumption
  <1>3. PICK f : Is(Len(Wall), f)
    <2> HIDE DEF Is
    <2>1. QED
      BY <1>1, <1>2
  <1>4. QED
    BY <1>3 DEF Scans, Scanner

\* n is the first instant after m that matches and is no repetition, 0 if
\* there is none.
Finds(cron, m, n) ==
  \/ n = 0 /\ \A k \in Instant_ \ Repeats : k > m => ~CronMatches(cron, k)
  \/ /\ n \in Instant_ \ Repeats /\ m < n /\ CronMatches(cron, n)
     /\ \A k \in Instant_ \ Repeats : k > m /\ k < n => ~CronMatches(cron, k)

\* That is what the scan finds, if it has steps enough: a least number of
\* steps for which it would not is impossible.
LEMMA ScanFinds ==
  ASSUME NEW cron, NEW m \in Instant_
  PROVE  Finds(cron, Floor(m), NextCronMatch(cron, m))
  <1> DEFINE f == CHOOSE g : Scanner(g, cron)
  <1>1. Scanner(f, cron)
    BY ScannerExists
  <1>2. NextCronMatch(cron, m) = f[Len(Wall)][Floor(m)]
    BY DEF NextCronMatch, Scanner
  <1> HIDE DEF f
  <1>3. \A left \in 0 .. Len(Wall) : Scans(f, cron, left)
    BY <1>1 DEF Scanner, Scans
  <1>4. \A k \in Instant_ : k \in Nat /\ k >= 1 /\ k <= Len(Wall)
    BY CronAssumption DEF Instant_
  <1>5. Len(Wall) \in Nat
    BY CronAssumption
  <1> DEFINE Good(k, left) == Finds(cron, k, f[left][k])
             Bad == {left \in Nat : left <= Len(Wall) /\
                       \E k \in Instant_ \ Repeats : left >= Len(Wall) - k /\ ~Good(k, left)}
  <1>6. Bad = {}
    <2>1. SUFFICES ASSUME Bad # {} PROVE FALSE
      OBVIOUS
    <2>2. PICK left \in Bad : \A j \in Bad : ~(j < left)
      <3>1. Bad \in SUBSET Nat
        OBVIOUS
      <3> HIDE DEF Bad
      <3>2. QED
        BY <2>1, <3>1, Least
    <2>3. PICK k \in Instant_ \ Repeats : left >= Len(Wall) - k /\ ~Good(k, left)
      <3> HIDE DEF Good
      <3>1. QED
        BY <2>2
    <2>4. left \in Nat /\ left <= Len(Wall) /\ left \in 0 .. Len(Wall)
      BY <1>5, <2>2
    <2> DEFINE n == InstantOf(Wall[k] + 1)
    <2>5. Follows(k, n)
      BY <2>3, NextMinute
    <2>6. f[left][k] = IF left = 0 \/ n = 0 THEN 0
                       ELSE IF CronMatches(cron, n) THEN n ELSE f[left - 1][n]
      <3>1. Scans(f, cron, left) /\ k \in Instant_
        BY <1>3, <2>3, <2>4
      <3>2. QED
        BY <3>1 DEF Scans
    <2> HIDE DEF n
    <2>7. CASE n = 0
      <3>1. \A j \in Instant_ \ Repeats : j <= k
        BY <1>4, <2>5, <2>7 DEF Follows
      <3>2. QED
        BY <1>4, <2>3, <2>6, <2>7, <3>1 DEF Finds
    <2>8. CASE n # 0
      <3>1. n \in Instant_ \ Repeats /\ k < n /\ \A j \in Instant_ \ Repeats : j <= k \/ n <= j
        BY <2>5, <2>8 DEF Follows
      <3>2. left # 0 /\ left - 1 \in Nat /\ left - 1 >= Len(Wall) - n /\ left - 1 <= Len(Wall)
        BY <1>4, <1>5, <2>3, <2>4, <3>1
      <3>3. CASE CronMatches(cron, n)
        <4>1. f[left][k] = n
          BY <2>6, <2>8, <3>2, <3>3
        <4>2. \A j \in Instant_ \ Repeats : ~(j > k /\ j < n)
          BY <1>4, <2>3, <3>1
        <4>3. QED
          BY <2>3, <3>1, <3>3, <4>1, <4>2 DEF Finds
      <3>4. CASE ~CronMatches(cron, n)
        <4>1. f[left][k] = f[left - 1][n]
          BY <2>6, <2>8, <3>2, <3>4
        <4>2. Good(n, left - 1)
          <5> HIDE DEF Good
          <5>1. QED
            BY <1>4, <2>2, <2>4, <3>1, <3>2
        <4> DEFINE e == f[left - 1][n]
        <4>3. Finds(cron, n, e)
          BY <4>2
        <4> HIDE DEF e
        <4>4. \A j \in Instant_ \ Repeats : j > k => j = n \/ j > n
          BY <1>4, <2>3, <3>1
        <4>5. Finds(cron, k, e)
          <5>1. CASE e = 0
            <6>1. \A j \in Instant_ \ Repeats : j > n => ~CronMatches(cron, j)
              BY <1>4, <4>3, <5>1 DEF Finds
            <6>2. QED
              BY <3>4, <4>4, <5>1, <6>1 DEF Finds
          <5>2. CASE e # 0
            <6>1. /\ e \in Instant_ \ Repeats /\ n < e /\ CronMatches(cron, e)
                  /\ \A j \in Instant_ \ Repeats : j > n /\ j < e => ~CronMatches(cron, j)
              BY <4>3, <5>2 DEF Finds
            <6>2. k < e
              BY <1>4, <2>3, <3>1, <6>1
            <6>3. QED
              BY <3>4, <4>4, <6>1, <6>2 DEF Finds
          <5>3. QED
            BY <5>1, <5>2
        <4>6. QED
          BY <2>3, <4>1, <4>5 DEF e
      <3>5. QED
        BY <3>3, <3>4
    <2>9. QED
      BY <2>7, <2>8
  <1>7. Floor(m) \in Instant_ \ Repeats
    BY FloorFirst
  <1>8. Good(Floor(m), Len(Wall))
    <2>1. Len(Wall) >= Len(Wall) - Floor(m)
      BY <1>4, <1>5, <1>7
    <2> HIDE DEF Good
    <2>2. QED
      BY <1>5, <1>6, <1>7, <2>1
  <1>9. QED
    BY <1>2, <1>8

\* It is an instant, or 0.
LEMMA NextCronMatchType ==
  ASSUME NEW cron, NEW m \in Instant_
  PROVE  NextCronMatch(cron, m) \in Minute
  BY ScanFinds, CronAssumption DEF Finds, Instant_, Minute


-----------------------------------------------------------------------------
(* The inductive invariant of the scheduler. *)

\* Of a schedule that was never run by triggerNow there is at most one run in
\* progress, one the tick has started, and it is in executing.
OneRun ==
  \A r \in runs : r.id \notin triggered =>
    /\ r.by = "tick" /\ r.id \in executing
    /\ \A q \in runs : q.id = r.id => q = r

\* nextRunAt is what nextCronMatch has found from the instant it started at.
NextFound ==
  \A i \in Ids : Exists(i) =>
    /\ files[i].from \in Instant_
    /\ files[i].next = NextCronMatch(CronOf(files[i]), files[i].from)

\* What runs was a definition, and at an instant.
RunsExist == \A r \in runs : r.def.version # 0 /\ r.at \in Instant_

\* The tick under way takes lastTick for a minute; without one there is no view.
TickIs ==
  /\ lastTick <= Now
  /\ tickAt # 0 => lastTick # 0 /\ tickAt = Floor(lastTick)

SchedulerInv == SchedulerTypeOK /\ OneRun /\ NextFound /\ RunsExist /\ TickIs

\* No definition is newer than the last that was created.
VersionsOld ==
  /\ \A i \in Ids : files[i].version <= created[i] /\ view[i].version <= created[i]
  /\ \A r \in runs : r.def.version <= created[r.id]
  /\ \A x \in completed : x[2] <= created[x[1]]

\* The instants at which this process or one before may have had a tick.
Ticked == {t \in Instant_ : t <= Now /\ (lastTick # 0 => t <= lastTick)}

\* Each run the tick starts is for the minute of a tick, an earlier one than
\* the tick under way, and its expression matches then.
RunsDue ==
  \A r \in runs : r.by = "tick" =>
    /\ lastTick # 0 /\ CronMatches(CronOf(r.def), r.at)
    /\ \E t \in Ticked : Floor(t) = r.at /\ (tickAt # 0 => t < lastTick)

\* So was each run that is recorded, and the time it ended has come.
CompletedPassed ==
  \A x \in completed : x[4] <= Now /\ \E t \in Ticked : Floor(t) = x[3]

\* A definition was last run for another minute than at, and after it.
Moved(ticks, at, definition) ==
  /\ definition.last # at
  /\ \E t \in Instant_, c \in ticks : t < c /\ Floor(t) = at /\ Floor(c) = definition.last
  /\ CronMatches(CronOf(definition), definition.last)

\* What has been run for a minute knows it, or has been run after it.
Knows(ticks, at, definition) == definition.last = at \/ Moved(ticks, at, definition)

\* x is the record of a run of this version of i, which only ticks have run.
RecordOf(x, i, definition) ==
  i \notin triggered /\ x[1] = i /\ definition.version = x[2]

FilesKnow ==
  \A x \in completed, i \in Ids :
    RecordOf(x, i, files[i]) => Knows(Ticked, x[3], files[i])

\* A run in progress will, when it is recorded.
RunsKnow ==
  \A x \in completed, r \in runs :
    RecordOf(x, r.id, r.def) => Knows(Ticked, x[3], [r.def EXCEPT !.last = r.at])

\* What loadAll has read does, unless the run ended after the tick had begun,
\* for an earlier one that showed the same time.
ViewKnows ==
  tickAt # 0 =>
    \A x \in completed, i \in Ids : RecordOf(x, i, view[i]) =>
      \/ Knows(Ticked, x[3], view[i])
      \/ x[4] >= lastTick /\ \E t \in Instant_ : t < lastTick /\ Floor(t) = x[3]

MinuteInv ==
  VersionsOld /\ RunsDue /\ CompletedPassed /\ FilesKnow /\ RunsKnow /\ ViewKnows


-----------------------------------------------------------------------------
(* The steps that may disturb it. *)

\* The instants to come: the next one is later.
LEMMA ClockAhead ==
  ASSUME SchedulerTypeOK
  PROVE  /\ clock \in Seq(Instant_) /\ Now \in Instant_
         /\ Len(clock) > 1 =>
              /\ Tail(clock) \in UNION {Suffixes(span) : span \in Spans} /\ Tail(clock) # <<>>
              /\ Head(Tail(clock)) \in Instant_ /\ Now < Head(Tail(clock))
  <1>1. PICK span \in Spans : clock \in Suffixes(span)
    BY DEF SchedulerTypeOK
  <1>2. span \in Seq(Instant_) /\ \A k, m \in DOMAIN span : k < m => span[k] < span[m]
    BY SchedulerAssumption
  <1>3. clock # <<>>
    BY DEF SchedulerTypeOK
  <1>4. PICK l \in 1 .. Len(span) : clock = SubSeq(span, l, Len(span))
    BY <1>1, <1>3 DEF Suffixes
  <1>5. /\ Len(span) \in Nat /\ l \in Nat /\ l >= 1 /\ l <= Len(span)
        /\ DOMAIN span = 1 .. Len(span)
    BY <1>2, <1>4
  <1>6. /\ clock \in Seq(Instant_) /\ Len(clock) = Len(span) - l + 1
        /\ clock[1] = span[l]
    BY <1>2, <1>4, <1>5
  <1>7. Now = span[l] /\ Now \in Instant_
    BY <1>2, <1>5, <1>6 DEF Now
  <1>8. ASSUME Len(clock) > 1
        PROVE  /\ Tail(clock) \in UNION {Suffixes(s) : s \in Spans} /\ Tail(clock) # <<>>
               /\ Head(Tail(clock)) \in Instant_ /\ Now < Head(Tail(clock))
    <2>1. l + 1 \in 1 .. Len(span)
      BY <1>5, <1>6, <1>8
    <2> DEFINE rest == SubSeq(span, l + 1, Len(span))
    <2>2. rest \in Seq(Instant_) /\ Len(rest) = Len(span) - l /\ Len(rest) >= 1
          /\ \A k \in 1 .. Len(rest) : rest[k] = span[l + k]
      BY <1>2, <1>5, <2>1
    <2>3. Tail(clock) \in Seq(Instant_) /\ Len(Tail(clock)) = Len(span) - l
      BY <1>5, <1>6, <1>8
    <2>4. ASSUME NEW k \in 1 .. Len(span) - l PROVE Tail(clock)[k] = span[l + k]
      <3>1. Tail(clock)[k] = clock[k + 1]
        BY <1>5, <1>6, <1>8
      <3>2. clock[k + 1] = span[l + k]
        BY <1>2, <1>4, <1>5
      <3>3. QED
        BY <3>1, <3>2
    <2>5. Tail(clock) = rest
      <3> HIDE DEF rest
      <3>1. QED
        BY SMTT(30), <2>2, <2>3, <2>4
    <2>6. rest \in Suffixes(span)
      BY <2>1 DEF Suffixes
    <2>7. Head(rest) = span[l + 1] /\ rest # <<>>
      <3>1. rest[1] = span[l + 1] /\ rest # <<>>
        BY <2>2
      <3> HIDE DEF rest
      <3>2. QED
        BY <2>2, <3>1
    <2>8. span[l] < span[l + 1] /\ span[l + 1] \in Instant_
      BY <1>2, <1>5, <2>1
    <2>9. QED
      BY <1>7, <2>5, <2>6, <2>7, <2>8
  <1>9. QED
    BY <1>6, <1>7, <1>8

\* What an instant is, as a value of nextRunAt and lastRunAt.
LEMMA Minutes == Instant_ \subseteq Minute /\ 0 \in Minute /\ \A m \in Instant_ : m \in Nat /\ m # 0
  BY CronAssumption DEF Instant_, Minute

\* schedule_task.
LEMMA CreateStep ==
  ASSUME SchedulerInv, NEW i \in Ids, NEW version \in 1 .. MaxVersion, Create(i, version)
  PROVE  SchedulerInv'
  <1> DEFINE fresh == [Absent EXCEPT !.version = version, !.from = Now]
             new == [fresh EXCEPT !.next = NextCronMatch(CronOf(fresh), Now)]
  <1>1. /\ files' = [files EXCEPT ![i] = new]
        /\ created' = [created EXCEPT ![i] = version] /\ wanted' = [wanted EXCEPT ![i] = version]
        /\ UNCHANGED <<clock, tickVars, executing, runs, history>>
    BY DEF Create
  <1>2. SchedulerTypeOK /\ Now \in Instant_ /\ Now' = Now
    BY <1>1, ClockAhead DEF SchedulerInv, Now
  <1>3. fresh.version = version /\ fresh.from = Now
    BY DEF Absent
  <1>4. /\ new.version = version /\ new.from = Now
        /\ new.next = NextCronMatch(CronOf(fresh), Now)
    BY <1>3
  <1>5. CronOf(new) = CronOf(fresh)
    BY <1>3, <1>4 DEF CronOf
  <1>6. new.from = Now /\ new.version = version /\ new.next = NextCronMatch(CronOf(new), Now)
    BY <1>4, <1>5
  <1>7. new \in Definition
    <2>1. NextCronMatch(CronOf(fresh), Now) \in Minute
      BY <1>2, NextCronMatchType
    <2>2. version \in 0 .. MaxVersion
      OBVIOUS
    <2>3. QED
      BY <1>2, <2>1, <2>2, Minutes DEF Definition, Absent
  <1> HIDE DEF fresh, new
  <1>8. SchedulerTypeOK'
    <2>1. files' \in [Ids -> Definition]
      BY <1>1, <1>2, <1>7 DEF SchedulerTypeOK
    <2>2. created' \in [Ids -> 0 .. MaxVersion] /\ wanted' \in [Ids -> 0 .. MaxVersion]
      BY <1>1, <1>2 DEF SchedulerTypeOK
    <2>3. QED
      BY <1>1, <1>2, <2>1, <2>2 DEF SchedulerTypeOK, tickVars, history
  <1>9. NextFound'
    BY <1>1, <1>2, <1>6 DEF NextFound, Exists, SchedulerInv, SchedulerTypeOK, CronOf
  <1>10. OneRun' /\ RunsExist' /\ TickIs'
    BY <1>1, <1>2 DEF SchedulerInv, OneRun, RunsExist, TickIs, tickVars, history
  <1>11. QED
    BY <1>8, <1>9, <1>10 DEF SchedulerInv

\* The tick starts, reads a file, or fires.
LEMMA TickStartStep ==
  ASSUME SchedulerInv, TickStart
  PROVE  SchedulerInv'
  <1>1. SchedulerTypeOK /\ Now \in Instant_ /\ Now' = Now
    BY ClockAhead DEF SchedulerInv, TickStart, Now
  <1>2. Floor(Now) \in Minute /\ Now \in Minute /\ Now # 0
    BY <1>1, FloorIs, Minutes
  <1>3. Absent \in Definition
    BY SchedulerAssumption, Minutes DEF Absent, Definition
  <1>4. SchedulerTypeOK'
    BY <1>1, <1>2, <1>3 DEF SchedulerTypeOK, TickStart, userVars, history
  <1>5. OneRun' /\ RunsExist' /\ NextFound'
    BY <1>1 DEF SchedulerInv, TickStart, OneRun, RunsExist, NextFound, Exists, history
  <1>6. TickIs'
    BY <1>1, <1>2, Minutes DEF TickStart, TickIs, Instant_
  <1>7. QED
    BY <1>4, <1>5, <1>6 DEF SchedulerInv

LEMMA TickReadStep ==
  ASSUME SchedulerInv, NEW i \in Ids, TickRead(i)
  PROVE  SchedulerInv'
  <1>1. SchedulerTypeOK /\ Now' = Now
    BY DEF SchedulerInv, TickRead, Now
  <1>2. SchedulerTypeOK'
    BY <1>1 DEF SchedulerTypeOK, TickRead, userVars, history
  <1>3. OneRun' /\ RunsExist' /\ NextFound' /\ TickIs'
    BY <1>1 DEF SchedulerInv, TickRead, OneRun, RunsExist, NextFound, Exists, TickIs, history
  <1>4. QED
    BY <1>2, <1>3 DEF SchedulerInv

\* The runs a tick starts.
Started(due, slot) ==
  {[slot |-> slot[i], id |-> i, def |-> view[i], at |-> tickAt, by |-> "tick"] : i \in due}

LEMMA TickFireStep ==
  ASSUME SchedulerInv, TickFire
  PROVE  SchedulerInv'
  <1>1. PICK due \in SUBSET {i \in Ids : Eligible(i)} :
          \E slot \in [due -> FreeSlots] :
            runs' = runs \cup Started(due, slot) /\ executing' = executing \cup due
    BY DEF TickFire, Started
  <1>2. PICK slot \in [due -> FreeSlots] :
          runs' = runs \cup Started(due, slot) /\ executing' = executing \cup due
    BY <1>1
  <1>3. /\ tickAt # 0 /\ tickAt' = 0 /\ view' = [i \in Ids |-> Absent]
        /\ UNCHANGED <<clock, files, lastTick, toRead, userVars, history>>
    BY DEF TickFire
  <1>4. SchedulerTypeOK /\ Now' = Now
    BY <1>3 DEF SchedulerInv, Now
  <1>5. \A i \in due : i \in Ids /\ i \notin executing /\ view[i].version # 0
    BY <1>1 DEF Eligible
  <1>6. tickAt \in Instant_
    BY <1>3, <1>4 DEF SchedulerTypeOK, Minute, Instant_
  <1>7. ASSUME NEW i \in due
        PROVE  [slot |-> slot[i], id |-> i, def |-> view[i], at |-> tickAt, by |-> "tick"] \in Run
    <2>1. slot[i] \in Slots /\ view[i] \in Definition /\ i \in Ids /\ tickAt \in Minute
      BY <1>2, <1>4, <1>5, <1>7 DEF FreeSlots, SchedulerTypeOK
    <2>2. QED
      BY <2>1 DEF Run
  <1>8. SchedulerTypeOK'
    <2>1. runs' \subseteq Run /\ executing' \subseteq Ids
      BY <1>2, <1>4, <1>5, <1>7 DEF SchedulerTypeOK, Started
    <2>2. Absent \in Definition /\ 0 \in Minute
      BY SchedulerAssumption, Minutes DEF Absent, Definition
    <2>3. QED
      BY <1>3, <1>4, <2>1, <2>2 DEF SchedulerTypeOK, userVars, history
  <1>9. \A r \in Started(due, slot) :
          /\ r.id \in due /\ r.by = "tick" /\ r.at = tickAt /\ r.def.version # 0
          /\ r = [slot |-> slot[r.id], id |-> r.id, def |-> view[r.id], at |-> tickAt, by |-> "tick"]
    BY <1>5 DEF Started
  <1>10. OneRun'
    <2> SUFFICES ASSUME NEW r \in runs', r.id \notin triggered
                 PROVE  /\ r.by = "tick" /\ r.id \in executing'
                        /\ \A q \in runs' : q.id = r.id => q = r
      BY <1>3 DEF OneRun, history
    <2>1. OneRun
      BY DEF SchedulerInv
    <2>2. CASE r \in runs
      <3>1. r.id \in executing /\ r.by = "tick" /\ \A q \in runs : q.id = r.id => q = r
        BY <2>1, <2>2 DEF OneRun
      <3>2. r.id \notin due
        BY <1>5, <3>1
      <3>3. QED
        BY <1>2, <1>9, <3>1, <3>2
    <2>3. CASE r \in Started(due, slot)
      <3>1. r.id \in due /\ r.by = "tick" /\ r.id \notin executing
        BY <1>5, <1>9, <2>3
      <3>2. \A q \in runs : q.id # r.id
        BY <2>1, <3>1 DEF OneRun
      <3>3. QED
        BY <1>2, <1>9, <2>3, <3>1, <3>2
    <2>4. QED
      BY <1>2, <2>2, <2>3
  <1>11. RunsExist'
    BY <1>2, <1>6, <1>9 DEF SchedulerInv, RunsExist
  <1>12. NextFound' /\ TickIs'
    BY <1>3, <1>4 DEF SchedulerInv, NextFound, Exists, TickIs
  <1>13. QED
    BY <1>8, <1>10, <1>11, <1>12 DEF SchedulerInv

\* triggerNow.
LEMMA TriggerStep ==
  ASSUME SchedulerInv, NEW i \in Ids, TriggerNow(i)
  PROVE  SchedulerInv'
  <1>1. PICK k \in FreeSlots :
          runs' = runs \cup {[slot |-> k, id |-> i, def |-> files[i], at |-> Now, by |-> "trigger"]}
    BY DEF TriggerNow
  <1>2. /\ Exists(i) /\ executing' = executing \cup {i} /\ triggers < MaxTriggers
        /\ triggers' = triggers + 1 /\ triggered' = triggered \cup {i}
        /\ UNCHANGED <<clock, files, tickVars, userVars, completed>>
    BY DEF TriggerNow
  <1>3. SchedulerTypeOK /\ Now' = Now /\ Now \in Instant_
    BY <1>2, ClockAhead DEF SchedulerInv, Now
  <1> DEFINE new == [slot |-> k, id |-> i, def |-> files[i], at |-> Now, by |-> "trigger"]
  <1>4. new \in Run /\ new.id = i /\ new.def.version # 0 /\ new.at = Now
    BY <1>2, <1>3, Minutes DEF FreeSlots, SchedulerTypeOK, Run, Exists
  <1>5. runs' = runs \cup {new}
    BY <1>1
  <1> HIDE DEF new
  <1>6. SchedulerTypeOK'
    <2>1. triggers' \in 0 .. MaxTriggers
      BY <1>2, <1>3, SchedulerAssumption DEF SchedulerTypeOK
    <2>2. runs' \subseteq Run /\ executing' \subseteq Ids /\ triggered' \subseteq Ids
      BY <1>2, <1>3, <1>4, <1>5 DEF SchedulerTypeOK
    <2>3. QED
      BY <1>2, <1>3, <2>1, <2>2 DEF SchedulerTypeOK, tickVars, userVars
  <1>7. OneRun' /\ RunsExist'
    BY <1>2, <1>3, <1>4, <1>5 DEF SchedulerInv, OneRun, RunsExist
  <1>8. NextFound' /\ TickIs'
    BY <1>2, <1>3 DEF SchedulerInv, NextFound, Exists, TickIs, tickVars
  <1>9. QED
    BY <1>6, <1>7, <1>8 DEF SchedulerInv

\* A run ends, and its definition is saved.
LEMMA RunOverStep ==
  ASSUME SchedulerInv, NEW r \in runs, RunOver(r), triggered' = triggered
  PROVE  /\ OneRun' /\ RunsExist' /\ runs' \subseteq Run /\ executing' \subseteq Ids
         /\ r.id \notin triggered => \A q \in runs' : q.id # r.id
  <1>1. runs' = runs \ {r} /\ executing' = executing \ {r.id}
    BY DEF RunOver
  <1>2. OneRun
    BY DEF SchedulerInv
  <1>3. OneRun'
    <2> SUFFICES ASSUME NEW q \in runs', q.id \notin triggered
                 PROVE  /\ q.by = "tick" /\ q.id \in executing'
                        /\ \A p \in runs' : p.id = q.id => p = q
      BY DEF OneRun
    <2>1. q \in runs /\ q # r
      BY <1>1
    <2>2. /\ q.by = "tick" /\ q.id \in executing
          /\ \A p \in runs : p.id = q.id => p = q
      BY <1>2, <2>1 DEF OneRun
    <2>3. r.id # q.id
      BY <2>1, <2>2
    <2>4. QED
      BY <1>1, <2>2, <2>3
  <1>4. RunsExist' /\ runs' \subseteq Run /\ executing' \subseteq Ids
    BY <1>1 DEF SchedulerInv, RunsExist, SchedulerTypeOK
  <1>5. r.id \notin triggered => \A q \in runs' : q.id # r.id
    BY <1>1, <1>2 DEF OneRun
  <1>6. QED
    BY <1>3, <1>4, <1>5

\* The definition it saves.
LEMMA UpdatedIs ==
  ASSUME SchedulerInv, NEW r \in runs
  PROVE  /\ r \in Run /\ r.id \in Ids /\ r.def.version \in 1 .. MaxVersion /\ r.at \in Instant_
         /\ Updated(r) \in Definition /\ CronOf(Updated(r)) = CronOf(r.def)
         /\ Updated(r).version = r.def.version /\ Updated(r).last = r.at
         /\ Updated(r).from = r.at
         /\ Updated(r).next = NextCronMatch(CronOf(r.def), r.at)
  <1>1. r \in Run /\ r.at \in Instant_ /\ r.def.version # 0
    BY DEF SchedulerInv, SchedulerTypeOK, RunsExist
  <1>2. r.id \in Ids /\ r.def \in Definition
    BY <1>1 DEF Run
  <1>3. NextCronMatch(CronOf(r.def), r.at) \in Minute
    BY <1>1, NextCronMatchType
  <1> DEFINE next == NextCronMatch(CronOf(r.def), r.at)
  <1>4. /\ Updated(r).version = r.def.version /\ Updated(r).last = r.at
        /\ Updated(r).next = next /\ Updated(r).from = r.at
    BY <1>2 DEF Updated, Definition
  <1>5. r.def.version \in 1 .. MaxVersion
    BY <1>1, <1>2, SchedulerAssumption DEF Definition
  <1> HIDE DEF next
  <1>6. Updated(r) \in Definition
    <2>1. next \in Minute /\ r.at \in Minute
      BY <1>1, <1>3, Minutes DEF next
    <2>2. QED
      BY <1>2, <2>1 DEF Updated, Definition, next
  <1>7. CronOf(Updated(r)) = CronOf(r.def)
    BY <1>4 DEF CronOf
  <1>8. QED
    BY <1>1, <1>2, <1>4, <1>5, <1>6, <1>7 DEF next

LEMMA RunEndsStep ==
  ASSUME SchedulerInv, NEW r \in runs, RunEnds(r)
  PROVE  SchedulerInv'
  <1>1. /\ RunOver(r) /\ files' = [files EXCEPT ![r.id] = Updated(r)]
        /\ completed' = completed \cup
             (IF r.by = "tick" THEN {<<r.id, r.def.version, r.at, Now>>} ELSE {})
        /\ UNCHANGED <<clock, tickVars, userVars, triggers, triggered>>
    BY DEF RunEnds
  <1>2. SchedulerTypeOK /\ Now \in Instant_ /\ Now' = Now
    BY <1>1, ClockAhead DEF SchedulerInv, Now
  <1>3. OneRun' /\ RunsExist' /\ runs' \subseteq Run /\ executing' \subseteq Ids
    BY <1>1, RunOverStep
  <1>4. /\ r \in Run /\ r.id \in Ids /\ r.def.version \in 1 .. MaxVersion /\ r.at \in Instant_
        /\ Updated(r) \in Definition /\ CronOf(Updated(r)) = CronOf(r.def)
        /\ Updated(r).from = r.at
        /\ Updated(r).next = NextCronMatch(CronOf(r.def), r.at)
    BY UpdatedIs
  <1>5. SchedulerTypeOK'
    <2>1. files' \in [Ids -> Definition]
      BY <1>1, <1>2, <1>4 DEF SchedulerTypeOK
    <2>2. completed' \subseteq Ids \X (1 .. MaxVersion) \X Minute \X Minute
      BY <1>1, <1>2, <1>4, Minutes DEF SchedulerTypeOK
    <2>3. QED
      BY <1>1, <1>2, <1>3, <2>1, <2>2 DEF SchedulerTypeOK, tickVars, userVars
  <1>6. NextFound'
    BY <1>1, <1>2, <1>4 DEF NextFound, Exists, SchedulerInv, SchedulerTypeOK
  <1>7. TickIs'
    BY <1>1, <1>2 DEF SchedulerInv, TickIs, tickVars
  <1>8. QED
    BY <1>3, <1>5, <1>6, <1>7 DEF SchedulerInv

\* The process is started again.
LEMMA RestartSchedulerStep ==
  ASSUME SchedulerInv, Restart
  PROVE  SchedulerInv'
  <1>1. SchedulerTypeOK /\ Now' = Now /\ Now \in Instant_
    BY ClockAhead DEF SchedulerInv, Restart, Now
  <1>2. Absent \in Definition /\ 0 \in Minute
    BY SchedulerAssumption, Minutes DEF Absent, Definition
  <1>3. SchedulerTypeOK'
    BY <1>1, <1>2 DEF SchedulerTypeOK, Restart, userVars, history
  <1>4. OneRun' /\ RunsExist' /\ NextFound'
    BY <1>1 DEF SchedulerInv, Restart, OneRun, RunsExist, NextFound, Exists
  <1>5. TickIs'
    BY <1>1, Minutes DEF Restart, TickIs
  <1>6. QED
    BY <1>3, <1>4, <1>5 DEF SchedulerInv


\* Every step keeps the invariant.
LEMMA SchedulerStep ==
  ASSUME SchedulerInv, [SchedulerNext]_schedulerVars
  PROVE  SchedulerInv'
  <1>1. ASSUME NEW i \in Ids, NEW version \in 1 .. MaxVersion, Create(i, version)
        PROVE  SchedulerInv'
    BY <1>1, CreateStep
  <1>2. ASSUME NEW i \in Ids, Cancel(i) PROVE SchedulerInv'
    <2>1. SchedulerTypeOK /\ Now' = Now
      BY <1>2 DEF SchedulerInv, Cancel, Now
    <2>2. Absent \in Definition /\ Absent.version = 0 /\ 0 \in 0 .. MaxVersion
      BY SchedulerAssumption, Minutes DEF Absent, Definition
    <2>3. SchedulerTypeOK'
      BY <1>2, <2>1, <2>2 DEF SchedulerTypeOK, Cancel, tickVars, history
    <2>4. NextFound'
      BY <1>2, <2>1, <2>2 DEF SchedulerInv, SchedulerTypeOK, NextFound, Exists, Cancel
    <2>5. OneRun' /\ RunsExist' /\ TickIs'
      BY <1>2, <2>1 DEF SchedulerInv, Cancel, OneRun, RunsExist, TickIs, tickVars, history
    <2>6. QED
      BY <2>3, <2>4, <2>5 DEF SchedulerInv
  <1>3. ASSUME NEW i \in Ids, TickRead(i) PROVE SchedulerInv'
    BY <1>3, TickReadStep
  <1>4. ASSUME NEW i \in Ids, TriggerNow(i) PROVE SchedulerInv'
    BY <1>4, TriggerStep
  <1>5. CASE ClockAdvances
    <2>1. SchedulerTypeOK /\ clock' = Tail(clock) /\ Len(clock) > 1
          /\ UNCHANGED <<files, tickVars, executing, runs, userVars, history>>
      BY <1>5 DEF SchedulerInv, ClockAdvances
    <2>2. /\ clock' \in UNION {Suffixes(span) : span \in Spans} /\ clock' # <<>>
          /\ Now \in Instant_ /\ Now' \in Instant_ /\ Now < Now'
      BY <2>1, ClockAhead DEF Now
    <2>3. SchedulerTypeOK'
      BY <2>1, <2>2 DEF SchedulerTypeOK, tickVars, userVars, history
    <2>4. TickIs'
      <3>1. lastTick \in Nat /\ Now \in Nat /\ Now' \in Nat
        BY <2>1, <2>2, CronAssumption DEF SchedulerTypeOK, Minute, Instant_
      <3>2. QED
        BY <2>1, <2>2, <3>1 DEF SchedulerInv, TickIs, tickVars
    <2>5. OneRun' /\ RunsExist' /\ NextFound'
      BY <2>1 DEF SchedulerInv, OneRun, RunsExist, NextFound, Exists, history
    <2>6. QED
      BY <2>3, <2>4, <2>5 DEF SchedulerInv
  <1>6. CASE TickStart
    BY <1>6, TickStartStep
  <1>7. CASE TickFire
    BY <1>7, TickFireStep
  <1>8. CASE Restart
    BY <1>8, RestartSchedulerStep
  <1>9. ASSUME NEW r \in runs, RunEnds(r) PROVE SchedulerInv'
    BY <1>9, RunEndsStep
  <1>10. ASSUME NEW r \in runs, RunEndsUnsaved(r) PROVE SchedulerInv'
    <2>1. /\ RunOver(r)
          /\ UNCHANGED <<clock, files, tickVars, userVars, history>>
      BY <1>10 DEF RunEndsUnsaved
    <2>2. SchedulerTypeOK /\ Now' = Now
      BY <2>1 DEF SchedulerInv, Now
    <2>3. OneRun' /\ RunsExist' /\ runs' \subseteq Run /\ executing' \subseteq Ids
      BY <1>10, <2>1, RunOverStep DEF history
    <2>4. SchedulerTypeOK' /\ NextFound' /\ TickIs'
      BY <2>1, <2>2, <2>3
      DEF SchedulerInv, SchedulerTypeOK, NextFound, Exists, TickIs, tickVars, userVars, history
    <2>5. QED
      BY <2>3, <2>4 DEF SchedulerInv
  <1>11. CASE UNCHANGED schedulerVars
    BY <1>11 DEF schedulerVars, SchedulerInv, SchedulerTypeOK, OneRun, NextFound, Exists, RunsExist,
       TickIs, Now, tickVars, userVars, history
  <1>12. QED
    BY <1>1, <1>2, <1>3, <1>4, <1>5, <1>6, <1>7, <1>8, <1>9, <1>10, <1>11 DEF SchedulerNext

LEMMA SchedulerStart == SchedulerInit => SchedulerInv
  <1> SUFFICES ASSUME SchedulerInit PROVE SchedulerInv
    OBVIOUS
  <1>1. Absent \in Definition /\ Absent.version = 0 /\ 0 \in Minute /\ 0 \in 0 .. MaxVersion
        /\ 0 \in 0 .. MaxTriggers
    BY SchedulerAssumption, Minutes DEF Absent, Definition
  <1>2. clock \in UNION {Suffixes(span) : span \in Spans} /\ clock # <<>>
    <2>1. clock \in Spans /\ clock \in Seq(Instant_) /\ clock # <<>>
      BY SchedulerAssumption DEF SchedulerInit
    <2>2. clock = SubSeq(clock, 1, Len(clock)) /\ 1 \in 1 .. Len(clock)
      BY <2>1
    <2>3. clock \in Suffixes(clock)
      BY <2>2 DEF Suffixes
    <2>4. QED
      BY <2>1, <2>3
  <1>3. SchedulerTypeOK
    BY <1>1, <1>2 DEF SchedulerInit, SchedulerTypeOK
  <1>4. TickIs
    BY <1>3, ClockAhead, Minutes DEF SchedulerInit, TickIs
  <1>5. OneRun /\ RunsExist /\ NextFound
    BY <1>1 DEF SchedulerInit, OneRun, RunsExist, NextFound, Exists
  <1>6. QED
    BY <1>3, <1>4, <1>5 DEF SchedulerInv

LEMMA SchedulerInductive == SchedulerSpec => []SchedulerInv
  BY SchedulerStart, SchedulerStep, PTL DEF SchedulerSpec

\* Ticks alone never run a schedule twice at the same time, however long its
\* runs take and whatever is created, cancelled, triggered or restarted.
\* (executing, which is asked and set without an await in between)
THEOREM NoOverlap == SchedulerSpec => []OverlapOnlyByTrigger
  <1>1. SchedulerInv => OverlapOnlyByTrigger
    <2> SUFFICES ASSUME SchedulerInv, NEW i \in Ids \ triggered
                 PROVE  Cardinality(RunsOf(i)) <= 1
      BY DEF OverlapOnlyByTrigger, SchedulerInv
    <2>1. \A r, q \in RunsOf(i) : q = r
      BY DEF SchedulerInv, OneRun, RunsOf
    <2>2. CASE RunsOf(i) = {}
      BY <2>2, FS_EmptySet
    <2>3. ASSUME NEW r \in RunsOf(i) PROVE Cardinality(RunsOf(i)) <= 1
      <3>1. RunsOf(i) = {r}
        BY <2>1, <2>3
      <3>2. Cardinality(RunsOf(i)) = 1
        BY <3>1, FS_Singleton
      <3>3. QED
        BY <3>2
    <2>4. QED
      BY <2>2, <2>3
  <1>2. QED
    BY <1>1, SchedulerInductive, PTL

\* What nextCronMatch finds is the first match of all, if neither that nor the
\* instant it starts from is in the second pass of an hour.
LEMMA FirstIsFound ==
  ASSUME NEW definition, definition.from \in Instant_,
         {definition.from, FirstMatch(definition)} \cap Again = {}
  PROVE  NextCronMatch(CronOf(definition), definition.from) = FirstMatch(definition)
  <1> DEFINE from == definition.from
             cron == CronOf(definition)
             first == FirstMatch(definition)
             next == NextCronMatch(cron, from)
             later == {m \in Instant_ : m > from /\ CronMatches(cron, m)}
  <1>1. Floor(from) = from
    BY DEF Again
  <1>2. Finds(cron, from, next)
    BY <1>1, ScanFinds
  <1>3. first = IF later = {} THEN 0 ELSE Min(later)
    BY DEF FirstMatch
  <1>4. first \notin Repeats
    BY AgainRepeats
  <1> HIDE DEF next, first
  <1>5. \A m \in Instant_ : m \in Nat /\ m # 0
    BY Minutes
  <1>6. CASE later = {}
    <2>1. next = 0
      BY <1>2, <1>6 DEF Finds
    <2>2. QED
      BY <1>3, <1>6, <2>1 DEF next, first
  <1>7. CASE later # {}
    <2>1. first \in later /\ \A k \in later : first <= k
      <3>1. later \in SUBSET Nat /\ later # {}
        BY <1>5, <1>7
      <3> HIDE DEF later
      <3>2. QED
        BY <1>3, <3>1, MinOf
    <2>2. first \in Instant_ \ Repeats /\ first > from /\ CronMatches(cron, first)
      BY <1>4, <2>1
    <2>3. next \in Instant_ \ Repeats /\ from < next /\ CronMatches(cron, next)
          /\ ~(first < next)
      BY <1>2, <2>2 DEF Finds
    <2>4. first <= next
      BY <1>5, <2>1, <2>3
    <2>5. next = first
      BY <1>5, <2>2, <2>3, <2>4
    <2>6. QED
      BY <2>5 DEF next, first
  <1>8. QED
    BY <1>6, <1>7

\* nextRunAt of every schedule file is the first instant its expression matches
\* after the one it was worked out at, across a gap of the local clock and
\* over a repeated hour.  (nextCronMatch)
THEOREM NextFirst == SchedulerSpec => []NextIsFirst
  <1>1. SchedulerInv => NextIsFirst
    BY FirstIsFound DEF SchedulerInv, NextFound, NextIsFirst
  <1>2. QED
    BY <1>1, SchedulerInductive, PTL


-----------------------------------------------------------------------------
(* Once a minute. *)

LEMMA KnowsMore ==
  ASSUME NEW P, NEW Q, P \subseteq Q, NEW at, NEW definition, Knows(P, at, definition)
  PROVE  Knows(Q, at, definition)
  BY DEF Knows, Moved

\* The times a proof compares are numbers.
LEMMA Times ==
  ASSUME SchedulerInv
  PROVE  /\ Now \in Instant_ /\ Now \in Nat /\ lastTick \in Nat /\ tickAt \in Minute
         /\ \A m \in Instant_ : m \in Nat /\ m # 0
         /\ lastTick # 0 => lastTick \in Instant_
         /\ lastTick <= Now
         /\ \A x \in completed : /\ x[1] \in Ids /\ x[2] \in 1 .. MaxVersion
                                 /\ x[3] \in Nat /\ x[4] \in Nat
  <1>1. SchedulerTypeOK /\ TickIs
    BY DEF SchedulerInv
  <1>2. Minute \subseteq Nat /\ \A m \in Minute : m # 0 => m \in Instant_
    BY CronAssumption DEF Minute, Instant_
  <1>3. \A x \in completed : /\ x[1] \in Ids /\ x[2] \in 1 .. MaxVersion
                             /\ x[3] \in Minute /\ x[4] \in Minute
    BY <1>1 DEF SchedulerTypeOK
  <1>4. QED
    BY <1>1, <1>2, <1>3, ClockAhead, Minutes DEF SchedulerTypeOK, TickIs

\* Steps that neither record a run nor start one by the tick.
LEMMA QuietStep ==
  ASSUME SchedulerInv, MinuteInv, NEW new,
         UNCHANGED <<files, view, created, completed, lastTick, tickAt>>,
         runs' \subseteq runs \cup {new}, triggered \subseteq triggered',
         Now' \in Nat, Now <= Now',
         new \in runs' \ runs =>
           new.by # "tick" /\ new.id \in triggered' /\ new.def.version <= created[new.id]
  PROVE  MinuteInv'
  <1>1. VersionsOld /\ RunsDue /\ CompletedPassed /\ FilesKnow /\ RunsKnow /\ ViewKnows
    BY DEF MinuteInv
  <1>2. /\ Now \in Nat /\ lastTick \in Nat
        /\ \A m \in Instant_ : m \in Nat
        /\ \A x \in completed : x[4] \in Nat
    BY Times
  <1>3. Ticked \subseteq Ticked'
    BY <1>2 DEF Ticked
  <1>4. VersionsOld'
    BY <1>1 DEF VersionsOld
  <1>5. RunsDue'
    BY <1>1, <1>3 DEF RunsDue
  <1>6. CompletedPassed'
    <2>1. \A x \in completed : x[4] <= Now /\ \E t \in Ticked' : Floor(t) = x[3]
      BY <1>1, <1>3 DEF CompletedPassed
    <2>2. \A x \in completed : x[4] <= Now'
      BY <1>2, <2>1
    <2>3. QED
      BY <2>1, <2>2 DEF CompletedPassed
  <1>7. FilesKnow'
    <2> SUFFICES ASSUME NEW x \in completed, NEW i \in Ids, RecordOf(x, i, files[i])'
                 PROVE  Knows(Ticked', x[3], files[i])
      BY DEF FilesKnow
    <2>1. RecordOf(x, i, files[i])
      BY DEF RecordOf
    <2>2. QED
      BY <1>1, <1>3, <2>1, KnowsMore DEF FilesKnow
  <1>8. RunsKnow'
    <2> SUFFICES ASSUME NEW x \in completed, NEW r \in runs', RecordOf(x, r.id, r.def)'
                 PROVE  Knows(Ticked', x[3], [r.def EXCEPT !.last = r.at])
      BY DEF RunsKnow
    <2>1. r \in runs /\ RecordOf(x, r.id, r.def)
      BY DEF RecordOf
    <2>2. Knows(Ticked, x[3], [r.def EXCEPT !.last = r.at])
      BY <1>1, <2>1 DEF RunsKnow
    <2>3. QED
      BY <1>3, <2>2, KnowsMore
  <1>9. ViewKnows'
    <2> SUFFICES ASSUME tickAt # 0, NEW x \in completed, NEW i \in Ids, RecordOf(x, i, view[i])'
                 PROVE  \/ Knows(Ticked', x[3], view[i])
                        \/ x[4] >= lastTick /\ \E t \in Instant_ : t < lastTick /\ Floor(t) = x[3]
      BY DEF ViewKnows
    <2>1. RecordOf(x, i, view[i])
      BY DEF RecordOf
    <2>2. \/ Knows(Ticked, x[3], view[i])
          \/ x[4] >= lastTick /\ \E t \in Instant_ : t < lastTick /\ Floor(t) = x[3]
      BY <1>1, <2>1 DEF ViewKnows
    <2>3. QED
      BY <1>3, <2>2, KnowsMore
  <1>10. QED
    BY <1>4, <1>5, <1>6, <1>7, <1>8, <1>9 DEF MinuteInv

\* schedule_task and cancel_schedule: what is created anew has not been run.
LEMMA FileStep ==
  ASSUME SchedulerInv, MinuteInv, NEW i \in Ids, NEW definition, NEW version \in Nat,
         files' = [files EXCEPT ![i] = definition], definition.version \in {0, version},
         created' = [created EXCEPT ![i] = version],
         created[i] <= version, definition.version # 0 => created[i] < version,
         UNCHANGED <<clock, view, runs, completed, lastTick, tickAt, triggered>>
  PROVE  MinuteInv'
  <1>1. VersionsOld /\ RunsDue /\ CompletedPassed /\ FilesKnow /\ RunsKnow /\ ViewKnows
    BY DEF MinuteInv
  <1>2. SchedulerTypeOK
    BY DEF SchedulerInv
  <1>3. Ticked' = Ticked /\ Now' = Now
    BY DEF Ticked, Now
  <1>4. /\ created' \in [Ids -> Nat] /\ created \in [Ids -> Nat]
        /\ \A j \in Ids : created[j] <= created'[j] /\ view[j].version \in Nat
                          /\ files[j].version \in Nat
        /\ \A j \in Ids : j # i => files'[j] = files[j]
        /\ files'[i] = definition
    BY <1>2, SchedulerAssumption DEF SchedulerTypeOK, Definition
  <1>5. \A x \in completed : x[1] \in Ids /\ x[2] \in Nat /\ x[2] # 0
    BY Times
  <1>6. \A r \in runs : r.id \in Ids /\ r.def.version \in Nat
    BY <1>2, SchedulerAssumption DEF SchedulerTypeOK, Run, Definition
  <1>7. VersionsOld'
    <2>1. \A j \in Ids : files'[j].version <= created'[j] /\ view'[j].version <= created'[j]
      BY <1>1, <1>2, <1>4 DEF VersionsOld, SchedulerTypeOK
    <2>2. \A r \in runs' : r.def.version <= created'[r.id]
      BY <1>1, <1>4, <1>6 DEF VersionsOld
    <2>3. \A x \in completed' : x[2] <= created'[x[1]]
      BY <1>1, <1>4, <1>5 DEF VersionsOld
    <2>4. QED
      BY <2>1, <2>2, <2>3 DEF VersionsOld
  <1>8. RunsDue' /\ CompletedPassed' /\ RunsKnow' /\ ViewKnows'
    BY <1>1, <1>3 DEF RunsDue, CompletedPassed, RunsKnow, ViewKnows, RecordOf
  <1>9. FilesKnow'
    <2> SUFFICES ASSUME NEW x \in completed, NEW j \in Ids, RecordOf(x, j, files'[j])
                 PROVE  Knows(Ticked, x[3], files'[j])
      BY <1>3 DEF FilesKnow, RecordOf
    <2>1. j # i
      <3>1. SUFFICES ASSUME j = i PROVE FALSE
        OBVIOUS
      <3>2. x[1] = i /\ x[2] = definition.version /\ x[2] <= created[i]
        BY <1>1, <1>4, <3>1 DEF RecordOf, VersionsOld
      <3>3. QED
        BY <1>4, <1>5, <3>2
    <2>2. QED
      BY <1>1, <1>4, <2>1 DEF FilesKnow
  <1>10. QED
    BY <1>7, <1>8, <1>9 DEF MinuteInv

\* The tick starts: every tick before was at an earlier instant.
LEMMA TickStartKnows ==
  ASSUME SchedulerInv, MinuteInv, TickStart
  PROVE  MinuteInv'
  <1>1. VersionsOld /\ RunsDue /\ CompletedPassed /\ FilesKnow /\ RunsKnow
    BY DEF MinuteInv
  <1>2. /\ tickAt = 0 /\ lastTick < Now /\ lastTick' = Now /\ view' = [i \in Ids |-> Absent]
        /\ UNCHANGED <<clock, files, executing, runs, userVars, history>>
    BY DEF TickStart
  <1>3. /\ Now \in Instant_ /\ Now \in Nat /\ lastTick \in Nat /\ Now' = Now
        /\ \A m \in Instant_ : m \in Nat /\ m # 0
        /\ \A x \in completed : x[2] \in 1 .. MaxVersion
    BY <1>2, Times DEF Now
  <1>4. Ticked \subseteq Ticked' /\ \A t \in Ticked : lastTick # 0 => t < Now
    BY <1>2, <1>3 DEF Ticked
  <1>5. VersionsOld'
    <2>1. \A i \in Ids : view'[i].version = 0 /\ created[i] \in Nat
      BY <1>2, SchedulerAssumption DEF Absent, SchedulerInv, SchedulerTypeOK
    <2>2. QED
      BY <1>1, <1>2, <2>1 DEF VersionsOld, userVars, history
  <1>6. RunsDue'
    BY <1>1, <1>2, <1>3, <1>4 DEF RunsDue
  <1>7. CompletedPassed'
    <2>1. completed' = completed
      BY <1>2 DEF history
    <2>2. \A x \in completed : x[4] <= Now /\ \E t \in Ticked' : Floor(t) = x[3]
      BY <1>1, <1>4 DEF CompletedPassed
    <2>3. QED
      BY <1>3, <2>1, <2>2 DEF CompletedPassed
  <1>8. FilesKnow'
    BY <1>1, <1>2, <1>4, KnowsMore DEF FilesKnow, RecordOf, history
  <1>9. RunsKnow'
    BY <1>1, <1>2, <1>4, KnowsMore DEF RunsKnow, RecordOf, history
  <1>10. ViewKnows'
    BY <1>2, <1>3 DEF ViewKnows, RecordOf, Absent, history
  <1>11. QED
    BY <1>5, <1>6, <1>7, <1>8, <1>9, <1>10 DEF MinuteInv

\* A file is read: the view knows what the file does.
LEMMA TickReadKnows ==
  ASSUME SchedulerInv, MinuteInv, NEW i \in Ids, TickRead(i)
  PROVE  MinuteInv'
  <1>1. VersionsOld /\ RunsDue /\ CompletedPassed /\ FilesKnow /\ RunsKnow /\ ViewKnows
    BY DEF MinuteInv
  <1>2. /\ view' = [view EXCEPT ![i] = files[i]]
        /\ UNCHANGED <<clock, files, lastTick, tickAt, executing, runs, userVars, history>>
    BY DEF TickRead
  <1>3. Ticked' = Ticked /\ Now' = Now
    BY <1>2 DEF Ticked, Now
  <1>4. \A j \in Ids : view'[j] = IF j = i THEN files[i] ELSE view[j]
    BY <1>2 DEF SchedulerInv, SchedulerTypeOK
  <1>5. VersionsOld'
    BY <1>1, <1>2, <1>4 DEF VersionsOld, userVars, history
  <1>6. RunsDue' /\ CompletedPassed' /\ FilesKnow' /\ RunsKnow'
    BY <1>1, <1>2, <1>3 DEF RunsDue, CompletedPassed, FilesKnow, RunsKnow, RecordOf, history
  <1>7. ViewKnows'
    <2> SUFFICES ASSUME tickAt # 0, NEW x \in completed, NEW j \in Ids, RecordOf(x, j, view'[j])
                 PROVE  \/ Knows(Ticked, x[3], view'[j])
                        \/ x[4] >= lastTick /\ \E t \in Instant_ : t < lastTick /\ Floor(t) = x[3]
      BY <1>2, <1>3 DEF ViewKnows, RecordOf, history
    <2>1. CASE j = i
      BY <1>1, <1>4, <2>1 DEF FilesKnow
    <2>2. CASE j # i
      BY <1>1, <1>4, <2>2 DEF ViewKnows
    <2>3. QED
      BY <2>1, <2>2
  <1>8. QED
    BY <1>5, <1>6, <1>7 DEF MinuteInv

\* The tick fires: what it starts will have been run after all that is recorded.
LEMMA TickFireKnows ==
  ASSUME SchedulerInv, MinuteInv, TickFire
  PROVE  MinuteInv'
  <1>1. VersionsOld /\ RunsDue /\ CompletedPassed /\ FilesKnow /\ RunsKnow
    BY DEF MinuteInv
  <1>2. PICK due \in SUBSET {i \in Ids : Eligible(i)} :
          \E slot \in [due -> FreeSlots] : runs' = runs \cup Started(due, slot)
    BY DEF TickFire, Started
  <1>3. PICK slot \in [due -> FreeSlots] : runs' = runs \cup Started(due, slot)
    BY <1>2
  <1>4. /\ tickAt # 0 /\ tickAt' = 0 /\ view' = [i \in Ids |-> Absent]
        /\ UNCHANGED <<clock, files, lastTick, toRead, userVars, history>>
    BY DEF TickFire
  <1>5. Ticked' = Ticked /\ Now' = Now
    BY <1>4 DEF Ticked, Now
  <1>6. lastTick \in Ticked /\ lastTick # 0 /\ tickAt = Floor(lastTick)
    BY <1>4, Times DEF SchedulerInv, TickIs, Ticked
  <1>7. \A r \in Started(due, slot) :
          /\ r.id \in Ids /\ Eligible(r.id) /\ r.by = "tick" /\ r.at = tickAt
          /\ r.def = view[r.id]
    BY <1>2 DEF Started
  <1>8. VersionsOld'
    <2>1. \A i \in Ids : view'[i].version = 0 /\ created[i] \in Nat
      BY <1>4, SchedulerAssumption DEF Absent, SchedulerInv, SchedulerTypeOK
    <2>2. \A r \in runs' : r.def.version <= created[r.id]
      BY <1>1, <1>3, <1>7 DEF VersionsOld
    <2>3. QED
      BY <1>1, <1>4, <2>1, <2>2 DEF VersionsOld, userVars, history
  <1>9. RunsDue'
    BY <1>1, <1>3, <1>4, <1>5, <1>6, <1>7 DEF RunsDue, Eligible
  <1>10. CompletedPassed' /\ FilesKnow'
    BY <1>1, <1>4, <1>5 DEF CompletedPassed, FilesKnow, RecordOf, history
  <1>11. RunsKnow'
    <2> SUFFICES ASSUME NEW x \in completed, NEW r \in runs', RecordOf(x, r.id, r.def)
                 PROVE  Knows(Ticked, x[3], [r.def EXCEPT !.last = r.at])
      BY <1>4, <1>5 DEF RunsKnow, RecordOf, history
    <2>1. CASE r \in runs
      BY <1>1, <2>1 DEF RunsKnow
    <2>2. CASE r \in Started(due, slot)
      <3> DEFINE d == [r.def EXCEPT !.last = r.at]
      <3>1. r.def \in Definition /\ r.at = tickAt /\ CronMatches(CronOf(r.def), tickAt)
        BY <1>7, <2>2 DEF SchedulerInv, SchedulerTypeOK, Eligible
      <3>2. d.last = tickAt /\ d.version = r.def.version
        BY <3>1 DEF Definition
      <3> HIDE DEF d
      <3>3. CronMatches(CronOf(d), d.last)
        BY <3>1, <3>2 DEF CronOf
      <3>4. CASE x[3] = tickAt
        BY <3>2, <3>4 DEF Knows, d
      <3>5. CASE x[3] # tickAt
        <4>1. PICK t \in Ticked : Floor(t) = x[3]
          BY <1>1 DEF CompletedPassed
        <4>2. t \in Instant_ /\ t < lastTick
          BY <1>6, <3>5, <4>1, Times DEF Ticked
        <4>3. Moved(Ticked, x[3], d)
          BY <1>6, <3>2, <3>3, <3>5, <4>1, <4>2 DEF Moved
        <4>4. QED
          BY <4>3 DEF Knows, d
      <3>6. QED
        BY <3>4, <3>5
    <2>3. QED
      BY <1>3, <2>1, <2>2
  <1>12. ViewKnows'
    BY <1>4 DEF ViewKnows
  <1>13. QED
    BY <1>8, <1>9, <1>10, <1>11, <1>12 DEF MinuteInv


\* A run is recorded: no other run of its schedule is in progress, and a tick
\* under way is a later one.
LEMMA RunEndsKnows ==
  ASSUME SchedulerInv, MinuteInv, NEW r \in runs, RunEnds(r)
  PROVE  MinuteInv'
  <1>1. VersionsOld /\ RunsDue /\ CompletedPassed /\ FilesKnow /\ RunsKnow /\ ViewKnows
    BY DEF MinuteInv
  <1> DEFINE record == <<r.id, r.def.version, r.at, Now>>
             d == Updated(r)
  <1>2. /\ RunOver(r) /\ runs' = runs \ {r} /\ files' = [files EXCEPT ![r.id] = d]
        /\ \A x \in completed' : x \in completed \/ (x = record /\ r.by = "tick")
        /\ UNCHANGED <<clock, tickVars, userVars, triggers, triggered>>
    BY DEF RunEnds, RunOver
  <1>3. /\ r.id \in Ids /\ r.def.version \in 1 .. MaxVersion /\ r.at \in Instant_
        /\ d.version = r.def.version /\ d.last = r.at
        /\ CronOf(d) = CronOf(r.def)
    BY UpdatedIs
  <1>4. r.def \in Definition
    BY DEF SchedulerInv, SchedulerTypeOK, Run
  <1>5. Ticked' = Ticked /\ Now' = Now /\ lastTick' = lastTick /\ tickAt' = tickAt
        /\ view' = view /\ created' = created /\ triggered' = triggered
    BY <1>2 DEF Ticked, Now, tickVars, userVars
  <1>6. r.id \notin triggered => r.by = "tick" /\ \A q \in runs' : q.id # r.id
    BY <1>2, RunOverStep DEF SchedulerInv, OneRun
  <1>7. \A i \in Ids : files'[i] = IF i = r.id THEN d ELSE files[i]
    BY <1>2 DEF SchedulerInv, SchedulerTypeOK
  <1> HIDE DEF d
  <1>8. /\ record[1] = r.id /\ record[2] = r.def.version /\ record[3] = r.at
        /\ record[4] = Now
    OBVIOUS
  <1> HIDE DEF record
  <1>9. \A at : Knows(Ticked, at, [r.def EXCEPT !.last = r.at]) => Knows(Ticked, at, d)
    <2> DEFINE e == [r.def EXCEPT !.last = r.at]
    <2>1. e.version = d.version /\ e.last = d.last
      BY <1>3, <1>4 DEF Definition
    <2> HIDE DEF e
    <2>2. CronOf(e) = CronOf(d)
      BY <2>1 DEF CronOf
    <2>3. \A at : Knows(Ticked, at, e) => Knows(Ticked, at, d)
      BY <2>1, <2>2 DEF Knows, Moved
    <2>4. QED
      BY <2>3 DEF e
  <1>10. VersionsOld'
    <2>1. \A i \in Ids : files'[i].version <= created[i] /\ view'[i].version <= created[i]
      BY <1>1, <1>3, <1>5, <1>7 DEF VersionsOld
    <2>2. \A q \in runs' : q.def.version <= created[q.id]
      BY <1>1, <1>2 DEF VersionsOld
    <2>3. \A x \in completed' : x[2] <= created[x[1]]
      BY <1>1, <1>2, <1>8 DEF VersionsOld
    <2>4. QED
      BY <1>5, <2>1, <2>2, <2>3 DEF VersionsOld
  <1>11. RunsDue'
    BY <1>1, <1>2, <1>5 DEF RunsDue
  <1>12. CompletedPassed'
    <2>1. Now <= Now
      BY Times
    <2>2. r.by = "tick" => \E t \in Ticked : Floor(t) = r.at
      BY <1>1 DEF RunsDue
    <2>3. \A x \in completed' : x[4] <= Now /\ \E t \in Ticked : Floor(t) = x[3]
      BY <1>1, <1>2, <1>8, <2>1, <2>2 DEF CompletedPassed
    <2>4. QED
      BY <1>5, <2>3 DEF CompletedPassed
  <1>13. FilesKnow'
    <2> SUFFICES ASSUME NEW x \in completed', NEW i \in Ids, RecordOf(x, i, files'[i])
                 PROVE  Knows(Ticked, x[3], files'[i])
      BY <1>5 DEF FilesKnow, RecordOf
    <2>1. CASE i # r.id
      <3>1. x \in completed
        BY <1>2, <1>8, <2>1 DEF RecordOf
      <3>2. QED
        BY <1>1, <1>7, <2>1, <3>1 DEF FilesKnow
    <2>2. CASE i = r.id /\ x \in completed
      <3>1. RecordOf(x, r.id, r.def)
        BY <1>3, <1>7, <2>2 DEF RecordOf
      <3>2. Knows(Ticked, x[3], [r.def EXCEPT !.last = r.at])
        BY <1>1, <2>2, <3>1 DEF RunsKnow
      <3>3. QED
        BY <1>7, <1>9, <2>2, <3>2
    <2>3. CASE i = r.id /\ x = record
      BY <1>3, <1>7, <1>8, <2>3 DEF Knows
    <2>4. QED
      BY <1>2, <2>1, <2>2, <2>3
  <1>14. RunsKnow'
    <2> SUFFICES ASSUME NEW x \in completed', NEW q \in runs', RecordOf(x, q.id, q.def)
                 PROVE  Knows(Ticked, x[3], [q.def EXCEPT !.last = q.at])
      BY <1>5 DEF RunsKnow, RecordOf
    <2>1. q \in runs
      BY <1>2
    <2>2. x \in completed
      BY <1>2, <1>6, <1>8 DEF RecordOf
    <2>3. QED
      BY <1>1, <2>1, <2>2 DEF RunsKnow
  <1>15. ViewKnows'
    <2> SUFFICES ASSUME tickAt # 0, NEW x \in completed', NEW i \in Ids, RecordOf(x, i, view[i])
                 PROVE  \/ Knows(Ticked, x[3], view[i])
                        \/ x[4] >= lastTick /\ \E t \in Instant_ : t < lastTick /\ Floor(t) = x[3]
      BY <1>5 DEF ViewKnows, RecordOf
    <2>1. CASE x \in completed
      BY <1>1, <2>1 DEF ViewKnows
    <2>2. CASE x = record /\ r.by = "tick"
      <3>1. Now >= lastTick
        BY Times
      <3>2. \E t \in Ticked : Floor(t) = r.at /\ t < lastTick
        BY <1>1, <2>2 DEF RunsDue
      <3>3. QED
        BY <1>8, <2>2, <3>1, <3>2 DEF Ticked
    <2>3. QED
      BY <1>2, <2>1, <2>2
  <1>16. QED
    BY <1>10, <1>11, <1>12, <1>13, <1>14, <1>15 DEF MinuteInv

\* The process is started again: what its ticks have passed stays passed.
LEMMA RestartKnows ==
  ASSUME SchedulerInv, MinuteInv, Restart
  PROVE  MinuteInv'
  <1>1. VersionsOld /\ CompletedPassed /\ FilesKnow
    BY DEF MinuteInv
  <1>2. /\ lastTick' = 0 /\ tickAt' = 0 /\ view' = [i \in Ids |-> Absent] /\ runs' = {}
        /\ UNCHANGED <<clock, files, userVars, history>>
    BY DEF Restart
  <1>3. Now' = Now /\ Ticked \subseteq Ticked'
    BY <1>2 DEF Now, Ticked
  <1>4. VersionsOld'
    <2>1. \A i \in Ids : view'[i].version = 0 /\ created[i] \in Nat
      BY <1>2, SchedulerAssumption DEF Absent, SchedulerInv, SchedulerTypeOK
    <2>2. QED
      BY <1>1, <1>2, <2>1 DEF VersionsOld, userVars, history
  <1>5. CompletedPassed'
    <2>1. completed' = completed
      BY <1>2 DEF history
    <2>2. \A x \in completed : x[4] <= Now /\ \E t \in Ticked' : Floor(t) = x[3]
      BY <1>1, <1>3 DEF CompletedPassed
    <2>3. QED
      BY <1>3, <2>1, <2>2 DEF CompletedPassed
  <1>6. FilesKnow'
    BY <1>1, <1>2, <1>3, KnowsMore DEF FilesKnow, RecordOf, history
  <1>7. RunsDue' /\ RunsKnow' /\ ViewKnows'
    BY <1>2 DEF RunsDue, RunsKnow, ViewKnows
  <1>8. QED
    BY <1>4, <1>5, <1>6, <1>7 DEF MinuteInv

LEMMA MinuteStep ==
  ASSUME SchedulerInv, MinuteInv, [SchedulerNext]_schedulerVars
  PROVE  MinuteInv'
  <1>1. Now \in Nat /\ Now <= Now /\ SchedulerTypeOK
    BY Times DEF SchedulerInv
  <1>2. ASSUME NEW i \in Ids, NEW version \in 1 .. MaxVersion, Create(i, version)
        PROVE  MinuteInv'
    <2> DEFINE fresh == [Absent EXCEPT !.version = version, !.from = Now]
               new == [fresh EXCEPT !.next = NextCronMatch(CronOf(fresh), Now)]
    <2>1. /\ created[i] < version /\ files' = [files EXCEPT ![i] = new]
          /\ created' = [created EXCEPT ![i] = version]
          /\ UNCHANGED <<clock, tickVars, executing, runs, history>>
      BY <1>2 DEF Create
    <2>2. new.version = version
      BY DEF Absent
    <2> HIDE DEF new
    <2>3. created[i] <= version /\ version \in Nat
      BY <1>1, <2>1, SchedulerAssumption DEF SchedulerTypeOK
    <2>4. QED
      BY <2>1, <2>2, <2>3, FileStep DEF tickVars, history
  <1>3. ASSUME NEW i \in Ids, Cancel(i) PROVE MinuteInv'
    <2>1. /\ files' = [files EXCEPT ![i] = Absent]
          /\ UNCHANGED <<clock, tickVars, executing, runs, created, history>>
      BY <1>3 DEF Cancel
    <2>2. created[i] \in Nat /\ created' = [created EXCEPT ![i] = created[i]]
          /\ created[i] <= created[i]
      BY <1>1, <2>1, SchedulerAssumption DEF SchedulerTypeOK
    <2>3. Absent.version = 0
      BY DEF Absent
    <2>4. QED
      BY <2>1, <2>2, <2>3, FileStep DEF tickVars, history
  <1>4. ASSUME NEW i \in Ids, TickRead(i) PROVE MinuteInv'
    BY <1>4, TickReadKnows
  <1>5. ASSUME NEW i \in Ids, TriggerNow(i) PROVE MinuteInv'
    <2>1. PICK k \in FreeSlots :
            runs' = runs \cup {[slot |-> k, id |-> i, def |-> files[i], at |-> Now, by |-> "trigger"]}
      BY <1>5 DEF TriggerNow
    <2>2. /\ triggered' = triggered \cup {i}
          /\ UNCHANGED <<clock, files, tickVars, userVars, completed>>
      BY <1>5 DEF TriggerNow
    <2> DEFINE new == [slot |-> k, id |-> i, def |-> files[i], at |-> Now, by |-> "trigger"]
    <2>3. /\ runs' = runs \cup {new} /\ new.by # "tick" /\ new.id \in triggered'
          /\ new.def.version <= created[new.id]
      BY <2>1, <2>2 DEF MinuteInv, VersionsOld
    <2> HIDE DEF new
    <2>4. Now' = Now
      BY <2>2 DEF Now
    <2>5. QED
      BY <1>1, <2>2, <2>3, <2>4, QuietStep DEF tickVars, userVars
  <1>6. ASSUME UNCHANGED <<files, tickVars, userVars, history>>, runs' \subseteq runs,
               Now' \in Nat, Now <= Now'
        PROVE  MinuteInv'
    <2>1. PICK new : new \notin runs' \ runs
      BY <1>6
    <2>2. QED
      BY <1>6, <2>1, QuietStep DEF tickVars, userVars, history
  <1>7. CASE ClockAdvances
    <2>1. /\ Now' \in Instant_ /\ Now < Now'
          /\ UNCHANGED <<files, tickVars, executing, runs, userVars, history>>
      BY <1>1, <1>7, ClockAhead DEF ClockAdvances, Now
    <2>2. Now' \in Nat /\ Now <= Now' /\ runs' \subseteq runs
      BY <1>1, <2>1, Minutes
    <2>3. QED
      BY <1>6, <2>1, <2>2
  <1>8. CASE TickStart
    BY <1>8, TickStartKnows
  <1>9. CASE TickFire
    BY <1>9, TickFireKnows
  <1>10. CASE Restart
    BY <1>10, RestartKnows
  <1>11. ASSUME NEW r \in runs, RunEnds(r) PROVE MinuteInv'
    BY <1>11, RunEndsKnows
  <1>12. ASSUME NEW r \in runs, RunEndsUnsaved(r) PROVE MinuteInv'
    <2>1. Now' = Now /\ runs' \subseteq runs /\ UNCHANGED <<files, tickVars, userVars, history>>
      BY <1>12 DEF RunEndsUnsaved, RunOver, Now
    <2>2. QED
      BY <1>1, <1>6, <2>1
  <1>13. CASE UNCHANGED schedulerVars
    <2>1. Now' = Now /\ runs' \subseteq runs /\ UNCHANGED <<files, tickVars, userVars, history>>
      BY <1>13 DEF schedulerVars, Now
    <2>2. QED
      BY <1>1, <1>6, <2>1
  <1>14. QED
    BY <1>2, <1>3, <1>4, <1>5, <1>7, <1>8, <1>9, <1>10, <1>11, <1>12, <1>13 DEF SchedulerNext

\* The runs a step starts are as the property demands.
LEMMA OnceAMinute ==
  ASSUME SchedulerInv, MinuteInv, SchedulerNext, NEW r \in runs' \ runs, NEW end \in Instant_,
         r.id \notin triggered', <<r.id, r.def.version, r.at, end>> \in completed
  PROVE  /\ r.at \in {Floor(m) : m \in Again}
         /\ end >= lastTick \/ \E m \in Again : Floor(m) # r.at /\ CronMatches(CronOf(r.def), m)
  <1>1. TickFire
    <2>1. SUFFICES ASSUME NEW i \in Ids, TriggerNow(i) PROVE FALSE
      BY DEF SchedulerNext, Create, Cancel, TickRead, ClockAdvances, TickStart, Restart, RunEnds,
         RunEndsUnsaved, RunOver
    <2>2. r.id = i
      BY <2>1 DEF TriggerNow
    <2>3. QED
      BY <2>1, <2>2 DEF TriggerNow
  <1>2. PICK due \in SUBSET {i \in Ids : Eligible(i)} :
          \E slot \in [due -> FreeSlots] : runs' = runs \cup Started(due, slot)
    BY <1>1 DEF TickFire, Started
  <1>3. PICK slot \in [due -> FreeSlots] : runs' = runs \cup Started(due, slot)
    BY <1>2
  <1> DEFINE i == r.id
             x == <<r.id, r.def.version, r.at, end>>
  <1>4. /\ i \in Ids /\ Eligible(i) /\ r.at = tickAt /\ r.def = view[i]
        /\ tickAt # 0 /\ i \notin triggered
    BY <1>1, <1>2, <1>3 DEF Started, TickFire, history
  <1>5. x \in completed /\ RecordOf(x, i, view[i]) /\ x[3] = tickAt /\ x[4] = end
    BY <1>4 DEF RecordOf
  <1> HIDE DEF i, x
  <1>6. /\ tickAt = Floor(lastTick) /\ lastTick \in Instant_ /\ Floor(lastTick) \in Instant_
        /\ Wall[Floor(lastTick)] = Wall[lastTick] /\ Floor(lastTick) <= lastTick
        /\ \A k \in Instant_ : Wall[k] = Wall[lastTick] => Floor(lastTick) <= k
    BY <1>4, Times, FloorIs DEF SchedulerInv, TickIs
  <1>7. Floor(tickAt) = tickAt
    BY <1>6, FloorSame
  <1>8. ASSUME NEW t \in Instant_, t < lastTick, Floor(t) = tickAt
        PROVE  lastTick \in Again /\ Wall[t] = Wall[lastTick]
    <2>1. Wall[t] = Wall[lastTick]
      BY <1>6, <1>8, FloorSame
    <2>2. Floor(lastTick) <= t
      BY <1>6, <2>1
    <2>3. Floor(lastTick) # lastTick
      BY <1>6, <1>8, <2>2, Times
    <2>4. QED
      BY <1>6, <2>1, <2>3 DEF Again
  <1>9. \/ Knows(Ticked, tickAt, view[i])
        \/ end >= lastTick /\ \E t \in Instant_ : t < lastTick /\ Floor(t) = tickAt
    BY <1>4, <1>5 DEF MinuteInv, ViewKnows
  <1>10. view[i].last # tickAt
    BY <1>4, <1>7 DEF Eligible
  <1>11. CASE Moved(Ticked, tickAt, view[i])
    <2>1. PICK t \in Instant_ :
            \E k \in Ticked : t < k /\ Floor(t) = tickAt /\ Floor(k) = view[i].last
      BY <1>11 DEF Moved
    <2>2. PICK c \in Ticked : t < c /\ Floor(t) = tickAt /\ Floor(c) = view[i].last
      BY <2>1
    <2>3. c \in Instant_ /\ c < lastTick /\ t < lastTick
      <3>1. c \in Instant_ /\ c <= lastTick /\ c # lastTick
        BY <1>4, <1>6, <1>10, <2>2 DEF Ticked, SchedulerInv, TickIs
      <3>2. QED
        BY <2>2, <3>1, Times
    <2>4. lastTick \in Again /\ Wall[t] = Wall[lastTick]
      BY <1>8, <2>2, <2>3
    <2>5. PICK m \in Repeats : Wall[m] = Wall[c]
      BY <1>6, <2>2, <2>3, <2>4, RepeatedWhole
    <2>6. m \in Again /\ m \in Instant_
      BY AgainRepeats DEF Again
    <2>7. Floor(m) = view[i].last /\ Wall[view[i].last] = Wall[m]
      BY <2>2, <2>3, <2>5, <2>6, FloorSame, FloorIs
    <2>8. CronMatches(CronOf(view[i]), m)
      <3>1. CronMatches(CronOf(view[i]), view[i].last)
        BY <1>11 DEF Moved
      <3>2. QED
        BY <2>7, <3>1 DEF CronMatches
    <2>9. QED
      BY <1>4, <1>6, <1>10, <2>4, <2>6, <2>7, <2>8
  <1>12. CASE end >= lastTick /\ \E t \in Instant_ : t < lastTick /\ Floor(t) = tickAt
    BY <1>4, <1>6, <1>8, <1>12
  <1>13. QED
    BY <1>9, <1>10, <1>11, <1>12 DEF Knows

\* A definition that was run and recorded for a minute of the local clock is
\* not run for it again by the ticks, behind restarts and in a repeated hour
\* too, with the two exceptions the property names.  (tick: lastRunAt)
THEOREM NotTwiceAMinute == SchedulerSpec => OncePerMinute
  <1>1. SchedulerInit => MinuteInv
    <2> SUFFICES ASSUME SchedulerInit PROVE MinuteInv
      OBVIOUS
    <2>1. \A i \in Ids : files[i].version = 0 /\ view[i].version = 0 /\ created[i] = 0
      BY DEF SchedulerInit, Absent
    <2>2. runs = {} /\ completed = {}
      BY DEF SchedulerInit
    <2>3. QED
      BY <2>1, <2>2 DEF MinuteInv, VersionsOld, RunsDue, CompletedPassed, FilesKnow, RunsKnow,
         ViewKnows
  <1>2. SchedulerInv /\ MinuteInv /\ [SchedulerNext]_schedulerVars => MinuteInv'
    BY MinuteStep
  <1>3. SchedulerInv /\ MinuteInv /\ [SchedulerNext]_schedulerVars =>
          [\A r \in runs' \ runs, end \in Instant_ :
             /\ r.id \notin triggered'
             /\ <<r.id, r.def.version, r.at, end>> \in completed
             => /\ r.at \in {Floor(m) : m \in Again}
                /\ end >= lastTick
                   \/ \E m \in Again : Floor(m) # r.at /\ CronMatches(CronOf(r.def), m)]_schedulerVars
    BY OnceAMinute
  <1>4. QED
    BY <1>1, <1>2, <1>3, SchedulerInductive, PTL DEF SchedulerSpec, OncePerMinute

-----------------------------------------------------------------------------
(***************************************************************************)
(* The edge.                                                               *)
(***************************************************************************)

(* The circuit breaker and the kill links *)

\* A closed breaker has room for an anomaly, and a link that was redeemed is
\* no longer among those that are waiting.
BelowThreshold == breaker = "closed" => Len(anomalies) < Threshold
RedeemedGone ==
  \A l \in Links : honoured[l] # <<>> =>
    expires[l] # 0 /\ \A i \in 1..Len(links) : links[i] # l

AdminInv == AdminTypeOK /\ BelowThreshold /\ RedeemedGone /\ LinksOnce /\ TrailTells

Telling == {e \in Entry : e.what \in {"trip", "reset", "redeemed"}}

\* What the trail says once an entry is added to it.
LEMMA MovesNext ==
  ASSUME AdminTypeOK, NEW e \in Entry, trail' = Append(trail, e)
  PROVE  /\ Moves \in Seq(Entry)
         /\ Moves' = IF e \in Telling THEN Append(Moves, e) ELSE Moves
  <1>1. trail \in Seq(Entry)
    BY DEF AdminTypeOK
  <1>2. Moves = Kept(trail, Telling) /\ Moves' = Kept(trail', Telling)
    BY DEF Moves, Telling
  <1>3. QED
    BY <1>1, <1>2, KeptAppend, KeptFrom

LEMMA MovesSame ==
  ASSUME trail' = trail
  PROVE  Moves' = Moves
  BY DEF Moves

\* A link that is issued finds room, and those before it were there.
LEMMA Room ==
  ASSUME AdminTypeOK
  PROVE  /\ WithRoom \in Seq(Links) /\ Len(WithRoom) < MaxActive
         /\ \A i \in 1..Len(WithRoom) : \E j \in 1..Len(links) : WithRoom[i] = links[j]
  <1>1. links \in Seq(Links) /\ Len(links) <= MaxActive /\ MaxActive \in Nat \ {0}
    BY AdminAssumption DEF AdminTypeOK
  <1>2. /\ Unexpired \in Seq(Links) /\ Len(Unexpired) <= Len(links)
        /\ \A i \in 1..Len(Unexpired) : \E j \in 1..Len(links) : Unexpired[i] = links[j]
    <2> DEFINE S == {l \in Links : Valid(l)}
    <2>1. Unexpired = Kept(links, S)
      BY DEF Unexpired
    <2> HIDE DEF S
    <2>2. QED
      BY <1>1, <2>1, KeptFrom
  <1>3. CASE Len(links) < MaxActive
    BY <1>1, <1>3 DEF WithRoom
  <1>4. CASE Len(links) >= MaxActive /\ Len(Unexpired) < MaxActive
    BY <1>1, <1>2, <1>4 DEF WithRoom
  <1>5. CASE Len(links) >= MaxActive /\ Len(Unexpired) >= MaxActive
    <2> DEFINE u == Unexpired
    <2>1. WithRoom = Tail(u)
      BY <1>1, <1>2, <1>5 DEF WithRoom
    <2>2. u \in Seq(Links) /\ Len(u) \in Nat /\ Len(u) > 0 /\ Len(u) <= MaxActive
      BY <1>1, <1>2, <1>5
    <2> HIDE DEF u
    <2>3. Tail(u) \in Seq(Links) /\ Len(Tail(u)) = Len(u) - 1
          /\ \A i \in 1..Len(u) - 1 : Tail(u)[i] = u[i + 1] /\ i + 1 \in 1..Len(u)
      BY <2>2
    <2>4. QED
      BY <1>1, <1>2, <2>1, <2>2, <2>3 DEF u
  <1>6. QED
    BY <1>1, <1>2, <1>3, <1>4, <1>5

\* A start of the gateway.
LEMMA AdminStarts ==
  ASSUME NEW load \in Loads, AdminInit(load)
  PROVE  AdminInv
  <1>1. /\ load.start \in 1..Horizon /\ load.anomalies \in 0..MaxAnomalies
        /\ MaxActive \in Nat /\ Threshold \in Nat \ {0} /\ Horizon \in Nat
    BY EdgeAssumption, AdminAssumption
  <1>2. AdminTypeOK
    <2>1. anomalies \in Seq(1..Horizon) /\ Len(anomalies) <= Threshold
      BY <1>1 DEF AdminInit
    <2>2. links \in Seq(Links) /\ Len(links) <= MaxActive
      BY <1>1 DEF AdminInit
    <2>3. expires \in [Links -> Nat] /\ honoured \in [Links -> Seq(1..Horizon)]
      BY DEF AdminInit
    <2>4. serving \in [Requests -> Waits] /\ trail \in Seq(Entry)
      BY DEF AdminInit, Waits
    <2>5. QED
      BY <1>1, <2>1, <2>2, <2>3, <2>4 DEF AdminInit, AdminTypeOK
  <1>3. BelowThreshold /\ RedeemedGone /\ LinksOnce
    BY <1>1 DEF AdminInit, BelowThreshold, RedeemedGone, LinksOnce
  <1>4. TrailTells
    <2>1. Moves = <<>>
      BY KeptEmpty DEF AdminInit, Moves
    <2>2. QED
      BY <2>1 DEF AdminInit, TrailTells
  <1>5. QED
    BY <1>2, <1>3, <1>4 DEF AdminInv

\* What a step leaves alone keeps its part of the invariant.
LEMMA LinksStay ==
  ASSUME AdminInv, UNCHANGED linkVars
  PROVE  RedeemedGone' /\ LinksOnce'
  BY DEF AdminInv, linkVars, RedeemedGone, LinksOnce

LEMMA BreakerStays ==
  ASSUME AdminInv, UNCHANGED breakerVars
  PROVE  BelowThreshold'
  BY DEF AdminInv, breakerVars, BelowThreshold

LEMMA TrailStays ==
  ASSUME AdminInv, UNCHANGED <<breaker, auto, trail>>
  PROVE  TrailTells'
  <1>1. Moves' = Moves
    BY MovesSame
  <1>2. QED
    BY <1>1 DEF AdminInv, TrailTells

\* An entry that tells of no move, while the breaker is as it was.
LEMMA TrailGrows ==
  ASSUME AdminInv, NEW e \in Entry, e \notin Telling, trail' = Append(trail, e),
         UNCHANGED <<breaker, auto>>
  PROVE  TrailTells'
  <1>1. Moves' = Moves
    BY MovesNext DEF AdminInv
  <1>2. QED
    BY <1>1 DEF AdminInv, TrailTells

\* An entry that tells of a move.
LEMMA TrailMoves ==
  ASSUME AdminInv, NEW e \in Telling, trail' = Append(trail, e),
         (breaker' = "open") <=> (auto' \/ e.what \in {"trip", "redeemed"})
  PROVE  TrailTells'
  <1>1. e \in Entry
    BY DEF Telling
  <1>2. Moves \in Seq(Entry) /\ Moves' = Append(Moves, e)
    BY <1>1, MovesNext DEF AdminInv
  <1>3. Moves' # <<>> /\ Last(Moves') = e
    BY <1>1, <1>2 DEF Last
  <1>4. QED
    BY <1>3 DEF TrailTells

\* Anomalies, and those that are forgotten.
LEMMA AnomalyKeeps ==
  ASSUME AdminInv, Anomaly \/ ForgetAnomalies
  PROVE  AdminInv'
  <1> USE AdminAssumption
  <1>1. /\ AdminTypeOK /\ anomalies \in Seq(1..Horizon) /\ now \in 1..Horizon
        /\ Len(anomalies) <= Threshold /\ counted \in 0..MaxAnomalies
    BY DEF AdminInv, AdminTypeOK
  <1>2. RedeemedGone' /\ LinksOnce'
    BY LinksStay DEF Anomaly, ForgetAnomalies
  <1>3. CASE Anomaly
    <2> DEFINE more == Append(anomalies, now)
               held == Kept(more, Window)
    <2>1. more \in Seq(1..Horizon) /\ Len(more) = Len(anomalies) + 1
      BY <1>1
    <2> HIDE DEF more
    <2>2. held \in Seq(1..Horizon) /\ Len(held) <= Len(anomalies) + 1 /\ Len(held) \in Nat
      <3>1. held \in Seq(1..Horizon) /\ Len(held) <= Len(more)
        BY <2>1, KeptFrom
      <3> HIDE DEF held
      <3>2. QED
        BY <1>1, <2>1, <3>1
    <2>3. /\ breaker = "closed" /\ counted < MaxAnomalies /\ counted' = counted + 1
          /\ anomalies' = held
          /\ breaker' = IF Len(held) >= Threshold THEN "open" ELSE breaker
          /\ auto' = (auto \/ Len(held) >= Threshold)
          /\ UNCHANGED <<now, linkVars, paused, serving, trail>>
      BY <1>3 DEF Anomaly, more
    <2> HIDE DEF held
    <2>4. Len(anomalies) < Threshold /\ auto \in BOOLEAN
      BY <2>3 DEF AdminInv, BelowThreshold, AdminTypeOK
    <2>5. AdminTypeOK'
      BY <1>1, <2>2, <2>3, <2>4 DEF AdminTypeOK, linkVars
    <2>6. BelowThreshold'
      BY <2>2, <2>3 DEF BelowThreshold
    <2>7. TrailTells'
      <3>1. Moves' = Moves
        BY <2>3, MovesSame
      <3>2. ~auto /\ ~(Moves # <<>> /\ Last(Moves).what \in {"trip", "redeemed"})
        BY <2>3 DEF AdminInv, TrailTells
      <3>3. auto' <=> Len(held) >= Threshold
        BY <2>3, <3>2
      <3>4. QED
        BY <2>3, <3>1, <3>2, <3>3 DEF TrailTells
    <2>8. QED
      BY <1>2, <2>5, <2>6, <2>7 DEF AdminInv
  <1>4. CASE ForgetAnomalies
    <2>1. /\ anomalies' = Kept(anomalies, Window)
          /\ UNCHANGED <<now, breaker, counted, auto, linkVars, paused, serving, trail>>
      BY <1>4 DEF ForgetAnomalies
    <2>2. anomalies' \in Seq(1..Horizon) /\ Len(anomalies') <= Len(anomalies)
          /\ Len(anomalies') \in Nat /\ Len(anomalies) \in Nat
      BY <1>1, <2>1, KeptFrom
    <2>3. AdminTypeOK'
      BY <1>1, <2>1, <2>2 DEF AdminTypeOK, linkVars
    <2>4. BelowThreshold'
      BY <2>1, <2>2 DEF AdminInv, BelowThreshold
    <2>5. TrailTells'
      BY <2>1, TrailStays
    <2>6. QED
      BY <1>2, <2>3, <2>4, <2>5 DEF AdminInv
  <1>5. QED
    BY <1>3, <1>4

\* Links that are swept, issued and opened.
LEMMA SweepKeeps ==
  ASSUME AdminInv, Sweep
  PROVE  AdminInv'
  <1> DEFINE S == {l \in Links : Valid(l)}
  <1>1. /\ AdminTypeOK /\ links \in Seq(Links) /\ Len(links) <= MaxActive /\ MaxActive \in Nat
        /\ links' = Kept(links, S)
        /\ UNCHANGED <<now, breakerVars, expires, honoured, paused, serving, trail>>
    BY AdminAssumption DEF AdminInv, AdminTypeOK, Sweep, Unexpired
  <1> HIDE DEF S
  <1>2. /\ links' \in Seq(Links) /\ Len(links') <= Len(links)
        /\ \A i \in 1..Len(links') : \E j \in 1..Len(links) : links'[i] = links[j]
    BY <1>1, KeptFrom
  <1>3. AdminTypeOK'
    BY <1>1, <1>2 DEF AdminTypeOK, breakerVars
  <1>4. RedeemedGone' /\ LinksOnce'
    BY <1>1, <1>2 DEF AdminInv, RedeemedGone, LinksOnce
  <1>5. BelowThreshold' /\ TrailTells'
    BY <1>1, BreakerStays, TrailStays DEF breakerVars
  <1>6. QED
    BY <1>3, <1>4, <1>5 DEF AdminInv

LEMMA IssueKeeps ==
  ASSUME AdminInv, NEW l \in Links, IssueLink(l)
  PROVE  AdminInv'
  <1> DEFINE w == WithRoom
  <1>1. /\ AdminTypeOK /\ expires[l] = 0 /\ links' = Append(w, l)
        /\ expires' = [expires EXCEPT ![l] = now + Ttl]
        /\ UNCHANGED <<now, breakerVars, honoured, paused, serving, trail>>
    BY DEF AdminInv, IssueLink
  <1>2. /\ w \in Seq(Links) /\ Len(w) < MaxActive /\ Len(w) \in Nat /\ MaxActive \in Nat
        /\ \A i \in 1..Len(w) : \E j \in 1..Len(links) : w[i] = links[j]
    BY <1>1, Room, AdminAssumption
  <1> HIDE DEF w
  <1>3. /\ links' \in Seq(Links) /\ Len(links') <= MaxActive /\ links'[Len(w) + 1] = l
        /\ Len(links') = Len(w) + 1 /\ \A i \in 1..Len(w) : links'[i] = w[i]
    BY <1>1, <1>2
  <1>4. /\ expires' \in [Links -> Nat] /\ expires'[l] # 0
        /\ \A m \in Links : m # l => expires'[m] = expires[m]
    BY <1>1, AdminAssumption DEF AdminTypeOK
  <1>5. AdminTypeOK'
    BY <1>1, <1>3, <1>4 DEF AdminTypeOK, breakerVars
  <1>6. honoured[l] = <<>>
    BY <1>1 DEF AdminInv, RedeemedGone
  <1>7. RedeemedGone'
    <2> SUFFICES ASSUME NEW m \in Links, honoured'[m] # <<>>
                 PROVE  expires'[m] # 0 /\ \A i \in 1..Len(links') : links'[i] # m
      BY DEF RedeemedGone
    <2>1. m # l /\ honoured[m] # <<>>
      BY <1>1, <1>6
    <2>2. expires[m] # 0 /\ \A i \in 1..Len(links) : links[i] # m
      BY <2>1 DEF AdminInv, RedeemedGone
    <2>3. \A i \in 1..Len(links') : links'[i] = l \/ \E j \in 1..Len(links) : links'[i] = links[j]
      BY <1>2, <1>3
    <2>4. QED
      BY <1>4, <2>1, <2>2, <2>3
  <1>8. LinksOnce'
    <2> SUFFICES ASSUME NEW m \in Links
                 PROVE  /\ Len(honoured'[m]) <= 1
                        /\ \A k \in DOMAIN honoured'[m] : honoured'[m][k] < expires'[m]
      BY DEF LinksOnce
    <2>1. CASE m = l
      BY <1>1, <1>6, <2>1
    <2>2. CASE m # l
      BY <1>1, <1>4, <2>2 DEF AdminInv, LinksOnce
    <2>3. QED
      BY <2>1, <2>2
  <1>9. BelowThreshold' /\ TrailTells'
    BY <1>1, BreakerStays, TrailStays DEF breakerVars
  <1>10. QED
    BY <1>5, <1>7, <1>8, <1>9 DEF AdminInv

LEMMA OpenKeeps ==
  ASSUME AdminInv, NEW r \in Requests, NEW l \in Links, LinkOpened(r, l)
  PROVE  AdminInv'
  <1>1. /\ AdminTypeOK /\ links \in Seq(Links) /\ Len(links) <= MaxActive /\ MaxActive \in Nat
        /\ expires[l] # 0 /\ links' = Kept(links, Links \ {l})
        /\ serving' = [serving EXCEPT ![r] = "done"]
        /\ UNCHANGED <<now, expires, paused>>
    BY AdminAssumption DEF AdminInv, AdminTypeOK, LinkOpened, Without, Serves
  <1>2. /\ links' \in Seq(Links) /\ Len(links') <= Len(links)
        /\ \A i \in 1..Len(links') : links'[i] # l /\ \E j \in 1..Len(links) : links'[i] = links[j]
    <2> DEFINE S == Links \ {l}
    <2>1. links' = Kept(links, S) /\ l \notin S /\ links \in Seq(Links)
      BY <1>1
    <2> HIDE DEF S
    <2>2. \A i \in 1..Len(links') : links'[i] \in S
      BY <2>1, KeptFrom
    <2>3. /\ links' \in Seq(Links) /\ Len(links') <= Len(links)
          /\ \A i \in 1..Len(links') : \E j \in 1..Len(links) : links'[i] = links[j]
      BY <2>1, KeptFrom
    <2>4. QED
      BY <2>1, <2>2, <2>3
  <1>3. serving' \in [Requests -> Waits]
    BY <1>1 DEF AdminTypeOK, Waits
  <1>4. CASE l \in ToSet(links) /\ Valid(l)
    <2> DEFINE e == [op |-> "link", what |-> "redeemed"]
    <2>1. /\ honoured' = [honoured EXCEPT ![l] = Append(@, now)]
          /\ breaker' = "open" /\ UNCHANGED <<anomalies, counted, auto>>
          /\ trail' = Append(trail, e)
      BY <1>4 DEF LinkOpened, Trip, Recorded
    <2>2. e \in Entry /\ e \in Telling /\ e.what = "redeemed"
      BY DEF Entry, Telling
    <2> HIDE DEF e
    <2>3. honoured[l] = <<>>
      <3>1. \E i \in 1..Len(links) : links[i] = l
        BY <1>1, <1>4 DEF ToSet
      <3>2. QED
        BY <3>1 DEF AdminInv, RedeemedGone
    <2>4. /\ honoured'[l] = <<now>> /\ \A m \in Links : m # l => honoured'[m] = honoured[m]
          /\ honoured' \in [Links -> Seq(1..Horizon)]
      <3>1. Append(<<>>, now) = <<now>> /\ <<now>> \in Seq(1..Horizon)
        BY <1>1 DEF AdminTypeOK
      <3>2. QED
        BY <1>1, <2>1, <2>3, <3>1 DEF AdminTypeOK
    <2>5. AdminTypeOK'
      BY <1>1, <1>2, <1>3, <2>1, <2>2, <2>4 DEF AdminTypeOK
    <2>6. RedeemedGone'
      <3> SUFFICES ASSUME NEW m \in Links, honoured'[m] # <<>>
                   PROVE  expires'[m] # 0 /\ \A i \in 1..Len(links') : links'[i] # m
        BY DEF RedeemedGone
      <3>1. CASE m = l
        BY <1>1, <1>2, <3>1
      <3>2. CASE m # l
        BY ZenonT(30), <1>1, <1>2, <2>4, <3>2 DEF AdminInv, RedeemedGone
      <3>3. QED
        BY <3>1, <3>2
    <2>7. LinksOnce'
      <3> SUFFICES ASSUME NEW m \in Links
                   PROVE  /\ Len(honoured'[m]) <= 1
                          /\ \A k \in DOMAIN honoured'[m] : honoured'[m][k] < expires'[m]
        BY DEF LinksOnce
      <3>1. CASE m = l
        <4>1. now < expires[l]
          BY <1>1, <1>4 DEF Valid, AdminTypeOK
        <4>2. Len(<<now>>) = 1 /\ DOMAIN <<now>> = {1} /\ <<now>>[1] = now
          OBVIOUS
        <4>3. honoured'[m] = <<now>> /\ expires'[m] = expires[l]
          BY <1>1, <2>4, <3>1
        <4>4. QED
          BY <4>1, <4>2, <4>3
      <3>2. CASE m # l
        BY <1>1, <2>4, <3>2 DEF AdminInv, LinksOnce
      <3>3. QED
        BY <3>1, <3>2
    <2>8. BelowThreshold'
      BY <2>1 DEF BelowThreshold
    <2>9. TrailTells'
      BY <2>1, <2>2, TrailMoves
    <2>10. QED
      BY <2>5, <2>6, <2>7, <2>8, <2>9 DEF AdminInv
  <1>5. CASE ~(l \in ToSet(links) /\ Valid(l))
    <2> DEFINE e == [op |-> "link", what |-> "denied"]
    <2>1. UNCHANGED <<honoured, breakerVars>> /\ trail' = Append(trail, e)
      BY <1>5 DEF LinkOpened, Recorded
    <2>2. e \in Entry /\ e \notin Telling
      BY DEF Entry, Telling
    <2> HIDE DEF e
    <2>3. AdminTypeOK'
      BY <1>1, <1>2, <1>3, <2>1, <2>2 DEF AdminTypeOK, breakerVars
    <2>4. RedeemedGone' /\ LinksOnce'
      BY <1>1, <1>2, <2>1 DEF AdminInv, RedeemedGone, LinksOnce
    <2>5. BelowThreshold' /\ TrailTells'
      BY <2>1, <2>2, BreakerStays, TrailGrows DEF breakerVars
    <2>6. QED
      BY <2>3, <2>4, <2>5 DEF AdminInv
  <1>6. QED
    BY <1>4, <1>5

\* The requests: the entries they write and the state they leave.
LEMMA RequestKeeps ==
  ASSUME AdminInv, NEW r \in Requests,
         \/ BreakerRequest(r) \/ KillRequest(r) \/ KillTimer(r)
         \/ \E a \in {"trip", "reset", "other"} : BreakerBody(r, a)
         \/ GreenlightRequest(r) \/ GreenlightRead(r) \/ GreenlightAnswered(r)
  PROVE  AdminInv'
  <1>1. AdminTypeOK /\ UNCHANGED <<now, linkVars, paused>>
    BY DEF AdminInv, BreakerRequest, KillRequest, KillTimer, BreakerBody, GreenlightRequest,
           GreenlightRead, GreenlightAnswered
  <1>2. serving' \in [Requests -> Waits]
    BY <1>1 DEF AdminTypeOK, Waits, Serves, BreakerRequest, KillRequest, KillTimer, BreakerBody,
           GreenlightRequest, GreenlightRead, GreenlightAnswered
  <1>3. RedeemedGone' /\ LinksOnce'
    BY <1>1, LinksStay
  <1> DEFINE Said(op, what) == [op |-> op, what |-> what]
  <1>4. CASE UNCHANGED <<breakerVars, trail>>
    BY <1>1, <1>2, <1>3, <1>4, BreakerStays, TrailStays
       DEF AdminInv, AdminTypeOK, breakerVars, linkVars
  <1>5. ASSUME NEW op \in {"breaker", "kill", "link"},
               NEW what \in {"shutdown", "denied", "refused"}, Recorded(op, what),
               UNCHANGED breakerVars
        PROVE  AdminInv'
    <2>1. Said(op, what) \in Entry /\ Said(op, what) \notin Telling
      BY DEF Entry, Telling
    <2>2. trail' = Append(trail, Said(op, what))
      BY <1>5 DEF Recorded
    <2> HIDE DEF Said
    <2>3. AdminTypeOK'
      BY <1>1, <1>2, <1>5, <2>1, <2>2 DEF AdminTypeOK, breakerVars, linkVars
    <2>4. QED
      BY <1>3, <1>5, <2>1, <2>2, <2>3, BreakerStays, TrailGrows DEF AdminInv, breakerVars
  <1>6. CASE Trip /\ Recorded("breaker", "trip")
    <2>1. Said("breaker", "trip") \in Entry /\ Said("breaker", "trip") \in Telling
          /\ Said("breaker", "trip").what = "trip"
      BY DEF Entry, Telling
    <2>2. /\ trail' = Append(trail, Said("breaker", "trip"))
          /\ breaker' = "open" /\ UNCHANGED <<anomalies, counted, auto>>
      BY <1>6 DEF Recorded, Trip
    <2> HIDE DEF Said
    <2>3. AdminTypeOK'
      BY <1>1, <1>2, <2>1, <2>2 DEF AdminTypeOK, linkVars
    <2>4. BelowThreshold'
      BY <2>2 DEF BelowThreshold
    <2>5. TrailTells'
      BY <2>1, <2>2, TrailMoves
    <2>6. QED
      BY <1>3, <2>3, <2>4, <2>5 DEF AdminInv
  <1>7. CASE Reset /\ Recorded("breaker", "reset")
    <2>1. Said("breaker", "reset") \in Entry /\ Said("breaker", "reset") \in Telling
          /\ Said("breaker", "reset").what = "reset"
      BY DEF Entry, Telling
    <2>2. /\ trail' = Append(trail, Said("breaker", "reset"))
          /\ breaker' = "closed" /\ auto' = FALSE /\ UNCHANGED counted
          /\ anomalies' = IF breaker = "open" THEN <<>> ELSE anomalies
      BY <1>7 DEF Recorded, Reset
    <2> HIDE DEF Said
    <2>3. /\ anomalies' \in Seq(1..Horizon) /\ Len(anomalies') <= Threshold
          /\ Len(anomalies') < Threshold
      <3>1. CASE breaker = "open"
        BY <2>2, <3>1, AdminAssumption
      <3>2. CASE breaker # "open"
        BY <1>1, <2>2, <3>2 DEF AdminInv, AdminTypeOK, BelowThreshold
      <3>3. QED
        BY <3>1, <3>2
    <2>4. AdminTypeOK'
      <3>1. trail' \in Seq(Entry)
        <4>1. trail \in Seq(Entry) /\ trail' = Append(trail, Said("breaker", "reset"))
          BY <1>1, <2>2 DEF AdminTypeOK
        <4>2. QED
          BY <2>1, <4>1
      <3>2. /\ counted' = counted /\ auto' \in BOOLEAN
            /\ breaker' \in {"closed", "open"}
        BY <2>2
      <3>3. QED
        BY <1>1, <1>2, <2>3, <3>1, <3>2 DEF AdminTypeOK, linkVars
    <2>5. BelowThreshold'
      BY <2>3 DEF BelowThreshold
    <2>6. TrailTells'
      BY <2>1, <2>2, TrailMoves
    <2>7. QED
      BY <1>3, <2>4, <2>5, <2>6 DEF AdminInv
  <1>8. QED
    <2>1. CASE KillTimer(r) \/ GreenlightRequest(r) \/ GreenlightRead(r) \/ GreenlightAnswered(r)
      BY <1>4, <2>1 DEF KillTimer, GreenlightRequest, GreenlightRead, GreenlightAnswered
    <2>2. CASE BreakerRequest(r)
      BY <1>4, <1>5, <2>2 DEF BreakerRequest
    <2>3. CASE KillRequest(r)
      BY <1>5, <2>3 DEF KillRequest
    <2>4. ASSUME NEW a \in {"trip", "reset", "other"}, BreakerBody(r, a) PROVE AdminInv'
      BY <1>5, <1>6, <1>7, <2>4 DEF BreakerBody
    <2>5. QED
      BY <2>1, <2>2, <2>3, <2>4

\* A step of the breaker, the links and the requests.
LEMMA AdminKeeps ==
  ASSUME AdminInv, AdminStep
  PROVE  AdminInv'
  <1>1. CASE \E b \in BOOLEAN : SetPause(b)
    <2>1. paused' \in BOOLEAN /\ UNCHANGED <<now, breakerVars, linkVars, serving, trail>>
      BY <1>1 DEF SetPause
    <2>2. AdminTypeOK'
      BY <2>1 DEF AdminInv, AdminTypeOK, breakerVars, linkVars
    <2>3. QED
      BY <2>1, <2>2, LinksStay, BreakerStays, TrailStays DEF AdminInv, breakerVars
  <1>2. QED
    BY <1>1, AnomalyKeeps, SweepKeeps, IssueKeeps, OpenKeeps, RequestKeeps DEF AdminStep

\* The steps of the server move the clock and what requests wait for.
LEMMA AdminStays ==
  ASSUME AdminInv, now' \in 1..Horizon, serving' \in [Requests -> Waits],
         UNCHANGED <<breakerVars, linkVars, paused, trail>>
  PROVE  AdminInv'
  <1>1. AdminTypeOK'
    BY DEF AdminInv, AdminTypeOK, breakerVars, linkVars
  <1>2. QED
    BY <1>1, LinksStay, BreakerStays, TrailStays DEF AdminInv, breakerVars

-----------------------------------------------------------------------------
(* The limiters *)

Remembered == [times : Seq(Nat), until : Nat, lockouts : Nat, last : Nat]

LEMMA MaxOf ==
  ASSUME NEW x \in Int, NEW y \in Int
  PROVE  Max({x, y}) = IF x >= y THEN x ELSE y
  <1>1. PICK z \in {x, y} : \A k \in {x, y} : z >= k
    <2>1. CASE x >= y
      BY <2>1
    <2>2. CASE ~(x >= y)
      BY <2>2
    <2>3. QED
      BY <2>1, <2>2
  <1>2. Max({x, y}) \in {x, y} /\ \A k \in {x, y} : Max({x, y}) >= k
    BY <1>1 DEF Max
  <1>3. QED
    BY <1>2

\* The powers of the multiplier.
Powers(f, L, n) == f = [i \in 0..n |-> IF i = 0 THEN 1 ELSE L.multiplier * f[i - 1]]

LEMMA PowersExist ==
  ASSUME NEW L \in LimitConfig, NEW n \in Nat
  PROVE  \E f : Powers(f, L, n)
  <1> DEFINE m == L.multiplier
             Has(k) == \E f \in [0..k -> Nat] :
                         f[0] = 1 /\ \A i \in 1..k : f[i] = m * f[i - 1]
             Bad == {k \in Nat : ~Has(k)}
  <1>1. m \in Nat
    BY DEF LimitConfig
  <1> HIDE DEF m
  <1>2. Has(0)
    <2> DEFINE f == [i \in 0..0 |-> 1]
    <2>1. f \in [0..0 -> Nat] /\ f[0] = 1 /\ 1..0 = {}
      OBVIOUS
    <2> HIDE DEF f
    <2>2. QED
      BY <2>1
  <1>3. ASSUME NEW k \in Nat, k # 0, Has(k - 1) PROVE Has(k)
    <2>1. PICK f \in [0..k - 1 -> Nat] : f[0] = 1 /\ \A i \in 1..k - 1 : f[i] = m * f[i - 1]
      BY <1>3
    <2> DEFINE g == [i \in 0..k |-> IF i = k THEN m * f[k - 1] ELSE f[i]]
    <2>2. f[k - 1] \in Nat /\ m * f[k - 1] \in Nat
      BY <1>1, <1>3
    <2>3. g \in [0..k -> Nat]
      BY <1>3, <2>2
    <2>4. g[k] = m * f[k - 1] /\ \A i \in 0..k - 1 : g[i] = f[i]
      BY <1>3
    <2> HIDE DEF g
    <2>5. g[0] = 1
      BY <1>3, <2>1, <2>4
    <2>6. ASSUME NEW i \in 1..k PROVE g[i] = m * g[i - 1]
      <3>1. i - 1 \in 0..k - 1 /\ g[i - 1] = f[i - 1]
        BY <1>3, <2>4
      <3>2. CASE i = k
        BY <2>4, <3>1, <3>2
      <3>3. CASE i # k
        <4>1. i \in 1..k - 1 /\ i \in 0..k - 1
          BY <1>3, <3>3
        <4>2. QED
          BY <2>1, <2>4, <3>1, <4>1
      <3>4. QED
        BY <3>2, <3>3
    <2>7. QED
      BY <2>3, <2>5, <2>6
  <1> HIDE DEF Has
  <1>4. Bad = {}
    <2>1. SUFFICES ASSUME Bad # {} PROVE FALSE
      OBVIOUS
    <2>2. PICK k \in Bad : \A j \in Bad : ~(j < k)
      BY <2>1, Least
    <2>3. k # 0 /\ k \in Nat /\ ~Has(k)
      BY <1>2, <2>2
    <2>4. k - 1 \in Nat /\ k - 1 < k
      BY <2>3
    <2>5. Has(k - 1)
      BY <2>2, <2>4
    <2>6. QED
      BY <1>3, <2>3, <2>5
  <1>5. PICK f \in [0..n -> Nat] : f[0] = 1 /\ \A i \in 1..n : f[i] = m * f[i - 1]
    BY <1>4 DEF Has
  <1>6. f = [i \in 0..n |-> IF i = 0 THEN 1 ELSE m * f[i - 1]]
    <2>1. \A i \in 0..n : i # 0 => i \in 1..n
      OBVIOUS
    <2>2. \A i \in 0..n : f[i] = IF i = 0 THEN 1 ELSE m * f[i - 1]
      BY <1>5, <2>1
    <2>3. QED
      BY <1>5, <2>2
  <1>7. QED
    BY <1>6 DEF Powers, m

\* A growing lockout is never shorter than the first.
LEMMA GrowthIs ==
  ASSUME NEW L \in LimitConfig, NEW n \in Nat, L.multiplier >= 1
  PROVE  Growth(L, n) \in Nat \ {0}
  <1> DEFINE f == CHOOSE g : Powers(g, L, n)
             m == L.multiplier
  <1>1. Powers(f, L, n)
    BY PowersExist
  <1>2. Growth(L, n) = f[n]
    BY DEF Growth, Powers
  <1>3. m \in Nat \ {0}
    BY DEF LimitConfig
  <1> HIDE DEF f
  <1>4. \A i \in 0..n : f[i] = IF i = 0 THEN 1 ELSE m * f[i - 1]
    BY <1>1 DEF Powers
  <1> HIDE DEF m
  <1> DEFINE Bad == {i \in Nat : i <= n /\ f[i] \notin Nat \ {0}}
  <1>5. Bad = {}
    <2>1. SUFFICES ASSUME Bad # {} PROVE FALSE
      OBVIOUS
    <2>2. PICK i \in Bad : \A j \in Bad : ~(j < i)
      BY <2>1, Least
    <2>3. i \in 0..n /\ f[i] \notin Nat \ {0} /\ i # 0
      <3>1. f[0] = 1
        BY <1>4
      <3>2. QED
        BY <2>2, <3>1
    <2>4. i - 1 \in Nat /\ i - 1 < i /\ i - 1 <= n
      BY <2>3
    <2>5. f[i - 1] \in Nat \ {0}
      BY <2>2, <2>4
    <2>6. \A a, b \in Nat \ {0} : a * b \in Nat \ {0}
      OBVIOUS
    <2>7. f[i] = m * f[i - 1]
      BY <1>4, <2>3
    <2>8. QED
      BY <1>3, <2>3, <2>5, <2>6, <2>7
  <1>6. n \in Nat /\ n <= n
    OBVIOUS
  <1>7. QED
    BY <1>2, <1>5, <1>6

\* computeLockoutMs returns a lockout or the largest one, or more than the first.
LEMMA LockoutIs ==
  ASSUME NEW L \in LimitConfig, NEW n \in Nat
  PROVE  /\ LockoutTime(L, n) \in Nat
         /\ LockoutTime(L, n) >= L.lockout \/ LockoutTime(L, n) >= L.maxLockout
         /\ LockoutTime(L, n) <= L.lockout \/ LockoutTime(L, n) <= L.maxLockout
  <1>1. L.multiplier \in Nat /\ L.lockout \in Nat /\ L.maxLockout \in Nat
    BY DEF LimitConfig
  <1>2. CASE L.multiplier <= 1
    BY <1>1, <1>2 DEF LockoutTime
  <1>3. CASE L.multiplier > 1
    <2> DEFINE k == Max({0, n - 1})
               g == Growth(L, k)
    <2>1. k \in Nat
      BY MaxOf
    <2> HIDE DEF k
    <2>2. g \in Nat \ {0}
      BY <1>1, <1>3, <2>1, GrowthIs
    <2> HIDE DEF g
    <2>3. \A a \in Nat, b \in Nat \ {0} : a * b \in Nat /\ a * b >= a
      OBVIOUS
    <2>4. L.lockout * g \in Nat /\ L.lockout * g >= L.lockout
      BY <1>1, <2>2, <2>3
    <2> DEFINE h == L.lockout * g
    <2>5. LockoutTime(L, n) = Min({h, L.maxLockout})
      BY <1>1, <1>3 DEF LockoutTime, g, k
    <2> HIDE DEF h
    <2>6. h \in Nat /\ h >= L.lockout
      BY <2>4 DEF h
    <2>7. Min({h, L.maxLockout}) \in {h, L.maxLockout}
          /\ Min({h, L.maxLockout}) <= L.maxLockout
      BY <1>1, <2>6, MinOf
    <2>8. QED
      BY <1>1, <2>5, <2>6, <2>7
  <1>4. QED
    BY <1>1, <1>2, <1>3

\* The window, and the attempts in it.
Since(x) == {t \in Nat : t > x}

LEMMA RecentIs ==
  ASSUME NEW L \in LimitConfig, NEW e \in Remembered, NEW t \in Nat
  PROVE  /\ Recent(L, e, t) = Kept(e.times, Since(t - L.window))
         /\ Recent(L, e, t) \in Seq(Nat) /\ Len(Recent(L, e, t)) <= Len(e.times)
         /\ Len(Recent(L, e, t)) \in Nat
  <1>1. Recent(L, e, t) = Kept(e.times, Since(t - L.window))
    BY DEF Recent, Since
  <1>2. e.times \in Seq(Nat)
    BY DEF Remembered
  <1>3. Recent(L, e, t) \in Seq(Nat) /\ Len(Recent(L, e, t)) <= Len(e.times)
    BY <1>1, <1>2, KeptFrom
  <1>4. QED
    BY <1>1, <1>3

\* What forgetting the growth leaves.
LEMMA ForgivenIs ==
  ASSUME NEW L \in LimitConfig, NEW e \in Remembered, NEW t \in Nat
  PROVE  LET f == Forgiven(L, e, t)
         IN /\ f \in Remembered /\ f.times = e.times /\ f.until = e.until /\ f.last = e.last
            /\ \/ f.lockouts = e.lockouts
               \/ f.lockouts = 0 /\ t - e.last > L.reset /\ t >= e.until
  <1> DEFINE f == Forgiven(L, e, t)
  <1>1. CASE e.lockouts > 0 /\ e.last > 0 /\ t - e.last > L.reset /\ t >= e.until
    <2>1. f = [e EXCEPT !.lockouts = 0]
      BY <1>1 DEF Forgiven
    <2> HIDE DEF f
    <2>2. f \in Remembered /\ f.times = e.times /\ f.until = e.until /\ f.last = e.last
          /\ f.lockouts = 0
      BY <2>1 DEF Remembered
    <2>3. QED
      BY <1>1, <2>2 DEF f
  <1>2. CASE ~(e.lockouts > 0 /\ e.last > 0 /\ t - e.last > L.reset /\ t >= e.until)
    <2>1. f = e
      BY <1>2 DEF Forgiven
    <2>2. QED
      BY <2>1 DEF Remembered
  <1>3. QED
    BY <1>1, <1>2

LEMMA AllowedIs ==
  ASSUME NEW L \in LimitConfig, NEW e \in Remembered, NEW t \in Nat
  PROVE  Allowed(L, Forgiven(L, e, t), t) <=> t >= e.until /\ Len(Recent(L, e, t)) < L.attempts
  BY ForgivenIs DEF Allowed, Recent

\* The entry a check leaves: in a lockout, behind one attempt more, or with a
\* lockout that begins now.
LEMMA CheckedIs ==
  ASSUME NEW L \in LimitConfig, NEW e \in Remembered, NEW t \in Nat
  PROVE  LET f == Checked(L, e, t)
             g == Forgiven(L, e, t)
         IN /\ f \in Remembered
            /\ t < e.until => f = g
            /\ t >= e.until /\ Len(Recent(L, e, t)) < L.attempts =>
                 /\ f.times = Append(Recent(L, e, t), t)
                 /\ f.until = e.until /\ f.last = e.last /\ f.lockouts = g.lockouts
            /\ t >= e.until /\ Len(Recent(L, e, t)) >= L.attempts =>
                 /\ f.times = Recent(L, e, t) /\ f.last = t /\ f.lockouts = g.lockouts + 1
                 /\ f.until = t + LockoutTime(L, g.lockouts + 1)
  <1> DEFINE g == Forgiven(L, e, t)
             q == Recent(L, e, t)
             h == [g EXCEPT !.times = q]
             n == LockoutTime(L, h.lockouts + 1)
  <1>1. g \in Remembered /\ g.times = e.times /\ g.until = e.until /\ g.last = e.last
    BY ForgivenIs
  <1>2. q \in Seq(Nat) /\ Len(q) \in Nat /\ L.attempts \in Nat
    BY RecentIs DEF LimitConfig
  <1>3. Allowed(L, e, t) <=> t >= e.until /\ Len(q) < L.attempts
    BY DEF Allowed
  <1>4. Checked(L, e, t) = IF t < e.until THEN g
                           ELSE IF Allowed(L, e, t) THEN [h EXCEPT !.times = Append(@, t)]
                           ELSE [h EXCEPT !.lockouts = @ + 1, !.last = t, !.until = t + n]
    BY DEF Checked
  <1> HIDE DEF g, q
  <1>5. h \in Remembered /\ h.times = q /\ h.until = e.until /\ h.last = e.last /\ h.lockouts = g.lockouts
    BY <1>1, <1>2 DEF Remembered
  <1> HIDE DEF h
  <1>6. h.lockouts + 1 \in Nat
    BY <1>5 DEF Remembered
  <1>7. n \in Nat
    BY <1>6, LockoutIs
  <1> HIDE DEF n
  <1>8. e.until \in Nat
    BY DEF Remembered
  <1>9. CASE t < e.until
    BY <1>1, <1>4, <1>8, <1>9 DEF g
  <1>10. CASE t >= e.until /\ Len(q) < L.attempts
    <2>1. Checked(L, e, t) = [h EXCEPT !.times = Append(q, t)]
      BY <1>3, <1>4, <1>5, <1>8, <1>10
    <2> DEFINE more == Append(q, t)
               f == [h EXCEPT !.times = more]
    <2>2. more \in Seq(Nat)
      BY <1>2
    <2> HIDE DEF more
    <2>3. f \in Remembered /\ f.times = more /\ f.until = h.until /\ f.last = h.last
          /\ f.lockouts = h.lockouts
      BY <1>5, <2>2 DEF Remembered
    <2>4. Checked(L, e, t) = f
      BY <2>1 DEF more
    <2> HIDE DEF f
    <2>5. QED
      BY <1>2, <1>5, <1>8, <1>10, <2>3, <2>4 DEF g, q, more
  <1>11. CASE t >= e.until /\ Len(q) >= L.attempts
    <2> DEFINE c == h.lockouts + 1
               u == t + n
               f == [h EXCEPT !.lockouts = c, !.last = t, !.until = u]
    <2>1. Checked(L, e, t) = f
      BY <1>2, <1>3, <1>4, <1>8, <1>11
    <2>2. c \in Nat /\ u \in Nat
      BY <1>6, <1>7
    <2> HIDE DEF c, u
    <2>3. f \in Remembered /\ f.times = h.times /\ f.last = t /\ f.lockouts = c /\ f.until = u
      BY <1>5, <2>2 DEF Remembered
    <2> HIDE DEF f
    <2>4. c = g.lockouts + 1 /\ u = t + LockoutTime(L, g.lockouts + 1)
      BY <1>5 DEF c, u, n
    <2>5. QED
      BY <1>2, <1>5, <1>8, <1>11, <2>1, <2>3, <2>4 DEF g, q
  <1>12. QED
    BY <1>2, <1>8, <1>9, <1>10, <1>11 DEF g, q

\* The entry the timer leaves: as it was, unknown, or without old attempts.
LEMMA CleanedIs ==
  ASSUME NEW L \in LimitConfig, NEW e \in Remembered, NEW t \in Nat
  PROVE  LET f == Cleaned(L, e, t)
         IN /\ f \in Remembered
            /\ \/ f = e
               \/ /\ f = Fresh /\ t >= e.until /\ Recent(L, e, t) = <<>>
                  /\ e.lockouts = 0 \/ t - e.last >= L.reset
               \/ /\ f.times = Recent(L, e, t)
                  /\ f.until = e.until /\ f.last = e.last /\ f.lockouts = e.lockouts
  <1>1. Fresh \in Remembered
    BY DEF Fresh, Remembered
  <1>2. Recent(L, e, t) \in Seq(Nat) /\ L.reset \in Nat
    BY RecentIs DEF LimitConfig
  <1>3. e.until \in Nat /\ e.lockouts \in Nat /\ e.last \in Nat
    BY DEF Remembered
  <1>4. CASE t < e.until
    BY <1>3, <1>4 DEF Cleaned
  <1>5. CASE t >= e.until /\ Recent(L, e, t) = <<>> /\ ~(e.lockouts > 0 /\ t - e.last < L.reset)
    BY <1>1, <1>2, <1>3, <1>5 DEF Cleaned
  <1>6. CASE t >= e.until /\ ~(Recent(L, e, t) = <<>> /\ ~(e.lockouts > 0 /\ t - e.last < L.reset))
    <2>1. Cleaned(L, e, t) = [e EXCEPT !.times = Recent(L, e, t)]
      BY <1>3, <1>6 DEF Cleaned
    <2>2. QED
      BY <1>2, <2>1 DEF Remembered
  <1>7. QED
    BY <1>3, <1>4, <1>5, <1>6

-----------------------------------------------------------------------------
(* The failures of one address *)

Auth == Limits["auth"]
Sockets == Cardinality(Conns)
Spare == Max({0, Sockets - 2})

LEMMA AuthIs ==
  /\ Auth \in LimitConfig /\ Auth.attempts \in Nat \ {0} /\ Auth.window \in Nat \ {0}
  /\ Auth.lockout \in Nat /\ Auth.maxLockout \in Nat
  /\ Auth.lockout >= Auth.window /\ Auth.maxLockout >= Auth.window
  /\ Sockets \in Nat /\ Spare \in Nat /\ Spare >= Sockets - 2
  <1>1. Auth \in LimitConfig /\ "auth" \in Kinds
    BY EdgeAssumption DEF Auth, Kinds
  <1>2. /\ Auth.attempts \in Nat \ {0} /\ Auth.window \in Nat \ {0}
        /\ Auth.lockout \in Nat /\ Auth.maxLockout \in Nat
        /\ Auth.lockout >= Auth.window /\ Auth.maxLockout >= Auth.window
    BY <1>1, AuthAssumption DEF Auth, LimitConfig
  <1>3. Sockets \in Nat
    BY EdgeAssumption, FS_CardinalityType DEF Sockets
  <1>4. Spare \in Nat /\ Spare >= Sockets - 2
    BY <1>3, MaxOf DEF Spare
  <1>5. QED
    BY <1>1, <1>2, <1>3, <1>4

\* How many of the times in q come after x.
Counted(q, x) == Len(Kept(q, Since(x)))

\* The times of q are in the window that ends at t.
InWindow(q, t) == \A i \in 1..Len(q) : t - Auth.window < q[i] /\ q[i] <= t

\* What holds at time t of the entry e of an address, of the failures q in the
\* window and of n handshakes under way.
Held(e, q, n, t) ==
  /\ InWindow(e.times, t) /\ InWindow(q, t)
  /\ e.until = 0 \/ e.until >= e.last + Auth.window
  /\ Len(q) + n <= Auth.attempts - 1 + Sockets + Spare

\* What holds besides until the server stops.  Outside a lockout the failures
\* are the attempts, but for those that came late in the last lockout; the
\* attempt that reached the limit and the one that began it are not late.
Told(e, q, n, t) ==
  /\ t >= e.until => \A x \in Int : Counted(q, x) <= Counted(e.times, x) + Spare
  /\ t >= e.until /\ Len(e.times) >= Auth.attempts => n + 1 <= Sockets
  /\ t < e.until => Counted(q, e.last) + n + 2 <= Sockets
  /\ t < e.until => \A i \in 1..Len(e.times) : e.times[i] <= e.last

LEMMA CountedType ==
  ASSUME NEW q \in Seq(Nat), NEW x \in Int
  PROVE  Counted(q, x) \in Nat /\ Counted(q, x) <= Len(q)
  BY KeptFrom DEF Counted

\* All times of the window are counted from its beginning, none from its end.
LEMMA CountedAll ==
  ASSUME NEW q \in Seq(Nat), NEW t \in Nat, InWindow(q, t), NEW x \in Int,
         x <= t - Auth.window
  PROVE  Kept(q, Since(x)) = q /\ Counted(q, x) = Len(q)
  <1>1. \A i \in 1..Len(q) : q[i] \in Since(x)
    BY SMTT(30), AuthIs DEF InWindow, Since
  <1>2. Kept(q, Since(x)) = q
    BY <1>1, KeptAll
  <1>3. QED
    BY <1>2 DEF Counted

LEMMA CountedNone ==
  ASSUME NEW q \in Seq(Nat), NEW x \in Int, \A i \in 1..Len(q) : q[i] <= x
  PROVE  Counted(q, x) = 0 /\ Kept(q, Since(x)) = <<>>
  <1> DEFINE k == Kept(q, Since(x))
  <1>1. k \in Seq(Nat) /\ \A i \in 1..Len(k) : k[i] \in Since(x) /\ \E j \in 1..Len(q) : k[i] = q[j]
    BY KeptFrom
  <1> HIDE DEF k
  <1>2. ASSUME NEW i \in 1..Len(k) PROVE FALSE
    <2>1. PICK j \in 1..Len(q) : k[i] = q[j]
      BY <1>1
    <2>2. k[i] > x /\ k[i] \in Nat
      BY <1>1 DEF Since
    <2>3. q[j] <= x
      OBVIOUS
    <2>4. QED
      BY <2>1, <2>2, <2>3
  <1>3. Len(k) = 0
    BY <1>1, <1>2
  <1>4. QED
    BY <1>1, <1>3 DEF Counted, k

LEMMA CountedNext ==
  ASSUME NEW q \in Seq(Nat), NEW t \in Nat, NEW x \in Int
  PROVE  Counted(Append(q, t), x) = IF t > x THEN Counted(q, x) + 1 ELSE Counted(q, x)
  <1>1. Kept(q, Since(x)) \in Seq(Nat)
    BY KeptFrom
  <1>2. Kept(Append(q, t), Since(x))
          = IF t \in Since(x) THEN Append(Kept(q, Since(x)), t) ELSE Kept(q, Since(x))
    BY KeptAppend
  <1>3. t \in Since(x) <=> t > x
    BY DEF Since
  <1>4. QED
    BY <1>1, <1>2, <1>3 DEF Counted

\* To count in a window is to count from the later of its beginning and x.
LEMMA CountedTwice ==
  ASSUME NEW q \in Seq(Nat), NEW w \in Int, NEW x \in Int
  PROVE  /\ Counted(Kept(q, Since(w)), x) = Counted(q, IF x >= w THEN x ELSE w)
         /\ Kept(q, Since(w)) \in Seq(Nat) /\ Len(Kept(q, Since(w))) = Counted(q, w)
  <1>1. Kept(Kept(q, Since(w)), Since(x)) = Kept(q, Since(w) \cap Since(x))
    BY KeptTwice
  <1>2. Since(w) \cap Since(x) = Since(IF x >= w THEN x ELSE w)
    BY DEF Since
  <1>3. QED
    BY <1>1, <1>2, KeptFrom DEF Counted

LEMMA KeptSince ==
  ASSUME NEW q \in Seq(Nat), NEW w \in Int, NEW i \in 1..Len(Kept(q, Since(w)))
  PROVE  LET k == Kept(q, Since(w))
         IN k[i] \in Nat /\ k[i] > w /\ \E j \in 1..Len(q) : k[i] = q[j]
  <1> DEFINE k == Kept(q, Since(w))
  <1>1. k[i] \in Since(w) /\ \E j \in 1..Len(q) : k[i] = q[j]
    BY KeptFrom
  <1> HIDE DEF k
  <1>2. k[i] \in Nat /\ k[i] > w
    BY <1>1 DEF Since
  <1>3. QED
    BY <1>1, <1>2 DEF k

LEMMA CountedFewer ==
  ASSUME NEW q \in Seq(Nat), NEW w \in Int, NEW x \in Int, w <= x
  PROVE  Counted(q, x) <= Counted(q, w)
  <1>1. Since(x) \subseteq Since(w)
    BY DEF Since
  <1>2. QED
    BY <1>1, KeptWithin DEF Counted

\* The steps of an address: fewer handshakes, one more, the limiter emptied.
LEMMA HeldFewer ==
  ASSUME NEW e \in Remembered, NEW q \in Seq(Nat), NEW n \in Nat, NEW t \in Nat,
         Held(e, q, n, t), NEW m \in Nat, m <= n
  PROVE  Held(e, q, m, t) /\ (Told(e, q, n, t) => Told(e, q, m, t))
  <1>1. e.last \in Nat /\ Len(q) \in Nat /\ Counted(q, e.last) \in Nat
    BY CountedType DEF Remembered
  <1>2. Held(e, q, m, t)
    BY <1>1, AuthIs DEF Held
  <1>3. ASSUME Told(e, q, n, t) PROVE Told(e, q, m, t)
    BY <1>1, <1>3, AuthIs DEF Told
  <1>4. QED
    BY <1>2, <1>3

LEMMA HeldGreets ==
  ASSUME NEW e \in Remembered, NEW q \in Seq(Nat), NEW n \in Nat, NEW t \in Nat,
         Held(e, q, n, t), Told(e, q, n, t), t >= e.until, Len(e.times) < Auth.attempts,
         n + 1 <= Sockets
  PROVE  Held(e, q, n + 1, t) /\ Told(e, q, n + 1, t)
  <1>1. e.times \in Seq(Nat) /\ e.until \in Nat /\ Len(e.times) \in Nat /\ Len(q) \in Nat
    BY DEF Remembered
  <1>2. Len(q) <= Len(e.times) + Spare
    <2> DEFINE w == t - Auth.window
    <2>1. w \in Int /\ w <= t - Auth.window
      BY AuthIs
    <2> HIDE DEF w
    <2>2. Counted(q, w) = Len(q) /\ Counted(e.times, w) = Len(e.times)
      BY <1>1, <2>1, CountedAll DEF Held
    <2>3. QED
      BY <2>1, <2>2 DEF Told
  <1>3. Len(q) + (n + 1) <= Auth.attempts - 1 + Sockets + Spare
    BY SMTT(30), <1>1, <1>2, AuthIs
  <1>4. Held(e, q, n + 1, t)
    BY <1>3 DEF Held
  <1>5. ~(t < e.until) /\ ~(Len(e.times) >= Auth.attempts)
    BY <1>1, AuthIs
  <1>6. Told(e, q, n + 1, t)
    BY <1>5 DEF Told
  <1>7. QED
    BY <1>4, <1>6

LEMMA HeldStops ==
  ASSUME NEW e \in Remembered, NEW q \in Seq(Nat), NEW n \in Nat, NEW t \in Nat,
         Held(e, q, n, t)
  PROVE  Held(Fresh, q, n, t)
  BY DEF Fresh, InWindow, Held

\* The timer of the limiter.
LEMMA HeldCleaned ==
  ASSUME NEW e \in Remembered, NEW q \in Seq(Nat), NEW n \in Nat, NEW t \in Nat,
         Held(e, q, n, t)
  PROVE  /\ Held(Cleaned(Auth, e, t), q, n, t)
         /\ Told(e, q, n, t) => Told(Cleaned(Auth, e, t), q, n, t)
  <1> DEFINE f == Cleaned(Auth, e, t)
             w == t - Auth.window
  <1>1. e.times \in Seq(Nat) /\ e.until \in Nat
    BY DEF Remembered
  <1>2. Recent(Auth, e, t) = e.times
    <2>1. w \in Int /\ w <= t - Auth.window
      BY AuthIs
    <2>2. Recent(Auth, e, t) = Kept(e.times, Since(w))
      BY AuthIs, RecentIs
    <2> HIDE DEF w
    <2>3. QED
      BY <1>1, <2>1, <2>2, CountedAll DEF Held
  <1>3. \/ f = e
        \/ f = Fresh /\ t >= e.until /\ e.times = <<>>
        \/ f.times = e.times /\ f.until = e.until /\ f.last = e.last
    BY SMTT(30), <1>2, AuthIs, CleanedIs
  <1> HIDE DEF f
  <1>4. CASE f = Fresh /\ t >= e.until /\ e.times = <<>>
    <2>1. f.times = e.times /\ f.until = 0
      BY <1>4 DEF Fresh
    <2>2. Held(f, q, n, t)
      BY <2>1 DEF Held
    <2>3. ASSUME Told(e, q, n, t) PROVE Told(f, q, n, t)
      BY <1>4, <2>1, <2>3 DEF Told
    <2>4. QED
      BY <2>2, <2>3 DEF f
  <1>5. CASE f.times = e.times /\ f.until = e.until /\ f.last = e.last
    <2>1. Held(f, q, n, t) /\ (Told(e, q, n, t) => Told(f, q, n, t))
      BY <1>5 DEF Held, Told
    <2>2. QED
      BY <2>1 DEF f
  <1>6. QED
    BY <1>3, <1>4, <1>5

\* The clock: what leaves the window, and the end of a lockout.
LEMMA HeldTicks ==
  ASSUME NEW e \in Remembered, NEW q \in Seq(Nat), NEW n \in Nat, NEW t \in Nat,
         Held(e, q, n, t), NEW f \in Remembered, NEW r,
         f.times = Kept(e.times, Since(t + 1 - Auth.window)),
         f.until = e.until, f.last = e.last,
         r = Kept(q, Since(t + 1 - Auth.window))
  PROVE  Held(f, r, n, t + 1) /\ (Told(e, q, n, t) => Told(f, r, n, t + 1))
  <1> DEFINE w == t + 1 - Auth.window
  <1>1. /\ w \in Int /\ w <= t /\ e.times \in Seq(Nat) /\ f.times \in Seq(Nat)
        /\ e.until \in Nat /\ e.last \in Nat /\ Len(e.times) \in Nat /\ Len(q) \in Nat
        /\ e.last \in Int /\ f.last = e.last
    <2>1. w \in Int /\ w <= t
      BY AuthIs
    <2>2. /\ e.times \in Seq(Nat) /\ f.times \in Seq(Nat)
          /\ e.until \in Nat /\ e.last \in Nat /\ e.last \in Int
      BY DEF Remembered
    <2>3. QED
      BY <2>1, <2>2
  <1>2. f.times = Kept(e.times, Since(w)) /\ r = Kept(q, Since(w))
    OBVIOUS
  <1>3. w = t + 1 - Auth.window /\ w = (t + 1) - Auth.window
    <2>1. \A x, y \in Int : x + 1 - y = (x + 1) - y
      OBVIOUS
    <2>2. t \in Int /\ Auth.window \in Int
      BY AuthIs
    <2>3. QED
      BY <2>1, <2>2
  <1> HIDE DEF w
  <1>4. /\ \A x \in Int : Counted(r, x) = Counted(q, IF x >= w THEN x ELSE w)
        /\ \A x \in Int : Counted(f.times, x) = Counted(e.times, IF x >= w THEN x ELSE w)
        /\ r \in Seq(Nat) /\ Len(r) \in Nat /\ Len(r) <= Len(q)
        /\ Len(f.times) \in Nat /\ Len(f.times) <= Len(e.times)
    <2>1. Len(r) <= Len(q) /\ Len(f.times) <= Len(e.times)
      BY <1>1, <1>2, KeptFrom
    <2>2. QED
      BY <1>1, <1>2, <2>1, CountedTwice
  <1>5. ASSUME NEW p \in Seq(Nat), InWindow(p, t) PROVE InWindow(Kept(p, Since(w)), t + 1)
    <2> DEFINE k == Kept(p, Since(w))
    <2>1. ASSUME NEW i \in 1..Len(k)
          PROVE  k[i] \in Nat /\ k[i] > w /\ \E j \in 1..Len(p) : k[i] = p[j]
      BY <1>1, KeptSince
    <2> HIDE DEF k
    <2>2. ASSUME NEW i \in 1..Len(k) PROVE k[i] <= t
      <3>1. PICK j \in 1..Len(p) : k[i] = p[j]
        BY <2>1
      <3>2. p[j] <= t
        BY <1>5 DEF InWindow
      <3>3. QED
        BY <3>1, <3>2
    <2>3. ASSUME NEW i \in 1..Len(k) PROVE (t + 1) - Auth.window < k[i] /\ k[i] <= t + 1
      <3>1. k[i] \in Nat /\ k[i] > w /\ k[i] <= t
        BY <2>1, <2>2
      <3>2. QED
        BY <1>1, <1>3, <3>1
    <2>4. InWindow(k, t + 1)
      BY <2>3 DEF InWindow
    <2>5. QED
      BY <2>4 DEF k
  <1>6. Held(f, r, n, t + 1)
    <2>1. InWindow(f.times, t + 1) /\ InWindow(r, t + 1)
      BY <1>1, <1>2, <1>5 DEF Held
    <2>2. QED
      BY SMTT(30), <1>1, <1>4, <2>1, AuthIs DEF Held
  <1>7. ASSUME Told(e, q, n, t) PROVE Told(f, r, n, t + 1)
    <2>1. CASE t >= e.until
      <3>1. \A x \in Int : Counted(r, x) <= Counted(f.times, x) + Spare
        <4> SUFFICES ASSUME NEW x \in Int
                     PROVE  Counted(r, x) <= Counted(f.times, x) + Spare
          OBVIOUS
        <4>1. (IF x >= w THEN x ELSE w) \in Int
          BY <1>1
        <4>2. QED
          BY <1>4, <1>7, <2>1, <4>1 DEF Told
      <3>2. Len(f.times) >= Auth.attempts => n + 1 <= Sockets
        BY SMTT(30), <1>1, <1>4, <1>7, <2>1, AuthIs DEF Told
      <3>3. ~(t + 1 < f.until)
        BY <1>1, <2>1
      <3>4. QED
        BY <3>1, <3>2, <3>3 DEF Told
    <2>2. CASE t + 1 < e.until
      <3>1. Counted(q, e.last) + n + 2 <= Sockets /\ \A i \in 1..Len(e.times) : e.times[i] <= e.last
        BY <1>1, <1>7, <2>2 DEF Told
      <3>2. Counted(r, f.last) <= Counted(q, e.last)
        <4>1. r \in Seq(Nat) /\ e.last \in Int
          BY <1>1, <1>4
        <4>2. Counted(r, e.last) = Counted(q, IF e.last >= w THEN e.last ELSE w)
          BY <1>4, <4>1
        <4> DEFINE y == IF e.last >= w THEN e.last ELSE w
        <4>3. y \in Int /\ e.last <= y
          BY <1>1
        <4> HIDE DEF y
        <4>4. Counted(q, y) <= Counted(q, e.last)
          BY <4>1, <4>3, CountedFewer
        <4>5. QED
          BY <1>1, <4>2, <4>4 DEF y
      <3>3. Counted(r, f.last) \in Nat /\ Counted(q, e.last) \in Nat
        BY <1>1, <1>4, CountedType
      <3>4. \A i \in 1..Len(f.times) : f.times[i] <= f.last
        <4>1. ASSUME NEW i \in 1..Len(f.times)
              PROVE  \E j \in 1..Len(e.times) : f.times[i] = e.times[j]
          <5> DEFINE s == e.times
          <5>1. s \in Seq(Nat) /\ f.times = Kept(s, Since(w)) /\ w \in Int
            BY <1>1, <1>2
          <5> HIDE DEF s
          <5>2. i \in 1..Len(Kept(s, Since(w)))
            BY <5>1
          <5>3. \E j \in 1..Len(s) : Kept(s, Since(w))[i] = s[j]
            BY <5>1, <5>2, KeptSince
          <5>4. QED
            BY <5>1, <5>3 DEF s
        <4>2. QED
          BY <1>1, <3>1, <4>1
      <3>5. ~(t + 1 >= f.until)
        BY <1>1, <2>2
      <3>6. Counted(r, f.last) + n + 2 <= Sockets
        BY <3>1, <3>2, <3>3, AuthIs
      <3>7. QED
        BY <3>4, <3>5, <3>6 DEF Told
    <2>3. CASE t < e.until /\ t + 1 >= e.until
      <3>1. Counted(q, e.last) + n + 2 <= Sockets /\ \A i \in 1..Len(e.times) : e.times[i] <= e.last
        BY <2>3, <1>7 DEF Told
      <3>2. e.last <= w
        <4>1. e.until >= e.last + Auth.window
          BY <1>1, <2>3 DEF Held
        <4>2. QED
          BY SMTT(30), <1>1, <1>3, <2>3, <4>1, AuthIs
      <3>3. Len(f.times) = 0
        <4>1. e.times \in Seq(Nat) /\ w \in Int
          BY <1>1
        <4>2. ASSUME NEW i \in 1..Len(e.times) PROVE e.times[i] <= w
          <5>1. e.times[i] \in Nat /\ e.times[i] <= e.last
            BY <3>1, <4>1
          <5>2. QED
            BY SMTT(30), <1>1, <3>2, <5>1
        <4>3. Kept(e.times, Since(w)) = <<>>
          BY <4>1, <4>2, CountedNone
        <4>4. QED
          BY <1>2, <4>3
      <3>4. ASSUME NEW x \in Int PROVE Counted(r, x) <= Counted(f.times, x) + Spare
        <4> DEFINE y == IF x >= w THEN x ELSE w
        <4>1. y \in Int /\ e.last <= y
          BY <1>1, <3>2
        <4>2. Counted(r, x) = Counted(q, y)
          BY <1>4
        <4> HIDE DEF y
        <4>3. Counted(q, y) <= Counted(q, e.last) /\ Counted(q, y) \in Nat
          BY <1>1, <4>1, CountedFewer, CountedType
        <4>4. Counted(q, e.last) \in Nat /\ Counted(f.times, x) \in Nat
          BY <1>1, CountedType
        <4>5. QED
          BY <3>1, <4>2, <4>3, <4>4, AuthIs
      <3>5. ~(Len(f.times) >= Auth.attempts) /\ ~(t + 1 < f.until)
        BY SMTT(30), <1>1, <2>3, <3>3, AuthIs
      <3>6. QED
        BY <3>4, <3>5 DEF Told
    <2>4. QED
      BY <1>1, <2>1, <2>2, <2>3
  <1>8. QED
    BY <1>6, <1>7

\* A handshake that fails.
LEMMA HeldFails ==
  ASSUME NEW e \in Remembered, NEW q \in Seq(Nat), NEW n \in Nat, NEW t \in Nat,
         Held(e, q, n, t), n >= 1, n <= Sockets
  PROVE  /\ Held(Checked(Auth, e, t), Append(q, t), n - 1, t)
         /\ Told(e, q, n, t) => Told(Checked(Auth, e, t), Append(q, t), n - 1, t)
  <1> DEFINE f == Checked(Auth, e, t)
             r == Append(q, t)
             w == t - Auth.window
             k == Forgiven(Auth, e, t).lockouts + 1
  <1>1. /\ e.times \in Seq(Nat) /\ e.until \in Nat /\ e.last \in Nat
        /\ Len(e.times) \in Nat /\ Len(q) \in Nat /\ e.last \in Int
    BY DEF Remembered
  <1>2. Recent(Auth, e, t) = e.times
    <2>1. w \in Int /\ w <= t - Auth.window
      BY AuthIs
    <2>2. Recent(Auth, e, t) = Kept(e.times, Since(w))
      BY AuthIs, RecentIs
    <2> HIDE DEF w
    <2>3. QED
      BY <1>1, <2>1, <2>2, CountedAll DEF Held
  <1>3. /\ r \in Seq(Nat) /\ Len(r) = Len(q) + 1 /\ r[Len(q) + 1] = t
        /\ \A i \in 1..Len(q) : r[i] = q[i]
    BY <1>1
  <1>4. k \in Nat /\ LockoutTime(Auth, k) \in Nat /\ LockoutTime(Auth, k) >= Auth.window
    <2>1. k \in Nat
      <3>1. Forgiven(Auth, e, t) \in Remembered
        BY AuthIs, ForgivenIs
      <3>2. QED
        BY <3>1 DEF Remembered
    <2> HIDE DEF k
    <2>2. LockoutTime(Auth, k) \in Nat
      BY <2>1, AuthIs, LockoutIs
    <2>3. LockoutTime(Auth, k) >= Auth.lockout \/ LockoutTime(Auth, k) >= Auth.maxLockout
      BY <2>1, AuthIs, LockoutIs
    <2>4. QED
      BY <2>1, <2>2, <2>3, AuthIs
  <1>5. /\ t < e.until => f.times = e.times /\ f.until = e.until /\ f.last = e.last
        /\ t >= e.until /\ Len(e.times) < Auth.attempts =>
             f.times = Append(e.times, t) /\ f.until = e.until /\ f.last = e.last
        /\ t >= e.until /\ Len(e.times) >= Auth.attempts =>
             f.times = e.times /\ f.last = t /\ f.until = t + LockoutTime(Auth, k)
    <2> DEFINE g == Forgiven(Auth, e, t)
    <2>1. g.times = e.times /\ g.until = e.until /\ g.last = e.last
      BY AuthIs, ForgivenIs
    <2>2. t < e.until => f = g
      BY AuthIs, CheckedIs
    <2>3. t >= e.until /\ Len(Recent(Auth, e, t)) < Auth.attempts =>
            /\ f.times = Append(Recent(Auth, e, t), t)
            /\ f.until = e.until /\ f.last = e.last
      BY AuthIs, CheckedIs
    <2>4. t >= e.until /\ Len(Recent(Auth, e, t)) >= Auth.attempts =>
            /\ f.times = Recent(Auth, e, t) /\ f.last = t
            /\ f.until = t + LockoutTime(Auth, g.lockouts + 1)
      BY AuthIs, CheckedIs
    <2> HIDE DEF f
    <2>5. QED
      BY <1>2, <2>1, <2>2, <2>3, <2>4
  <1>6. \A x \in Int : Counted(r, x) = IF t > x THEN Counted(q, x) + 1 ELSE Counted(q, x)
    BY CountedNext
  <1>7. InWindow(r, t)
    <2>1. \A i \in 1..Len(r) : i = Len(q) + 1 \/ i \in 1..Len(q)
      BY <1>1, <1>3
    <2> HIDE DEF r
    <2>2. ASSUME NEW i \in 1..Len(r) PROVE t - Auth.window < r[i] /\ r[i] <= t
      <3>1. CASE i = Len(q) + 1
        BY <1>3, <3>1, AuthIs
      <3>2. CASE i \in 1..Len(q)
        BY <1>3, <3>2 DEF Held, InWindow
      <3>3. QED
        BY <2>1, <3>1, <3>2
    <2>3. QED
      BY <2>2 DEF InWindow
  <1>8. InWindow(Append(e.times, t), t)
    <2> DEFINE s == Append(e.times, t)
    <2>1. /\ Len(s) = Len(e.times) + 1 /\ s[Len(e.times) + 1] = t
          /\ \A i \in 1..Len(e.times) : s[i] = e.times[i]
      BY <1>1
    <2> HIDE DEF s
    <2>2. \A i \in 1..Len(s) : i = Len(e.times) + 1 \/ i \in 1..Len(e.times)
      BY <1>1, <2>1
    <2>3. ASSUME NEW i \in 1..Len(s) PROVE t - Auth.window < s[i] /\ s[i] <= t
      <3>1. CASE i = Len(e.times) + 1
        BY <2>1, <3>1, AuthIs
      <3>2. CASE i \in 1..Len(e.times)
        BY <2>1, <3>2 DEF Held, InWindow
      <3>3. QED
        BY <2>2, <3>1, <3>2
    <2>4. InWindow(s, t)
      BY <2>3 DEF InWindow
    <2>5. QED
      BY <2>4 DEF s
  <1> HIDE DEF f, r, k
  <1>9. Len(r) + (n - 1) <= Auth.attempts - 1 + Sockets + Spare
    BY <1>1, <1>3, AuthIs DEF Held
  <1>10. CASE t < e.until
    <2>1. Held(f, r, n - 1, t)
      BY <1>5, <1>7, <1>9, <1>10 DEF Held
    <2>2. ASSUME Told(e, q, n, t) PROVE Told(f, r, n - 1, t)
      <3>1. Counted(q, e.last) + n + 2 <= Sockets /\ \A i \in 1..Len(e.times) : e.times[i] <= e.last
        BY <1>10, <2>2 DEF Told
      <3>2. Counted(q, e.last) \in Nat
        BY <1>1, CountedType
      <3>3. Counted(r, e.last) + (n - 1) + 2 <= Sockets
        <4>1. Counted(r, e.last) = Counted(q, e.last) \/ Counted(r, e.last) = Counted(q, e.last) + 1
          BY <1>1, <1>6
        <4>2. Sockets \in Nat
          BY AuthIs
        <4>3. QED
          BY <3>1, <3>2, <4>1, <4>2
      <3>4. ~(t >= f.until)
        BY <1>1, <1>5, <1>10
      <3>5. QED
        BY <1>5, <1>10, <3>1, <3>3, <3>4 DEF Told
    <2>3. QED
      BY <2>1, <2>2 DEF f, r
  <1>11. CASE t >= e.until /\ Len(e.times) < Auth.attempts
    <2>1. f.times = Append(e.times, t) /\ f.until = e.until /\ f.last = e.last
      BY <1>5, <1>11
    <2>2. Held(f, r, n - 1, t)
      BY <1>7, <1>8, <1>9, <2>1 DEF Held
    <2>3. ASSUME Told(e, q, n, t) PROVE Told(f, r, n - 1, t)
      <3>1. ASSUME NEW x \in Int PROVE Counted(r, x) <= Counted(f.times, x) + Spare
        <4>1. Counted(f.times, x) = IF t > x THEN Counted(e.times, x) + 1 ELSE Counted(e.times, x)
          BY <1>1, <2>1, CountedNext
        <4>2. Counted(q, x) <= Counted(e.times, x) + Spare
          BY <1>11, <2>3 DEF Told
        <4>3. Counted(q, x) \in Nat /\ Counted(e.times, x) \in Nat
          BY <1>1, CountedType
        <4>4. QED
          BY <1>6, <4>1, <4>2, <4>3, AuthIs
      <3>2. (n - 1) + 1 <= Sockets
        BY AuthIs
      <3>3. ~(t < f.until)
        BY <1>1, <1>11, <2>1
      <3>4. QED
        BY <3>1, <3>2, <3>3 DEF Told
    <2>4. QED
      BY <2>2, <2>3 DEF f, r
  <1>12. CASE t >= e.until /\ Len(e.times) >= Auth.attempts
    <2>1. f.times = e.times /\ f.last = t /\ f.until = t + LockoutTime(Auth, k)
      BY <1>5, <1>12
    <2>2. f.until >= f.last + Auth.window /\ t < f.until
      BY <1>4, <2>1, AuthIs
    <2>3. Held(f, r, n - 1, t)
      BY <1>7, <1>9, <2>1, <2>2 DEF Held
    <2>4. ASSUME Told(e, q, n, t) PROVE Told(f, r, n - 1, t)
      <3>1. Counted(q, t) = 0
        <4>1. \A i \in 1..Len(q) : q[i] <= t
          BY DEF Held, InWindow
        <4>2. QED
          BY <4>1, CountedNone
      <3>2. Counted(r, f.last) = 0
        BY <1>6, <2>1, <3>1
      <3>3. n + 1 <= Sockets
        BY <1>12, <2>4 DEF Told
      <3>4. Counted(r, f.last) + (n - 1) + 2 <= Sockets
        BY <3>2, <3>3, AuthIs
      <3>5. \A i \in 1..Len(f.times) : f.times[i] <= f.last
        BY <2>1 DEF Held, InWindow
      <3>6. ~(t >= f.until)
        BY <1>4, <2>1, <2>2, AuthIs
      <3>7. QED
        BY <3>4, <3>5, <3>6 DEF Told
    <2>5. QED
      BY <2>3, <2>4 DEF f, r
  <1>13. QED
    BY <1>1, <1>10, <1>11, <1>12, AuthIs

-----------------------------------------------------------------------------
(* The steps of the server *)

Limiters == [Kinds -> [Addrs -> Remembered]]

\* An entry holds no more attempts than the limit, and no longer lockout than
\* the longest.
GoodEntry(L, e) ==
  /\ e \in Remembered /\ Len(e.times) <= L.attempts
  /\ e.until <= e.last + Max({L.lockout, L.maxLockout})

LimiterIs == limiter \in Limiters /\ \A k \in Kinds, a \in Addrs : GoodEntry(Limits[k], limiter[k][a])

ConnTypes ==
  /\ socket \in [Conns -> {"none", "open", "closing"}]
  /\ phase \in [Conns -> {"over", "greeting", "attached"}]
  /\ since \in [Conns -> Nat] /\ addr \in [Conns -> Addrs]
  /\ pong \in [Conns -> BOOLEAN] /\ gone \in [Conns -> BOOLEAN]
  /\ tries \in 0..MaxTries /\ failed \in [Addrs -> Seq(Nat)]
  /\ stopping \in BOOLEAN /\ exited \in BOOLEAN

LEMMA TypeOKIs == TypeOK <=> AdminTypeOK /\ LimiterIs /\ ConnTypes
  BY DEF TypeOK, LimiterIs, Limiters, GoodEntry, ConnTypes, Remembered

LEMMA LimitIs ==
  /\ \A k \in Kinds : Limits[k] \in LimitConfig
  /\ Kinds = {"upgrade", "conn", "auth"} /\ Auth = Limits["auth"]
  BY EdgeAssumption DEF Kinds, Auth

LEMMA GoodNext ==
  ASSUME NEW L \in LimitConfig, NEW e, GoodEntry(L, e), NEW t \in Nat
  PROVE  /\ GoodEntry(L, Checked(L, e, t)) /\ GoodEntry(L, Cleaned(L, e, t))
         /\ GoodEntry(L, Fresh) /\ GoodEntry(L, [e EXCEPT !.times = Recent(L, e, t)])
  <1> DEFINE most == Max({L.lockout, L.maxLockout})
  <1>1. /\ e \in Remembered /\ Len(e.times) <= L.attempts /\ e.until <= e.last + most
        /\ e.until \in Nat /\ e.last \in Nat /\ Len(e.times) \in Nat /\ L.attempts \in Nat
        /\ L.lockout \in Nat /\ L.maxLockout \in Nat
    BY DEF GoodEntry, Remembered, LimitConfig
  <1>2. most \in Nat /\ most >= L.lockout /\ most >= L.maxLockout
    BY <1>1, MaxOf
  <1> DEFINE q == Recent(L, e, t)
  <1>3. q \in Seq(Nat) /\ Len(q) <= Len(e.times) /\ Len(q) \in Nat
    BY <1>1, RecentIs
  <1> HIDE DEF most, q
  <1>4. GoodEntry(L, Fresh)
    BY <1>1, <1>2 DEF GoodEntry, Fresh, Remembered, most
  <1>5. GoodEntry(L, [e EXCEPT !.times = q])
    <2> DEFINE f == [e EXCEPT !.times = q]
    <2>1. f \in Remembered /\ f.times = q /\ f.until = e.until /\ f.last = e.last
      BY <1>1, <1>3 DEF Remembered
    <2> HIDE DEF f
    <2>2. GoodEntry(L, f)
      BY <1>1, <1>3, <2>1 DEF GoodEntry, most
    <2>3. QED
      BY <2>2 DEF f
  <1>6. GoodEntry(L, Cleaned(L, e, t))
    <2> DEFINE f == Cleaned(L, e, t)
    <2>1. /\ f \in Remembered
          /\ \/ f = e \/ f = Fresh
             \/ f.times = q /\ f.until = e.until /\ f.last = e.last
      BY <1>1, CleanedIs DEF q
    <2> HIDE DEF f
    <2>2. GoodEntry(L, f)
      BY <1>1, <1>3, <1>4, <2>1 DEF GoodEntry, most
    <2>3. QED
      BY <2>2 DEF f
  <1>7. GoodEntry(L, Checked(L, e, t))
    <2> DEFINE f == Checked(L, e, t)
               g == Forgiven(L, e, t)
               n == LockoutTime(L, g.lockouts + 1)
    <2>1. g \in Remembered /\ g.times = e.times /\ g.until = e.until /\ g.last = e.last
      BY <1>1, ForgivenIs
    <2>2. g.lockouts + 1 \in Nat
      BY <2>1 DEF Remembered
    <2>3. n \in Nat /\ n <= most
      <3> HIDE DEF g
      <3>1. n \in Nat /\ (n <= L.lockout \/ n <= L.maxLockout)
        BY <2>2, LockoutIs
      <3> HIDE DEF n
      <3>2. QED
        BY <1>1, <1>2, <3>1
    <2>4. /\ f \in Remembered
          /\ t < e.until => f = g
          /\ t >= e.until /\ Len(q) < L.attempts =>
               f.times = Append(q, t) /\ f.until = e.until /\ f.last = e.last
          /\ t >= e.until /\ Len(q) >= L.attempts =>
               f.times = q /\ f.last = t /\ f.until = t + n
      BY <1>1, CheckedIs DEF q
    <2> HIDE DEF f, g, n
    <2>5. Len(Append(q, t)) = Len(q) + 1
      BY <1>3
    <2>6. Len(f.times) <= L.attempts /\ f.until <= f.last + most
      <3>1. CASE t < e.until
        BY <1>1, <2>1, <2>4, <3>1
      <3>2. CASE t >= e.until /\ Len(q) < L.attempts
        BY <1>1, <1>3, <2>4, <2>5, <3>2
      <3>3. CASE t >= e.until /\ Len(q) >= L.attempts
        BY SMTT(30), <1>1, <1>2, <1>3, <2>3, <2>4, <3>3
      <3>4. QED
        BY <1>1, <1>3, <3>1, <3>2, <3>3
    <2>7. GoodEntry(L, f)
      BY <2>4, <2>6 DEF GoodEntry, most
    <2>8. QED
      BY <2>7 DEF f
  <1>8. QED
    BY <1>4, <1>5, <1>6, <1>7 DEF q

\* What a step does to an entry of a limiter.
Advanced(k, a) ==
  \/ limiter'[k][a] = limiter[k][a]
  \/ limiter'[k][a] = After(k, a)
  \/ limiter'[k][a] = Cleaned(Limits[k], limiter[k][a], now)
  \/ limiter'[k][a] = Fresh /\ stopping'
  \/ limiter'[k][a] = [limiter[k][a] EXCEPT !.times = Recent(Limits[k], limiter[k][a], now')]

\* The handshakes of an address that are under way, and what a step does to
\* them, to the entry of the address, and to its failures.
Greeting(a) == {c \in Conns : phase[c] = "greeting" /\ addr[c] = a}

Quiet(a) ==
  /\ limiter'["auth"][a] = limiter["auth"][a] /\ failed'[a] = failed[a]
  /\ now' = now /\ stopping' = stopping
Turn(a) ==
  \/ Quiet(a) /\ Greeting(a)' \subseteq Greeting(a)
  \/ /\ Quiet(a) /\ ~stopping /\ AuthLeft(a) > 0
     /\ \E c \in Conns \ Greeting(a) : Greeting(a)' = Greeting(a) \cup {c}
  \/ /\ \E c \in Greeting(a) : Greeting(a)' = Greeting(a) \ {c}
     /\ limiter'["auth"][a] = After("auth", a) /\ failed'[a] = Append(failed[a], now)
     /\ now' = now /\ stopping' = stopping
  \/ /\ limiter'["auth"][a] = Cleaned(Auth, limiter["auth"][a], now)
     /\ failed'[a] = failed[a] /\ now' = now /\ stopping' = stopping
     /\ Greeting(a)' = Greeting(a)
  \/ /\ limiter'["auth"][a] = Fresh /\ stopping'
     /\ failed'[a] = failed[a] /\ now' = now /\ Greeting(a)' = Greeting(a)
  \/ /\ now' = now + 1 /\ stopping' = stopping /\ Greeting(a)' = Greeting(a)
     /\ limiter'["auth"][a] = [limiter["auth"][a] EXCEPT !.times =
                                 Kept(limiter["auth"][a].times, Since(now + 1 - Auth.window))]
     /\ failed'[a] = Kept(failed[a], Since(now + 1 - Auth.window))

\* A connection that is not over has a socket.
PhaseSocket == \A c \in Conns : phase[c] # "over" => socket[c] # "none"

\* All of what a step does.
Goes ==
  /\ ConnTypes' /\ PhaseSocket' /\ limiter' \in Limiters
  /\ \A k \in Kinds, a \in Addrs : Advanced(k, a)
  /\ \A a \in Addrs : Turn(a)
EdgeTypes == AdminTypeOK /\ LimiterIs /\ ConnTypes /\ PhaseSocket

LEMMA EdgeFacts ==
  ASSUME EdgeTypes
  PROVE  /\ now \in Nat /\ now \in 1..Horizon /\ limiter \in Limiters
         /\ \A k \in Kinds, a \in Addrs :
              /\ limiter[k][a] \in Remembered /\ Limits[k] \in LimitConfig
              /\ After(k, a) \in Remembered
              /\ Passes(k, a) <=> /\ now >= limiter[k][a].until
                                  /\ Len(Recent(Limits[k], limiter[k][a], now)) < Limits[k].attempts
         /\ Peer \in [Addrs -> Addrs] /\ \A a \in Addrs : UpgradeKey(a) \in Addrs
  <1>1. now \in Nat /\ now \in 1..Horizon /\ limiter \in Limiters
    BY DEF EdgeTypes, LimiterIs, AdminTypeOK
  <1>2. Peer \in [Addrs -> Addrs] /\ \A a \in Addrs : UpgradeKey(a) \in Addrs
    BY EdgeAssumption DEF UpgradeKey
  <1>3. ASSUME NEW k \in Kinds, NEW a \in Addrs
        PROVE  /\ limiter[k][a] \in Remembered /\ Limits[k] \in LimitConfig
               /\ After(k, a) \in Remembered
               /\ Passes(k, a) <=> /\ now >= limiter[k][a].until
                                   /\ Len(Recent(Limits[k], limiter[k][a], now)) < Limits[k].attempts
    <2>1. limiter[k][a] \in Remembered
      BY <1>1 DEF Limiters
    <2>2. Limits[k] \in LimitConfig
      BY LimitIs
    <2>3. After(k, a) \in Remembered
      BY <1>1, <2>1, <2>2, CheckedIs DEF After
    <2>4. QED
      BY <1>1, <2>1, <2>2, <2>3, AllowedIs DEF Passes
  <1>4. QED
    BY <1>1, <1>2, <1>3

\* A step that leaves the limiters and the failures alone, and begins no
\* handshake.
LEMMA StillGoes ==
  ASSUME EdgeTypes, ConnTypes', PhaseSocket',
         UNCHANGED <<limiter, failed, now, stopping, addr>>,
         \A c \in Conns : phase'[c] = "greeting" => phase[c] = "greeting"
  PROVE  Goes
  <1>1. limiter' \in Limiters
    BY EdgeFacts
  <1>2. \A k \in Kinds, a \in Addrs : Advanced(k, a)
    BY DEF Advanced
  <1>3. ASSUME NEW a \in Addrs PROVE Turn(a)
    <2>1. Greeting(a)' \subseteq Greeting(a)
      BY DEF Greeting
    <2>2. QED
      BY <2>1 DEF Turn, Quiet
  <1>4. QED
    BY <1>1, <1>2, <1>3 DEF Goes

\* A handshake that fails, from whatever event.
LEMMA FailsGoes ==
  ASSUME EdgeTypes, NEW c \in Conns, phase[c] = "greeting", Fails(c),
         socket' \in [Conns -> {"none", "open", "closing"}],
         \A d \in Conns \ {c} : socket'[d] = socket[d],
         since' \in [Conns -> Nat], pong' \in [Conns -> BOOLEAN], gone' \in [Conns -> BOOLEAN],
         UNCHANGED <<now, addr, tries, stopping, exited>>
  PROVE  Goes
  <1> DEFINE b == addr[c]
             e == After("auth", b)
  <1>1. /\ ConnTypes /\ PhaseSocket /\ b \in Addrs /\ now \in Nat /\ limiter \in Limiters
        /\ "auth" \in Kinds /\ e \in Remembered
        /\ limiter' = [limiter EXCEPT !["auth"][b] = e]
        /\ failed' = [failed EXCEPT ![b] = Append(@, now)]
        /\ phase' = [phase EXCEPT ![c] = "over"]
    BY EdgeFacts, LimitIs DEF EdgeTypes, ConnTypes, Fails
  <1> HIDE DEF b, e
  <1>2. /\ limiter' \in Limiters
        /\ \A j \in Kinds, a \in Addrs :
             limiter'[j][a] = IF j = "auth" /\ a = b THEN e ELSE limiter[j][a]
    <2> DEFINE k == "auth"
               old == limiter
               new == limiter'
    <2>1. /\ old \in Limiters /\ k \in Kinds /\ b \in Addrs /\ e \in Remembered
          /\ new = [old EXCEPT ![k][b] = e]
      BY <1>1
    <2> HIDE DEF k, old, new
    <2>2. /\ new \in Limiters
          /\ \A j \in Kinds, a \in Addrs : new[j][a] = IF j = k /\ a = b THEN e ELSE old[j][a]
      BY <2>1 DEF Limiters
    <2>3. QED
      BY <2>2 DEF k, old, new
  <1>3. /\ phase' \in [Conns -> {"over", "greeting", "attached"}] /\ phase'[c] = "over"
        /\ \A d \in Conns \ {c} : phase'[d] = phase[d]
    BY <1>1 DEF ConnTypes
  <1>4. /\ failed' \in [Addrs -> Seq(Nat)] /\ failed'[b] = Append(failed[b], now)
        /\ \A a \in Addrs : a # b => failed'[a] = failed[a]
    BY <1>1 DEF ConnTypes
  <1>5. ConnTypes'
    BY <1>1, <1>3, <1>4 DEF ConnTypes
  <1>6. PhaseSocket'
    <2> SUFFICES ASSUME NEW d \in Conns, phase'[d] # "over" PROVE socket'[d] # "none"
      BY DEF PhaseSocket
    <2>1. d # c
      BY <1>3
    <2>2. QED
      BY <1>1, <1>3, <2>1 DEF PhaseSocket
  <1>7. ASSUME NEW k \in Kinds, NEW a \in Addrs PROVE Advanced(k, a)
    BY <1>2 DEF Advanced, e
  <1>8. ASSUME NEW a \in Addrs PROVE Turn(a)
    <2>1. CASE a = b
      <3>1. c \in Greeting(a)
        BY <2>1 DEF Greeting, b
      <3>2. Greeting(a)' = Greeting(a) \ {c}
        BY <1>3 DEF Greeting
      <3>3. limiter'["auth"][a] = After("auth", a) /\ failed'[a] = Append(failed[a], now)
        BY <1>1, <1>2, <1>4, <2>1 DEF e
      <3>4. QED
        BY <3>1, <3>2, <3>3 DEF Turn
    <2>2. CASE a # b
      <3>1. Greeting(a)' \subseteq Greeting(a)
        BY <1>3 DEF Greeting
      <3>2. limiter'["auth"][a] = limiter["auth"][a] /\ failed'[a] = failed[a]
        BY <1>1, <1>2, <1>4, <2>2
      <3>3. QED
        BY <3>1, <3>2 DEF Turn, Quiet
    <2>3. QED
      BY <2>1, <2>2
  <1>9. QED
    BY <1>2, <1>5, <1>6, <1>7, <1>8 DEF Goes

\* The events of a connection whose handshake was accepted or may fail.
LEMMA EventGoes ==
  ASSUME EdgeTypes, NEW c \in Conns,
         \/ \E good \in BOOLEAN : FirstFrame(c, good)
         \/ HandshakeTimeout(c) \/ Closed(c) \/ Vanishes(c) \/ Beat(c) \/ Pong(c) \/ Idle(c)
  PROVE  Goes
  <1>1. ConnTypes /\ PhaseSocket /\ UNCHANGED <<now, tries, stopping, exited, addr>>
    BY DEF EdgeTypes, FirstFrame, HandshakeTimeout, Closed, Vanishes, Beat, Pong, Idle, adminVars
  <1>2. CASE FirstFrame(c, TRUE) /\ UNCHANGED <<socket, limiter, failed>>
    <2>1. /\ phase[c] = "greeting" /\ phase' = [phase EXCEPT ![c] = "attached"]
          /\ UNCHANGED <<since, pong, gone>>
      BY <1>2 DEF FirstFrame
    <2>2. ConnTypes' /\ PhaseSocket'
      BY <1>1, <1>2, <2>1 DEF ConnTypes, PhaseSocket
    <2>3. \A d \in Conns : phase'[d] = "greeting" => phase[d] = "greeting"
      BY <1>1, <2>1 DEF ConnTypes
    <2>4. QED
      BY <1>1, <1>2, <2>2, <2>3, StillGoes
  <1>3. CASE /\ phase[c] = "greeting" /\ Fails(c)
             /\ socket' = [socket EXCEPT ![c] = "closing"] /\ UNCHANGED <<since, pong, gone>>
    BY <1>1, <1>3, FailsGoes DEF ConnTypes
  <1>4. CASE Closed(c)
    <2>1. /\ socket' = [socket EXCEPT ![c] = "none"] /\ since' = [since EXCEPT ![c] = 0]
          /\ pong' = [pong EXCEPT ![c] = TRUE] /\ gone' = [gone EXCEPT ![c] = FALSE]
      BY <1>4 DEF Closed
    <2>2. CASE phase[c] = "greeting" /\ Fails(c)
      BY <1>1, <2>1, <2>2, FailsGoes DEF ConnTypes
    <2>3. CASE phase[c] # "greeting" /\ phase' = [phase EXCEPT ![c] = "over"]
               /\ UNCHANGED <<limiter, failed>>
      <3>1. ConnTypes' /\ PhaseSocket'
        BY <1>1, <2>1, <2>3 DEF ConnTypes, PhaseSocket
      <3>2. \A d \in Conns : phase'[d] = "greeting" => phase[d] = "greeting"
        BY <1>1, <2>3 DEF ConnTypes
      <3>3. QED
        BY <1>1, <2>3, <3>1, <3>2, StillGoes
    <2>4. QED
      BY <1>4, <2>2, <2>3 DEF Closed
  <1>5. CASE Vanishes(c) \/ Beat(c) \/ Pong(c) \/ Idle(c)
    <2>1. UNCHANGED <<limiter, failed, phase, since>>
      BY <1>5 DEF Vanishes, Beat, Pong, Idle
    <2>2. ConnTypes' /\ PhaseSocket'
      BY <1>1, <1>5, <2>1 DEF ConnTypes, PhaseSocket, Vanishes, Beat, Pong, Idle
    <2>3. QED
      BY <1>1, <2>1, <2>2, StillGoes
  <1>6. QED
    <2>1. CASE HandshakeTimeout(c)
      BY <1>3, <2>1 DEF HandshakeTimeout
    <2>2. ASSUME NEW good \in BOOLEAN, FirstFrame(c, good) PROVE Goes
      BY <1>2, <1>3, <2>2 DEF FirstFrame
    <2>3. QED
      BY <1>4, <1>5, <2>1, <2>2

\* A connection that is attempted.
LEMMA UpgradeGoes ==
  ASSUME EdgeTypes, NEW c \in Conns, NEW z \in Addrs, Upgrade(c, z)
  PROVE  Goes
  <1> DEFINE u == UpgradeKey(z)
             key == Peer[z]
             up == After("upgrade", u)
             at == After("conn", key)
             j == "upgrade"
             k == "conn"
  <1>1. /\ ConnTypes /\ PhaseSocket /\ u \in Addrs /\ key \in Addrs /\ limiter \in Limiters
        /\ up \in Remembered /\ at \in Remembered /\ now \in Nat
        /\ j \in Kinds /\ k \in Kinds /\ j # k /\ "auth" \in Kinds /\ j # "auth" /\ k # "auth"
    <2>1. Kinds = {"upgrade", "conn", "auth"}
      BY LimitIs
    <2>2. u \in Addrs /\ key \in Addrs
      BY EdgeFacts
    <2>3. j \in Kinds /\ k \in Kinds /\ j # k /\ "auth" \in Kinds /\ j # "auth" /\ k # "auth"
      BY <2>1
    <2> HIDE DEF u, key, j, k
    <2>4. up \in Remembered /\ at \in Remembered
      BY <2>2, <2>3, EdgeFacts DEF j, k
    <2>5. QED
      BY <2>2, <2>3, <2>4, EdgeFacts DEF EdgeTypes
  <1>2. /\ socket[c] = "none" /\ ~stopping /\ tries < MaxTries /\ tries' = tries + 1
        /\ addr' = [addr EXCEPT ![c] = key]
        /\ \/ limiter' = [limiter EXCEPT ![j][u] = up]
           \/ limiter' = [limiter EXCEPT ![j][u] = up, ![k][key] = at]
        /\ \/ UNCHANGED <<socket, phase, since>>
           \/ Rejects(c)
           \/ Greets(c) /\ AuthLeft(key) > 0
        /\ UNCHANGED <<adminVars, pong, gone, failed, stopping, exited>>
    BY DEF Upgrade
  <1>3. up = After(j, u) /\ at = After(k, key)
    OBVIOUS
  <1> HIDE DEF u, key, up, at, j, k
  <1>4. /\ limiter' \in Limiters
        /\ \A i \in Kinds, x \in Addrs :
             \/ limiter'[i][x] = limiter[i][x]
             \/ i = j /\ x = u /\ limiter'[i][x] = up
             \/ i = k /\ x = key /\ limiter'[i][x] = at
    <2>1. CASE limiter' = [limiter EXCEPT ![j][u] = up]
      BY <1>1, <2>1 DEF Limiters
    <2>2. CASE limiter' = [limiter EXCEPT ![j][u] = up, ![k][key] = at]
      BY <1>1, <2>2 DEF Limiters
    <2>3. QED
      BY <1>2, <2>1, <2>2
  <1>5. phase[c] = "over" /\ now' = now
    BY <1>1, <1>2 DEF PhaseSocket, adminVars
  <1>6. /\ addr' \in [Conns -> Addrs] /\ addr'[c] = key
        /\ \A d \in Conns \ {c} : addr'[d] = addr[d]
    BY <1>1, <1>2 DEF ConnTypes
  <1>7. /\ socket' \in [Conns -> {"none", "open", "closing"}]
        /\ phase' \in [Conns -> {"over", "greeting", "attached"}] /\ since' \in [Conns -> Nat]
        /\ \A d \in Conns \ {c} : socket'[d] = socket[d] /\ phase'[d] = phase[d]
        /\ phase'[c] \in {"over", "greeting"} /\ (phase'[c] = "greeting" => socket'[c] = "open")
        /\ phase'[c] = "greeting" => AuthLeft(key) > 0
    <2>1. CASE UNCHANGED <<socket, phase, since>>
      BY <1>1, <1>5, <2>1 DEF ConnTypes
    <2>2. CASE Rejects(c)
      BY <1>1, <1>5, <2>2 DEF ConnTypes, Rejects
    <2>3. CASE Greets(c) /\ AuthLeft(key) > 0
      BY <1>1, <1>5, <2>3 DEF ConnTypes, Greets
    <2>4. QED
      BY <1>2, <2>1, <2>2, <2>3
  <1>8. ConnTypes'
    <2>1. tries' \in 0..MaxTries
      BY <1>1, <1>2, EdgeAssumption DEF ConnTypes
    <2>2. QED
      BY <1>1, <1>2, <1>6, <1>7, <2>1 DEF ConnTypes
  <1>9. PhaseSocket'
    <2> SUFFICES ASSUME NEW d \in Conns, phase'[d] # "over" PROVE socket'[d] # "none"
      BY DEF PhaseSocket
    <2>1. CASE d = c
      BY <1>7, <2>1
    <2>2. CASE d # c
      BY <1>1, <1>7, <2>2 DEF PhaseSocket
    <2>3. QED
      BY <2>1, <2>2
  <1>10. ASSUME NEW i \in Kinds, NEW x \in Addrs PROVE Advanced(i, x)
    BY <1>3, <1>4 DEF Advanced
  <1>11. ASSUME NEW a \in Addrs PROVE Turn(a)
    <2>1. Quiet(a)
      <3>1. limiter'["auth"][a] = limiter["auth"][a]
        BY <1>1, <1>4
      <3>2. QED
        BY <1>2, <1>5, <3>1 DEF Quiet
    <2>2. c \notin Greeting(a)
      BY <1>5 DEF Greeting
    <2>3. CASE phase'[c] = "greeting" /\ a = key
      <3>1. Greeting(a)' = Greeting(a) \cup {c}
        BY <1>6, <1>7, <2>3 DEF Greeting
      <3>2. ~stopping /\ AuthLeft(a) > 0 /\ c \in Conns \ Greeting(a)
        BY <1>2, <1>7, <2>2, <2>3
      <3>3. QED
        BY <2>1, <3>1, <3>2 DEF Turn
    <2>4. CASE ~(phase'[c] = "greeting" /\ a = key)
      <3>1. Greeting(a)' \subseteq Greeting(a)
        BY <1>6, <1>7, <2>4 DEF Greeting
      <3>2. QED
        BY <2>1, <3>1 DEF Turn
    <2>5. QED
      BY <2>3, <2>4
  <1>12. QED
    BY <1>4, <1>8, <1>9, <1>10, <1>11 DEF Goes

\* The timer of a limiter, the way down, and the clock.
LEMMA CleanupGoes ==
  ASSUME EdgeTypes, NEW k \in Kinds, Cleanup(k)
  PROVE  Goes
  <1>1. /\ ConnTypes /\ PhaseSocket /\ limiter \in Limiters /\ now \in Nat
        /\ limiter' = [limiter EXCEPT ![k] = [a \in Addrs |-> Cleaned(Limits[k], limiter[k][a], now)]]
        /\ UNCHANGED <<now, connVars, tries, failed, stopping, exited>>
    BY EdgeFacts DEF EdgeTypes, Cleanup, adminVars
  <1>2. \A a \in Addrs : Cleaned(Limits[k], limiter[k][a], now) \in Remembered
    BY <1>1, EdgeFacts, CleanedIs
  <1> DEFINE new(a) == Cleaned(Limits[k], limiter[k][a], now)
  <1>3. limiter' = [limiter EXCEPT ![k] = [a \in Addrs |-> new(a)]]
    BY <1>1
  <1>4. \A a \in Addrs : new(a) \in Remembered
    BY <1>2
  <1> HIDE DEF new
  <1>5. /\ limiter' \in Limiters
        /\ \A j \in Kinds, a \in Addrs : limiter'[j][a] = IF j = k THEN new(a) ELSE limiter[j][a]
    BY <1>1, <1>3, <1>4 DEF Limiters
  <1>6. ConnTypes' /\ PhaseSocket'
    BY <1>1 DEF ConnTypes, PhaseSocket, connVars
  <1>7. ASSUME NEW j \in Kinds, NEW a \in Addrs PROVE Advanced(j, a)
    BY <1>5 DEF Advanced, new
  <1>8. ASSUME NEW a \in Addrs PROVE Turn(a)
    <2>1. Greeting(a)' = Greeting(a)
      BY <1>1 DEF Greeting, connVars
    <2>2. "auth" \in Kinds /\ Auth = Limits["auth"]
      BY LimitIs
    <2>3. limiter'["auth"][a] = limiter["auth"][a]
          \/ limiter'["auth"][a] = Cleaned(Auth, limiter["auth"][a], now)
      BY <1>5, <2>2 DEF new
    <2>4. QED
      BY <1>1, <2>1, <2>3 DEF Turn, Quiet
  <1>9. QED
    BY <1>5, <1>6, <1>7, <1>8 DEF Goes

LEMMA StopGoes ==
  ASSUME EdgeTypes, NEW r \in Requests, Stop(r)
  PROVE  Goes
  <1>1. /\ ConnTypes /\ PhaseSocket /\ stopping'
        /\ limiter' = [k \in Kinds |-> [a \in Addrs |-> Fresh]]
        /\ socket' = [c \in Conns |-> IF socket[c] = "open" THEN "closing" ELSE socket[c]]
        /\ UNCHANGED <<now, phase, since, addr, pong, gone, tries, failed, exited>>
    BY DEF EdgeTypes, Stop
  <1>2. Fresh \in Remembered
    BY DEF Fresh, Remembered
  <1>3. limiter' \in Limiters /\ \A k \in Kinds, a \in Addrs : limiter'[k][a] = Fresh
    BY <1>1, <1>2 DEF Limiters
  <1>4. stopping' = TRUE
    BY DEF Stop
  <1>5. ConnTypes'
    BY <1>1, <1>4 DEF ConnTypes
  <1>6. PhaseSocket'
    BY <1>1 DEF ConnTypes, PhaseSocket
  <1>7. ASSUME NEW a \in Addrs PROVE Turn(a)
    <2>1. Greeting(a)' = Greeting(a)
      BY <1>1 DEF Greeting
    <2>2. "auth" \in Kinds
      BY LimitIs
    <2>3. QED
      BY <1>1, <1>3, <2>1, <2>2 DEF Turn
  <1>8. QED
    BY <1>1, <1>3, <1>5, <1>6, <1>7 DEF Goes, Advanced

LEMMA TickGoes ==
  ASSUME EdgeTypes, Tick
  PROVE  Goes
  <1>1. /\ ConnTypes /\ PhaseSocket /\ limiter \in Limiters /\ now \in Nat /\ now' = now + 1
        /\ failed' = [a \in Addrs |-> Kept(failed[a], Since(now' - Auth.window))]
        /\ limiter' = [k \in Kinds |-> [a \in Addrs |->
                         [limiter[k][a] EXCEPT !.times = Recent(Limits[k], limiter[k][a], now')]]]
        /\ UNCHANGED <<connVars, tries, stopping, exited>>
    BY EdgeFacts DEF EdgeTypes, Tick, Since, Auth
  <1>0. now' \in Nat /\ now' - Auth.window = now + 1 - Auth.window
    <2>1. \A x, y \in Int : (x + 1) - y = x + 1 - y
      OBVIOUS
    <2>2. now \in Int /\ Auth.window \in Int
      BY <1>1, AuthIs
    <2>3. QED
      BY <1>1, <2>1, <2>2
  <1> DEFINE new(k, a) == [limiter[k][a] EXCEPT !.times = Recent(Limits[k], limiter[k][a], now')]
  <1>2. ASSUME NEW k \in Kinds, NEW a \in Addrs
        PROVE  new(k, a) \in Remembered
    <2> DEFINE e == limiter[k][a]
               q == Recent(Limits[k], e, now')
    <2>1. e \in Remembered /\ Limits[k] \in LimitConfig /\ now' \in Nat
      BY <1>1, EdgeFacts
    <2> HIDE DEF e
    <2>2. q \in Seq(Nat)
      BY <2>1, RecentIs
    <2> HIDE DEF q
    <2>3. [e EXCEPT !.times = q] \in Remembered
      BY <2>1, <2>2 DEF Remembered
    <2>4. QED
      BY <2>3 DEF e, q
  <1>3. limiter' = [k \in Kinds |-> [a \in Addrs |-> new(k, a)]]
    BY <1>1
  <1>4. \A k \in Kinds, a \in Addrs : limiter'[k][a] = new(k, a)
    BY <1>3
  <1>5. limiter' \in Limiters
    <2> HIDE DEF new
    <2>1. QED
      BY <1>2, <1>3 DEF Limiters
  <1>6. \A a \in Addrs : failed'[a] \in Seq(Nat)
                        /\ failed'[a] = Kept(failed[a], Since(now + 1 - Auth.window))
    <2> SUFFICES ASSUME NEW a \in Addrs
                 PROVE  failed'[a] \in Seq(Nat)
                        /\ failed'[a] = Kept(failed[a], Since(now + 1 - Auth.window))
      OBVIOUS
    <2>1. failed[a] \in Seq(Nat)
      BY <1>1 DEF ConnTypes
    <2>2. failed'[a] = Kept(failed[a], Since(now + 1 - Auth.window))
      BY <1>0, <1>1
    <2>3. QED
      BY <2>1, <2>2, KeptFrom
  <1>7. failed' \in [Addrs -> Seq(Nat)]
    BY <1>1, <1>6
  <1>8. ConnTypes' /\ PhaseSocket'
    BY <1>1, <1>7 DEF ConnTypes, PhaseSocket, connVars
  <1>9. ASSUME NEW a \in Addrs PROVE Turn(a)
    <2>1. Greeting(a)' = Greeting(a)
      BY <1>1 DEF Greeting, connVars
    <2>2. "auth" \in Kinds /\ Auth = Limits["auth"] /\ Auth \in LimitConfig
          /\ limiter["auth"][a] \in Remembered
      BY AuthIs, LimitIs, EdgeFacts
    <2>3. Recent(Auth, limiter["auth"][a], now')
            = Kept(limiter["auth"][a].times, Since(now + 1 - Auth.window))
      BY <1>0, <2>2, RecentIs
    <2>4. limiter'["auth"][a] = [limiter["auth"][a] EXCEPT !.times =
                                   Kept(limiter["auth"][a].times, Since(now + 1 - Auth.window))]
      BY <1>4, <2>2, <2>3
    <2>5. QED
      BY <1>1, <1>6, <2>1, <2>4 DEF Turn
  <1>10. QED
    BY <1>4, <1>5, <1>8, <1>9 DEF Goes, Advanced

\* A step of the server and what it does to the requests.
LEMMA StepGoes ==
  ASSUME EdgeTypes, Next
  PROVE  Goes
  <1>1. ConnTypes /\ PhaseSocket
    BY DEF EdgeTypes
  <1>2. CASE AdminStep /\ UNCHANGED edgeVars
    <2>1. now' = now
      BY <1>2 DEF AdminStep, Anomaly, ForgetAnomalies, Sweep, IssueLink, LinkOpened, BreakerRequest,
                  KillRequest, KillTimer, BreakerBody, GreenlightRequest, GreenlightRead,
                  GreenlightAnswered, SetPause
    <2>2. ConnTypes' /\ PhaseSocket'
      BY <1>1, <1>2 DEF ConnTypes, PhaseSocket, edgeVars, connVars
    <2>3. QED
      BY <1>2, <2>1, <2>2, StillGoes DEF edgeVars, connVars
  <1>3. ASSUME NEW r \in Requests, Exit(r) PROVE Goes
    <2>1. UNCHANGED <<adminVars, limiter, connVars, tries, failed, stopping>> /\ exited' = TRUE
      BY <1>3 DEF Exit
    <2>2. ConnTypes' /\ PhaseSocket'
      BY <1>1, <2>1 DEF ConnTypes, PhaseSocket, connVars
    <2>3. QED
      BY <2>1, <2>2, StillGoes DEF adminVars, connVars
  <1>4. ASSUME NEW c \in Conns, ConnStep(c) PROVE Goes
    BY <1>4, UpgradeGoes, EventGoes DEF ConnStep
  <1>5. QED
    BY <1>2, <1>3, <1>4, TickGoes, CleanupGoes, StopGoes DEF Next

LEMMA AdminGoes ==
  ASSUME AdminInv, Next
  PROVE  AdminInv'
  <1>1. now \in 1..Horizon /\ serving \in [Requests -> Waits] /\ Horizon \in Nat
    BY AdminAssumption DEF AdminInv, AdminTypeOK
  <1>2. CASE Tick
    <2>1. now' \in 1..Horizon /\ serving' = serving
      BY <1>1, <1>2 DEF Tick
    <2>2. QED
      BY <1>1, <1>2, <2>1, AdminStays DEF Tick
  <1>3. ASSUME NEW r \in Requests, Stop(r) PROVE AdminInv'
    <2>1. serving' \in [Requests -> Waits] /\ now' = now
      BY <1>1, <1>3 DEF Stop, Serves, Waits
    <2>2. QED
      BY <1>1, <1>3, <2>1, AdminStays DEF Stop
  <1>4. CASE UNCHANGED adminVars
    BY <1>1, <1>4, AdminStays DEF adminVars
  <1>5. CASE \E c \in Conns : ConnStep(c)
    BY <1>4, <1>5 DEF ConnStep, Upgrade, FirstFrame, HandshakeTimeout, Closed, Vanishes, Beat,
                     Pong, Idle
  <1>6. CASE (\E k \in Kinds : Cleanup(k)) \/ \E r \in Requests : Exit(r)
    BY <1>4, <1>6 DEF Cleanup, Exit
  <1>7. QED
    BY <1>2, <1>3, <1>5, <1>6, AdminKeeps DEF Next

-----------------------------------------------------------------------------
(* The invariant of the edge *)

HeldAt(a) ==
  LET e == limiter["auth"][a]
      n == Cardinality(Greeting(a))
  IN /\ Held(e, failed[a], n, now)
     /\ ~stopping => Told(e, failed[a], n, now)
AllHeld == \A a \in Addrs : HeldAt(a)

EdgeInv == AdminInv /\ EdgeTypes /\ AllHeld

LEMMA GreetingIs ==
  ASSUME NEW a \in Addrs
  PROVE  /\ IsFiniteSet(Greeting(a)) /\ Cardinality(Greeting(a)) \in Nat
         /\ Cardinality(Greeting(a)) <= Sockets
         /\ IsFiniteSet(Greeting(a)') /\ Cardinality(Greeting(a)') \in Nat
         /\ Cardinality(Greeting(a)') <= Sockets
  <1>1. Greeting(a) \subseteq Conns /\ Greeting(a)' \subseteq Conns /\ IsFiniteSet(Conns)
    BY EdgeAssumption DEF Greeting
  <1>2. \A S \in SUBSET Conns : IsFiniteSet(S) /\ Cardinality(S) \in Nat /\ Cardinality(S) <= Sockets
    BY <1>1, FS_Subset, FS_CardinalityType DEF Sockets
  <1>3. QED
    BY <1>1, <1>2

\* The limiters stay within their limits.
LEMMA LimiterKeeps ==
  ASSUME EdgeTypes, Goes, now' \in Nat
  PROVE  LimiterIs'
  <1>1. ASSUME NEW k \in Kinds, NEW a \in Addrs
        PROVE  GoodEntry(Limits[k], limiter'[k][a])
    <2> DEFINE L == Limits[k]
               e == limiter[k][a]
               f == limiter'[k][a]
    <2>1. L \in LimitConfig /\ GoodEntry(L, e) /\ now \in Nat
      BY EdgeFacts DEF EdgeTypes, LimiterIs
    <2>2. \/ f = e \/ f = Checked(L, e, now) \/ f = Cleaned(L, e, now) \/ f = Fresh
          \/ f = [e EXCEPT !.times = Recent(L, e, now')]
      BY DEF Goes, Advanced, After
    <2> HIDE DEF L, e, f
    <2>3. GoodEntry(L, f)
      <3>1. /\ GoodEntry(L, Checked(L, e, now)) /\ GoodEntry(L, Cleaned(L, e, now))
            /\ GoodEntry(L, Fresh)
        BY <2>1, GoodNext
      <3>2. GoodEntry(L, [e EXCEPT !.times = Recent(L, e, now')])
        BY <2>1, GoodNext
      <3>3. QED
        BY <2>1, <2>2, <3>1, <3>2
    <2>4. QED
      BY <2>3 DEF L, f
  <1>2. QED
    BY <1>1 DEF LimiterIs, Goes

\* There are attempts left only outside a lockout and below the limit.
LEMMA LeftIs ==
  ASSUME EdgeTypes, NEW a \in Addrs, AuthLeft(a) > 0,
         InWindow(limiter["auth"][a].times, now)
  PROVE  now >= limiter["auth"][a].until /\ Len(limiter["auth"][a].times) < Auth.attempts
  <1> DEFINE e == limiter["auth"][a]
             w == now - Auth.window
             left == Auth.attempts - Len(Recent(Auth, e, now))
  <1>1. /\ "auth" \in Kinds /\ Auth = Limits["auth"] /\ Auth \in LimitConfig
        /\ e \in Remembered /\ now \in Nat
    BY EdgeFacts, LimitIs, AuthIs
  <1>2. AuthLeft(a) = Remaining(Auth, e, now)
    BY <1>1 DEF AuthLeft
  <1>3. InWindow(e.times, now)
    OBVIOUS
  <1> HIDE DEF e
  <1>4. e.times \in Seq(Nat) /\ e.until \in Nat /\ Auth.attempts \in Nat /\ Len(e.times) \in Nat
    BY <1>1, AuthIs DEF Remembered
  <1>5. Recent(Auth, e, now) = e.times
    <2>1. w \in Int /\ w <= now - Auth.window
      BY <1>1, AuthIs
    <2>2. Recent(Auth, e, now) = Kept(e.times, Since(w))
      BY <1>1, RecentIs
    <2> HIDE DEF w
    <2>3. QED
      BY <1>1, <1>3, <1>4, <2>1, <2>2, CountedAll
  <1>6. left \in Int /\ left = Auth.attempts - Len(e.times)
    BY <1>4, <1>5
  <1>7. Remaining(Auth, e, now) = IF now < e.until THEN 0 ELSE Max({0, left})
    BY DEF Remaining
  <1> HIDE DEF left
  <1>8. Max({0, left}) = IF 0 >= left THEN 0 ELSE left
    BY <1>6, MaxOf
  <1>9. ~(now < e.until) /\ left > 0
    BY <1>1, <1>2, <1>4, <1>6, <1>7, <1>8
  <1>10. QED
    BY <1>1, <1>4, <1>6, <1>9 DEF e

\* What holds of each address after a step.
LEMMA HeldKeeps ==
  ASSUME EdgeTypes, AllHeld, Goes, NEW a \in Addrs
  PROVE  HeldAt(a)'
  <1> DEFINE e == limiter["auth"][a]
             f == limiter'["auth"][a]
             q == failed[a]
             n == Cardinality(Greeting(a))
             m == Cardinality(Greeting(a)')
  <1>1. /\ e \in Remembered /\ f \in Remembered /\ q \in Seq(Nat) /\ now \in Nat
        /\ Auth = Limits["auth"] /\ "auth" \in Kinds
        /\ n \in Nat /\ m \in Nat /\ n <= Sockets /\ m <= Sockets
        /\ IsFiniteSet(Greeting(a)) /\ IsFiniteSet(Greeting(a)')
        /\ stopping \in BOOLEAN
    BY EdgeFacts, LimitIs, GreetingIs DEF EdgeTypes, ConnTypes, Goes, Limiters
  <1>2. Held(e, q, n, now) /\ (~stopping => Told(e, q, n, now))
    BY DEF AllHeld, HeldAt
  <1>3. HeldAt(a)' <=> /\ Held(f, failed'[a], m, now')
                       /\ ~stopping' => Told(f, failed'[a], m, now')
    BY DEF HeldAt
  <1>4. CASE Quiet(a) /\ Greeting(a)' \subseteq Greeting(a)
    <2>1. f = e /\ failed'[a] = q /\ now' = now /\ stopping' = stopping
      BY <1>4 DEF Quiet
    <2>2. m <= n
      BY <1>1, <1>4, FS_Subset
    <2> HIDE DEF e, f, q, n, m
    <2>3. QED
      BY <1>1, <1>2, <1>3, <2>1, <2>2, HeldFewer
  <1>5. CASE /\ Quiet(a) /\ ~stopping /\ AuthLeft(a) > 0
             /\ \E c \in Conns \ Greeting(a) : Greeting(a)' = Greeting(a) \cup {c}
    <2>1. f = e /\ failed'[a] = q /\ now' = now /\ stopping' = stopping
      BY <1>5 DEF Quiet
    <2>2. m = n + 1
      BY <1>1, <1>5, FS_AddElement
    <2>3. now >= e.until /\ Len(e.times) < Auth.attempts
      BY <1>2, <1>5, LeftIs DEF Held
    <2> HIDE DEF e, f, q, n, m
    <2>4. QED
      BY <1>1, <1>2, <1>3, <1>5, <2>1, <2>2, <2>3, HeldGreets
  <1>6. CASE /\ \E c \in Greeting(a) : Greeting(a)' = Greeting(a) \ {c}
             /\ f = After("auth", a) /\ failed'[a] = Append(q, now)
             /\ now' = now /\ stopping' = stopping
    <2>1. m = n - 1 /\ n >= 1
      BY <1>1, <1>6, FS_RemoveElement
    <2>2. f = Checked(Auth, e, now)
      BY <1>1, <1>6 DEF After
    <2> HIDE DEF e, f, q, n, m
    <2>3. QED
      BY <1>1, <1>2, <1>3, <1>6, <2>1, <2>2, HeldFails
  <1>7. CASE /\ f = Cleaned(Auth, e, now) /\ failed'[a] = q /\ now' = now
             /\ stopping' = stopping /\ Greeting(a)' = Greeting(a)
    <2>1. m = n
      BY <1>7
    <2> HIDE DEF e, f, q, n, m
    <2>2. QED
      BY <1>1, <1>2, <1>3, <1>7, <2>1, HeldCleaned
  <1>8. CASE f = Fresh /\ stopping' /\ failed'[a] = q /\ now' = now /\ Greeting(a)' = Greeting(a)
    <2>1. m = n
      BY <1>8
    <2> HIDE DEF e, f, q, n, m
    <2>2. QED
      BY <1>1, <1>2, <1>3, <1>8, <2>1, HeldStops
  <1>9. CASE /\ now' = now + 1 /\ stopping' = stopping /\ Greeting(a)' = Greeting(a)
             /\ f = [e EXCEPT !.times = Kept(e.times, Since(now + 1 - Auth.window))]
             /\ failed'[a] = Kept(q, Since(now + 1 - Auth.window))
    <2>1. m = n
      BY <1>9
    <2> HIDE DEF e, f, q, n, m
    <2>2. f.times = Kept(e.times, Since(now + 1 - Auth.window)) /\ f.until = e.until
          /\ f.last = e.last
      BY <1>1, <1>9 DEF Remembered
    <2>3. QED
      BY <1>1, <1>2, <1>3, <1>9, <2>1, <2>2, HeldTicks
  <1>10. Turn(a)
    BY DEF Goes
  <1>11. QED
    BY <1>4, <1>5, <1>6, <1>7, <1>8, <1>9, <1>10 DEF Turn

\* A start of the gateway.
LEMMA EdgeStart == Init => EdgeInv
  <1> SUFFICES ASSUME NEW load \in Loads, InitWith(load) PROVE EdgeInv
    BY DEF Init
  <1>1. AdminInv /\ AdminTypeOK
    BY AdminStarts DEF InitWith, AdminInv
  <1>2. load.tries \in 0..MaxTries /\ \E b \in Addrs : TRUE
    BY EdgeAssumption
  <1>3. Fresh \in Remembered /\ Fresh.times = <<>> /\ Fresh.until = 0 /\ Fresh.last = 0
    BY DEF Fresh, Remembered
  <1>4. limiter \in Limiters /\ \A k \in Kinds, a \in Addrs : limiter[k][a] = Fresh
    BY <1>3 DEF InitWith, Limiters
  <1>5. LimiterIs
    <2> SUFFICES ASSUME NEW k \in Kinds PROVE GoodEntry(Limits[k], Fresh)
      BY <1>4 DEF LimiterIs
    <2> DEFINE L == Limits[k]
    <2>1. L \in LimitConfig
      BY LimitIs
    <2>2. L.attempts \in Nat /\ L.lockout \in Nat /\ L.maxLockout \in Nat
      BY <2>1 DEF LimitConfig
    <2> HIDE DEF L
    <2>3. Max({L.lockout, L.maxLockout}) \in Nat
      BY <2>2, MaxOf
    <2>4. GoodEntry(L, Fresh)
      BY <1>3, <2>2, <2>3 DEF GoodEntry
    <2>5. QED
      BY <2>4 DEF L
  <1>6. ConnTypes
    <2>1. addr \in [Conns -> Addrs]
      BY <1>2 DEF InitWith
    <2>2. failed \in [Addrs -> Seq(Nat)]
      BY DEF InitWith
    <2>3. QED
      BY <1>2, <2>1, <2>2 DEF InitWith, ConnTypes
  <1>7. PhaseSocket
    BY DEF InitWith, PhaseSocket
  <1>8. ASSUME NEW a \in Addrs PROVE HeldAt(a)
    <2>1. Greeting(a) = {} /\ Cardinality({}) = 0
      BY FS_EmptySet DEF InitWith, Greeting
    <2>2. failed[a] = <<>> /\ limiter["auth"][a] = Fresh
      BY <1>4, LimitIs DEF InitWith
    <2>3. Held(Fresh, <<>>, 0, now)
      BY <1>3, AuthIs DEF Held, InWindow
    <2>4. Told(Fresh, <<>>, 0, now)
      <3>1. now \in Nat
        BY <1>1, AdminAssumption DEF AdminTypeOK
      <3>2. \A x \in Int : Counted(<<>>, x) <= Counted(<<>>, x) + Spare
        <4>1. <<>> \in Seq(Nat)
          OBVIOUS
        <4>2. \A x \in Int : Counted(<<>>, x) \in Nat
          BY <4>1, CountedType
        <4>3. QED
          BY <4>2, AuthIs
      <3>3. ~(Len(Fresh.times) >= Auth.attempts) /\ ~(now < Fresh.until)
        BY <1>3, <3>1, AuthIs
      <3>4. QED
        BY <1>3, <3>2, <3>3 DEF Told
    <2>5. QED
      BY <2>1, <2>2, <2>3, <2>4 DEF HeldAt
  <1>9. QED
    BY <1>1, <1>5, <1>6, <1>7, <1>8 DEF EdgeInv, EdgeTypes, AllHeld

LEMMA EdgeStays ==
  ASSUME EdgeInv, UNCHANGED vars
  PROVE  EdgeInv'
  <1>1. AdminInv' /\ AdminTypeOK'
    <2>1. now' \in 1..Horizon /\ serving' \in [Requests -> Waits]
      BY DEF EdgeInv, AdminInv, AdminTypeOK, vars, adminVars
    <2>2. QED
      BY <2>1, AdminStays DEF EdgeInv, AdminInv, vars, adminVars
  <1>2. LimiterIs' /\ ConnTypes' /\ PhaseSocket'
    BY DEF EdgeInv, EdgeTypes, LimiterIs, ConnTypes, PhaseSocket, vars, edgeVars, connVars
  <1>3. ASSUME NEW a \in Addrs PROVE HeldAt(a)'
    <2>1. Greeting(a)' = Greeting(a)
      BY DEF Greeting, vars, edgeVars, connVars
    <2>2. UNCHANGED <<limiter, failed, now, stopping>>
      BY DEF vars, edgeVars, adminVars
    <2>3. QED
      BY <2>1, <2>2 DEF EdgeInv, AllHeld, HeldAt
  <1>4. QED
    BY <1>1, <1>2, <1>3 DEF EdgeInv, EdgeTypes, AllHeld

LEMMA EdgeKeeps ==
  ASSUME EdgeInv, Next
  PROVE  EdgeInv'
  <1>1. EdgeTypes /\ AllHeld /\ Goes
    BY StepGoes DEF EdgeInv
  <1>2. AdminInv' /\ AdminTypeOK' /\ now' \in Nat
    BY AdminGoes, AdminAssumption DEF EdgeInv, AdminInv, AdminTypeOK
  <1>3. LimiterIs' /\ ConnTypes' /\ PhaseSocket'
    BY <1>1, <1>2, LimiterKeeps DEF Goes
  <1>4. AllHeld'
    BY <1>1, HeldKeeps DEF AllHeld
  <1>5. QED
    BY <1>2, <1>3, <1>4 DEF EdgeInv, EdgeTypes

LEMMA EdgeInductive == Spec => []EdgeInv
  BY EdgeStart, EdgeStays, EdgeKeeps, PTL DEF Spec

\* Every entry of a limiter, every connection and every request has its type:
\* no entry holds more attempts than its limit or a longer lockout than the
\* longest (rate-limiter.ts), and the breaker and the links stay within theirs.
THEOREM EdgeTyping == Spec => []TypeOK
  <1>1. EdgeInv => TypeOK
    BY TypeOKIs DEF EdgeInv, EdgeTypes
  <1>2. QED
    BY <1>1, EdgeInductive, PTL

\* A kill link works once and before it expires, and the audit trail tells
\* where the breaker stands (kill-tokens.ts, admin.ts).
THEOREM KillsOnceAndTold == Spec => []KillsTold
  <1>1. EdgeInv => KillsTold
    BY DEF EdgeInv, AdminInv, KillsTold
  <1>2. QED
    BY <1>1, EdgeInductive, PTL

\* In no window do more handshakes from an address fail than the limit, those
\* under way when it is reached, and those that came late in the lockout before
\* (connection.ts, rate-limiter.ts).
THEOREM BoundedFailures == Spec => []FailuresBounded
  <1>1. ASSUME EdgeInv, NEW a \in Addrs
        PROVE  Len(failed[a]) <= Auth.attempts - 1 + Sockets + Spare
    <2>1. /\ Len(failed[a]) + Cardinality(Greeting(a)) <= Auth.attempts - 1 + Sockets + Spare
          /\ Cardinality(Greeting(a)) \in Nat /\ failed[a] \in Seq(Nat)
      BY <1>1, GreetingIs DEF EdgeInv, EdgeTypes, ConnTypes, AllHeld, HeldAt, Held
    <2>2. Len(failed[a]) \in Nat
      BY <2>1
    <2>3. QED
      BY <2>1, <2>2, AuthIs
  <1>2. EdgeInv => FailuresBounded
    BY <1>1 DEF FailuresBounded, Auth, Sockets, Spare
  <1>3. QED
    BY <1>2, EdgeInductive, PTL

\* The growth of a lockout is forgotten only outside a lockout and long enough
\* after the last one began (rate-limiter.ts:71 and :120).
THEOREM KeptBackoff == Spec => BackoffKept
  <1> DEFINE Grows == \A k \in Kinds, a \in Addrs :
               limiter'[k][a].lockouts < limiter[k][a].lockouts =>
                 \/ stopping'
                 \/ /\ now >= limiter[k][a].until
                    /\ now - limiter[k][a].last >= Limits[k].reset
  <1>1. ASSUME EdgeInv, Next PROVE Grows
    <2> SUFFICES ASSUME NEW k \in Kinds, NEW a \in Addrs,
                        limiter'[k][a].lockouts < limiter[k][a].lockouts
                 PROVE  \/ stopping'
                        \/ /\ now >= limiter[k][a].until
                           /\ now - limiter[k][a].last >= Limits[k].reset
      OBVIOUS
    <2> DEFINE L == Limits[k]
               e == limiter[k][a]
               f == limiter'[k][a]
               g == Forgiven(L, e, now)
    <2>1. L \in LimitConfig /\ e \in Remembered /\ now \in Nat /\ EdgeTypes
      BY <1>1, EdgeFacts DEF EdgeInv
    <2>2. \/ f = e
          \/ f = Checked(L, e, now)
          \/ f = Cleaned(L, e, now)
          \/ f = Fresh /\ stopping'
          \/ f = [e EXCEPT !.times = Recent(L, e, now')]
      BY <1>1, <2>1, StepGoes DEF Goes, Advanced, After
    <2>3. f.lockouts < e.lockouts
      OBVIOUS
    <2> HIDE DEF L, e, f, g
    <2>4. /\ e.lockouts \in Nat /\ e.until \in Nat /\ e.last \in Nat /\ L.reset \in Nat
          /\ g.lockouts \in Nat
          /\ \/ g.lockouts = e.lockouts
             \/ now - e.last > L.reset /\ now >= e.until
      BY <2>1, ForgivenIs DEF Remembered, LimitConfig, g
    <2>5. f # e
      BY <2>3, <2>4
    <2>6. CASE f = Checked(L, e, now)
      <3>1. f.lockouts = g.lockouts \/ f.lockouts = g.lockouts + 1
        <4>1. Len(Recent(L, e, now)) \in Nat /\ L.attempts \in Nat
          BY <2>1, RecentIs DEF LimitConfig
        <4>2. now < e.until => f = g
          BY <2>1, <2>6, CheckedIs DEF g
        <4>3. now >= e.until /\ Len(Recent(L, e, now)) < L.attempts => f.lockouts = g.lockouts
          BY <2>1, <2>6, CheckedIs DEF g
        <4>4. now >= e.until /\ Len(Recent(L, e, now)) >= L.attempts =>
                f.lockouts = g.lockouts + 1
          BY <2>1, <2>6, CheckedIs DEF g
        <4>5. QED
          BY <2>1, <2>4, <4>1, <4>2, <4>3, <4>4
      <3>2. g.lockouts # e.lockouts
        BY <2>3, <2>4, <3>1
      <3>3. QED
        BY <2>1, <2>4, <3>2 DEF e, L
    <2>7. CASE f = Cleaned(L, e, now)
      <3>1. /\ now >= e.until
            /\ e.lockouts = 0 \/ now - e.last >= L.reset
        BY SMTT(30), <2>1, <2>3, <2>4, <2>5, <2>7, CleanedIs
      <3>2. e.lockouts # 0
        <4>1. f \in Remembered
          BY <2>1, <2>7, CleanedIs
        <4>2. f.lockouts \in Nat
          BY <4>1 DEF Remembered
        <4>3. QED
          BY <2>3, <2>4, <4>2
      <3>3. QED
        BY <3>1, <3>2 DEF e, L
    <2>8. f # [e EXCEPT !.times = Recent(L, e, now')]
      <3> DEFINE q == Recent(L, e, now')
      <3> HIDE DEF q
      <3>1. [e EXCEPT !.times = q].lockouts = e.lockouts
        BY <2>1 DEF Remembered
      <3>2. f.lockouts # e.lockouts
        BY <2>3, <2>4
      <3>3. f # [e EXCEPT !.times = q]
        BY <3>1, <3>2
      <3>4. QED
        BY <3>3 DEF q
    <2>9. QED
      BY <2>2, <2>5, <2>6, <2>7, <2>8
  <1>2. ASSUME EdgeInv, UNCHANGED vars PROVE Grows
    <2> SUFFICES ASSUME NEW k \in Kinds, NEW a \in Addrs
                 PROVE  ~(limiter'[k][a].lockouts < limiter[k][a].lockouts)
      OBVIOUS
    <2>1. limiter[k][a] \in Remembered /\ limiter' = limiter
      BY <1>2, EdgeFacts DEF EdgeInv, vars, edgeVars
    <2>2. limiter[k][a].lockouts \in Nat
      BY <2>1 DEF Remembered
    <2>3. QED
      BY <2>1, <2>2
  <1>3. EdgeInv /\ [Next]_vars => [Grows]_vars
    BY <1>1, <1>2
  <1>4. QED
    BY <1>3, EdgeInductive, PTL DEF Spec, BackoffKept
=============================================================================
