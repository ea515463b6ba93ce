----------------------------- MODULE MailProofs -----------------------------
(***************************************************************************)
(* Theorems about the email channel, for any number of threads, messages,  *)
(* tools, failures and restarts and any caps.                              *)
(***************************************************************************)
EXTENDS Mail, FilterTheorems, FiniteSetTheorems, SequenceTheorems

-----------------------------------------------------------------------------
(* Attachment queues.  A map has one queue for a key at most. *)

Slots == [key : Threads, files : Seq(File)]
Maps == Seq(Slots)
OneEach(map) == \A i, j \in 1 .. Len(map) : map[i].key = map[j].key => i = j
Holds(map, k) == \E i \in 1 .. Len(map) : map[i].key = k

\* getQueue finds the queue of a key where it is, and nothing where none is.
LEMMA QueueAt ==
  ASSUME NEW map \in Maps, OneEach(map), NEW k
  PROVE  /\ \A i \in 1 .. Len(map) : map[i].key = k => QueueIn(map, k) = map[i].files
         /\ ~Holds(map, k) => QueueIn(map, k) = <<>>
         /\ QueueIn(map, k) \in Seq(File)
  <1> DEFINE own == {i \in DOMAIN map : map[i].key = k}
  <1>1. DOMAIN map = 1 .. Len(map)
    BY DEF Maps
  <1>2. QueueIn(map, k) = IF own = {} THEN <<>> ELSE map[CHOOSE i \in own : TRUE].files
    BY DEF QueueIn
  <1>3. ASSUME NEW i \in 1 .. Len(map), map[i].key = k PROVE QueueIn(map, k) = map[i].files
    <2>1. i \in own
      BY <1>1, <1>3
    <2>2. (CHOOSE j \in own : TRUE) \in own
      BY <2>1
    <2>3. \A j \in own : j = i
      BY <1>1, <1>3 DEF OneEach
    <2>4. QED
      BY <1>2, <2>1, <2>2, <2>3
  <1>4. ASSUME ~Holds(map, k) PROVE QueueIn(map, k) = <<>>
    BY <1>1, <1>2, <1>4 DEF Holds
  <1>5. QueueIn(map, k) \in Seq(File)
    <2>1. CASE Holds(map, k)
      <3>1. PICK i \in 1 .. Len(map) : map[i].key = k
        BY <2>1 DEF Holds
      <3>2. map[i].files \in Seq(File)
        <4> DEFINE R == Slots
        <4>1. map \in Seq(R)
          BY DEF Maps
        <4> HIDE DEF R
        <4>2. map[i] \in R
          BY <3>1, <4>1
        <4>3. QED
          BY <4>2 DEF R, Slots
      <3>3. QED
        BY <1>3, <3>1, <3>2
    <2>2. CASE ~Holds(map, k)
      <3>1. <<>> \in Seq(File)
        OBVIOUS
      <3>2. QED
        BY <1>4, <2>2, <3>1
    <2>3. QED
      BY <2>1, <2>2
  <1>6. QED
    BY <1>3, <1>4, <1>5

\* A part of a map finds what it has where the map finds it.
LEMMA SameQueue ==
  ASSUME NEW map \in Maps, OneEach(map), NEW part \in Maps, OneEach(part), NEW k,
         \A i \in 1 .. Len(part) : \E j \in 1 .. Len(map) : part[i] = map[j],
         Holds(map, k) => Holds(part, k)
  PROVE  QueueIn(part, k) = QueueIn(map, k)
  <1>1. CASE Holds(map, k)
    <2>1. PICK i \in 1 .. Len(part) : part[i].key = k
      BY <1>1 DEF Holds
    <2>2. PICK j \in 1 .. Len(map) : part[i] = map[j]
      OBVIOUS
    <2>3. QueueIn(part, k) = part[i].files
      BY <2>1, QueueAt
    <2>4. QueueIn(map, k) = map[j].files
      BY <2>1, <2>2, QueueAt
    <2>5. QED
      BY <2>2, <2>3, <2>4
  <1>2. CASE ~Holds(map, k)
    <2>1. ~Holds(part, k)
      <3> SUFFICES ASSUME Holds(part, k) PROVE FALSE
        OBVIOUS
      <3>1. PICK i \in 1 .. Len(part) : part[i].key = k
        BY DEF Holds
      <3>2. PICK j \in 1 .. Len(map) : part[i] = map[j]
        OBVIOUS
      <3>3. QED
        BY <1>2, <3>1, <3>2 DEF Holds
    <2>2. QED
      BY <1>2, <2>1, QueueAt
  <1>3. QED
    BY <1>1, <1>2

\* Deleting a key leaves the queues of the others, and makes room if it was
\* there.
LEMMA OthersAre ==
  ASSUME NEW map \in Maps, OneEach(map), NEW k
  PROVE  /\ Others(map, k) \in Maps /\ OneEach(Others(map, k))
         /\ ~Holds(Others(map, k), k)
         /\ Len(Others(map, k)) <= Len(map)
         /\ Holds(map, k) => Len(Others(map, k)) < Len(map)
         /\ \A j : j # k => QueueIn(Others(map, k), j) = QueueIn(map, j)
         /\ \A j : Holds(Others(map, k), j) => Holds(map, j)
  <1> DEFINE R == Slots
             S == {q \in Range(map) : q.key # k}
             o == Others(map, k)
  <1>1. map \in Seq(R) /\ o = Kept(map, S)
    BY DEF Maps, Others
  <1>2. o \in Seq(R \cap S) /\ Picked(o, map, Len(map), S)
    <2> HIDE DEF S, R, o
    <2>1. QED
      BY <1>1, KeptIs, KeptPicks
  <1>3. PICK h : Picks(h, o, map, Len(map), S)
    BY <1>2 DEF Picked
  <1>4. \A i \in 1 .. Len(map) : map[i] \in S <=> map[i].key # k
    BY <1>1 DEF Range
  <1> HIDE DEF S
  <1>5. o \in Maps /\ Len(o) \in Nat
    <2>1. R \cap S \subseteq R
      OBVIOUS
    <2> HIDE DEF R, o
    <2>2. o \in Seq(R)
      BY <1>2, <2>1
    <2>3. QED
      BY <2>2 DEF Maps, R
  <1> HIDE DEF o
  <1>6. \A i \in 1 .. Len(o) : h[i] \in 1 .. Len(map) /\ o[i] = map[h[i]] /\ o[i].key # k
    BY <1>3, <1>4 DEF Picks
  <1>7. OneEach(o)
    <2> SUFFICES ASSUME NEW i \in 1 .. Len(o), NEW j \in 1 .. Len(o), o[i].key = o[j].key
                 PROVE  i = j
      BY DEF OneEach
    <2>1. h[i] = h[j]
      BY SMTT(30), <1>6 DEF OneEach
    <2>2. h[i] \in 1 .. Len(map) /\ h[j] \in 1 .. Len(map)
      BY <1>6
    <2>3. ~(i < j) /\ ~(j < i)
      BY <1>3, <2>1, <2>2 DEF Picks
    <2>4. QED
      BY <2>3, <1>5
  <1>8. ~Holds(o, k)
    BY <1>6 DEF Holds
  <1>9. Len(o) <= Len(map) /\ (Holds(map, k) => Len(o) < Len(map))
    BY <1>2, <1>4 DEF Picked, Holds
  <1>10. ASSUME NEW j, j # k PROVE QueueIn(o, j) = QueueIn(map, j)
    <2>1. ASSUME Holds(map, j) PROVE Holds(o, j)
      <3>1. PICK i \in 1 .. Len(map) : map[i].key = j
        BY <2>1 DEF Holds
      <3>2. map[i] \in S
        BY <1>4, <1>10, <3>1
      <3>3. PICK x \in 1 .. Len(o) : h[x] = i
        BY <1>3, <3>2 DEF Picks
      <3>4. o[x].key = j
        BY <1>6, <3>1, <3>3
      <3>5. QED
        BY <3>4 DEF Holds
    <2>2. \A i \in 1 .. Len(o) : \E x \in 1 .. Len(map) : o[i] = map[x]
      BY <1>6
    <2>3. QED
      BY <1>5, <1>7, <2>1, <2>2, SameQueue
  <1>11. ASSUME NEW j, Holds(o, j) PROVE Holds(map, j)
    <2>1. PICK i \in 1 .. Len(o) : o[i].key = j
      BY <1>11 DEF Holds
    <2>2. h[i] \in 1 .. Len(map) /\ map[h[i]].key = j
      BY <1>6, <2>1
    <2>3. QED
      BY <2>2 DEF Holds
  <1>12. QED
    BY <1>5, <1>7, <1>8, <1>9, <1>10, <1>11 DEF o

\* Making room for a key takes at most the oldest queue, and never that of the
\* key.
LEMMA RoomIs ==
  ASSUME queues \in Maps, OneEach(queues), Len(queues) <= MaxSessions, NEW k
  PROVE  /\ RoomFor(k) \in Maps /\ OneEach(RoomFor(k))
         /\ Len(RoomFor(k)) <= MaxSessions
         /\ ~Holds(RoomFor(k), k) => Len(RoomFor(k)) < MaxSessions
         /\ QueueIn(RoomFor(k), k) = Queue(k)
         /\ \A j : \/ QueueIn(RoomFor(k), j) = Queue(j)
                   \/ /\ QueueIn(RoomFor(k), j) = <<>>
                      /\ Len(queues) = MaxSessions /\ queues[1].key = j
                      /\ ~HasQueue(k)
  <1> DEFINE r == RoomFor(k)
  <1>1. MaxSessions \in Nat \ {0} /\ Len(queues) \in Nat
    BY MailAssumption DEF Maps
  <1>2. DOMAIN queues = 1 .. Len(queues)
    BY DEF Maps
  <1>3. \A j : HasQueue(j) <=> Holds(queues, j)
    BY <1>2 DEF HasQueue, Holds
  <1>4. CASE HasQueue(k) \/ Len(queues) < MaxSessions
    <2>1. r = queues
      BY <1>1, <1>4 DEF RoomFor
    <2>2. \A j : QueueIn(r, j) = Queue(j)
      BY <2>1 DEF Queue
    <2>3. ~Holds(r, k) => Len(r) < MaxSessions
      BY <1>3, <1>4, <2>1
    <2>4. QED
      BY <2>1, <2>2, <2>3
  <1>5. CASE ~(HasQueue(k) \/ Len(queues) < MaxSessions)
    <2>1. r = Tail(queues) /\ Len(queues) = MaxSessions
      BY <1>1, <1>5 DEF RoomFor
    <2>2. /\ r \in Maps /\ Len(r) = Len(queues) - 1
          /\ \A i \in 1 .. Len(r) : i + 1 \in 1 .. Len(queues) /\ r[i] = queues[i + 1]
      BY <1>1, <2>1 DEF Maps
    <2> HIDE DEF r
    <2>3. OneEach(r)
      <3> SUFFICES ASSUME NEW i \in 1 .. Len(r), NEW j \in 1 .. Len(r), r[i].key = r[j].key
                   PROVE  i = j
        BY DEF OneEach
      <3>1. i + 1 = j + 1
        BY <2>2 DEF OneEach
      <3>2. QED
        BY <3>1
    <2>4. \A i \in 1 .. Len(r) : \E j \in 1 .. Len(queues) : r[i] = queues[j]
      BY <2>2
    <2>5. ASSUME NEW j, queues[1].key # j PROVE QueueIn(r, j) = Queue(j)
      <3>1. ASSUME Holds(queues, j) PROVE Holds(r, j)
        <4>1. PICK i \in 1 .. Len(queues) : queues[i].key = j
          BY <3>1 DEF Holds
        <4>2. i # 1
          BY <2>5, <4>1
        <4>3. i - 1 \in 1 .. Len(r) /\ (i - 1) + 1 = i
          BY <1>1, <2>2, <4>2
        <4>4. r[i - 1].key = j
          BY <2>2, <4>1, <4>3
        <4>5. QED
          BY <4>3, <4>4 DEF Holds
      <3>2. QED
        BY <2>2, <2>3, <2>4, <3>1, SameQueue DEF Queue
    <2>6. ASSUME NEW j, queues[1].key = j PROVE QueueIn(r, j) = <<>>
      <3>1. \A i \in 1 .. Len(r) : r[i].key # j
        <4> SUFFICES ASSUME NEW i \in 1 .. Len(r), r[i].key = j PROVE FALSE
          OBVIOUS
        <4>1. 1 \in 1 .. Len(queues) /\ i + 1 \in 1 .. Len(queues) /\ i + 1 # 1
          BY <1>1, <2>2
        <4>2. queues[i + 1].key = queues[1].key
          BY <2>2, <2>6
        <4>3. QED
          BY <4>1, <4>2 DEF OneEach
      <3>2. QED
        BY <2>2, <2>3, <3>1, QueueAt DEF Holds
    <2>7. queues[1].key # k
      <3>1. 1 \in 1 .. Len(queues)
        BY <1>1, <2>1
      <3>2. QED
        BY <1>3, <1>5, <3>1 DEF Holds
    <2>8. \A j : \/ QueueIn(r, j) = Queue(j)
                 \/ /\ QueueIn(r, j) = <<>>
                    /\ Len(queues) = MaxSessions /\ queues[1].key = j
                    /\ ~HasQueue(k)
      BY <1>5, <2>1, <2>5, <2>6
    <2>9. Len(r) < MaxSessions
      BY <1>1, <2>1, <2>2
    <2>10. QueueIn(r, k) = Queue(k)
      BY <2>5, <2>7
    <2>11. QED
      BY <1>1, <2>2, <2>3, <2>8, <2>9, <2>10 DEF r
  <1>6. QED
    BY <1>4, <1>5

\* Appending a queue for a key that has none.
LEMMA AppendQueue ==
  ASSUME NEW map \in Maps, OneEach(map),
         NEW e \in Slots, ~Holds(map, e.key),
         NEW new, new = Append(map, e)
  PROVE  /\ new \in Maps /\ OneEach(new)
         /\ Len(new) = Len(map) + 1
         /\ new[Len(new)].key = e.key
         /\ QueueIn(new, e.key) = e.files
  <1> DEFINE k == e.key
             fs == e.files
             l == Len(map)
  <1>1. e \in Slots /\ e.key = k /\ e.files = fs /\ ~Holds(map, k)
    OBVIOUS
  <1>2. map \in Seq(Slots) /\ l \in Nat
    BY DEF Maps
  <1> HIDE DEF k, fs
  <1>3. /\ new \in Seq(Slots) /\ Len(new) = l + 1 /\ new[l + 1] = e
        /\ \A i \in 1 .. l : new[i] = map[i]
    BY <1>1, <1>2
  <1>4. new \in Maps
    BY <1>3 DEF Maps
  <1> HIDE DEF l
  <1>5. \A i \in 1 .. Len(new) : i = l + 1 \/ i \in 1 .. l
    BY <1>2, <1>3
  <1>6. \A i \in 1 .. l : i \in 1 .. Len(new) /\ i \in 1 .. Len(map)
    BY <1>2, <1>3 DEF l
  <1>7. \A i \in 1 .. l : map[i].key # k
    BY <1>1, <1>6 DEF Holds
  <1>8. OneEach(new)
    <2> SUFFICES ASSUME NEW i \in 1 .. Len(new), NEW j \in 1 .. Len(new), new[i].key = new[j].key
                 PROVE  i = j
      BY DEF OneEach
    <2>1. CASE i \in 1 .. l /\ j \in 1 .. l
      BY <1>3, <1>6, <2>1 DEF OneEach
    <2>2. CASE i = l + 1 /\ j = l + 1
      BY <2>2
    <2>3. CASE i \in 1 .. l /\ j = l + 1
      BY <1>1, <1>3, <1>7, <2>3
    <2>4. CASE i = l + 1 /\ j \in 1 .. l
      BY <1>1, <1>3, <1>7, <2>4
    <2>5. QED
      BY <1>5, <2>1, <2>2, <2>3, <2>4
  <1>9. l + 1 \in 1 .. Len(new)
    BY <1>2, <1>3
  <1>10. QueueIn(new, k) = fs
    <2>1. new[l + 1].key = k /\ new[l + 1].files = fs
      BY <1>1, <1>3
    <2>2. QueueIn(new, k) = new[l + 1].files
      BY <1>4, <1>8, <1>9, <2>1, QueueAt
    <2>3. QED
      BY <2>1, <2>2
  <1>11. new[Len(new)].key = k
    BY <1>1, <1>3
  <1>12. QED
    BY <1>3, <1>4, <1>8, <1>10, <1>11 DEF l, k, fs

\* The other queues are where they were.
LEMMA AppendOther ==
  ASSUME NEW map \in Maps, OneEach(map), NEW e \in Slots, ~Holds(map, e.key),
         NEW j, j # e.key
  PROVE  QueueIn(Append(map, e), j) = QueueIn(map, j)
  <1> DEFINE new == Append(map, e)
             l == Len(map)
  <1>1. new \in Maps /\ OneEach(new)
    BY AppendQueue
  <1>2. map \in Seq(Slots) /\ l \in Nat
    BY DEF Maps
  <1>3. /\ Len(new) = l + 1 /\ new[l + 1] = e
        /\ \A i \in 1 .. l : new[i] = map[i] /\ i \in 1 .. Len(new)
    BY <1>2
  <1> HIDE DEF new
  <1>4. CASE Holds(map, j)
    <2>1. PICK i \in 1 .. l : map[i].key = j
      BY <1>4 DEF Holds
    <2>2. QueueIn(new, j) = new[i].files
      BY <1>1, <1>3, <2>1, QueueAt
    <2>3. QueueIn(map, j) = map[i].files
      BY <2>1, QueueAt
    <2>4. QED
      BY <1>3, <2>1, <2>2, <2>3 DEF new
  <1>5. CASE ~Holds(map, j)
    <2>1. ~Holds(new, j)
      <3> SUFFICES ASSUME NEW i \in 1 .. Len(new), new[i].key = j PROVE FALSE
        BY DEF Holds
      <3>1. i \in 1 .. l
        BY <1>2, <1>3
      <3>2. map[i].key = j
        BY <1>3, <3>1
      <3>3. QED
        BY <1>5, <3>1, <3>2 DEF Holds
    <2>2. QueueIn(new, j) = <<>> /\ QueueIn(map, j) = <<>>
      BY <1>1, <1>5, <2>1, QueueAt
    <2>3. QED
      BY <2>2 DEF new
  <1>6. QED
    BY <1>4, <1>5

\* Queueing a file: at the end of its session's queue, which moves to the end of
\* the map; another session's may have made room for it.
LEMMA PushIs ==
  ASSUME queues \in Maps, OneEach(queues), Len(queues) <= MaxSessions,
         NEW k \in Threads, NEW f \in File, Push(k, f)
  PROVE  /\ queues' \in Maps /\ OneEach(queues') /\ Len(queues') <= MaxSessions
         /\ Last(queues').key = k
         /\ QueueIn(queues', k) = Append(Queue(k), f)
         /\ \A j \in Threads : j # k =>
              \/ QueueIn(queues', j) = Queue(j)
              \/ /\ QueueIn(queues', j) = <<>>
                 /\ Len(queues) = MaxSessions /\ queues[1].key = j
                 /\ ~HasQueue(k)
  <1> DEFINE r == RoomFor(k)
             o == Others(r, k)
             fs == Append(QueueIn(r, k), f)
  <1>1. /\ r \in Maps /\ OneEach(r)
        /\ Len(r) <= MaxSessions
        /\ ~Holds(r, k) => Len(r) < MaxSessions
        /\ QueueIn(r, k) = Queue(k)
        /\ \A j : \/ QueueIn(r, j) = Queue(j)
                  \/ /\ QueueIn(r, j) = <<>>
                     /\ Len(queues) = MaxSessions /\ queues[1].key = j
                     /\ ~HasQueue(k)
    BY RoomIs
  <1>2. /\ o \in Maps /\ OneEach(o)
        /\ ~Holds(o, k)
        /\ Len(o) <= Len(r)
        /\ Holds(r, k) => Len(o) < Len(r)
        /\ \A j : j # k => QueueIn(o, j) = QueueIn(r, j)
    BY <1>1, OthersAre
  <1>3. fs \in Seq(File) /\ fs = Append(Queue(k), f)
    BY <1>1, QueueAt
  <1>4. queues' = Append(o, [key |-> k, files |-> fs])
    BY DEF Push
  <1>5. /\ Len(o) \in Nat /\ Len(r) \in Nat /\ MaxSessions \in Nat
    BY <1>1, <1>2, MailAssumption DEF Maps
  <1> HIDE DEF r, o, fs
  <1>6. /\ queues' \in Maps /\ OneEach(queues')
        /\ Len(queues') = Len(o) + 1
        /\ queues'[Len(queues')].key = k
        /\ QueueIn(queues', k) = fs
        /\ \A j \in Threads : j # k => QueueIn(queues', j) = QueueIn(o, j)
    <2>1. PICK e \in Slots : e = [key |-> k, files |-> fs]
      BY <1>3 DEF Slots
    <2>2. PICK new : new = queues'
      OBVIOUS
    <2>3. new = Append(o, e) /\ e.key = k /\ e.files = fs
      BY <1>4, <2>1, <2>2
    <2>4. /\ new \in Maps /\ OneEach(new)
          /\ Len(new) = Len(o) + 1
          /\ new[Len(new)].key = e.key
          /\ QueueIn(new, e.key) = e.files
      BY ZenonT(30), <1>2, <2>1, <2>3, AppendQueue
    <2>5. ASSUME NEW j \in Threads, j # k PROVE QueueIn(new, j) = QueueIn(o, j)
      BY <1>2, <2>1, <2>3, <2>5, AppendOther
    <2>6. QED
      BY <2>2, <2>3, <2>4, <2>5
  <1>7. Len(queues') <= MaxSessions
    BY <1>1, <1>2, <1>5, <1>6
  <1>8. Last(queues').key = k
    BY <1>6 DEF Last
  <1>9. QED
    BY <1>1, <1>2, <1>3, <1>6, <1>7, <1>8


-----------------------------------------------------------------------------
(* The inductive invariant. *)

\* The loop is at a message, and at one it has called the handler for.
Handling == {"fetch", "load", "turn", "command", "send", "flag", "giveup"}
Answering == {"turn", "command", "send", "flag", "giveup"}

\* Replies under way count as well.
Replies == delivered \cup straying
Sending == IF pc = "send" THEN {outgoing} ELSE {}

\* Every call of the handler but the one under way ended in a flag, a failure
\* or a restart; or in a stop, after which nothing is polled.
UnderWay == pc \in Answering \/ (pc = "idle" /\ stage = "down")
Tries == turns <= Cardinality(seen) + failures + boot - 1 + (IF UnderWay THEN 1 ELSE 0)

\* The loop, the mailbox and the bounds.
LoopType ==
  /\ boot \in 1 .. MaxBoots
  /\ stage \in {"up", "stopping", "down"}
  /\ mail \in Seq([sort : Sorts, thread : Threads]) /\ Len(mail) <= MaxMail
  /\ seen \subseteq DOMAIN mail
  /\ pc \in {"idle", "search", "fetch", "load", "turn", "command", "send", "flag", "giveup"}
  /\ batch \in Seq(DOMAIN mail) /\ Len(batch) <= MaxPerTick
  /\ turns \in Attempts
  /\ calls \in 0 .. MaxCalls
  /\ gaveUp \subseteq DOMAIN mail
  /\ failures \in 0 .. MaxFailures

Loop ==
  /\ LoopType
  /\ pc \in Handling <=> batch # <<>>
  /\ \A i \in 1 .. Len(batch) : batch[i] \notin seen
  /\ \A i, j \in 1 .. Len(batch) : batch[i] = batch[j] => i = j
  /\ pc = "load" => mail[Current].sort # "filtered"
  /\ Tries

\* The tools and the queues.
FilesOK ==
  /\ tool \in [Tools -> {Idle} \cup
       [at : {"asked", "checked"}, turn : Attempts, thread : Threads, late : BOOLEAN]]
  /\ queues \in Maps /\ OneEach(queues) /\ Len(queues) <= MaxSessions

\* The replies.
SentOK ==
  /\ outgoing \in Reply \cup {NoReply}
  /\ straying \subseteq Reply /\ delivered \subseteq Reply
  /\ doubts \in [Messages -> Nat]
  /\ IsFiniteSet(delivered) /\ IsFiniteSet(straying)
  /\ pc = "send" => outgoing \in Reply /\ outgoing.msg = Current
  /\ \A r \in Replies : r.msg \in 1 .. Len(mail)

\* What a message that is flagged, or about to be, has come to.
Accounted(m) == mail[m].sort # "filtered" => Replied(m) \/ m \in gaveUp
Answers ==
  /\ \A m \in seen : Accounted(m)
  /\ pc \in {"flag", "giveup"} => Accounted(Current)

\* The replies to a message: one more than the doubts only if it is flagged,
\* or answered and about to be.
Copies(m) == {r \in Replies : r.msg = m}
Settling(m) == m \in seen \/ (pc \in {"flag", "giveup"} /\ m = Current /\ Replied(m))
Counted ==
  \A m \in Messages :
    /\ Cardinality(Copies(m)) <= doubts[m] + 1
    /\ ~Settling(m) => Cardinality(Copies(m)) <= doubts[m]

\* Files of tools that answered in time are there only during their turn.
Fresh(fs) == {i \in DOMAIN fs : ~fs[i].late}
Own(f, k) ==
  /\ f.thread = k
  /\ f.late \/ (pc = "turn" /\ k = Thread /\ f.turn = turns)
Staged ==
  /\ \A t \in Awaited : pc = "turn" /\ tool[t].turn = turns /\ tool[t].thread = Thread
  /\ \A t, u \in Awaited : t = u
  /\ \A k \in Threads :
       /\ \A i \in DOMAIN Queue(k) : Own(Queue(k)[i], k)
       /\ Cardinality(Fresh(Queue(k))) <= MaxFiles
  /\ \A t \in Awaited : tool[t].at = "checked" =>
       Cardinality(Fresh(Queue(tool[t].thread))) < MaxFiles

\* What OwnFiles and CapHeld say of one reply.
Served(r) ==
  /\ \A i \in DOMAIN r.files :
       /\ r.files[i].turn = r.turn \/ r.files[i].late
       /\ r.files[i].thread = mail[r.msg].thread
  /\ Cardinality(Fresh(r.files)) <= MaxFiles

MailInv ==
  /\ Loop /\ FilesOK /\ SentOK
  /\ Answers /\ Counted /\ Staged
  /\ \A r \in Replies \cup Sending : Served(r)

-----------------------------------------------------------------------------
(* The poll loop. *)

LEMMA Bounds ==
  /\ MaxPerTick \in Nat \ {0} /\ MaxFiles \in Nat \ {0} /\ MaxSessions \in Nat \ {0}
  /\ MaxBoots \in Nat \ {0}
  /\ MaxMail \in Nat /\ MaxCalls \in Nat /\ MaxFailures \in Nat
  BY MailAssumption

\* What is known of the mailbox and the message that is handled.
LEMMA MailTyping ==
  ASSUME Loop
  PROVE  /\ Len(mail) \in Nat /\ DOMAIN mail = 1 .. Len(mail)
         /\ 1 .. Len(mail) \subseteq Messages
         /\ \A m \in 1 .. Len(mail) : mail[m].sort \in Sorts /\ mail[m].thread \in Threads
         /\ batch \in Seq(1 .. Len(mail)) /\ Len(batch) \in Nat
  <1>1. mail \in Seq([sort : Sorts, thread : Threads]) /\ batch \in Seq(DOMAIN mail)
    BY DEF Loop, LoopType
  <1>2. Len(mail) \in Nat /\ DOMAIN mail = 1 .. Len(mail)
    BY <1>1
  <1>3. 1 .. Len(mail) \subseteq Messages
    BY <1>2, Bounds DEF Loop, LoopType, Messages
  <1>4. \A m \in 1 .. Len(mail) : mail[m].sort \in Sorts /\ mail[m].thread \in Threads
    <2> SUFFICES ASSUME NEW m \in 1 .. Len(mail)
                 PROVE  mail[m].sort \in Sorts /\ mail[m].thread \in Threads
      OBVIOUS
    <2> DEFINE R == [sort : Sorts, thread : Threads]
    <2>1. mail \in Seq(R)
      BY <1>1
    <2> HIDE DEF R
    <2>2. mail[m] \in R
      BY <2>1
    <2>3. QED
      BY <2>2 DEF R
  <1>5. batch \in Seq(1 .. Len(mail))
    BY <1>1, <1>2
  <1>6. QED
    BY <1>2, <1>3, <1>4, <1>5

LEMMA CurrentIs ==
  ASSUME Loop, pc \in Handling
  PROVE  /\ Current \in 1 .. Len(mail) /\ Current \in Messages /\ Current \notin seen
         /\ Thread \in Threads
         /\ Len(batch) \in Nat \ {0}
         /\ Tail(batch) \in Seq(1 .. Len(mail)) /\ Len(Tail(batch)) = Len(batch) - 1
         /\ \A i \in 1 .. Len(Tail(batch)) :
              i + 1 \in 1 .. Len(batch) /\ Tail(batch)[i] = batch[i + 1] /\ Tail(batch)[i] # Current
  <1>1. batch \in Seq(1 .. Len(mail)) /\ Len(batch) \in Nat \ {0} /\ 1 \in 1 .. Len(batch)
    BY MailTyping DEF Loop
  <1>2. Current \in 1 .. Len(mail) /\ Current \notin seen
    BY <1>1 DEF Current, Loop
  <1>3. Current \in Messages /\ Thread \in Threads
    BY <1>2, MailTyping DEF Thread
  <1>4. /\ Tail(batch) \in Seq(1 .. Len(mail)) /\ Len(Tail(batch)) = Len(batch) - 1
        /\ \A i \in 1 .. Len(Tail(batch)) :
             i + 1 \in 1 .. Len(batch) /\ Tail(batch)[i] = batch[i + 1]
    BY <1>1
  <1>5. \A i \in 1 .. Len(Tail(batch)) : Tail(batch)[i] # Current
    <2> SUFFICES ASSUME NEW i \in 1 .. Len(Tail(batch)), batch[i + 1] = batch[1] PROVE FALSE
      BY <1>4 DEF Current
    <2>1. i + 1 = 1
      BY <1>1, <1>4 DEF Loop
    <2>2. QED
      BY <2>1
  <1>6. QED
    BY <1>1, <1>2, <1>3, <1>4, <1>5

\* The messages of a poll are unseen, each once, and no more than its cap.
LEMMA OldestIs ==
  ASSUME Loop
  PROVE  /\ Oldest \in Seq(1 .. Len(mail)) /\ Len(Oldest) <= MaxPerTick
         /\ \A i \in 1 .. Len(Oldest) : Oldest[i] \notin seen
         /\ \A i, j \in 1 .. Len(Oldest) : Oldest[i] = Oldest[j] => i = j
  <1> DEFINE D == 1 .. Len(mail)
             ids == [i \in DOMAIN mail |-> i]
             S == DOMAIN mail \ seen
             u == Kept(ids, S)
             n == IF Len(u) < MaxPerTick THEN Len(u) ELSE MaxPerTick
             o == SubSeq(u, 1, n)
  <1>1. Oldest = o
    BY DEF Oldest
  <1>2. Len(mail) \in Nat /\ DOMAIN mail = D
    BY MailTyping
  <1>3. ids \in Seq(D) /\ Len(ids) = Len(mail) /\ \A i \in D : ids[i] = i
    BY <1>2
  <1>4. u \in Seq(D \cap S) /\ Picked(u, ids, Len(ids), S)
    <2> HIDE DEF ids, D, S, u
    <2>1. QED
      BY <1>3, KeptIs, KeptPicks DEF u
  <1>5. PICK h : Picks(h, u, ids, Len(mail), S)
    <2> HIDE DEF ids, D, S, u
    <2>1. QED
      BY <1>3, <1>4 DEF Picked
  <1> HIDE DEF ids, u
  <1>6. Len(u) \in Nat /\ u \in Seq(D) /\ \A i \in 1 .. Len(u) : u[i] \in S
    BY <1>4
  <1>7. \A i, j \in 1 .. Len(u) : u[i] = u[j] => i = j
    <2> SUFFICES ASSUME NEW i \in 1 .. Len(u), NEW j \in 1 .. Len(u), u[i] = u[j] PROVE i = j
      OBVIOUS
    <2>1. h[i] \in D /\ h[j] \in D /\ u[i] = ids[h[i]] /\ u[j] = ids[h[j]]
      BY <1>5 DEF Picks
    <2>2. h[i] = h[j]
      BY <1>3, <2>1
    <2>3. PICK x \in Nat : x = h[i] /\ x = h[j]
      BY <1>2, <2>1, <2>2
    <2>4. ~(i < j) /\ ~(j < i)
      <3>1. \A a, b \in 1 .. Len(u) : a < b => h[a] < h[b]
        BY <1>5 DEF Picks
      <3>2. ~(x < x)
        OBVIOUS
      <3>3. QED
        BY <2>3, <3>1, <3>2
    <2>5. QED
      BY <1>6, <2>4
  <1>8. n \in 0 .. Len(u) /\ n <= MaxPerTick
    BY <1>6, Bounds
  <1> HIDE DEF n
  <1>9. o \in Seq(D) /\ Len(o) = n /\ \A i \in 1 .. n : o[i] = u[i] /\ i \in 1 .. Len(u)
    BY <1>6, <1>8
  <1> HIDE DEF o
  <1>10. \A i \in 1 .. Len(o) : o[i] \notin seen
    BY <1>6, <1>9
  <1>11. \A i, j \in 1 .. Len(o) : o[i] = o[j] => i = j
    BY <1>7, <1>9
  <1>12. QED
    BY <1>1, <1>8, <1>9, <1>10, <1>11 DEF D


LEMMA InitInv == Init => MailInv
  <1> SUFFICES ASSUME Init PROVE MailInv
    OBVIOUS
  <1>1. Loop
    <2>1. LoopType
      <3>1. /\ 1 \in 1 .. MaxBoots /\ 0 \in Attempts /\ 0 \in 0 .. MaxCalls /\ 0 \in 0 .. MaxFailures
            /\ 0 <= MaxMail /\ 0 <= MaxPerTick
        BY Bounds DEF Attempts
      <3>2. QED
        BY <3>1 DEF LoopType, Init
    <2>2. Tries
      BY FS_EmptySet DEF Tries, UnderWay, Init, Answering
    <2>3. QED
      BY <2>1, <2>2 DEF Loop, Init, Handling
  <1>2. FilesOK
    BY Bounds DEF FilesOK, Init, Maps, OneEach
  <1>3. SentOK
    BY FS_EmptySet DEF SentOK, Init, Replies
  <1>4. Answers
    BY DEF Answers, Init
  <1>5. Counted
    <2> SUFFICES ASSUME NEW m \in Messages PROVE Cardinality(Copies(m)) = 0 /\ doubts[m] = 0
      BY DEF Counted
    <2>1. Copies(m) = {}
      BY DEF Copies, Replies, Init
    <2>2. QED
      BY <2>1, FS_EmptySet DEF Init
  <1>6. Staged
    <2>1. Awaited = {}
      BY DEF Awaited, Init
    <2>2. \A k \in Threads : Queue(k) = <<>>
      BY DEF Queue, QueueIn, Init
    <2>3. \A k \in Threads : Fresh(Queue(k)) = {}
      BY <2>2 DEF Fresh
    <2>4. QED
      BY <2>1, <2>2, <2>3, FS_EmptySet, Bounds DEF Staged
  <1>7. \A r \in Replies \cup Sending : Served(r)
    BY DEF Replies, Sending, Init
  <1>8. QED
    BY <1>1, <1>2, <1>3, <1>4, <1>5, <1>6, <1>7 DEF MailInv

\* What every state of the invariant is typed as.
LEMMA TypeFollows == MailInv => TypeOK
  <1> SUFFICES ASSUME MailInv PROVE TypeOK
    OBVIOUS
  <1>1. LoopType /\ FilesOK /\ SentOK
    BY DEF MailInv, Loop
  <1>2. queues \in Seq([key : Threads, files : Seq(File)]) /\ DOMAIN queues = 1 .. Len(queues)
    BY <1>1 DEF FilesOK, Maps, Slots
  <1>3. \A i, j \in DOMAIN queues : queues[i].key = queues[j].key => i = j
    BY <1>1, <1>2 DEF FilesOK, OneEach
  <1>4. QED
    BY <1>1, <1>2, <1>3 DEF LoopType, FilesOK, SentOK, TypeOK


-----------------------------------------------------------------------------
(* Steps of the loop. *)

\* Going on to the next message keeps what is known of the batch, whether the
\* current message was flagged or not.
LEMMA AdvanceIs ==
  ASSUME Loop, pc \in Handling, Advance, UNCHANGED mail, seen' \in {seen, seen \cup {Current}}
  PROVE  /\ batch' \in Seq(1 .. Len(mail)) /\ Len(batch') <= MaxPerTick
         /\ pc' \in {"fetch", "idle"} /\ (pc' = "fetch" <=> batch' # <<>>)
         /\ \A i \in 1 .. Len(batch') : batch'[i] \notin seen'
         /\ \A i, j \in 1 .. Len(batch') : batch'[i] = batch'[j] => i = j
         /\ stage # "up" => pc' = "idle"
  <1>1. /\ Len(batch) \in Nat \ {0} /\ Len(batch) <= MaxPerTick
        /\ Tail(batch) \in Seq(1 .. Len(mail)) /\ Len(Tail(batch)) = Len(batch) - 1
        /\ \A i \in 1 .. Len(Tail(batch)) :
             i + 1 \in 1 .. Len(batch) /\ Tail(batch)[i] = batch[i + 1] /\ Tail(batch)[i] # Current
    BY CurrentIs DEF Loop, LoopType
  <1>2. CASE stage # "up"
    <2>1. batch' = <<>> /\ pc' = "idle"
      BY <1>2 DEF Advance
    <2>2. QED
      BY <2>1, Bounds
  <1>3. CASE stage = "up"
    <2> DEFINE t == Tail(batch)
    <2>1. batch' = t /\ pc' = IF Len(batch) > 1 THEN "fetch" ELSE "idle"
      BY <1>3 DEF Advance
    <2> HIDE DEF t
    <2>2. t \in Seq(1 .. Len(mail)) /\ Len(t) = Len(batch) - 1
      BY <1>1 DEF t
    <2>3. Len(t) \in Nat /\ (t = <<>> <=> Len(t) = 0)
      <3> DEFINE D == 1 .. Len(mail)
      <3>1. t \in Seq(D)
        BY <2>2
      <3> HIDE DEF D
      <3>2. QED
        BY <3>1
    <2>4. Len(t) <= MaxPerTick
      BY <1>1, <2>2, Bounds
    <2>5. \A i \in 1 .. Len(t) : t[i] \notin seen'
      <3> SUFFICES ASSUME NEW i \in 1 .. Len(t) PROVE t[i] \notin seen'
        OBVIOUS
      <3>1. i + 1 \in 1 .. Len(batch) /\ t[i] = batch[i + 1] /\ t[i] # Current
        BY <1>1 DEF t
      <3>2. t[i] \notin seen
        BY <3>1 DEF Loop
      <3>3. QED
        BY <3>1, <3>2
    <2>6. \A i, j \in 1 .. Len(t) : t[i] = t[j] => i = j
      <3> SUFFICES ASSUME NEW i \in 1 .. Len(t), NEW j \in 1 .. Len(t), t[i] = t[j] PROVE i = j
        OBVIOUS
      <3>1. i + 1 \in 1 .. Len(batch) /\ j + 1 \in 1 .. Len(batch) /\ batch[i + 1] = batch[j + 1]
        BY <1>1 DEF t
      <3>2. i + 1 = j + 1
        BY <3>1 DEF Loop
      <3>3. QED
        BY <3>2
    <2>7. QED
      BY <1>1, <1>3, <2>1, <2>2, <2>3, <2>4, <2>5, <2>6
  <1>4. QED
    BY <1>2, <1>3

\* What a step may do to the loop for Loop to hold after it.
Steady ==
  /\ stage' \in {"up", "stopping", "down"}
  /\ gaveUp' \subseteq 1 .. Len(mail')
  /\ calls' \in 0 .. MaxCalls
  /\ batch' \in Seq(1 .. Len(mail')) /\ Len(batch') <= MaxPerTick
  /\ pc' \in Handling <=> batch' # <<>>
  /\ \A i \in 1 .. Len(batch') : batch'[i] \notin seen'
  /\ \A i, j \in 1 .. Len(batch') : batch'[i] = batch'[j] => i = j
  /\ pc' = "load" => mail'[batch'[1]].sort # "filtered"
  /\ pc' \in {"idle", "search", "fetch", "load", "turn", "command", "send", "flag", "giveup"}

\* Fail in numbers.
LEMMA FailIs ==
  ASSUME Loop, Fail
  PROVE  /\ failures' \in 0 .. MaxFailures /\ failures' >= failures
         /\ stage = "down" \/ failures' = failures + 1
  BY Bounds DEF Loop, LoopType, Fail

\* What is flagged can be counted.
LEMMA SeenCount ==
  ASSUME Loop
  PROVE  IsFiniteSet(seen) /\ Cardinality(seen) \in Nat /\ Cardinality(seen) <= MaxMail
  <1>1. Len(mail) \in Nat /\ seen \subseteq 1 .. Len(mail) /\ Len(mail) <= MaxMail
    BY MailTyping DEF Loop, LoopType
  <1>2. IsFiniteSet(1 .. Len(mail)) /\ Cardinality(1 .. Len(mail)) = Len(mail)
    <2>1. Len(mail) \in Int /\ 1 \in Int
      BY <1>1
    <2>2. QED
      BY SMTT(30), <1>1, <2>1, FS_Interval
  <1>3. IsFiniteSet(seen) /\ Cardinality(seen) <= Cardinality(1 .. Len(mail))
    BY <1>1, <1>2, FS_Subset
  <1>4. Cardinality(seen) \in Nat
    BY <1>3, FS_CardinalityType
  <1>5. QED
    BY <1>1, <1>2, <1>3, <1>4, Bounds

\* The arithmetic of Tries.
LEMMA Budget ==
  ASSUME NEW n \in Nat, NEW c \in Nat, NEW f \in Nat, NEW b \in Nat, NEW u \in {0, 1},
         NEW g \in Nat, NEW d \in Nat, NEW v \in {0, 1},
         n <= c + f + b - 1 + u, g >= f, d >= b, u <= v \/ g >= f + 1 \/ d >= b + 1
  PROVE  n <= c + g + d - 1 + v
  OBVIOUS

\* The mailbox as it was, nothing handled anew.
LEMMA SteadyStep ==
  ASSUME Loop, Steady, UNCHANGED <<mail, seen, turns>>,
         boot' \in 1 .. MaxBoots, boot' >= boot,
         failures' \in 0 .. MaxFailures, failures' >= failures,
         \/ UnderWay => UnderWay'
         \/ failures' >= failures + 1
         \/ boot' >= boot + 1
  PROVE  Loop'
  <1>1. /\ turns \in Nat /\ failures \in Nat /\ boot \in Nat /\ boot' \in Nat /\ failures' \in Nat
    BY Bounds DEF Loop, LoopType, Attempts
  <1>2. DOMAIN mail = 1 .. Len(mail) /\ Len(mail) \in Nat
    BY MailTyping
  <1>3. LoopType'
    BY <1>2 DEF Loop, LoopType, Steady
  <1>4. Cardinality(seen) \in Nat
    BY SeenCount
  <1>5. Tries'
    <2> DEFINE c == Cardinality(seen)
    <2>1. Cardinality(seen') = c /\ c \in Nat
      BY <1>4
    <2> HIDE DEF c
    <2>2. turns <= c + failures + boot - 1 + (IF UnderWay THEN 1 ELSE 0)
      BY DEF Loop, Tries, c
    <2>3. turns' <= c + failures' + boot' - 1 + (IF UnderWay' THEN 1 ELSE 0)
      <3>1. PICK n \in Nat : n = turns /\ n = turns'
        BY <1>1
      <3>2. PICK u \in {0, 1} : u = IF UnderWay THEN 1 ELSE 0
        OBVIOUS
      <3>3. PICK v \in {0, 1} : v = IF UnderWay' THEN 1 ELSE 0
        OBVIOUS
      <3>4. u <= v \/ failures' >= failures + 1 \/ boot' >= boot + 1
        BY <3>2, <3>3
      <3>5. n <= c + failures + boot - 1 + u
        BY <2>2, <3>1, <3>2
      <3>6. n <= c + failures' + boot' - 1 + v
        <4>1. c \in Nat /\ failures \in Nat /\ boot \in Nat /\ boot' \in Nat /\ failures' \in Nat
          BY <1>1, <2>1
        <4>2. n \in Nat /\ u \in {0, 1} /\ v \in {0, 1}
          OBVIOUS
        <4>3. boot' >= boot /\ failures' >= failures
          OBVIOUS
        <4>4. QED
          BY ZenonT(30), <3>4, <3>5, <4>1, <4>2, <4>3, Budget
      <3>7. QED
        BY <3>1, <3>3, <3>6
    <2>4. QED
      BY <2>1, <2>3 DEF Tries
  <1>6. QED
    BY <1>3, <1>5 DEF Loop, Steady, Current


\* Going on to the next message after a failure, or when nothing is polled.
LEMMA AdvanceStep ==
  ASSUME Loop, pc \in Handling, Advance, UNCHANGED <<boot, stage, mail, seen, gaveUp>>,
         failures' \in 0 .. MaxFailures, failures' >= failures,
         stage = "down" \/ failures' = failures + 1
  PROVE  Loop'
  <1>1. /\ batch' \in Seq(1 .. Len(mail)) /\ Len(batch') <= MaxPerTick
        /\ pc' \in {"fetch", "idle"} /\ (pc' = "fetch" <=> batch' # <<>>)
        /\ \A i \in 1 .. Len(batch') : batch'[i] \notin seen'
        /\ \A i, j \in 1 .. Len(batch') : batch'[i] = batch'[j] => i = j
        /\ stage # "up" => pc' = "idle"
    BY AdvanceIs
  <1>2. boot \in 1 .. MaxBoots /\ boot' \in 1 .. MaxBoots /\ boot' >= boot
    BY Bounds DEF Loop, LoopType
  <1>3. stage' \in {"up", "stopping", "down"} /\ gaveUp' \subseteq 1 .. Len(mail') /\ calls' \in 0 .. MaxCalls
    BY MailTyping DEF Loop, LoopType, Advance
  <1>4. Steady
    BY <1>1, <1>3 DEF Steady, Handling
  <1>5. UNCHANGED <<mail, seen, turns>>
    BY DEF Advance
  <1>6. (UnderWay => UnderWay') \/ failures' >= failures + 1
    <2>1. CASE stage = "down"
      <3>1. UnderWay'
        BY <1>1, <2>1 DEF UnderWay
      <3>2. QED
        BY <3>1
    <2>2. CASE failures' = failures + 1
      BY <2>2
    <2>3. QED
      BY <2>1, <2>2
  <1>7. QED
    BY <1>2, <1>4, <1>5, <1>6, SteadyStep

\* The loop stays where it is in its batch.
LEMMA StayStep ==
  ASSUME Loop, UNCHANGED <<boot, mail, seen, batch, turns>>,
         stage' \in {"up", "stopping", "down"},
         gaveUp' \subseteq 1 .. Len(mail), calls' \in 0 .. MaxCalls,
         pc' \in {"idle", "search"} \cup Handling,
         pc' \in Handling <=> pc \in Handling,
         pc' = "load" => mail[Current].sort # "filtered",
         failures' \in 0 .. MaxFailures, failures' >= failures,
         (UnderWay => UnderWay') \/ failures' >= failures + 1
  PROVE  Loop'
  <1>1. boot \in 1 .. MaxBoots /\ boot' \in 1 .. MaxBoots /\ boot' >= boot
    BY Bounds DEF Loop, LoopType
  <1>2. batch \in Seq(1 .. Len(mail)) /\ Len(batch) <= MaxPerTick
    BY MailTyping DEF Loop, LoopType
  <1>3. Steady
    <2>1. pc' \in {"idle", "search", "fetch", "load", "turn", "command", "send", "flag", "giveup"}
      BY DEF Handling
    <2>2. QED
      BY <1>2, <2>1 DEF Steady, Loop, Current
  <1>4. QED
    BY <1>1, <1>3, SteadyStep


LEMMA LoopPoll ==
  ASSUME Loop, Poll
  PROVE  Loop'
  <1> USE DEF Handling, Answering
  <1>1. /\ gaveUp \subseteq 1 .. Len(mail) /\ calls \in 0 .. MaxCalls
        /\ stage \in {"up", "stopping", "down"}
        /\ failures \in 0 .. MaxFailures /\ failures >= failures
        /\ boot \in 1 .. MaxBoots /\ boot >= boot
        /\ pc \in {"idle", "search"} \cup Handling
    BY MailTyping, Bounds DEF Loop, LoopType
  <1>2. Fail => /\ failures' \in 0 .. MaxFailures /\ failures' >= failures
                /\ stage = "down" \/ failures' = failures + 1
    BY FailIs
  <1>3. pc \in Handling => Current \in 1 .. Len(mail) /\ Current \notin seen
    BY CurrentIs
  <1>4. CASE PollStarts
    BY <1>1, <1>4, StayStep DEF PollStarts, mailbox, files, past, UnderWay
  <1>5. CASE PollFails
    BY <1>1, <1>2, <1>5, StayStep DEF PollFails, mailbox, files, UnderWay
  <1>6. CASE SearchEnds
    <2> DEFINE new == batch'
    <2>1. /\ new \in Seq(1 .. Len(mail)) /\ Len(new) <= MaxPerTick
          /\ \A i \in 1 .. Len(new) : new[i] \notin seen
          /\ \A i, j \in 1 .. Len(new) : new[i] = new[j] => i = j
      <3>1. CASE stage = "up"
        BY <1>6, <3>1, OldestIs DEF SearchEnds
      <3>2. CASE stage # "up"
        BY <1>6, <3>2, Bounds DEF SearchEnds
      <3>3. QED
        BY <3>1, <3>2
    <2>2. Steady
      <3>1. UNCHANGED <<stage, gaveUp, calls, mail, seen>>
        BY <1>6 DEF SearchEnds, mailbox, past
      <3>2. pc' = IF batch' = <<>> THEN "idle" ELSE "fetch"
        BY <1>6 DEF SearchEnds
      <3>3. pc' \in {"idle", "fetch"} /\ (pc' = "fetch" <=> batch' # <<>>)
        BY <3>2
      <3>4. QED
        BY <1>1, <2>1, <3>1, <3>3 DEF Steady
    <2>3. ~UnderWay
      BY <1>6 DEF UnderWay, SearchEnds
    <2>4. UNCHANGED <<mail, seen, turns, boot, failures>>
      BY <1>6 DEF SearchEnds, mailbox, past
    <2>5. QED
      BY <1>1, <2>2, <2>3, <2>4, SteadyStep
  <1>7. CASE FetchEnds
    BY <1>1, <1>7, StayStep DEF FetchEnds, mailbox, files, past, UnderWay
  <1>8. CASE FetchEmpty
    BY <1>2, <1>8, AdvanceStep DEF FetchEmpty, mailbox
  <1>9. CASE HandlingThrows
    BY <1>1, <1>2, <1>3, <1>9, StayStep DEF HandlingThrows, mailbox, UnderWay
  <1>10. CASE LoadEnds
    <2>1. pc' \in {"turn", "command"}
      BY <1>3, <1>10, MailTyping DEF LoadEnds, Loop, Sorts
    <2>2. UNCHANGED <<boot, stage, mail, seen, batch, gaveUp, failures>>
      BY <1>10 DEF LoadEnds, mailbox, past
    <2>3. turns' = turns + 1 /\ calls' = 0 /\ pc = "load"
      BY <1>10 DEF LoadEnds
    <2>4. PICK c \in Nat : c = Cardinality(seen)
      BY SeenCount
    <2>5. turns \in Nat /\ turns <= c + failures + boot - 1
      <3>1. turns <= Cardinality(seen) + failures + boot - 1 + 0
        BY <2>3 DEF Loop, Tries, UnderWay
      <3>2. turns \in Nat
        BY Bounds DEF Loop, LoopType, Attempts
      <3>3. QED
        BY <1>1, <2>4, <3>1, <3>2, Bounds
    <2>6. turns' \in Attempts
      <3>1. c <= MaxMail /\ failures \in Nat /\ boot \in Nat /\ failures <= MaxFailures /\ boot <= MaxBoots
        BY <1>1, <2>4, SeenCount, Bounds
      <3>2. QED
        BY <2>3, <2>5, <3>1, Bounds DEF Attempts
    <2>7. LoopType'
      <3>1. 0 \in 0 .. MaxCalls
        BY Bounds
      <3>2. QED
        BY <2>1, <2>2, <2>3, <2>6, <3>1 DEF Loop, LoopType
    <2>8. Tries'
      <3>1. UnderWay'
        BY <2>1 DEF UnderWay
      <3>2. turns' <= c + failures' + boot' - 1 + 1
        BY <1>1, <2>2, <2>3, <2>5
      <3>3. c = Cardinality(seen)'
        BY <2>2, <2>4
      <3>4. QED
        BY <3>1, <3>2, <3>3 DEF Tries
    <2>9. QED
      BY <2>1, <2>2, <2>3, <2>7, <2>8 DEF Loop, Current
  <1>11. ASSUME NEW attached, SendStarts(attached), pc \in {"turn", "command"},
                UNCHANGED <<boot, stage, mailbox, gaveUp>>,
                Fail \/ UNCHANGED failures
         PROVE  Loop'
    <2>1. failures' \in 0 .. MaxFailures /\ failures' >= failures
      BY <1>1, <1>2, <1>11
    <2>2. CASE stage = "down"
      BY <1>11, <2>1, <2>2, AdvanceStep DEF SendStarts, mailbox
    <2>3. CASE stage # "down"
      BY <1>1, <1>11, <2>1, <2>3, StayStep DEF SendStarts, mailbox, UnderWay
    <2>4. QED
      BY <2>2, <2>3
  <1>12. CASE TurnEnds
    BY <1>11, <1>12 DEF TurnEnds, past
  <1>13. CASE TurnThrows
    BY <1>11, <1>13 DEF TurnThrows
  <1>14. CASE CommandEnds
    BY <1>11, <1>14 DEF CommandEnds, past
  <1>15. CASE SendEnds
    BY <1>1, <1>15, StayStep DEF SendEnds, mailbox, UnderWay
  <1>16. CASE SendFails
    BY <1>2, <1>16, AdvanceStep DEF SendFails, mailbox
  <1>17. CASE SendTimesOut
    BY <1>2, <1>17, AdvanceStep DEF SendTimesOut, mailbox
  <1>18. CASE FlagEnds
    <2>1. /\ batch' \in Seq(1 .. Len(mail)) /\ Len(batch') <= MaxPerTick
          /\ pc' \in {"fetch", "idle"} /\ (pc' = "fetch" <=> batch' # <<>>)
          /\ \A i \in 1 .. Len(batch') : batch'[i] \notin seen'
          /\ \A i, j \in 1 .. Len(batch') : batch'[i] = batch'[j] => i = j
      BY <1>18, AdvanceIs DEF FlagEnds
    <2>2. /\ UNCHANGED <<boot, stage, mail, turns, calls, gaveUp, failures>>
          /\ seen' = seen \cup {Current} /\ Current \in 1 .. Len(mail) /\ Current \notin seen
      BY <1>3, <1>18 DEF FlagEnds, Advance, past
    <2>3. LoopType'
      <3>1. DOMAIN mail = 1 .. Len(mail)
        BY MailTyping
      <3>2. QED
        BY <2>1, <2>2, <3>1 DEF Loop, LoopType
    <2>4. Cardinality(seen') = Cardinality(seen) + 1
      BY <2>2, SeenCount, FS_AddElement
    <2>5. Tries'
      <3>1. PICK c \in Nat : c = Cardinality(seen)
        BY SeenCount
      <3>2. UnderWay
        BY <1>18 DEF FlagEnds, UnderWay
      <3>3. turns <= c + failures + boot - 1 + 1
        BY <3>1, <3>2 DEF Loop, Tries
      <3>4. turns \in Nat /\ failures \in Nat /\ boot \in Nat
        BY <1>1, Bounds DEF Loop, LoopType, Attempts
      <3>5. PICK v \in {0, 1} : v = IF UnderWay' THEN 1 ELSE 0
        OBVIOUS
      <3>6. turns' <= (c + 1) + failures' + boot' - 1 + v
        BY <2>2, <3>3, <3>4
      <3>7. Cardinality(seen)' = c + 1
        BY <2>4, <3>1
      <3>8. QED
        BY <3>5, <3>6, <3>7 DEF Tries
    <2>6. QED
      BY <2>1, <2>3, <2>5 DEF Loop
  <1>19. CASE FlagFails
    BY <1>1, <1>2, <1>19, StayStep DEF FlagFails, mailbox, UnderWay
  <1>20. CASE GiveUpFails
    BY <1>2, <1>20, AdvanceStep DEF GiveUpFails, mailbox
  <1>21. QED
    BY <1>4, <1>5, <1>6, <1>7, <1>8, <1>9, <1>10, <1>12, <1>13, <1>14, <1>15,
       <1>16, <1>17, <1>18, <1>19, <1>20 DEF Poll


LEMMA LoopStep ==
  ASSUME Loop, [Next]_vars
  PROVE  Loop'
  <1>1. /\ gaveUp \subseteq 1 .. Len(mail) /\ calls \in 0 .. MaxCalls
        /\ stage \in {"up", "stopping", "down"}
        /\ failures \in 0 .. MaxFailures /\ failures >= failures
        /\ boot \in 1 .. MaxBoots /\ boot >= boot
        /\ pc \in {"idle", "search"} \cup Handling
    BY MailTyping, Bounds DEF Loop, LoopType, Handling
  <1>2. pc = "load" => mail[Current].sort # "filtered"
    BY DEF Loop
  <1>3. ASSUME UNCHANGED <<boot, stage, mailbox, loop, gaveUp, failures>> PROVE Loop'
    BY <1>1, <1>2, <1>3, StayStep DEF mailbox, loop, UnderWay
  <1>4. CASE Poll
    BY <1>4, LoopPoll
  <1>5. ASSUME NEW t \in Tools, ToolCalled(t) PROVE Loop'
    <2>1. calls' \in 0 .. MaxCalls
      BY <1>1, <1>5, Bounds DEF ToolCalled
    <2>2. QED
      BY <1>1, <1>2, <1>5, <2>1, StayStep DEF ToolCalled, mailbox, past, UnderWay
  <1>6. ASSUME NEW t \in Tools, ToolStep(t) PROVE Loop'
    <2>1. CASE ToolChecks(t) \/ ToolErrs(t) \/ ToolStages(t)
      BY <1>3, <2>1 DEF ToolChecks, ToolErrs, ToolStages, past
    <2>2. CASE ToolTimesOut(t)
      <3>1. failures' \in 0 .. MaxFailures /\ failures' >= failures
        BY <2>2, FailIs DEF ToolTimesOut
      <3>2. UNCHANGED <<boot, stage, mail, seen, pc, batch, turns, calls, gaveUp>>
        BY <2>2 DEF ToolTimesOut, mailbox, loop
      <3>3. QED
        BY <1>1, <1>2, <3>1, <3>2, StayStep DEF UnderWay
    <2>3. QED
      BY <1>6, <2>1, <2>2 DEF ToolStep
  <1>7. ASSUME NEW sort \in Sorts, NEW thread \in Threads, Arrive(sort, thread) PROVE Loop'
    <2>1. mail' = Append(mail, [sort |-> sort, thread |-> thread]) /\ Len(mail) < MaxMail
      BY <1>7 DEF Arrive
    <2>2. UNCHANGED <<boot, stage, seen, pc, batch, turns, calls, gaveUp, failures>>
      BY <1>7 DEF Arrive, loop, past
    <2>3. /\ mail' \in Seq([sort : Sorts, thread : Threads]) /\ Len(mail') = Len(mail) + 1
          /\ \A m \in 1 .. Len(mail) : mail'[m] = mail[m]
      BY <2>1 DEF Loop, LoopType
    <2>4. Len(mail') <= MaxMail /\ DOMAIN mail \subseteq DOMAIN mail'
      BY <2>1, <2>3, MailTyping, Bounds
    <2>5. batch' \in Seq(DOMAIN mail')
      BY <2>2, <2>4, MailTyping
    <2>6. LoopType'
      BY <2>2, <2>3, <2>4, <2>5 DEF Loop, LoopType
    <2>7. Tries'
      BY <2>2 DEF Loop, Tries, UnderWay
    <2>8. pc' = "load" => mail'[Current'].sort # "filtered"
      <3> SUFFICES ASSUME pc' = "load" PROVE mail'[Current'].sort # "filtered"
        OBVIOUS
      <3>1. Current \in 1 .. Len(mail) /\ Current' = Current
        BY <2>2, CurrentIs DEF Handling, Current
      <3>2. QED
        BY <1>2, <2>2, <2>3, <3>1
    <2>9. QED
      BY <2>2, <2>6, <2>7, <2>8 DEF Loop
  <1>8. ASSUME NEW r \in straying, StraySendEnds(r) PROVE Loop'
    BY <1>3, <1>8 DEF StraySendEnds
  <1>9. CASE StopCalled
    BY <1>1, <1>2, <1>9, StayStep DEF StopCalled, mailbox, loop, past, UnderWay
  <1>10. CASE StopEnds
    BY <1>1, <1>2, <1>10, StayStep DEF StopEnds, mailbox, loop, past, UnderWay
  <1>11. CASE Restart
    <2>1. UNCHANGED <<mail, seen, turns, gaveUp, failures>>
      BY <1>11 DEF Restart, mailbox
    <2>2. boot' = boot + 1 /\ boot' \in 1 .. MaxBoots
      BY <1>1, <1>11, Bounds DEF Restart
    <2>3. batch' = <<>> /\ pc' = "idle" /\ stage' = "up" /\ calls' = 0
      BY <1>11 DEF Restart
    <2>4. Steady
      BY <1>1, <2>1, <2>3, Bounds DEF Steady, Handling
    <2>5. boot' >= boot /\ boot' >= boot + 1
      BY <1>1, <2>2
    <2>6. QED
      BY <1>1, <2>1, <2>2, <2>4, <2>5, SteadyStep
  <1>12. CASE UNCHANGED vars
    BY <1>3, <1>12 DEF vars, past
  <1>13. QED
    BY <1>4, <1>5, <1>6, <1>7, <1>8, <1>9, <1>10, <1>11, <1>12 DEF Next


-----------------------------------------------------------------------------
(* Steps of the tools. *)

\* What is in an entry of tool.
Call == [at : {"asked", "checked"}, turn : Attempts, thread : Threads, late : BOOLEAN]

\* An entry that is not idle is a call.
LEMMA ToolIs ==
  ASSUME FilesOK, NEW t \in Tools
  PROVE  /\ tool[t] \in Call \cup {Idle}
         /\ tool[t] # Idle => /\ tool[t] \in Call /\ tool[t].turn \in Attempts
                              /\ tool[t].thread \in Threads /\ tool[t].late \in BOOLEAN
                              /\ tool[t].at \in {"asked", "checked"}
         /\ tool[t] = Idle => tool[t].at = "idle"
  <1>1. tool[t] \in Call \cup {Idle}
    BY DEF FilesOK, Call
  <1>2. tool[t] # Idle => tool[t] \in Call
    BY <1>1
  <1>3. \A c \in Call : /\ c.turn \in Attempts /\ c.thread \in Threads /\ c.late \in BOOLEAN
                        /\ c.at \in {"asked", "checked"}
    BY DEF Call
  <1>4. tool[t] = Idle => tool[t].at = "idle"
    BY DEF Idle
  <1>5. QED
    BY <1>1, <1>2, <1>3, <1>4

\* A queue in terms of the map.
LEMMA QueueIs ==
  ASSUME FilesOK
  PROVE  /\ queues \in Maps /\ OneEach(queues) /\ Len(queues) <= MaxSessions
         /\ \A k : Queue(k) \in Seq(File)
  <1>1. queues \in Maps /\ OneEach(queues) /\ Len(queues) <= MaxSessions
    BY DEF FilesOK
  <1>2. \A k : QueueIn(queues, k) \in Seq(File)
    BY <1>1, QueueAt
  <1>3. QED
    BY <1>1, <1>2 DEF Queue

\* Draining a queue leaves the others, and nothing of its own.
LEMMA DrainIs ==
  ASSUME FilesOK, NEW k, queues' = Drained(k)
  PROVE  /\ queues' \in Maps /\ OneEach(queues') /\ Len(queues') <= MaxSessions
         /\ Queue(k)' = <<>>
         /\ \A j : j # k => Queue(j)' = Queue(j)
  <1>1. queues' = Others(queues, k)
    BY DEF Drained
  <1>2. PICK new : new = queues'
    OBVIOUS
  <1>3. /\ new \in Maps /\ OneEach(new) /\ ~Holds(new, k) /\ Len(new) <= Len(queues)
        /\ \A j : j # k => QueueIn(new, j) = QueueIn(queues, j)
    BY <1>1, <1>2, QueueIs, OthersAre
  <1>4. QueueIn(new, k) = <<>>
    BY <1>3, QueueAt
  <1>5. Len(new) <= MaxSessions
    BY <1>3, QueueIs, Bounds DEF Maps
  <1>6. QED
    BY <1>2, <1>3, <1>4, <1>5 DEF Queue

\* Staging a file, in terms of the queues.
LEMMA StageIs ==
  ASSUME FilesOK, NEW t \in Tools, ToolStages(t), NEW k, k = tool[t].thread
  PROVE  /\ tool[t] # Idle /\ tool[t].at = "checked" /\ k \in Threads
         /\ queues' \in Maps /\ OneEach(queues') /\ Len(queues') <= MaxSessions
         /\ \E f \in File :
              /\ f.turn = tool[t].turn /\ f.thread = k /\ f.late = tool[t].late
              /\ Queue(k)' = Append(Queue(k), f)
         /\ Last(queues').key = k
         /\ \A j \in Threads : j # k =>
              \/ Queue(j)' = Queue(j)
              \/ /\ Queue(j)' = <<>>
                 /\ Len(queues) = MaxSessions /\ queues[1].key = j
                 /\ ~HasQueue(k)
  <1>1. tool[t].at = "checked" /\ tool[t] # Idle
    BY DEF ToolStages, Idle
  <1>2. k \in Threads
    BY <1>1, ToolIs
  <1>3. PICK f \in File : f = [turn |-> tool[t].turn, thread |-> k, late |-> tool[t].late]
    BY <1>1, <1>2, ToolIs DEF File
  <1>4. Push(k, f)
    BY <1>2, <1>3 DEF ToolStages
  <1>5. /\ queues' \in Maps /\ OneEach(queues') /\ Len(queues') <= MaxSessions
        /\ Last(queues').key = k
        /\ QueueIn(queues', k) = Append(Queue(k), f)
        /\ \A j \in Threads : j # k =>
             \/ QueueIn(queues', j) = Queue(j)
             \/ /\ QueueIn(queues', j) = <<>>
                /\ Len(queues) = MaxSessions /\ queues[1].key = j
                /\ ~HasQueue(k)
    BY <1>2, <1>4, QueueIs, PushIs
  <1>6. \A j : Queue(j)' = QueueIn(queues', j)
    BY DEF Queue, QueueIn
  <1>7. f.turn = tool[t].turn /\ f.thread = k /\ f.late = tool[t].late
    BY <1>3
  <1>8. Queue(k)' = Append(Queue(k), f)
    BY <1>5, <1>6
  <1>9. ASSUME NEW j \in Threads, j # k
        PROVE  \/ Queue(j)' = Queue(j)
               \/ /\ Queue(j)' = <<>>
                  /\ Len(queues) = MaxSessions /\ queues[1].key = j
                  /\ ~HasQueue(k)
    BY <1>5, <1>6, <1>9
  <1>10. \E g \in File :
           /\ g.turn = tool[t].turn /\ g.thread = k /\ g.late = tool[t].late
           /\ Queue(k)' = Append(Queue(k), g)
    BY <1>7, <1>8
  <1>11. QED
    BY <1>1, <1>2, <1>5, <1>9, <1>10

\* tool and queues keep their types.
LEMMA FilesStep ==
  ASSUME Loop, FilesOK, [Next]_vars
  PROVE  FilesOK'
  <1>1. ASSUME UNCHANGED <<tool, queues>> PROVE FilesOK'
    BY <1>1 DEF FilesOK
  <1>2. ASSUME NEW k, queues' = Drained(k), UNCHANGED tool PROVE FilesOK'
    BY <1>2, DrainIs DEF FilesOK
  <1>3. ASSUME NEW t \in Tools, NEW c \in Call \cup {Idle}, tool' = [tool EXCEPT ![t] = c],
               UNCHANGED queues
        PROVE  FilesOK'
    BY <1>3 DEF FilesOK, Call
  <1>4. CASE Poll
    BY <1>1, <1>2, <1>4
    DEF Poll, PollStarts, PollFails, SearchEnds, FetchEnds, FetchEmpty, HandlingThrows, LoadEnds,
        TurnEnds, TurnThrows, CommandEnds, SendEnds, SendFails, SendTimesOut, FlagEnds, FlagFails,
        GiveUpFails, files
  <1>5. ASSUME NEW t \in Tools, ToolCalled(t) PROVE FilesOK'
    <2>1. turns \in Attempts /\ Thread \in Threads
      BY <1>5, CurrentIs DEF ToolCalled, Handling, Loop, LoopType
    <2>2. [at |-> "asked", turn |-> turns, thread |-> Thread, late |-> FALSE] \in Call
      BY <2>1 DEF Call
    <2>3. QED
      BY <1>3, <1>5, <2>2 DEF ToolCalled
  <1>6. ASSUME NEW t \in Tools, ToolStep(t) PROVE FilesOK'
    <2>1. CASE ToolChecks(t)
      <3>1. tool[t] # Idle /\ tool[t] \in Call
        BY <2>1, ToolIs DEF ToolChecks, Idle
      <3>2. [tool[t] EXCEPT !.at = "checked"] \in Call
        BY <3>1 DEF Call
      <3>3. tool' = [tool EXCEPT ![t] = [tool[t] EXCEPT !.at = "checked"]]
        BY <2>1 DEF ToolChecks
      <3>4. QED
        BY <1>3, <2>1, <3>2, <3>3 DEF ToolChecks
    <2>2. CASE ToolErrs(t)
      BY <1>3, <2>2 DEF ToolErrs
    <2>3. CASE ToolStages(t)
      <3>1. tool' \in [Tools -> Call \cup {Idle}]
        BY <2>3 DEF ToolStages, FilesOK, Call
      <3>2. QED
        BY <2>3, <3>1, StageIs DEF FilesOK, Call
    <2>4. CASE ToolTimesOut(t)
      <3>1. tool[t] # Idle /\ tool[t] \in Call
        BY <2>4, ToolIs DEF ToolTimesOut, Awaited
      <3>2. [tool[t] EXCEPT !.late = TRUE] \in Call
        BY <3>1 DEF Call
      <3>3. tool' = [tool EXCEPT ![t] = [tool[t] EXCEPT !.late = TRUE]]
        BY <2>4 DEF ToolTimesOut
      <3>4. QED
        BY <1>3, <2>4, <3>2, <3>3 DEF ToolTimesOut
    <2>5. QED
      BY <1>6, <2>1, <2>2, <2>3, <2>4 DEF ToolStep
  <1>7. CASE Restart
    BY <1>7, Bounds DEF Restart, FilesOK, Maps, OneEach
  <1>8. CASE (\E sort \in Sorts, thread \in Threads : Arrive(sort, thread)) \/ StopCalled \/ StopEnds
             \/ (\E r \in straying : StraySendEnds(r)) \/ UNCHANGED vars
    BY <1>1, <1>8 DEF Arrive, StopCalled, StopEnds, StraySendEnds, vars, files
  <1>9. QED
    BY <1>4, <1>5, <1>6, <1>7, <1>8 DEF Next


-----------------------------------------------------------------------------
(* Replies and doubts. *)

\* What any step does to the history: replies come from the send under way,
\* doubts are the current message's, and nothing that answers a message is
\* taken back.
Flow ==
  /\ delivered \subseteq delivered' /\ gaveUp \subseteq gaveUp'
  /\ delivered' \subseteq Replies \cup Sending /\ straying' \subseteq straying \cup Sending
  /\ doubts' = doubts \/ (pc \in Handling /\ Doubt(Current))
  /\ seen' = seen \/ (pc \in {"flag", "giveup"} /\ seen' = seen \cup {Current})
  /\ pc' = "send" =>
       /\ Current' = Current
       /\ \/ pc = "send" /\ outgoing' = outgoing
          \/ /\ pc \in {"turn", "command"}
             /\ outgoing' \in {[msg |-> Current, turn |-> turns, files |-> fs] : fs \in {<<>>, Queue(Thread)}}
             /\ pc = "turn" \/ outgoing'.files = <<>>
  /\ outgoing' \in {outgoing, NoReply} \/ pc' = "send"
  /\ pc' \in {"flag", "giveup"} =>
       /\ pc \in Handling /\ Current' = Current
       /\ \/ pc \in {"flag", "giveup"}
          \/ mail[Current].sort = "filtered"
          \/ Current \in gaveUp'
          \/ pc = "send" /\ outgoing \in delivered'
  /\ pc \in {"flag", "giveup"} /\ Replied(Current) =>
       Doubt(Current) \/ Current \in seen' \/ (pc' \in {"flag", "giveup"} /\ Current' = Current)
  /\ pc = "send" =>
       \/ delivered' \cup straying' \subseteq Replies
       \/ Doubt(Current)
       \/ pc' = "flag" /\ Current' = Current /\ outgoing \in delivered'

LEMMA FlowStep ==
  ASSUME Loop, [Next]_vars
  PROVE  Flow
  <1> USE DEF Handling
  <1>1. ASSUME UNCHANGED <<pc, batch, outgoing, seen, straying, delivered, gaveUp, doubts>> PROVE Flow
    BY <1>1 DEF Flow, Replies, Sending, Current
  <1>2. ASSUME UNCHANGED <<seen, straying, delivered, gaveUp, doubts>>, outgoing' \in {outgoing, NoReply},
               pc \notin {"send", "flag", "giveup"}, pc' \notin {"send", "flag", "giveup"}
        PROVE  Flow
    BY <1>2 DEF Flow, Replies, Sending
  <1>3. CASE PollStarts \/ PollFails \/ SearchEnds \/ FetchEmpty
    BY <1>2, <1>3 DEF PollStarts, PollFails, SearchEnds, FetchEmpty, mailbox, past, Advance
  <1>4. CASE FetchEnds
    BY <1>4 DEF FetchEnds, mailbox, past, Flow, Replies, Sending, Current
  <1>5. CASE HandlingThrows
    BY <1>5 DEF HandlingThrows, mailbox, Flow, Replies, Sending, Current
  <1>6. CASE LoadEnds
    BY <1>2, <1>6, CurrentIs, MailTyping DEF LoadEnds, mailbox, past, Sorts
  <1>7. ASSUME NEW attached \in {<<>>, Queue(Thread)}, SendStarts(attached), pc \in {"turn", "command"},
               pc = "turn" \/ attached = <<>>,
               UNCHANGED <<seen, straying, delivered, gaveUp, doubts>>
        PROVE  Flow
    <2>1. CASE stage = "down"
      BY <1>2, <1>7, <2>1 DEF SendStarts, Advance
    <2>2. CASE stage # "down"
      <3>1. pc' = "send" /\ Current' = Current
        BY <1>7, <2>2 DEF SendStarts, Current
      <3>2. outgoing' = [msg |-> Current, turn |-> turns, files |-> attached]
        BY <1>7, <2>2 DEF SendStarts
      <3>3. outgoing'.files = attached
        BY <3>2
      <3>4. outgoing' \in {[msg |-> Current, turn |-> turns, files |-> fs] : fs \in {<<>>, Queue(Thread)}}
        BY <3>2
      <3>5. QED
        BY <1>7, <3>1, <3>3, <3>4 DEF Flow, Replies, Sending
    <2>3. QED
      BY <2>1, <2>2
  <1>8. CASE TurnEnds
    BY <1>7, <1>8 DEF TurnEnds, mailbox, past
  <1>9. CASE TurnThrows
    BY <1>7, <1>9 DEF TurnThrows, mailbox
  <1>10. CASE CommandEnds
    BY <1>7, <1>10 DEF CommandEnds, mailbox, past
  <1>11. CASE SendEnds
    BY <1>11 DEF SendEnds, mailbox, Flow, Replies, Sending, Current
  <1>12. CASE SendFails
    BY <1>12 DEF SendFails, Advance, mailbox, Flow, Replies, Sending
  <1>13. CASE SendTimesOut
    BY <1>13 DEF SendTimesOut, Advance, mailbox, Flow, Replies, Sending
  <1>14. CASE FlagEnds
    BY <1>14 DEF FlagEnds, Advance, past, Flow, Replies, Sending
  <1>15. CASE FlagFails
    BY <1>15 DEF FlagFails, mailbox, Flow, Replies, Sending, Current
  <1>16. CASE GiveUpFails
    BY <1>16 DEF GiveUpFails, Advance, mailbox, Flow, Replies, Sending
  <1>17. CASE Poll
    BY <1>3, <1>4, <1>5, <1>6, <1>8, <1>9, <1>10, <1>11, <1>12, <1>13, <1>14, <1>15, <1>16, <1>17 DEF Poll
  <1>18. ASSUME NEW t \in Tools, ToolCalled(t) \/ ToolStep(t) PROVE Flow
    BY <1>1, <1>18
    DEF ToolCalled, ToolStep, ToolChecks, ToolErrs, ToolStages, ToolTimesOut, mailbox, loop, past
  <1>19. CASE \E sort \in Sorts, thread \in Threads : Arrive(sort, thread)
    BY <1>1, <1>19 DEF Arrive, loop, past
  <1>20. CASE \E r \in straying : StraySendEnds(r)
    BY <1>20 DEF StraySendEnds, mailbox, loop, Flow, Replies, Sending, Current
  <1>21. CASE StopCalled \/ StopEnds \/ UNCHANGED vars
    BY <1>1, <1>21 DEF StopCalled, StopEnds, vars, mailbox, loop, past
  <1>22. CASE Restart
    BY <1>22 DEF Restart, mailbox, Flow, Replies, Sending
  <1>23. QED
    BY <1>17, <1>18, <1>19, <1>20, <1>21, <1>22 DEF Next


\* The mailbox only grows.
LEMMA MailGrows ==
  ASSUME Loop, [Next]_vars
  PROVE  /\ 1 .. Len(mail) \subseteq 1 .. Len(mail')
         /\ \A m \in 1 .. Len(mail) : mail'[m] = mail[m]
  <1>1. CASE UNCHANGED mail
    BY <1>1
  <1>2. ASSUME NEW sort \in Sorts, NEW thread \in Threads, Arrive(sort, thread)
        PROVE  /\ 1 .. Len(mail) \subseteq 1 .. Len(mail')
               /\ \A m \in 1 .. Len(mail) : mail'[m] = mail[m]
    <2>1. mail' = Append(mail, [sort |-> sort, thread |-> thread])
      BY <1>2 DEF Arrive
    <2>2. mail \in Seq([sort : Sorts, thread : Threads]) /\ Len(mail) \in Nat
      BY MailTyping DEF Loop, LoopType
    <2>3. Len(mail') = Len(mail) + 1 /\ \A m \in 1 .. Len(mail) : mail'[m] = mail[m]
      BY <2>1, <2>2
    <2>4. QED
      BY <2>2, <2>3
  <1>3. ASSUME Poll \/ (\E t \in Tools : ToolCalled(t) \/ ToolStep(t)) \/ (\E r \in straying : StraySendEnds(r))
               \/ StopCalled \/ StopEnds \/ Restart \/ UNCHANGED vars
        PROVE  UNCHANGED mail
    BY <1>3
    DEF Poll, PollStarts, PollFails, SearchEnds, FetchEnds, FetchEmpty, HandlingThrows, LoadEnds,
        TurnEnds, TurnThrows, CommandEnds, SendEnds, SendFails, SendTimesOut, FlagEnds, FlagFails,
        GiveUpFails, ToolCalled, ToolStep, ToolChecks, ToolErrs, ToolStages, ToolTimesOut,
        StraySendEnds, StopCalled, StopEnds, Restart, vars, mailbox
  <1>4. QED
    BY <1>1, <1>2, <1>3 DEF Next

\* A doubt is counted for one message.
LEMMA DoubtIs ==
  ASSUME Loop, SentOK, doubts' = doubts \/ (pc \in Handling /\ Doubt(Current))
  PROVE  /\ doubts' \in [Messages -> Nat]
         /\ \A m \in Messages : doubts'[m] >= doubts[m]
         /\ pc \in Handling /\ Doubt(Current) => doubts'[Current] = doubts[Current] + 1
  <1>1. doubts \in [Messages -> Nat]
    BY DEF SentOK
  <1>2. CASE doubts' = doubts /\ ~(pc \in Handling /\ Doubt(Current))
    BY <1>1, <1>2
  <1>3. CASE pc \in Handling /\ Doubt(Current)
    <2>1. PICK m \in Messages : m = Current
      BY <1>3, CurrentIs
    <2>2. doubts' = [doubts EXCEPT ![m] = doubts[m] + 1] /\ doubts[m] \in Nat
      BY <1>1, <1>3, <2>1 DEF Doubt
    <2>3. /\ doubts' \in [Messages -> Nat] /\ doubts'[m] = doubts[m] + 1
          /\ \A n \in Messages : n # m => doubts'[n] = doubts[n]
      BY <1>1, <2>2
    <2>4. \A n \in Messages : doubts'[n] >= doubts[n]
      BY <1>1, <2>2, <2>3
    <2>5. QED
      BY <2>1, <2>3, <2>4
  <1>4. QED
    BY <1>2, <1>3

\* The replies keep their types.
LEMMA SentStep ==
  ASSUME Loop, FilesOK, SentOK, [Next]_vars
  PROVE  SentOK'
  <1>1. Flow
    BY FlowStep
  <1>2. /\ outgoing \in Reply \cup {NoReply} /\ straying \subseteq Reply /\ delivered \subseteq Reply
        /\ IsFiniteSet(delivered) /\ IsFiniteSet(straying)
        /\ pc = "send" => outgoing \in Reply /\ outgoing.msg = Current
        /\ \A r \in Replies : r.msg \in 1 .. Len(mail)
    BY DEF SentOK
  <1>3. Sending \subseteq Reply /\ IsFiniteSet(Sending) /\ \A r \in Sending : r.msg \in 1 .. Len(mail)
    <2>1. CASE pc = "send"
      BY <1>2, <2>1, FS_Singleton, CurrentIs DEF Sending, Handling
    <2>2. CASE pc # "send"
      BY <2>2, FS_EmptySet DEF Sending
    <2>3. QED
      BY <2>1, <2>2
  <1>4. straying' \subseteq Reply /\ delivered' \subseteq Reply
    BY <1>1, <1>2, <1>3 DEF Flow, Replies
  <1>5. IsFiniteSet(delivered') /\ IsFiniteSet(straying')
    <2>1. IsFiniteSet(delivered \cup straying) /\ IsFiniteSet(straying \cup Sending)
      BY <1>2, <1>3, FS_Union
    <2>2. IsFiniteSet((delivered \cup straying) \cup Sending)
      BY <1>3, <2>1, FS_Union
    <2>3. QED
      BY <1>1, <2>1, <2>2, FS_Subset DEF Flow, Replies
  <1>6. \A r \in Replies' : r.msg \in 1 .. Len(mail')
    BY <1>1, <1>2, <1>3, MailGrows DEF Flow, Replies
  <1>7. doubts' \in [Messages -> Nat]
    BY <1>1, DoubtIs DEF Flow
  <1>8. pc' = "send" => outgoing' \in Reply /\ outgoing'.msg = Current'
    <2> SUFFICES ASSUME pc' = "send" PROVE outgoing' \in Reply /\ outgoing'.msg = Current
      BY <1>1 DEF Flow
    <2>1. CASE pc = "send" /\ outgoing' = outgoing
      BY <1>2, <2>1
    <2>2. CASE /\ pc \in {"turn", "command"}
               /\ outgoing' \in {[msg |-> Current, turn |-> turns, files |-> fs] : fs \in {<<>>, Queue(Thread)}}
      <3>1. PICK fs \in {<<>>, Queue(Thread)} : outgoing' = [msg |-> Current, turn |-> turns, files |-> fs]
        BY <2>2
      <3>2. fs \in Seq(File)
        <4>1. <<>> \in Seq(File) /\ Queue(Thread) \in Seq(File)
          BY QueueIs
        <4>2. QED
          BY <3>1, <4>1
      <3>3. Current \in Messages /\ turns \in Attempts
        BY <2>2, CurrentIs DEF Handling, Loop, LoopType
      <3>4. QED
        BY <3>1, <3>2, <3>3 DEF Reply
    <2>3. QED
      BY <1>1, <2>1, <2>2 DEF Flow
  <1>9. outgoing' \in Reply \cup {NoReply}
    BY <1>1, <1>2, <1>8 DEF Flow
  <1>10. QED
    BY <1>4, <1>5, <1>6, <1>7, <1>8, <1>9 DEF SentOK

\* What is flagged, or about to be, stays accounted for.
LEMMA AnswersStep ==
  ASSUME Loop, SentOK, Answers, [Next]_vars
  PROVE  Answers'
  <1>1. Flow
    BY FlowStep
  <1>2. ASSUME NEW m \in 1 .. Len(mail), Accounted(m) PROVE Accounted(m)'
    BY <1>1, <1>2, MailGrows DEF Accounted, Replied, Flow
  <1>3. pc \in Handling => Current \in 1 .. Len(mail)
    BY CurrentIs
  <1>4. ASSUME NEW m, m = Current, pc \in {"flag", "giveup"} PROVE Accounted(m)'
    BY <1>2, <1>3, <1>4 DEF Answers, Handling
  <1>5. ASSUME NEW m \in seen' PROVE Accounted(m)'
    <2>1. CASE m \in seen
      <3>1. m \in 1 .. Len(mail)
        BY <2>1, MailTyping DEF Loop, LoopType
      <3>2. QED
        BY <1>2, <2>1, <3>1 DEF Answers
    <2>2. CASE m \notin seen
      BY <1>1, <1>4, <2>2 DEF Flow
    <2>3. QED
      BY <2>1, <2>2
  <1>6. ASSUME pc' \in {"flag", "giveup"}, NEW m, m = Current PROVE m = Current' /\ Accounted(m)'
    <2>1. m = Current'
      BY <1>1, <1>6 DEF Flow
    <2>2. m \in 1 .. Len(mail)
      <3>1. pc \in Handling
        BY <1>1, <1>6 DEF Flow
      <3>2. QED
        BY <1>3, <1>6, <3>1
    <2>3. CASE pc \in {"flag", "giveup"}
      BY <1>4, <1>6, <2>1, <2>3
    <2>4. CASE mail[m].sort = "filtered"
      BY <2>1, <2>2, <2>4, MailGrows DEF Accounted
    <2>5. CASE m \in gaveUp'
      BY <2>1, <2>5 DEF Accounted
    <2>6. CASE pc = "send" /\ outgoing \in delivered'
      BY <1>6, <2>1, <2>6 DEF Accounted, Replied, SentOK
    <2>7. QED
      BY <1>1, <1>6, <2>1, <2>3, <2>4, <2>5, <2>6 DEF Flow
  <1>7. QED
    BY <1>5, <1>6 DEF Answers


\* The copies of a message are finitely many.
LEMMA CopiesIs ==
  ASSUME SentOK, NEW m
  PROVE  IsFiniteSet(Copies(m)) /\ Cardinality(Copies(m)) \in Nat
  <1>1. IsFiniteSet(Replies)
    BY FS_Union DEF SentOK, Replies
  <1>2. Copies(m) \subseteq Replies
    BY DEF Copies
  <1>3. QED
    BY <1>1, <1>2, FS_Subset, FS_CardinalityType

\* A message's replies are counted by its doubts.
LEMMA CountedStep ==
  ASSUME Loop, FilesOK, SentOK, Counted, [Next]_vars
  PROVE  Counted'
  <1>1. Flow
    BY FlowStep
  <1>2. SentOK'
    BY SentStep
  <1>3. /\ doubts' \in [Messages -> Nat] /\ doubts \in [Messages -> Nat]
        /\ \A m \in Messages : doubts'[m] >= doubts[m]
        /\ pc \in Handling /\ Doubt(Current) => doubts'[Current] = doubts[Current] + 1
    BY <1>1, DoubtIs DEF Flow, SentOK
  <1>4. pc = "send" => outgoing.msg = Current
    BY DEF SentOK
  <1> SUFFICES ASSUME NEW m \in Messages
               PROVE  /\ Cardinality(Copies(m)') <= doubts'[m] + 1
                      /\ ~Settling(m)' => Cardinality(Copies(m)') <= doubts'[m]
    BY DEF Counted
  <1>5. Copies(m)' = {r \in Replies' : r.msg = m}
    BY DEF Copies
  <1>6. /\ IsFiniteSet(Copies(m)) /\ Cardinality(Copies(m)) \in Nat
        /\ IsFiniteSet(Copies(m)') /\ Cardinality(Copies(m)') \in Nat
    <2>1. IsFiniteSet(delivered' \cup straying')
      BY <1>2, FS_Union DEF SentOK
    <2>2. Copies(m)' \subseteq delivered' \cup straying'
      BY <1>5 DEF Replies
    <2>3. IsFiniteSet(Copies(m)') /\ Cardinality(Copies(m)') \in Nat
      BY <2>1, <2>2, FS_Subset, FS_CardinalityType
    <2>4. QED
      BY <2>3, CopiesIs
  <1>7. /\ Cardinality(Copies(m)) <= doubts[m] + 1
        /\ ~Settling(m) => Cardinality(Copies(m)) <= doubts[m]
    BY DEF Counted
  <1>8. doubts[m] \in Nat /\ doubts'[m] \in Nat /\ doubts'[m] >= doubts[m]
    BY <1>3
  <1>9. ASSUME Copies(m)' \subseteq Copies(m), Settling(m) => Settling(m)' \/ doubts'[m] >= doubts[m] + 1
        PROVE  /\ Cardinality(Copies(m)') <= doubts'[m] + 1
               /\ ~Settling(m)' => Cardinality(Copies(m)') <= doubts'[m]
    <2>1. Cardinality(Copies(m)') <= Cardinality(Copies(m))
      BY <1>6, <1>9, FS_Subset
    <2>2. QED
      BY <1>6, <1>7, <1>8, <1>9, <2>1
  <1>10. ASSUME pc = "send", m = Current, m \notin seen,
                Settling(m)' \/ doubts'[m] = doubts[m] + 1
         PROVE  /\ Cardinality(Copies(m)') <= doubts'[m] + 1
                /\ ~Settling(m)' => Cardinality(Copies(m)') <= doubts'[m]
    <2>1. ~Settling(m)
      BY <1>10 DEF Settling
    <2>2. Copies(m)' \subseteq Copies(m) \cup {outgoing}
      BY <1>1, <1>5, <1>10 DEF Flow, Copies, Replies, Sending
    <2>3. /\ IsFiniteSet(Copies(m) \cup {outgoing})
          /\ Cardinality(Copies(m) \cup {outgoing}) <= Cardinality(Copies(m)) + 1
      <3>1. CASE outgoing \in Copies(m)
        <4>1. Copies(m) \cup {outgoing} = Copies(m)
          BY <3>1
        <4> HIDE DEF Copies
        <4>2. Cardinality(Copies(m)) <= Cardinality(Copies(m)) + 1
          BY <1>6
        <4>3. QED
          BY <1>6, <4>1, <4>2
      <3>2. CASE outgoing \notin Copies(m)
        <4>1. /\ IsFiniteSet(Copies(m) \cup {outgoing})
              /\ Cardinality(Copies(m) \cup {outgoing}) = Cardinality(Copies(m)) + 1
          BY <1>6, <3>2, FS_AddElement
        <4>2. QED
          BY <1>6, <4>1
      <3>3. QED
        BY <3>1, <3>2
    <2>4. /\ Cardinality(Copies(m)') <= Cardinality(Copies(m) \cup {outgoing})
          /\ Cardinality(Copies(m) \cup {outgoing}) \in Nat
      BY <2>2, <2>3, FS_Subset, FS_CardinalityType
    <2>5. Cardinality(Copies(m)') <= doubts[m] + 1
      BY <1>6, <1>7, <1>8, <2>1, <2>3, <2>4
    <2>6. QED
      BY <1>6, <1>8, <1>10, <2>5
  <1>11. pc \in Handling => Current \notin seen
    BY CurrentIs
  <1>12. seen \subseteq seen'
    BY <1>1 DEF Flow
  <1>13. pc # "send" => Copies(m)' \subseteq Copies(m)
    BY <1>1, <1>5 DEF Flow, Copies, Replies, Sending
  <1>14. CASE pc = "send" /\ m = Current
    <2>1. m \notin seen /\ ~Settling(m)
      BY <1>11, <1>14 DEF Settling, Handling
    <2>2. CASE delivered' \cup straying' \subseteq Replies
      BY <1>5, <1>9, <2>1, <2>2 DEF Copies, Replies
    <2>3. CASE Doubt(Current)
      BY <1>3, <1>10, <1>14, <2>1, <2>3 DEF Handling
    <2>4. CASE pc' = "flag" /\ Current' = Current /\ outgoing \in delivered'
      <3>1. Settling(m)'
        BY <1>4, <1>14, <2>4 DEF Settling, Replied
      <3>2. QED
        BY <1>10, <1>14, <2>1, <3>1
    <2>5. QED
      BY <1>1, <1>14, <2>2, <2>3, <2>4 DEF Flow
  <1>15. CASE pc = "send" /\ m # Current
    <2>1. Copies(m)' \subseteq Copies(m)
      BY <1>1, <1>4, <1>5, <1>15 DEF Flow, Copies, Replies, Sending
    <2>2. Settling(m) => Settling(m)'
      BY <1>12, <1>15 DEF Settling
    <2>3. QED
      BY <1>9, <2>1, <2>2
  <1>16. CASE pc # "send"
    <2>1. Settling(m) => Settling(m)' \/ doubts'[m] >= doubts[m] + 1
      <3>1. CASE m \in seen
        BY <1>12, <3>1 DEF Settling
      <3>2. CASE m \notin seen /\ Settling(m)
        <4>1. pc \in {"flag", "giveup"} /\ m = Current /\ Replied(Current)
          BY <3>2 DEF Settling
        <4>2. CASE Doubt(Current)
          BY <1>3, <1>8, <4>1, <4>2 DEF Handling
        <4>3. CASE Current \in seen'
          BY <4>1, <4>3 DEF Settling
        <4>4. CASE pc' \in {"flag", "giveup"} /\ Current' = Current
          <5>1. Replied(m)'
            BY <1>1, <4>1 DEF Flow, Replied
          <5>2. QED
            BY <4>1, <4>4, <5>1 DEF Settling
        <4>5. QED
          BY <1>1, <4>1, <4>2, <4>3, <4>4 DEF Flow
      <3>3. QED
        BY <3>1, <3>2
    <2>2. QED
      BY <1>9, <1>13, <1>16, <2>1
  <1>17. QED
    BY <1>14, <1>15, <1>16


-----------------------------------------------------------------------------
(* What is staged. *)

\* The files that are not late are counted, and no more than there are.
LEMMA FreshIs ==
  ASSUME NEW fs \in Seq(File)
  PROVE  /\ IsFiniteSet(Fresh(fs)) /\ Cardinality(Fresh(fs)) \in Nat
         /\ Cardinality(Fresh(fs)) <= Len(fs)
         /\ fs = <<>> => Cardinality(Fresh(fs)) = 0
  <1>1. Len(fs) \in Nat /\ Fresh(fs) \subseteq 1 .. Len(fs)
    BY DEF Fresh
  <1>2. IsFiniteSet(1 .. Len(fs)) /\ Cardinality(1 .. Len(fs)) = Len(fs)
    <2>1. PICK n \in Nat : n = Len(fs)
      BY <1>1
    <2>2. IsFiniteSet(1 .. n) /\ Cardinality(1 .. n) = n
      BY FS_Interval
    <2>3. QED
      BY <2>1, <2>2
  <1>3. IsFiniteSet(Fresh(fs)) /\ Cardinality(Fresh(fs)) <= Len(fs) /\ Cardinality(Fresh(fs)) \in Nat
    BY <1>1, <1>2, FS_Subset, FS_CardinalityType
  <1>4. QED
    BY <1>1, <1>3

LEMMA NoneFresh == Cardinality(Fresh(<<>>)) = 0
  <1>1. <<>> \in Seq(File)
    OBVIOUS
  <1>2. PICK fs \in Seq(File) : fs = <<>>
    BY <1>1
  <1>3. QED
    BY <1>2, FreshIs

\* A late file does not count, any other is one more.
LEMMA FreshAppend ==
  ASSUME NEW fs \in Seq(File), NEW f \in File
  PROVE  /\ f.late => Cardinality(Fresh(Append(fs, f))) = Cardinality(Fresh(fs))
         /\ Cardinality(Fresh(Append(fs, f))) <= Cardinality(Fresh(fs)) + 1
  <1> DEFINE l == Len(fs)
             new == Append(fs, f)
  <1>1. /\ l \in Nat /\ new \in Seq(File) /\ Len(new) = l + 1 /\ new[l + 1] = f
        /\ \A i \in 1 .. l : new[i] = fs[i]
    OBVIOUS
  <1>2. DOMAIN fs = 1 .. l /\ DOMAIN new = 1 .. (l + 1)
    BY <1>1
  <1> HIDE DEF l, new
  <1>3. \A i : i \in 1 .. (l + 1) <=> i \in 1 .. l \/ i = l + 1
    BY <1>1
  <1>4. IsFiniteSet(Fresh(fs)) /\ Cardinality(Fresh(fs)) \in Nat
    BY FreshIs
  <1>5. l + 1 \notin Fresh(fs)
    BY <1>1, <1>2 DEF Fresh
  <1>6. CASE f.late
    <2>1. Fresh(new) = Fresh(fs)
      BY <1>1, <1>2, <1>3, <1>6 DEF Fresh
    <2>2. QED
      BY <1>4, <1>6, <2>1 DEF new
  <1>7. CASE ~f.late
    <2>1. Fresh(new) = Fresh(fs) \cup {l + 1}
      BY <1>1, <1>2, <1>3, <1>7 DEF Fresh
    <2>2. Cardinality(Fresh(new)) = Cardinality(Fresh(fs)) + 1
      BY <1>4, <1>5, <2>1, FS_AddElement
    <2>3. QED
      BY <1>4, <1>7, <2>2 DEF new
  <1>8. QED
    BY <1>6, <1>7

\* What is staged after a step that touches neither tools nor queues, during a
\* turn or outside one.
LEMMA StagedKeeps ==
  ASSUME Staged, UNCHANGED <<tool, queues>>,
         pc # "turn" \/ (UNCHANGED <<pc, turns>> /\ Thread' = Thread)
  PROVE  Staged'
  <1>1. Awaited' = Awaited
    BY DEF Awaited
  <1>2. \A k : Queue(k)' = Queue(k)
    BY DEF Queue, QueueIn
  <1>3. CASE pc # "turn"
    <2>1. Awaited = {}
      BY <1>3 DEF Staged
    <2>2. \A k \in Threads : \A i \in DOMAIN Queue(k) : Queue(k)[i].thread = k /\ Queue(k)[i].late
      BY <1>3 DEF Staged, Own
    <2>3. QED
      BY <1>1, <1>2, <2>1, <2>2 DEF Staged, Own
  <1>4. CASE UNCHANGED <<pc, turns>> /\ Thread' = Thread
    BY <1>1, <1>2, <1>4 DEF Staged, Own
  <1>5. QED
    BY <1>3, <1>4

\* The end of the handler drains its session's queue.
LEMMA StagedDrains ==
  ASSUME FilesOK, Staged, Awaited = {}, UNCHANGED tool, queues' = Drained(Thread)
  PROVE  Staged'
  <1>1. Awaited' = {}
    BY DEF Awaited
  <1>2. PICK k : k = Thread
    OBVIOUS
  <1>3. Queue(k)' = <<>> /\ \A j : j # k => Queue(j)' = Queue(j)
    BY <1>2, DrainIs
  <1>4. \A j \in Threads : j # k => \A i \in DOMAIN Queue(j) : Queue(j)[i].thread = j /\ Queue(j)[i].late
    BY <1>2 DEF Staged, Own
  <1>6. Cardinality(Fresh(<<>>)) <= MaxFiles
    BY NoneFresh, Bounds
  <1>7. ASSUME NEW j \in Threads
        PROVE  /\ \A i \in DOMAIN Queue(j)' : Own(Queue(j)[i], j)'
               /\ Cardinality(Fresh(Queue(j)')) <= MaxFiles
    <2>1. CASE j = k
      BY <1>3, <1>6, <2>1
    <2>2. CASE j # k
      BY <1>3, <1>4, <2>2 DEF Own, Staged
    <2>3. QED
      BY <2>1, <2>2
  <1>8. QED
    BY <1>1, <1>7 DEF Staged, Fresh


\* Staging a file.
LEMMA StagedStages ==
  ASSUME FilesOK, Staged, NEW t \in Tools, ToolStages(t)
  PROVE  Staged'
  <1>1. UNCHANGED <<pc, turns>> /\ Thread' = Thread
    BY DEF ToolStages, loop, mailbox, Thread, Current
  <1>2. PICK k : k = tool[t].thread
    OBVIOUS
  <1>3. /\ tool[t] # Idle /\ tool[t].at = "checked" /\ k \in Threads
        /\ \E f \in File :
             /\ f.turn = tool[t].turn /\ f.thread = k /\ f.late = tool[t].late
             /\ Queue(k)' = Append(Queue(k), f)
        /\ \A j \in Threads : j # k => Queue(j)' = Queue(j) \/ Queue(j)' = <<>>
    BY <1>2, StageIs
  <1>4. PICK f \in File : /\ f.turn = tool[t].turn /\ f.thread = k /\ f.late = tool[t].late
                          /\ Queue(k)' = Append(Queue(k), f)
    BY <1>3
  <1>5. tool' = [tool EXCEPT ![t] = Idle]
    BY DEF ToolStages
  <1>6. Awaited' = Awaited \ {t} /\ \A u \in Awaited' : tool'[u] = tool[u]
    BY <1>5 DEF FilesOK, Awaited, Idle
  <1>7. t \in Awaited <=> ~f.late
    BY <1>3, <1>4 DEF Awaited
  <1>8. t \in Awaited => Awaited' = {}
    BY <1>6 DEF Staged
  <1>9. Queue(k) \in Seq(File)
    BY QueueIs
  <1>10. /\ Cardinality(Fresh(Queue(k))) \in Nat
         /\ f.late => Cardinality(Fresh(Queue(k)')) = Cardinality(Fresh(Queue(k)))
         /\ Cardinality(Fresh(Queue(k)')) <= Cardinality(Fresh(Queue(k))) + 1
         /\ Cardinality(Fresh(Queue(k)')) \in Nat
    <2>1. PICK fs \in Seq(File) : fs = Queue(k)
      BY <1>9
    <2>2. Append(fs, f) \in Seq(File)
      OBVIOUS
    <2>3. /\ Cardinality(Fresh(fs)) \in Nat /\ Cardinality(Fresh(Append(fs, f))) \in Nat
          /\ f.late => Cardinality(Fresh(Append(fs, f))) = Cardinality(Fresh(fs))
          /\ Cardinality(Fresh(Append(fs, f))) <= Cardinality(Fresh(fs)) + 1
      BY <2>2, FreshIs, FreshAppend
    <2>4. QED
      BY <1>4, <2>1, <2>3
  <1>11. Cardinality(Fresh(<<>>)) = 0
    BY NoneFresh
  <1>12. Own(f, k)'
    <2>1. CASE f.late
      BY <1>4, <2>1 DEF Own
    <2>2. CASE ~f.late
      BY <1>1, <1>2, <1>4, <1>7, <2>2 DEF Own, Staged
    <2>3. QED
      BY <2>1, <2>2
  <1>13. Cardinality(Fresh(Queue(k))) <= MaxFiles /\ (~f.late => Cardinality(Fresh(Queue(k))) < MaxFiles)
    BY <1>2, <1>3, <1>7 DEF Staged
  <1>14. ASSUME NEW j \in Threads
         PROVE  /\ \A i \in DOMAIN Queue(j)' : Own(Queue(j)[i], j)'
                /\ Cardinality(Fresh(Queue(j)')) <= MaxFiles
    <2>1. \A i \in DOMAIN Queue(j) : Own(Queue(j)[i], j)
      BY DEF Staged
    <2>2. \A g : Own(g, j) => Own(g, j)'
      BY <1>1 DEF Own
    <2>3. CASE j = k
      <3>1. PICK fs \in Seq(File) : fs = Queue(k)
        BY <1>9
      <3>2. Queue(k)' = Append(fs, f)
        BY <1>4, <3>1
      <3>3. \A i \in DOMAIN Append(fs, f) : (i \in DOMAIN fs /\ Append(fs, f)[i] = fs[i]) \/ Append(fs, f)[i] = f
        OBVIOUS
      <3>4. \A i \in DOMAIN Queue(k)' : Own(Queue(k)[i], k)'
        BY <1>12, <2>1, <2>2, <2>3, <3>1, <3>2, <3>3
      <3>5. Cardinality(Fresh(Queue(k)')) <= MaxFiles
        BY <1>10, <1>13, Bounds
      <3>6. QED
        BY <2>3, <3>4, <3>5
    <2>4. CASE j # k
      <3>1. CASE Queue(j)' = Queue(j)
        BY <2>1, <2>2, <3>1 DEF Staged
      <3>2. CASE Queue(j)' = <<>>
        BY <1>11, <3>2, Bounds
      <3>3. QED
        BY <1>3, <2>4, <3>1, <3>2
    <2>5. QED
      BY <2>3, <2>4
  <1>15. ASSUME NEW u \in Awaited', tool'[u].at = "checked"
         PROVE  Cardinality(Fresh(Queue(tool[u].thread)')) < MaxFiles
    <2>1. u \in Awaited /\ tool'[u] = tool[u] /\ f.late
      BY <1>6, <1>7, <1>8, <1>15
    <2>2. Cardinality(Fresh(Queue(tool[u].thread))) < MaxFiles
      BY <1>15, <2>1 DEF Staged
    <2>3. tool[u].thread \in Threads
      BY <2>1, ToolIs DEF Awaited
    <2>4. CASE tool[u].thread = k
      BY <1>10, <2>1, <2>2, <2>4
    <2>5. CASE tool[u].thread # k
      <3>1. PICK j \in Threads : j = tool[u].thread
        BY <2>3
      <3>2. CASE Queue(j)' = Queue(j)
        BY <2>1, <2>2, <3>1, <3>2
      <3>3. CASE Queue(j)' = <<>>
        BY <1>11, <2>1, <3>1, <3>3, Bounds
      <3>4. QED
        BY <1>3, <2>5, <3>1, <3>2, <3>3
    <2>6. QED
      BY <2>4, <2>5
  <1>16. \A u \in Awaited' : pc' = "turn" /\ tool'[u].turn = turns' /\ tool'[u].thread = Thread'
    BY <1>1, <1>6 DEF Staged
  <1>17. \A u, v \in Awaited' : u = v
    BY <1>6 DEF Staged
  <1>18. QED
    BY <1>6, <1>14, <1>15, <1>16, <1>17 DEF Staged, Fresh


LEMMA StagedStep ==
  ASSUME Loop, FilesOK, Staged, [Next]_vars
  PROVE  Staged'
  <1>1. ASSUME pc # "turn", UNCHANGED <<tool, queues>> PROVE Staged'
    BY <1>1, StagedKeeps
  <1>2. ASSUME UNCHANGED <<tool, queues, pc, turns, batch, mail>> PROVE Staged'
    BY <1>2, StagedKeeps DEF Thread, Current
  <1>3. pc # "turn" => Awaited = {}
    BY DEF Staged
  <1>4. CASE TurnEnds \/ TurnThrows \/ CommandEnds
    BY <1>3, <1>4, StagedDrains DEF TurnEnds, TurnThrows, CommandEnds
  <1>5. CASE Poll /\ ~(TurnEnds \/ TurnThrows \/ CommandEnds)
    BY <1>1, <1>5
    DEF Poll, PollStarts, PollFails, SearchEnds, FetchEnds, FetchEmpty, HandlingThrows, LoadEnds,
        SendEnds, SendFails, SendTimesOut, FlagEnds, FlagFails, GiveUpFails, files
  <1>6. ASSUME NEW t \in Tools, ToolCalled(t) PROVE Staged'
    <2>1. UNCHANGED <<pc, turns, queues>> /\ Thread' = Thread /\ pc = "turn" /\ Awaited = {}
      BY <1>6 DEF ToolCalled, mailbox, Thread, Current
    <2>2. tool' = [tool EXCEPT ![t] = [at |-> "asked", turn |-> turns, thread |-> Thread, late |-> FALSE]]
      BY <1>6 DEF ToolCalled
    <2>3. \A u \in Tools : u # t => tool'[u] = tool[u]
      BY <2>2 DEF FilesOK
    <2>4. tool'[t].at = "asked" /\ tool'[t].turn = turns /\ tool'[t].thread = Thread
      BY <2>2 DEF FilesOK
    <2>5. Awaited' \subseteq {t}
      BY <2>1, <2>3 DEF Awaited
    <2>6. \A k : Queue(k)' = Queue(k)
      BY <2>1 DEF Queue, QueueIn
    <2>7. QED
      BY <2>1, <2>4, <2>5, <2>6 DEF Staged, Own
  <1>7. ASSUME NEW t \in Tools, NEW c, tool' = [tool EXCEPT ![t] = c],
               UNCHANGED <<queues, pc, turns, batch, mail>>,
               c # Idle /\ ~c.late =>
                 /\ t \in Awaited /\ c.turn = tool[t].turn /\ c.thread = tool[t].thread
                 /\ c.at = "checked" => Cardinality(Fresh(Queue(c.thread))) < MaxFiles
        PROVE  Staged'
    <2>1. Thread' = Thread
      BY <1>7 DEF Thread, Current
    <2>2. tool'[t] = c /\ \A u \in Tools : u # t => tool'[u] = tool[u]
      BY <1>7 DEF FilesOK
    <2>3. Awaited' \subseteq Awaited
      BY <1>7, <2>2 DEF Awaited
    <2>4. \A k : Queue(k)' = Queue(k)
      BY <1>7 DEF Queue, QueueIn
    <2>5. ASSUME NEW u \in Awaited'
          PROVE  /\ pc = "turn" /\ tool'[u].turn = turns /\ tool'[u].thread = Thread
                 /\ tool'[u].at = "checked" => Cardinality(Fresh(Queue(tool'[u].thread))) < MaxFiles
      <3>1. u \in Awaited /\ u \in Tools
        BY <2>3, <2>5 DEF Awaited
      <3>2. CASE u = t
        <4>1. c # Idle /\ ~c.late
          BY <2>2, <2>5, <3>2 DEF Awaited
        <4>2. QED
          BY <1>7, <2>2, <3>1, <3>2, <4>1 DEF Staged
      <3>3. CASE u # t
        BY <2>2, <3>1, <3>3 DEF Staged
      <3>4. QED
        BY <3>2, <3>3
    <2>6. \A k \in Threads :
            /\ \A i \in DOMAIN Queue(k)' : Own(Queue(k)[i], k)'
            /\ Cardinality(Fresh(Queue(k)')) <= MaxFiles
      BY <1>7, <2>1, <2>4 DEF Staged, Own
    <2>7. \A u, v \in Awaited' : u = v
      BY <2>3 DEF Staged
    <2>8. QED
      BY <1>7, <2>1, <2>4, <2>5, <2>6, <2>7 DEF Staged, Fresh
  <1>8. ASSUME NEW t \in Tools, ToolStep(t) PROVE Staged'
    <2>1. CASE ToolChecks(t)
      <3>1. tool[t] # Idle /\ tool[t].thread \in Threads /\ tool[t].late \in BOOLEAN
        BY <2>1, ToolIs DEF ToolChecks, Idle
      <3>2. Cardinality(Fresh(Queue(tool[t].thread))) < MaxFiles
        <4>1. PICK fs \in Seq(File) : fs = Queue(tool[t].thread)
          BY QueueIs
        <4>2. Len(fs) < MaxFiles /\ Len(fs) \in Nat
          BY <2>1, <4>1 DEF ToolChecks
        <4>3. Cardinality(Fresh(fs)) \in Nat /\ Cardinality(Fresh(fs)) <= Len(fs)
          BY FreshIs
        <4>4. QED
          BY <4>1, <4>2, <4>3, Bounds
      <3>3. PICK c : c = [tool[t] EXCEPT !.at = "checked"]
        OBVIOUS
      <3>4. tool' = [tool EXCEPT ![t] = c]
        BY <2>1, <3>3 DEF ToolChecks
      <3>5. c.turn = tool[t].turn /\ c.thread = tool[t].thread /\ c.late = tool[t].late
        BY <3>1, <3>3, ToolIs DEF Call
      <3>6. ~c.late => t \in Awaited
        BY <3>1, <3>5 DEF Awaited
      <3>7. QED
        BY <1>7, <2>1, <3>2, <3>4, <3>5, <3>6 DEF ToolChecks, mailbox, loop
    <2>2. CASE ToolErrs(t)
      BY <1>7, <2>2 DEF ToolErrs, mailbox, loop
    <2>3. CASE ToolStages(t)
      BY <2>3, StagedStages
    <2>4. CASE ToolTimesOut(t)
      <3>1. PICK c : c = [tool[t] EXCEPT !.late = TRUE]
        OBVIOUS
      <3>2. tool' = [tool EXCEPT ![t] = c]
        BY <2>4, <3>1 DEF ToolTimesOut
      <3>3. c.late
        BY <2>4, <3>1, ToolIs DEF ToolTimesOut, Awaited, Call
      <3>4. QED
        BY <1>7, <2>4, <3>2, <3>3 DEF ToolTimesOut, mailbox, loop
    <2>5. QED
      BY <1>8, <2>1, <2>2, <2>3, <2>4 DEF ToolStep
  <1>9. ASSUME NEW sort \in Sorts, NEW thread \in Threads, Arrive(sort, thread) PROVE Staged'
    <2>1. UNCHANGED <<tool, queues, pc, turns, batch>>
      BY <1>9 DEF Arrive, loop, files
    <2>2. pc = "turn" => Thread' = Thread
      <3> SUFFICES ASSUME pc = "turn" PROVE Thread' = Thread
        OBVIOUS
      <3>1. Current \in 1 .. Len(mail) /\ Current' = Current
        BY <2>1, CurrentIs DEF Handling, Current
      <3>2. mail'[Current] = mail[Current]
        BY <3>1, MailGrows
      <3>3. QED
        BY <3>1, <3>2 DEF Thread
    <2>3. QED
      BY <2>1, <2>2, StagedKeeps
  <1>10. CASE (\E r \in straying : StraySendEnds(r)) \/ StopCalled \/ StopEnds \/ UNCHANGED vars
    BY <1>2, <1>10 DEF StraySendEnds, StopCalled, StopEnds, vars, mailbox, loop, files
  <1>11. CASE Restart
    <2>1. Awaited' = {} /\ \A k : Queue(k)' = <<>>
      BY <1>11 DEF Restart, Awaited, Queue, QueueIn
    <2>2. Cardinality(Fresh(<<>>)) <= MaxFiles
      BY NoneFresh, Bounds
    <2>3. \A k \in Threads : (\A i \in DOMAIN Queue(k)' : Own(Queue(k)[i], k)')
                           /\ Cardinality(Fresh(Queue(k)')) <= MaxFiles
      BY <2>1, <2>2
    <2>4. QED
      BY <2>1, <2>3 DEF Staged, Fresh
  <1>12. QED
    BY <1>4, <1>5, <1>6, <1>8, <1>9, <1>10, <1>11 DEF Next


\* Every reply, delivered or under way, carries its own files.
LEMMA ServedStep ==
  ASSUME MailInv, [Next]_vars, NEW r \in Replies' \cup Sending'
  PROVE  Served(r)'
  <1>1. Loop /\ FilesOK /\ SentOK /\ Staged
    BY DEF MailInv
  <1>2. Flow
    BY <1>1, FlowStep
  <1>3. CASE r \in Replies \cup Sending
    <2>1. r.msg \in 1 .. Len(mail)
      BY <1>1, <1>3, CurrentIs DEF SentOK, Sending, Handling
    <2>2. Served(r)
      BY <1>3 DEF MailInv
    <2>3. QED
      BY <1>1, <2>1, <2>2, MailGrows DEF Served
  <1>4. CASE r \notin Replies \cup Sending
    <2>1. pc' = "send" /\ r = outgoing'
      BY <1>2, <1>4 DEF Flow, Replies, Sending
    <2>2. ~(pc = "send" /\ outgoing' = outgoing)
      BY <1>4, <2>1 DEF Sending
    <2>3. pc \in {"turn", "command"} /\ (pc = "turn" \/ r.files = <<>>)
      BY <1>2, <2>1, <2>2 DEF Flow
    <2>4. PICK fs \in {<<>>, Queue(Thread)} : r = [msg |-> Current, turn |-> turns, files |-> fs]
      BY <1>2, <2>1, <2>2 DEF Flow
    <2>5. r.msg = Current /\ r.turn = turns /\ r.files = fs
      BY <2>4
    <2>6. Current \in 1 .. Len(mail) /\ mail'[Current] = mail[Current] /\ Thread \in Threads
      BY <1>1, <2>3, CurrentIs, MailGrows DEF Handling
    <2>7. CASE fs = <<>>
      BY <2>5, <2>7, NoneFresh, Bounds DEF Served
    <2>8. CASE fs # <<>>
      <3>1. fs = Queue(Thread) /\ pc = "turn"
        BY <2>3, <2>4, <2>5, <2>8
      <3>2. \A i \in DOMAIN fs : fs[i].thread = Thread /\ (fs[i].late \/ fs[i].turn = turns)
        BY <1>1, <2>6, <3>1 DEF Staged, Own
      <3>3. Cardinality(Fresh(fs)) <= MaxFiles
        BY <1>1, <2>6, <3>1 DEF Staged
      <3>4. mail'[r.msg].thread = Thread
        BY <2>5, <2>6 DEF Thread
      <3>5. QED
        BY <2>5, <3>2, <3>3, <3>4 DEF Served, Fresh
    <2>9. QED
      BY <2>7, <2>8
  <1>5. QED
    BY <1>3, <1>4

-----------------------------------------------------------------------------
(* Theorems. *)

\* The parts of MailInv hold together in every state: what is flagged has come
\* to something, replies are counted by doubts, and the files staged are those
\* of the turn under way.
THEOREM Invariance == Spec => []MailInv
  <1>1. Init => MailInv
    BY InitInv
  <1>2. MailInv /\ [Next]_vars => MailInv'
    <2> SUFFICES ASSUME MailInv, [Next]_vars PROVE MailInv'
      OBVIOUS
    <2>1. Loop /\ FilesOK /\ SentOK /\ Answers /\ Counted /\ Staged
      BY DEF MailInv
    <2>2. Loop'
      BY <2>1, LoopStep
    <2>3. FilesOK'
      BY <2>1, FilesStep
    <2>4. SentOK'
      BY <2>1, SentStep
    <2>5. Answers'
      BY <2>1, AnswersStep
    <2>6. Counted'
      BY <2>1, CountedStep
    <2>7. Staged'
      BY <2>1, StagedStep
    <2>8. \A r \in Replies' \cup Sending' : Served(r)'
      BY ServedStep
    <2>9. QED
      BY <2>2, <2>3, <2>4, <2>5, <2>6, <2>7, <2>8 DEF MailInv
  <1>3. QED
    BY <1>1, <1>2, PTL DEF Spec

\* The poll loop never flags an unanswered message but where the handling of it
\* threw (the flag and the catch of email-imap.ts).
THEOREM Answered == Spec => []AnsweredOrGivenUp
  <1>1. MailInv => AnsweredOrGivenUp
    BY DEF MailInv, Answers, Accounted, AnsweredOrGivenUp
  <1>2. QED
    BY <1>1, Invariance, PTL

\* A message is answered twice only after a reply whose fate was in doubt
\* (SEND_HARD_TIMEOUT_MS, a failed flag, a restart between reply and flag).
THEOREM Replying == Spec => []OneReplyPerDoubt
  <1>1. MailInv => OneReplyPerDoubt
    <2> SUFFICES ASSUME MailInv, NEW m \in DOMAIN mail
                 PROVE  Cardinality({r \in delivered \cup straying : r.msg = m}) <= 1 + doubts[m]
      BY DEF OneReplyPerDoubt
    <2>1. Loop /\ SentOK /\ Counted
      BY DEF MailInv
    <2>2. m \in Messages
      BY <2>1, MailTyping
    <2>3. Copies(m) = {r \in delivered \cup straying : r.msg = m}
      BY DEF Copies, Replies
    <2>4. Cardinality(Copies(m)) \in Nat /\ Cardinality(Copies(m)) <= doubts[m] + 1 /\ doubts[m] \in Nat
      BY <2>1, <2>2, CopiesIs DEF Counted, SentOK
    <2>5. QED
      BY <2>3, <2>4
  <1>2. QED
    BY <1>1, Invariance, PTL

LEMMA StartsWith ==
  ASSUME NEW fs \in Seq(File)
  PROVE  IsPrefix(fs, fs) /\ \A f \in File : IsPrefix(fs, Append(fs, f))
  <1> DEFINE n == Len(fs)
  <1>1. n \in Nat /\ n <= n
    OBVIOUS
  <1>2. ASSUME NEW f \in File PROVE IsPrefix(fs, Append(fs, f))
    <2> DEFINE new == Append(fs, f)
               a == SubSeq(fs, 1, n)
               b == SubSeq(new, 1, n)
    <2>1. new \in Seq(File) /\ Len(new) = n + 1 /\ \A i \in 1 .. n : new[i] = fs[i]
      OBVIOUS
    <2> HIDE DEF n, new
    <2>2. /\ a \in Seq(File) /\ Len(a) = n
          /\ \A i \in 1 .. n : a[i] = fs[i]
      BY <1>1, SubSeqProperties DEF n
    <2>3. /\ b \in Seq(File) /\ Len(b) = n
          /\ \A i \in 1 .. n : b[i] = new[i]
      BY <1>1, <2>1, SubSeqProperties
    <2> HIDE DEF a, b
    <2>4. a = b
      BY <2>1, <2>2, <2>3, SeqEqual
    <2>5. QED
      BY <1>1, <2>1, <2>4 DEF IsPrefix, a, b, n, new
  <1>3. IsPrefix(fs, fs)
    BY <1>1 DEF IsPrefix
  <1>4. QED
    BY <1>2, <1>3

\* Only the handler of its session and the cap on sessions take a staged file
\* (email-attach.ts).
LEMMA Keeping ==
  ASSUME MailInv, [Next]_vars, boot' = boot, NEW k \in Threads
  PROVE  \/ IsPrefix(Queue(k), Queue(k)')
         \/ pc \in {"turn", "command"} /\ pc' # pc /\ k = Thread
         \/ /\ Len(queues) = MaxSessions /\ queues[1].key = k
            /\ ~HasQueue(Last(queues').key)
  <1>1. Loop /\ FilesOK
    BY DEF MailInv
  <1>2. Queue(k) \in Seq(File)
    BY <1>1, QueueIs
  <1>3. Queue(k)' = Queue(k) => IsPrefix(Queue(k), Queue(k)')
    <2>1. PICK fs \in Seq(File) : fs = Queue(k)
      BY <1>2
    <2>2. IsPrefix(fs, fs)
      BY StartsWith
    <2>3. QED
      BY <2>1, <2>2
  <1>4. UNCHANGED queues => Queue(k)' = Queue(k)
    BY DEF Queue, QueueIn
  <1>5. CASE TurnEnds \/ TurnThrows \/ CommandEnds
    <2>1. pc \in {"turn", "command"} /\ pc' # pc
      BY <1>5 DEF TurnEnds, TurnThrows, CommandEnds, SendStarts, Advance
    <2>2. queues' = Drained(Thread)
      BY <1>5 DEF TurnEnds, TurnThrows, CommandEnds
    <2>3. k # Thread => Queue(k)' = Queue(k)
      BY <1>1, <2>2, DrainIs
    <2>4. QED
      BY <1>3, <2>1, <2>3
  <1>6. CASE Poll /\ ~(TurnEnds \/ TurnThrows \/ CommandEnds)
    BY <1>3, <1>4, <1>6
    DEF Poll, PollStarts, PollFails, SearchEnds, FetchEnds, FetchEmpty, HandlingThrows, LoadEnds,
        SendEnds, SendFails, SendTimesOut, FlagEnds, FlagFails, GiveUpFails, files
  <1>7. ASSUME NEW t \in Tools, ToolStages(t)
        PROVE  \/ IsPrefix(Queue(k), Queue(k)')
               \/ /\ Len(queues) = MaxSessions /\ queues[1].key = k
                  /\ ~HasQueue(Last(queues').key)
    <2>1. PICK j : j = tool[t].thread
      OBVIOUS
    <2>2. /\ \E f \in File : Queue(j)' = Append(Queue(j), f)
          /\ Last(queues').key = j
          /\ k # j => \/ Queue(k)' = Queue(k)
                      \/ Len(queues) = MaxSessions /\ queues[1].key = k /\ ~HasQueue(j)
      BY <1>1, <1>7, <2>1, StageIs
    <2>3. CASE k = j
      <3>1. PICK f \in File : Queue(k)' = Append(Queue(k), f)
        BY <2>2, <2>3
      <3>2. PICK fs \in Seq(File) : fs = Queue(k)
        BY <1>2
      <3>3. IsPrefix(fs, Append(fs, f))
        BY StartsWith
      <3>4. QED
        BY <3>1, <3>2, <3>3
    <2>4. CASE k # j
      BY <1>3, <2>2, <2>4
    <2>5. QED
      BY <2>3, <2>4
  <1>8. ASSUME NEW t \in Tools, ToolCalled(t) \/ ToolChecks(t) \/ ToolErrs(t) \/ ToolTimesOut(t)
        PROVE  UNCHANGED queues
    BY <1>8 DEF ToolCalled, ToolChecks, ToolErrs, ToolTimesOut
  <1>9. ~Restart
    BY <1>1 DEF Restart, Loop, LoopType
  <1>10. CASE \/ \E sort \in Sorts, thread \in Threads : Arrive(sort, thread)
              \/ \E r \in straying : StraySendEnds(r)
              \/ StopCalled \/ StopEnds \/ UNCHANGED vars
    BY <1>3, <1>4, <1>10 DEF Arrive, StraySendEnds, StopCalled, StopEnds, vars, files
  <1>11. QED
    BY <1>3, <1>4, <1>5, <1>6, <1>7, <1>8, <1>9, <1>10 DEF Next, ToolStep

\* What is staged goes out with the reply it was staged for, whole and within
\* the cap (email-attach.ts, the drains in server.ts).
THEOREM Files == Spec => FilesServed
  <1> DEFINE Keeps == boot' = boot =>
               \A k \in Threads :
                 \/ IsPrefix(Queue(k), Queue(k)')
                 \/ pc \in {"turn", "command"} /\ pc' # pc /\ k = Thread
                 \/ /\ Len(queues) = MaxSessions /\ queues[1].key = k
                    /\ ~HasQueue(Last(queues').key)
  <1>1. MailInv => TypeOK
    BY TypeFollows
  <1>2. MailInv => OwnFiles /\ CapHeld
    BY DEF MailInv, Replies, Served, Fresh, OwnFiles, CapHeld
  <1>3. MailInv /\ [Next]_vars => [Keeps]_vars
    BY Keeping
  <1> HIDE DEF Keeps
  <1>4. Spec => []TypeOK /\ [](OwnFiles /\ CapHeld) /\ [][Keeps]_vars
    BY <1>1, <1>2, <1>3, Invariance, PTL DEF Spec
  <1>5. QED
    BY <1>4 DEF FilesServed, StagedKept, Keeps
=============================================================================
