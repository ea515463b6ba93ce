----------------------------- MODULE TurnProofs -----------------------------
(***************************************************************************)
(* Theorems about the agent loop, for any number of turns and sessions,    *)
(* any limits and any batches; first, what the operators on transcripts    *)
(* preserve: appending, answering a batch, dropping old entries and        *)
(* trimming keep every tool call followed by its results.  Then types and  *)
(* pairing, what bounds a turn (the strikes of a failing call, the breaker *)
(* and the call budget), and what it owes its client and the other turns   *)
(* of its session.                                                         *)
(***************************************************************************)
EXTENDS Turn, FiniteSetTheorems, SequenceTheorems, TLAPS

-----------------------------------------------------------------------------
(* Transcripts. *)

\* The entry constructors build entries.
LEMMA EntryTypes ==
  /\ \A r \in Roles : Said(r) \in Entry
  /\ \A m \in Nat : Calls(m) \in Entry /\ Result(m) \in Entry
  BY DEF Said, Calls, Result, Entry, Roles

\* Every position of a transcript holds an entry.
LEMMA EntryAt ==
  ASSUME NEW s \in Seq(Entry), NEW p \in 1 .. Len(s)
  PROVE  s[p] \in Entry /\ s[p].role \in Roles /\ s[p].n \in Nat
  <1>1. s[p] \in Entry
    OBVIOUS
  <1>2. QED
    BY <1>1 DEF Entry

\* m user messages form a sequence of m entries.
LEMMA UserMessagesType ==
  ASSUME NEW m \in Nat
  PROVE  /\ UserMessages(m) \in Seq(Entry)
         /\ Len(UserMessages(m)) = m
         /\ \A k \in 1 .. m : UserMessages(m)[k] = Said("user")
  BY EntryTypes DEF UserMessages, Roles

\* The results of calls i..j are j - i + 1 entries, each naming its call.
LEMMA ResultsType ==
  ASSUME NEW i \in Nat, NEW j \in Nat, i <= j + 1
  PROVE  /\ Results(i, j) \in Seq(Entry)
         /\ Len(Results(i, j)) = j - i + 1
         /\ \A k \in 1 .. (j - i + 1) : Results(i, j)[k] = Result(i + k - 1)
  <1>1. \A k \in 1 .. (j - i + 1) : Result(i + k - 1) \in Entry
    BY DEF Result, Entry, Roles
  <1>2. j - i + 1 \in Nat
    OBVIOUS
  <1>3. QED
    BY <1>1, <1>2 DEF Results

\* The entries of a concatenation.
LEMMA ConcatAt ==
  ASSUME NEW s \in Seq(Entry), NEW q \in Seq(Entry)
  PROVE  /\ s \o q \in Seq(Entry)
         /\ Len(s \o q) = Len(s) + Len(q)
         /\ \A k \in 1 .. Len(s) : (s \o q)[k] = s[k]
         /\ \A k \in 1 .. Len(q) : (s \o q)[Len(s) + k] = q[k]
  OBVIOUS

\* Messages appended to an answered transcript leave it answered: they carry
\* no tool calls.
LEMMA AppendQuiet ==
  ASSUME NEW s \in Seq(Entry), CallsAnswered(s), NEW q \in Seq(Entry),
         \A k \in 1 .. Len(q) : q[k].role = "assistant" => q[k].n = 0
  PROVE  CallsAnswered(s \o q)
  <1>1. /\ s \o q \in Seq(Entry)
        /\ Len(s \o q) = Len(s) + Len(q)
        /\ \A k \in 1 .. Len(s) : (s \o q)[k] = s[k]
        /\ \A k \in 1 .. Len(q) : (s \o q)[Len(s) + k] = q[k]
    BY ConcatAt
  <1> SUFFICES ASSUME NEW p \in 1 .. Len(s \o q), (s \o q)[p].role = "assistant",
                      NEW k \in 1 .. (s \o q)[p].n
               PROVE  p + k <= Len(s \o q) /\ (s \o q)[p + k] = Result(k)
    BY DEF CallsAnswered
  <1>2. CASE p <= Len(s)
    <2>1. s[p] = (s \o q)[p] /\ p \in 1 .. Len(s)
      BY <1>1, <1>2
    <2>2. p + k <= Len(s) /\ s[p + k] = Result(k)
      BY <2>1 DEF CallsAnswered
    <2>3. s[p].n \in Nat
      BY <2>1, EntryAt
    <2>4. p + k \in 1 .. Len(s)
      BY <2>1, <2>2, <2>3
    <2>5. QED
      BY <1>1, <2>2, <2>4
  <1>3. CASE p > Len(s)
    <2>1. p - Len(s) \in 1 .. Len(q) /\ q[p - Len(s)] = (s \o q)[p]
      BY <1>1, <1>3
    <2>2. q[p - Len(s)].n = 0
      BY <2>1
    <2>3. QED
      BY <2>1, <2>2
  <1>4. QED
    BY <1>1, <1>2, <1>3

\* An assistant entry with m calls opens a batch none of which is answered.
LEMMA OpenNew ==
  ASSUME NEW s \in Seq(Entry), CallsAnswered(s), NEW m \in Nat
  PROVE  OpenBatch(s \o <<Calls(m)>>, m, 0)
  <1> DEFINE q == s \o <<Calls(m)>>
  <1>1. /\ q \in Seq(Entry)
        /\ Len(q) = Len(s) + 1
        /\ \A k \in 1 .. Len(s) : q[k] = s[k]
        /\ q[Len(s) + 1] = Calls(m)
    BY EntryTypes
  <1>2. ASSUME NEW p \in 1 .. (Len(q) - 0 - 1), q[p].role = "assistant",
               NEW k \in 1 .. q[p].n
        PROVE  p + k < Len(q) - 0 /\ q[p + k] = Result(k)
    <2>1. p \in 1 .. Len(s) /\ s[p] = q[p]
      BY <1>1, <1>2
    <2>2. s[p].n \in Nat
      BY <2>1, EntryAt
    <2>3. p + k <= Len(s) /\ s[p + k] = Result(k)
      BY <1>2, <2>1 DEF CallsAnswered
    <2>4. p + k \in 1 .. Len(s)
      BY <2>1, <2>2, <2>3, <1>2
    <2>5. QED
      BY <1>1, <2>3, <2>4
  <1> HIDE DEF q
  <1>3. Len(q) \in Nat /\ q[Len(q) - 0] = Calls(m) /\ 0 < Len(q)
    BY <1>1
  <1>4. OpenBatch(q, m, 0)
    BY <1>2, <1>3 DEF OpenBatch
  <1>5. QED
    BY <1>4 DEF q

\* The results of the next calls advance an open batch.
LEMMA OpenAdvance ==
  ASSUME NEW s \in Seq(Entry), NEW m \in Nat, NEW d \in Nat, NEW e \in Nat,
         OpenBatch(s, m, d), d <= e, e <= m
  PROVE  OpenBatch(s \o Results(d + 1, e), m, e)
  <1> DEFINE q == s \o Results(d + 1, e)
  <1>1. /\ Results(d + 1, e) \in Seq(Entry)
        /\ Len(Results(d + 1, e)) = e - d
        /\ \A k \in 1 .. (e - d) : Results(d + 1, e)[k] = Result(d + k)
    <2>1. d + 1 \in Nat /\ d + 1 <= e + 1
      OBVIOUS
    <2>2. /\ Results(d + 1, e) \in Seq(Entry)
          /\ Len(Results(d + 1, e)) = e - (d + 1) + 1
          /\ \A k \in 1 .. (e - (d + 1) + 1) :
               Results(d + 1, e)[k] = Result((d + 1) + k - 1)
      BY <2>1, ResultsType
    <2>3. \A k \in Nat : (d + 1) + k - 1 = d + k
      OBVIOUS
    <2>4. QED
      BY <2>2, <2>3
  <1>2. /\ q \in Seq(Entry)
        /\ Len(q) = Len(s) + (e - d)
        /\ \A k \in 1 .. Len(s) : q[k] = s[k]
        /\ \A k \in 1 .. (e - d) : q[Len(s) + k] = Result(d + k)
    <2> DEFINE r == Results(d + 1, e)
    <2> HIDE DEF r
    <2>1. /\ r \in Seq(Entry) /\ Len(r) = e - d
          /\ \A k \in 1 .. (e - d) : r[k] = Result(d + k)
      BY <1>1 DEF r
    <2>2. /\ s \o r \in Seq(Entry)
          /\ Len(s \o r) = Len(s) + Len(r)
          /\ \A k \in 1 .. Len(s) : (s \o r)[k] = s[k]
          /\ \A k \in 1 .. Len(r) : (s \o r)[Len(s) + k] = r[k]
      BY <2>1, ConcatAt
    <2>3. QED
      BY <2>1, <2>2 DEF r
  <1> HIDE DEF q
  <1>3. d < Len(s) /\ s[Len(s) - d] = Calls(m)
        /\ \A k \in 1 .. d : s[Len(s) - d + k] = Result(k)
    BY DEF OpenBatch
  <1>4. Len(q) - e = Len(s) - d /\ Len(s) - d \in 1 .. Len(s)
    BY <1>2, <1>3
  <1>5. e \in 0 .. m /\ e < Len(q) /\ q[Len(q) - e] = Calls(m)
    BY <1>2, <1>3, <1>4
  <1>6. ASSUME NEW k \in 1 .. e
        PROVE  q[Len(q) - e + k] = Result(k)
    <2>1. CASE k <= d
      <3>1. Len(s) - d + k \in 1 .. Len(s)
        BY <1>3, <2>1
      <3>2. QED
        BY <1>2, <1>3, <1>4, <2>1, <3>1
    <2>2. CASE k > d
      <3>1. k - d \in 1 .. (e - d) /\ d + (k - d) = k
        BY <2>2
      <3>2. Len(s) - d + k = Len(s) + (k - d)
        BY <2>2
      <3>3. QED
        BY <1>2, <1>4, <3>1, <3>2
    <2>3. k <= d \/ k > d
      OBVIOUS
    <2>4. QED
      BY <2>1, <2>2, <2>3
  <1>7. ASSUME NEW p \in 1 .. (Len(q) - e - 1), q[p].role = "assistant",
               NEW k \in 1 .. q[p].n
        PROVE  p + k < Len(q) - e /\ q[p + k] = Result(k)
    <2>1. p \in 1 .. (Len(s) - d - 1) /\ p \in 1 .. Len(s) /\ s[p] = q[p]
      BY <1>2, <1>3, <1>4, <1>7
    <2>2. s[p].n \in Nat
      BY <2>1, EntryAt
    <2>3. p + k < Len(s) - d /\ s[p + k] = Result(k)
      BY <1>7, <2>1 DEF OpenBatch
    <2>4. p + k \in 1 .. Len(s)
      BY <2>1, <2>2, <2>3, <1>7
    <2>5. QED
      BY <1>2, <1>4, <2>3, <2>4
  <1>8. OpenBatch(q, m, e)
    BY <1>5, <1>6, <1>7 DEF OpenBatch
  <1>9. QED
    BY <1>8 DEF q

\* A batch whose calls are all answered leaves an answered transcript.
LEMMA OpenComplete ==
  ASSUME NEW s \in Seq(Entry), NEW m \in Nat, OpenBatch(s, m, m)
  PROVE  CallsAnswered(s)
  <1> SUFFICES ASSUME NEW p \in 1 .. Len(s), s[p].role = "assistant",
                      NEW k \in 1 .. s[p].n
               PROVE  p + k <= Len(s) /\ s[p + k] = Result(k)
    BY DEF CallsAnswered
  <1>0. s[p].n \in Nat
    BY EntryAt
  <1>1. /\ m < Len(s) /\ s[Len(s) - m] = Calls(m)
        /\ \A j \in 1 .. m : s[Len(s) - m + j] = Result(j)
    BY DEF OpenBatch
  <1>2. CASE p < Len(s) - m
    <2>1. p + k < Len(s) - m /\ s[p + k] = Result(k)
      BY <1>2 DEF OpenBatch
    <2>2. QED
      BY <2>1, <1>0
  <1>3. CASE p = Len(s) - m
    <2>1. s[p].n = m
      BY <1>1, <1>3 DEF Calls
    <2>2. QED
      BY <1>1, <1>3, <2>1
  <1>4. CASE p > Len(s) - m
    <2>1. p - (Len(s) - m) \in 1 .. m /\ Len(s) - m + (p - (Len(s) - m)) = p
      BY <1>4
    <2>2. PICK j \in 1 .. m : Len(s) - m + j = p
      BY <2>1
    <2>3. s[p] = Result(j)
      BY <1>1, <2>2
    <2>4. s[p].role = "tool"
      BY <2>3 DEF Result
    <2>5. QED
      BY <2>4
  <1>5. QED
    BY <1>2, <1>3, <1>4

\* Dropping the oldest entries keeps every remaining call answered.
LEMMA FromAnswered ==
  ASSUME NEW s \in Seq(Entry), CallsAnswered(s), NEW j \in 1 .. Len(s) + 1
  PROVE  From(s, j) \in Seq(Entry) /\ CallsAnswered(From(s, j))
  <1> DEFINE q == From(s, j)
  <1>1. /\ q \in Seq(Entry)
        /\ Len(q) = Len(s) - j + 1
        /\ \A k \in 1 .. Len(q) : q[k] = s[k + j - 1]
    BY DEF From
  <1>2. ASSUME NEW p \in 1 .. Len(q), q[p].role = "assistant", NEW k \in 1 .. q[p].n
        PROVE  p + k <= Len(q) /\ q[p + k] = Result(k)
    <2>1. p + j - 1 \in 1 .. Len(s) /\ s[p + j - 1] = q[p]
      BY SMTT(30), <1>1
    <2>2. s[p + j - 1].n \in Nat
      BY <2>1, EntryAt
    <2>3. (p + j - 1) + k <= Len(s) /\ s[(p + j - 1) + k] = Result(k)
      BY <1>2, <2>1 DEF CallsAnswered
    <2>4. p + k \in 1 .. Len(q)
      BY <1>1, <1>2, <2>1, <2>2, <2>3
    <2>5. (p + k) + j - 1 = (p + j - 1) + k
      BY <2>1, <2>2, <1>2
    <2>6. QED
      BY <1>1, <2>3, <2>4, <2>5
  <1> HIDE DEF q
  <1>3. CallsAnswered(q)
    BY <1>2 DEF CallsAnswered
  <1>4. QED
    BY <1>1, <1>3 DEF q

\* An entry without calls in front of an answered transcript leaves it answered.
LEMMA PrependQuiet ==
  ASSUME NEW s \in Seq(Entry), CallsAnswered(s), NEW e \in Entry,
         e.role # "assistant"
  PROVE  <<e>> \o s \in Seq(Entry) /\ CallsAnswered(<<e>> \o s)
  <1> DEFINE q == <<e>> \o s
  <1>1. /\ q \in Seq(Entry)
        /\ Len(q) = Len(s) + 1
        /\ q[1] = e
        /\ \A k \in 1 .. Len(s) : q[k + 1] = s[k]
    OBVIOUS
  <1>2. ASSUME NEW p \in 1 .. Len(q), q[p].role = "assistant", NEW k \in 1 .. q[p].n
        PROVE  p + k <= Len(q) /\ q[p + k] = Result(k)
    <2>1. p # 1
      BY <1>1, <1>2
    <2>2. p - 1 \in 1 .. Len(s) /\ s[p - 1] = q[p]
      <3>1. p - 1 \in 1 .. Len(s) /\ (p - 1) + 1 = p
        BY <1>1, <2>1
      <3>2. QED
        BY <1>1, <3>1
    <2>3. s[p - 1].n \in Nat
      BY <2>2, EntryAt
    <2>4. (p - 1) + k <= Len(s) /\ s[(p - 1) + k] = Result(k)
      BY <1>2, <2>2 DEF CallsAnswered
    <2>5. (p - 1) + k \in 1 .. Len(s) /\ ((p - 1) + k) + 1 = p + k
      BY <1>2, <2>2, <2>3, <2>4
    <2>6. QED
      BY <1>1, <2>4, <2>5
  <1> HIDE DEF q
  <1>3. CallsAnswered(q)
    BY <1>2 DEF CallsAnswered
  <1>4. QED
    BY <1>1, <1>3 DEF q

\* slice(-m) keeps every remaining call answered.
LEMMA SliceAnswered ==
  ASSUME NEW s \in Seq(Entry), CallsAnswered(s), NEW m \in Nat
  PROVE  SliceLast(s, m) \in Seq(Entry) /\ CallsAnswered(SliceLast(s, m))
  <1>1. CASE m = 0 \/ m >= Len(s)
    BY <1>1 DEF SliceLast
  <1>2. CASE ~(m = 0 \/ m >= Len(s))
    <2>1. Len(s) - m + 1 \in 1 .. Len(s) + 1
      BY <1>2
    <2>2. SliceLast(s, m) = From(s, Len(s) - m + 1)
      BY <1>2 DEF SliceLast
    <2>3. QED
      BY <2>1, <2>2, FromAnswered
  <1>3. QED
    BY <1>1, <1>2

\* trimTranscript never leaves a tool call without its results, whatever the
\* limit: it cuts only at the front (src/sessions/transcript.ts).
THEOREM TrimAnswered ==
  ASSUME NEW s \in Seq(Entry), CallsAnswered(s), NEW max \in Nat \ {0}
  PROVE  /\ TrimTranscript(s, max) \in Seq(Entry)
         /\ CallsAnswered(TrimTranscript(s, max))
  <1>1. CASE Len(s) <= max
    BY <1>1 DEF TrimTranscript
  <1>2. CASE Len(s) > max /\ s[1].role = "system"
    <2>1. max - 1 \in Nat /\ s[1] \in Entry /\ s[1].role # "assistant"
      BY <1>2
    <2>2. TrimTranscript(s, max) = <<s[1]>> \o SliceLast(s, max - 1)
      BY <1>2 DEF TrimTranscript
    <2>3. QED
      BY <2>1, <2>2, SliceAnswered, PrependQuiet
  <1>3. CASE Len(s) > max /\ s[1].role # "system"
    <2>1. TrimTranscript(s, max) = SliceLast(s, max)
      BY <1>3 DEF TrimTranscript
    <2>2. QED
      BY <2>1, SliceAnswered
  <1>4. QED
    BY <1>1, <1>2, <1>3

-----------------------------------------------------------------------------
(* The agent loop. *)

\* The prefix of a queue taken ahead of a kill token has a length.
LEMMA TextsAheadType ==
  ASSUME NEW q \in Seq(Kinds)
  PROVE  TextsAhead(q) \in Nat
  <1> DEFINE ahead == {k \in 1 .. Len(q) : \A j \in 1 .. k : q[j] = "text"}
  <1>1. IsFiniteSet(1 .. Len(q))
    BY FS_Interval
  <1>2. IsFiniteSet(ahead)
    BY <1>1, FS_Subset
  <1>3. QED
    BY <1>2, FS_CardinalityType DEF TextsAhead

\* A batch the provider emits is a non-empty sequence of calls.
LEMMA BatchesType ==
  ASSUME NEW b \in Batches
  PROVE  b \in Seq(Sigs) /\ Len(b) \in Nat \ {0}
  <1>1. PICK m \in 1 .. MaxBatch : b \in [1 .. m -> Sigs]
    BY DEF Batches
  <1>2. m \in Nat \ {0}
    BY TurnAssumption
  <1>3. QED
    BY <1>1, <1>2

\* What compaction can leave behind is a transcript again, and an answered one
\* stays answered: compaction cuts only at the front.
LEMMA CompactAnswered ==
  ASSUME NEW s \in Seq(Entry), NEW c \in CompactOutcomes(s)
  PROVE  c \in Seq(Entry) /\ (CallsAnswered(s) => CallsAnswered(c))
  <1>1. CASE c = s
    BY <1>1
  <1>2. CASE \E k \in 2 .. Len(s) + 1 : c = <<Said("system")>> \o From(s, k)
    <2>1. PICK k \in 2 .. Len(s) + 1 : c = <<Said("system")>> \o From(s, k)
      BY <1>2
    <2>2. From(s, k) \in Seq(Entry)
      BY <2>1 DEF From
    <2>3. Said("system") \in Entry /\ Said("system").role # "assistant"
      BY EntryTypes DEF Said, Roles
    <2>4. c \in Seq(Entry)
      BY <2>1, <2>2, <2>3
    <2>5. ASSUME CallsAnswered(s) PROVE CallsAnswered(c)
      <3>1. k \in 1 .. Len(s) + 1
        BY <2>1
      <3>2. CallsAnswered(From(s, k))
        BY <2>5, <3>1, FromAnswered
      <3>3. QED
        BY <2>1, <2>2, <2>3, <3>2, PrependQuiet
    <2>6. QED
      BY <2>4, <2>5
  <1>3. CASE \E k \in 2 .. Len(s) + 1 : c = From(s, k)
    <2>1. PICK k \in 2 .. Len(s) + 1 : c = From(s, k)
      BY <1>3
    <2>2. c \in Seq(Entry)
      BY <2>1 DEF From
    <2>3. ASSUME CallsAnswered(s) PROVE CallsAnswered(c)
      BY <2>1, <2>3, FromAnswered
    <2>4. QED
      BY <2>2, <2>3
  <1>4. QED
    BY <1>1, <1>2, <1>3 DEF CompactOutcomes

\* Trimming leaves a transcript.
LEMMA TrimType ==
  ASSUME NEW s \in Seq(Entry), NEW max \in Nat \ {0}
  PROVE  TrimTranscript(s, max) \in Seq(Entry)
  <1>1. \A m \in Nat : SliceLast(s, m) \in Seq(Entry)
    <2>1. SUFFICES ASSUME NEW m \in Nat PROVE SliceLast(s, m) \in Seq(Entry)
      OBVIOUS
    <2>2. CASE m = 0 \/ m >= Len(s)
      BY <2>2 DEF SliceLast
    <2>3. CASE ~(m = 0 \/ m >= Len(s))
      <3>1. Len(s) - m + 1 \in 1 .. Len(s)
        BY <2>3
      <3>2. SubSeq(s, Len(s) - m + 1, Len(s)) \in Seq(Entry)
        BY <3>1
      <3>3. QED
        BY <2>3, <3>2 DEF SliceLast, From
    <2>4. QED
      BY <2>2, <2>3
  <1>2. CASE Len(s) <= max
    BY <1>2 DEF TrimTranscript
  <1>3. CASE Len(s) > max
    <2>1. <<s[1]>> \in Seq(Entry)
      BY <1>3
    <2>2. SliceLast(s, max - 1) \in Seq(Entry) /\ SliceLast(s, max) \in Seq(Entry)
      BY <1>1
    <2>3. <<s[1]>> \o SliceLast(s, max - 1) \in Seq(Entry)
      BY <2>1, <2>2
    <2>4. QED
      BY <1>3, <2>2, <2>3 DEF TrimTranscript
  <1>4. QED
    BY <1>2, <1>3

\* Whatever the indices, the results of calls i..j form a transcript.
LEMMA ResultsSeq ==
  ASSUME NEW i \in Nat, NEW j \in Nat
  PROVE  Results(i, j) \in Seq(Entry)
  <1>1. CASE i <= j + 1
    BY <1>1, ResultsType
  <1>2. CASE i > j + 1
    <2>1. Results(i, j) = <<>>
      BY <1>2 DEF Results
    <2>2. QED
      BY <2>1
  <1>3. QED
    BY <1>1, <1>2

\* The updates the actions are built from keep the types of what they assign.
LEMMA GotoType ==
  ASSUME TypeOK, NEW t \in Turns, NEW l \in Location, Goto(t, l)
  PROVE  pc' \in [Turns -> Location]
  BY DEF TypeOK, Goto

LEMMA PushType ==
  ASSUME TypeOK, NEW t \in Turns, NEW es \in Seq(Entry), Push(t, es)
  PROVE  transcript' \in [Turns -> Seq(Entry)]
  <1>1. transcript[t] \o es \in Seq(Entry)
    BY ConcatAt DEF TypeOK
  <1>2. QED
    BY <1>1 DEF TypeOK, Push

LEMMA SendType ==
  ASSUME TypeOK, NEW t \in Turns, NEW f \in {"done", "error"}, Send(t, f)
  PROVE  sent' \in [Turns -> Seq({"done", "error"})]
  <1>1. Append(sent[t], f) \in Seq({"done", "error"})
    BY DEF TypeOK
  <1>2. QED
    BY <1>1 DEF TypeOK, Send

LEMMA FailType ==
  ASSUME TypeOK, NEW t \in Turns, Fail(t)
  PROVE  /\ pc' \in [Turns -> Location]
         /\ failed' \in [Turns -> BOOLEAN]
         /\ sent' \in [Turns -> Seq({"done", "error"})]
  <1>1. "finishing" \in Location
    BY DEF Location, Closing
  <1>2. QED
    BY <1>1, GotoType, SendType DEF Fail, TypeOK

LEMMA SetPendingType ==
  ASSUME TypeOK, NEW s \in Sessions, NEW q \in Seq(Kinds), SetPending(s, q)
  PROVE  pending' \in [Sessions -> Seq(Kinds)]
  BY DEF TypeOK, SetPending

LEMMA CountType ==
  ASSUME TypeOK, NEW t \in Turns, MoreIterations(t), CountIteration(t)
  PROVE  iter' \in [Turns -> 0 .. MaxIterations]
  BY TurnAssumption DEF TypeOK, CountIteration, MoreIterations

LEMMA BeginType ==
  ASSUME TypeOK, NEW t \in Turns, NEW w \in Work, Begin(t, w)
  PROVE  late' \in [Turns -> [Work -> Nat]]
  <1>1. [late[t] EXCEPT ![w] = @ + 1] \in [Work -> Nat]
    BY DEF TypeOK
  <1>2. QED
    BY <1>1 DEF TypeOK, Begin

LEMMA AnomalyType ==
  ASSUME TypeOK, RecordAnomaly
  PROVE  breaker' \in {"closed", "open"} /\ anomalies' \in Nat
  BY DEF TypeOK, RecordAnomaly

LEMMA StrikeType ==
  ASSUME TypeOK, NEW t \in Turns, Strike(t)
  PROVE  errored' \in [Turns -> [Sigs -> Nat]]
  <1>1. errored[t] \in [Sigs -> Nat] /\ errored \in [Turns -> [Sigs -> Nat]]
    BY DEF TypeOK
  <1>2. PICK g : g = Sig(t)
    OBVIOUS
  <1>3. errored' = [errored EXCEPT ![t][g] = @ + 1]
    BY <1>2, Zenon DEF Strike
  <1>4. [errored[t] EXCEPT ![g] = @ + 1] \in [Sigs -> Nat]
    <2>1. CASE g \in Sigs
      BY <1>1, <2>1
    <2>2. CASE g \notin Sigs
      <3>1. [errored[t] EXCEPT ![g] = @ + 1] = errored[t]
        BY <1>1, <2>2
      <3>2. QED
        BY <1>1, <3>1
    <2>3. QED
      BY <2>1, <2>2
  <1>5. errored' = [errored EXCEPT ![t] = [errored[t] EXCEPT ![g] = @ + 1]]
    BY <1>1, <1>3
  <1>6. QED
    BY <1>1, <1>4, <1>5

LEMMA AnswerType ==
  ASSUME TypeOK, NEW t \in Turns, NEW j \in Nat, Answer(t, j)
  PROVE  transcript' \in [Turns -> Seq(Entry)]
  <1>1. Results(idx[t], j) \in Seq(Entry)
    BY ResultsSeq DEF TypeOK
  <1>2. QED
    BY <1>1, PushType DEF Answer

LEMMA NextCallType ==
  ASSUME TypeOK, NEW t \in Turns, NextCall(t)
  PROVE  idx' \in [Turns -> Nat]
  BY DEF TypeOK, NextCall

LEMMA AbortType ==
  ASSUME TypeOK, NEW t \in Turns, Abort(t)
  PROVE  /\ transcript' \in [Turns -> Seq(Entry)]
         /\ pc' \in [Turns -> Location]
         /\ failed' \in [Turns -> BOOLEAN]
         /\ sent' \in [Turns -> Seq({"done", "error"})]
         /\ batch' \in [Turns -> Seq(Sigs)]
         /\ idx' \in [Turns -> Nat]
  <1>1. Len(batch[t]) \in Nat
    BY DEF TypeOK
  <1>2. QED
    BY <1>1, AnswerType, FailType DEF Abort, TypeOK

\* Every variable keeps its type in every reachable state.
THEOREM Typing == Spec => []TypeOK
  <1> USE DEF loopVars, callVars, history, sysVars, TypeOK
  <1>1. Init => TypeOK
    BY TurnAssumption DEF Init, Location, Idle
  <1>2. TypeOK /\ [Next]_vars => TypeOK'
    <2> SUFFICES ASSUME TypeOK, [Next]_vars PROVE TypeOK'
      OBVIOUS
    <2> USE TurnAssumption DEF Location, Idle, Looping, Batching, Closing, Work
    <2>1. ASSUME NEW t \in Turns, Start(t) PROVE TypeOK'
      BY <2>1, GotoType DEF Start
    <2>2. ASSUME NEW t \in Turns, Refuse(t) PROVE TypeOK'
      <3>1. sent[t] \o <<"error", "done">> \in Seq({"done", "error"})
        OBVIOUS
      <3>2. QED
        BY <2>2, <3>1, GotoType DEF Refuse
    <2>3. ASSUME NEW t \in Turns, Admit(t) PROVE TypeOK'
      BY <2>3, PushType, GotoType, UserMessagesType DEF Admit
    <2>4. ASSUME NEW t \in Turns, Exhausted(t) PROVE TypeOK'
      BY <2>4, GotoType DEF Exhausted, MoreIterations
    <2>5. ASSUME NEW t \in Turns, Halt(t) PROVE TypeOK'
      <3>1. SessionOf[t] \in Sessions /\ <<>> \in Seq(Kinds)
        OBVIOUS
      <3>2. QED
        BY <2>5, <3>1, CountType, FailType, SetPendingType DEF Halt
    <2>6. ASSUME NEW t \in Turns, Drain(t) PROVE TypeOK'
      <3> DEFINE q == pending[SessionOf[t]]
      <3>1. /\ pc[t] = "checkpoint" /\ MoreIterations(t) /\ breaker = "closed"
            /\ CountIteration(t) /\ SetPending(SessionOf[t], <<>>)
            /\ Push(t, UserMessages(TextsAhead(q)))
            /\ UNCHANGED <<total, retried, callVars, history, anomalies, saved>>
        BY <2>6 DEF Drain
      <3>2. SessionOf[t] \in Sessions /\ <<>> \in Seq(Kinds)
        OBVIOUS
      <3>21. q \in Seq(Kinds)
        BY <3>2
      <3>22. UserMessages(TextsAhead(q)) \in Seq(Entry)
        BY <3>21, TextsAheadType, UserMessagesType
      <3>3. /\ iter' \in [Turns -> 0 .. MaxIterations]
            /\ pending' \in [Sessions -> Seq(Kinds)]
            /\ transcript' \in [Turns -> Seq(Entry)]
        BY <3>1, <3>2, <3>22, CountType, SetPendingType, PushType
      <3>4. /\ pc' \in [Turns -> Location]
            /\ compacted' \in [Turns -> BOOLEAN]
            /\ failed' \in [Turns -> BOOLEAN]
            /\ sent' \in [Turns -> Seq({"done", "error"})]
            /\ breaker' \in {"closed", "open"}
        <4>1. CASE TextsAhead(q) < Len(q)
          BY <2>6, <4>1, FailType DEF Drain
        <4>2. CASE ~(TextsAhead(q) < Len(q))
          <5>1. /\ \/ Goto(t, "streaming") /\ UNCHANGED compacted
                   \/ /\ Goto(t, "compacting")
                      /\ compacted' = [compacted EXCEPT ![t] = TRUE]
                /\ UNCHANGED <<breaker, failed, sent>>
            BY <2>6, <4>2 DEF Drain
          <5>2. pc' \in [Turns -> Location]
            BY <5>1, GotoType
          <5>3. compacted' \in [Turns -> BOOLEAN]
            BY <5>1
          <5>4. QED
            BY <5>1, <5>2, <5>3
        <4>3. QED
          BY <4>1, <4>2
      <3>5. QED
        BY <3>1, <3>3, <3>4
    <2>7. ASSUME NEW t \in Turns, Compacted(t) PROVE TypeOK'
      <3>1. PICK s \in CompactOutcomes(transcript[t]) :
              transcript' = [transcript EXCEPT ![t] = s]
        BY <2>7 DEF Compacted
      <3>2. s \in Seq(Entry)
        BY CompactAnswered
      <3>3. transcript' \in [Turns -> Seq(Entry)]
        BY <3>1, <3>2
      <3>4. QED
        BY <2>7, <3>3, BeginType, GotoType DEF Compacted
    <2>8. ASSUME NEW t \in Turns, StreamError(t) PROVE TypeOK'
      BY <2>8, AnomalyType, FailType DEF StreamError
    <2>9. ASSUME NEW t \in Turns, StreamAnswer(t) PROVE TypeOK'
      <3>1. <<Said("assistant")>> \in Seq(Entry)
        BY EntryTypes DEF Roles
      <3>2. QED
        BY <2>9, <3>1, AnomalyType, SendType, PushType, GotoType DEF StreamAnswer
    <2>10. ASSUME NEW t \in Turns, StreamCut(t) PROVE TypeOK'
      BY <2>10, GotoType DEF StreamCut
    <2>11. ASSUME NEW t \in Turns, StreamEmptyRetry(t) PROVE TypeOK'
      BY <2>11, PushType, GotoType, UserMessagesType DEF StreamEmptyRetry
    <2>12. ASSUME NEW t \in Turns, StreamEmptyFail(t) PROVE TypeOK'
      BY <2>12, FailType DEF StreamEmptyFail
    <2>13. ASSUME NEW t \in Turns, StreamRefused(t) PROVE TypeOK'
      BY <2>13, BeginType, GotoType DEF StreamRefused
    <2>14. ASSUME NEW t \in Turns, RerouteAnswer(t) PROVE TypeOK'
      <3>1. <<Said("assistant")>> \in Seq(Entry)
        BY EntryTypes DEF Roles
      <3>2. QED
        BY <2>14, <3>1, SendType, PushType, GotoType DEF RerouteAnswer
    <2>15. ASSUME NEW t \in Turns, RerouteError(t) PROVE TypeOK'
      BY <2>15, FailType DEF RerouteError
    <2>16. ASSUME NEW t \in Turns, OverBudget(t) PROVE TypeOK'
      <3>1. PICK b \in Batches : total' = [total EXCEPT ![t] = @ + Len(b)]
        BY <2>16 DEF OverBudget
      <3>2. Len(b) \in Nat
        BY BatchesType
      <3>3. total' \in [Turns -> Nat]
        BY SMTT(30), <3>1, <3>2
      <3>4. QED
        BY <2>16, <3>3, FailType DEF OverBudget
    <2>17. ASSUME NEW t \in Turns, StreamToolCalls(t) PROVE TypeOK'
      <3>1. PICK b \in Batches : /\ total' = [total EXCEPT ![t] = @ + Len(b)]
                                  /\ batch' = [batch EXCEPT ![t] = b]
                                  /\ Push(t, <<Calls(Len(b))>>)
        BY <2>17 DEF StreamToolCalls
      <3>2. b \in Seq(Sigs) /\ Len(b) \in Nat
        BY BatchesType
      <3>3. <<Calls(Len(b))>> \in Seq(Entry)
        BY <3>2, EntryTypes
      <3>4. total' \in [Turns -> Nat] /\ batch' \in [Turns -> Seq(Sigs)]
        BY SMTT(30), <3>1, <3>2
      <3>41. transcript' \in [Turns -> Seq(Entry)]
        BY <3>1, <3>3, PushType
      <3>5. QED
        <4>1. /\ Goto(t, "batch") /\ idx' = [idx EXCEPT ![t] = 1]
              /\ UNCHANGED <<iter, retried, compacted, failed, errored, sent,
                              history, sysVars>>
          BY <2>17 DEF StreamToolCalls
        <4>2. pc' \in [Turns -> Location]
          BY <4>1, GotoType
        <4>21. idx' \in [Turns -> Nat]
          BY <4>1
        <4>3. QED
          BY <3>4, <3>41, <4>1, <4>2, <4>21
    <2>18. ASSUME NEW t \in Turns, BatchDone(t) PROVE TypeOK'
      BY <2>18, GotoType DEF BatchDone
    <2>19. ASSUME NEW t \in Turns, CallHalted(t) PROVE TypeOK'
      BY <2>19, AbortType DEF CallHalted, AtCall
    <2>20. ASSUME NEW t \in Turns, CallRefused(t) PROVE TypeOK'
      BY <2>20, AbortType DEF CallRefused, AtCall
    <2>21. ASSUME NEW t \in Turns, CallNudged(t) PROVE TypeOK'
      BY <2>21, StrikeType, AbortType, NextCallType, AnswerType DEF CallNudged, AtCall
    <2>22. ASSUME NEW t \in Turns, CallInvalid(t) PROVE TypeOK'
      BY <2>22, GotoType DEF CallInvalid, AtCall
    <2>23. ASSUME NEW t \in Turns, CallChecked(t) PROVE TypeOK'
      BY <2>23, GotoType DEF CallChecked, AtCall
    <2>24. ASSUME NEW t \in Turns, HookBlocked(t) PROVE TypeOK'
      BY <2>24, AbortType DEF HookBlocked
    <2>25. ASSUME NEW t \in Turns, ToolStart(t) PROVE TypeOK'
      <3>1. ran' \in [Turns -> Nat]
        BY <2>25 DEF ToolStart
      <3>2. QED
        BY <2>25, <3>1, BeginType, GotoType DEF ToolStart
    <2>26. ASSUME NEW t \in Turns, ToolOk(t) PROVE TypeOK'
      BY <2>26, AnswerType, GotoType DEF ToolOk, Sig
    <2>27. ASSUME NEW t \in Turns, ToolError(t) PROVE TypeOK'
      BY <2>27, StrikeType, AbortType, AnswerType, GotoType DEF ToolError
    <2>28. ASSUME NEW t \in Turns, ToolThrows(t) PROVE TypeOK'
      BY <2>28, GotoType DEF ToolThrows
    <2>29. ASSUME NEW t \in Turns, AfterTool(t) PROVE TypeOK'
      BY <2>29, NextCallType, GotoType DEF AfterTool
    <2>30. ASSUME NEW t \in Turns, Denied(t) PROVE TypeOK'
      BY <2>30, AbortType DEF Denied
    <2>31. ASSUME NEW t \in Turns, Thrown(t) PROVE TypeOK'
      BY <2>31, StrikeType, AbortType, NextCallType, AnswerType, GotoType DEF Thrown
    <2>32. ASSUME NEW t \in Turns, Finish(t) PROVE TypeOK'
      <3>1. TrimTranscript(transcript[t], MaxEntries) \in Seq(Entry)
        BY TrimType
      <3>2. transcript' \in [Turns -> Seq(Entry)]
        BY <2>32, <3>1 DEF Finish
      <3>3. sent' \in [Turns -> Seq({"done", "error"})]
        BY <2>32, SendType DEF Finish
      <3>4. QED
        BY <2>32, <3>2, <3>3, GotoType DEF Finish
    <2>33. ASSUME NEW t \in Turns, Save(t) PROVE TypeOK'
      BY <2>33, GotoType DEF Save
    <2>40. ASSUME NEW s \in Sessions, ChatQueue(s) PROVE TypeOK'
      <3>1. <<>> \in Seq(Kinds) /\ Append(pending[s], "text") \in Seq(Kinds)
        BY DEF Kinds
      <3>2. QED
        BY <2>40, <3>1, SetPendingType DEF ChatQueue, turnVars
    <2>41. CASE Trip
      BY <2>41 DEF Trip, turnVars
    <2>42. CASE Reset
      BY <2>42 DEF Reset, turnVars
    <2>43. CASE AnomalyExpires
      BY <2>43 DEF AnomalyExpires, turnVars
    <2>44. CASE UNCHANGED vars
      BY <2>44 DEF vars
    <2>45. QED
      BY <2>1, <2>2, <2>3, <2>4, <2>5, <2>6, <2>7, <2>8, <2>9, <2>10, <2>11, <2>12, <2>13, <2>14, <2>15, <2>16, <2>17, <2>18, <2>19, <2>20, <2>21, <2>22, <2>23, <2>24, <2>25, <2>26, <2>27, <2>28, <2>29, <2>30, <2>31, <2>32, <2>33, <2>40, <2>41, <2>42, <2>43, <2>44
         DEF Next, TurnStep, Progress, Admission, LoopHead, Stream, ToolCall, Environment
  <1>3. QED
    BY <1>1, <1>2, PTL DEF Spec
-----------------------------------------------------------------------------
(* The pairing of calls and results. *)

\* Where a turn stands in its batch, and what its transcript then holds.
PairedAt(t) ==
  IF pc[t] \in Batching
  THEN /\ idx[t] \in 1 .. Len(batch[t]) + 1
       /\ pc[t] # "batch" => idx[t] <= Len(batch[t])
       /\ OpenBatch(transcript[t], Len(batch[t]), Answered(t))
  ELSE CallsAnswered(transcript[t])

PairInv ==
  /\ \A t \in Turns : PairedAt(t)
  /\ \A s \in Sessions : CallsAnswered(saved[s])

\* A step of one turn that saves nothing has only that turn to answer for.
LEMMA OtherTurns ==
  ASSUME TypeOK, PairInv, NEW t \in Turns, PairedAt(t)', saved' = saved,
         \A u \in Turns \ {t} : /\ pc'[u] = pc[u] /\ idx'[u] = idx[u]
                                /\ batch'[u] = batch[u]
                                /\ transcript'[u] = transcript[u]
  PROVE  PairInv'
  <1>1. ASSUME NEW u \in Turns \ {t} PROVE PairedAt(u)'
    BY <1>1 DEF PairInv, PairedAt, Answered
  <1>2. QED
    BY <1>1 DEF PairInv

\* Messages without calls may be appended between batches.
LEMMA QuietStep ==
  ASSUME TypeOK, TypeOK', PairInv, NEW t \in Turns, NEW l \in Location,
         pc[t] \notin Batching, l \notin Batching, Goto(t, l),
         NEW es \in Seq(Entry), Push(t, es),
         \A k \in 1 .. Len(es) : es[k].role = "assistant" => es[k].n = 0,
         UNCHANGED <<batch, idx, saved>>
  PROVE  PairInv'
  <1>1. CallsAnswered(transcript[t]) /\ transcript[t] \in Seq(Entry)
    BY DEF PairInv, PairedAt, TypeOK
  <1>2. CallsAnswered(transcript[t] \o es)
    BY <1>1, AppendQuiet
  <1>3. PairedAt(t)'
    BY <1>2 DEF PairedAt, Push, Goto, TypeOK
  <1>4. QED
    BY <1>3, OtherTurns DEF Goto, Push, TypeOK

\* Between batches a turn may move without touching its transcript.
LEMMA SilentStep ==
  ASSUME TypeOK, TypeOK', PairInv, NEW t \in Turns, NEW l \in Location,
         pc[t] \notin Batching, l \notin Batching, Goto(t, l),
         UNCHANGED <<batch, idx, transcript, saved>>
  PROVE  PairInv'
  <1>1. PairedAt(t)'
    BY DEF PairInv, PairedAt, Goto, TypeOK
  <1>2. QED
    BY <1>1, OtherTurns DEF Goto, TypeOK

\* At a call a turn may move to another stage of that call.
LEMMA StageStep ==
  ASSUME TypeOK, TypeOK', PairInv, NEW t \in Turns, NEW l \in Batching \ {"after"},
         pc[t] \in Batching \ {"after"}, idx[t] <= Len(batch[t]), Goto(t, l),
         UNCHANGED <<batch, idx, transcript, saved>>
  PROVE  PairInv'
  <1>1. l \in Location
    BY DEF Location
  <1>2. PairedAt(t)'
    BY <1>1 DEF PairInv, PairedAt, Answered, Goto, TypeOK
  <1>3. QED
    BY <1>1, <1>2, OtherTurns DEF Goto, TypeOK

\* Answering from the current call to call j advances the open batch to j.
LEMMA AnswerOpens ==
  ASSUME TypeOK, TypeOK', PairInv, NEW t \in Turns, pc[t] \in Batching \ {"after"},
         NEW j \in Nat, idx[t] <= j, j <= Len(batch[t]), Answer(t, j)
  PROVE  OpenBatch(transcript'[t], Len(batch[t]), j)
  <1>0. /\ transcript[t] \in Seq(Entry) /\ batch[t] \in Seq(Sigs)
        /\ Len(batch[t]) \in Nat /\ idx[t] \in Nat
    BY DEF TypeOK
  <1>01. /\ idx[t] \in 1 .. Len(batch[t]) + 1
         /\ OpenBatch(transcript[t], Len(batch[t]), Answered(t))
    BY DEF PairInv, PairedAt
  <1>1. /\ transcript[t] \in Seq(Entry) /\ Len(batch[t]) \in Nat
        /\ idx[t] \in 1 .. Len(batch[t])
        /\ OpenBatch(transcript[t], Len(batch[t]), idx[t] - 1)
    BY <1>0, <1>01 DEF Answered
  <1>2. idx[t] - 1 \in Nat /\ (idx[t] - 1) + 1 = idx[t]
    BY <1>1
  <1>3. OpenBatch(transcript[t] \o Results((idx[t] - 1) + 1, j), Len(batch[t]), j)
    BY <1>1, <1>2, OpenAdvance
  <1>4. transcript'[t] = transcript[t] \o Results(idx[t], j)
    BY DEF Answer, Push, TypeOK
  <1>5. QED
    BY <1>2, <1>3, <1>4

\* Abandoning a batch stubs the rest of it: the transcript is answered.
LEMMA AbortStep ==
  ASSUME TypeOK, TypeOK', PairInv, NEW t \in Turns, pc[t] \in Batching \ {"after"},
         idx[t] <= Len(batch[t]), Abort(t), saved' = saved
  PROVE  PairInv'
  <1>1. /\ Answer(t, Len(batch[t])) /\ Goto(t, "finishing")
        /\ UNCHANGED <<batch, idx>> /\ Len(batch[t]) \in Nat
    BY DEF Abort, Fail, TypeOK
  <1>2. OpenBatch(transcript'[t], Len(batch[t]), Len(batch[t]))
    BY <1>1, AnswerOpens
  <1>3. CallsAnswered(transcript'[t])
    BY <1>1, <1>2, OpenComplete DEF TypeOK
  <1>4. PairedAt(t)'
    BY <1>1, <1>3 DEF PairedAt, Goto, TypeOK, Batching
  <1>5. QED
    BY <1>1, <1>4, OtherTurns DEF Goto, Answer, Push, TypeOK

\* Answering the current call and going on to the next one.
LEMMA NextStep ==
  ASSUME TypeOK, TypeOK', PairInv, NEW t \in Turns, pc[t] \in Batching \ {"after"},
         idx[t] <= Len(batch[t]), Answer(t, idx[t]), NextCall(t),
         pc' = [pc EXCEPT ![t] = "batch"], UNCHANGED <<batch, saved>>
  PROVE  PairInv'
  <1>0. idx[t] \in Nat /\ Len(batch[t]) \in Nat
    BY DEF TypeOK
  <1>1. OpenBatch(transcript'[t], Len(batch[t]), idx[t])
    BY <1>0, AnswerOpens
  <1>2. /\ pc'[t] = "batch" /\ idx'[t] = idx[t] + 1 /\ batch'[t] = batch[t]
        /\ idx[t] \in 1 .. Len(batch[t])
    BY DEF NextCall, TypeOK, PairInv, PairedAt
  <1>3. PairedAt(t)'
    <2>1. idx'[t] \in 1 .. Len(batch'[t]) + 1 /\ idx'[t] - 1 = idx[t]
      BY <1>0, <1>2
    <2>2. OpenBatch(transcript'[t], Len(batch'[t]), idx'[t] - 1)
      BY <1>1, <1>2, <2>1
    <2>3. QED
      BY <1>2, <2>1, <2>2 DEF PairedAt, Answered, Batching
  <1>4. QED
    BY <1>3, OtherTurns DEF Answer, Push, NextCall, TypeOK

\* Answering the current call and awaiting the after_tool hook.
LEMMA AfterStep ==
  ASSUME TypeOK, TypeOK', PairInv, NEW t \in Turns, pc[t] \in Batching \ {"after"},
         idx[t] <= Len(batch[t]), Answer(t, idx[t]), Goto(t, "after"),
         UNCHANGED <<batch, idx, saved>>
  PROVE  PairInv'
  <1>0. idx[t] \in Nat /\ Len(batch[t]) \in Nat
    BY DEF TypeOK
  <1>1. OpenBatch(transcript'[t], Len(batch[t]), idx[t])
    BY <1>0, AnswerOpens
  <1>2. /\ pc'[t] = "after" /\ idx'[t] = idx[t] /\ batch'[t] = batch[t]
        /\ idx[t] \in 1 .. Len(batch[t])
    BY DEF Goto, TypeOK, PairInv, PairedAt
  <1>3. PairedAt(t)'
    BY <1>1, <1>2 DEF PairedAt, Answered, Batching
  <1>4. QED
    BY <1>3, OtherTurns DEF Answer, Push, Goto, TypeOK

\* A stage of a call implies the current call is within the batch.
LEMMA StageIndex ==
  ASSUME PairInv, NEW t \in Turns, pc[t] \in {"hook", "running", "failing", "after"}
  PROVE  idx[t] <= Len(batch[t])
  BY DEF PairInv, PairedAt, Batching

\* Every tool call of every transcript, in memory or on disk, is answered.
THEOREM Pairing == Spec => []TranscriptPaired
  <1>1. Init => PairInv
    BY TurnAssumption DEF Init, PairInv, PairedAt, Batching, CallsAnswered
  <1>2. TypeOK /\ TypeOK' /\ PairInv /\ [Next]_vars => PairInv'
    <2> SUFFICES ASSUME TypeOK, TypeOK', PairInv, [Next]_vars PROVE PairInv'
      OBVIOUS
    <2> USE DEF loopVars, callVars, history, sysVars
    <2> DEFINE quiet == Looping \cup Closing \cup Idle \cup {"admitting"}
    <2>a. /\ quiet \subseteq Location /\ quiet \cap Batching = {}
          /\ Batching \subseteq Location
      BY DEF Location, Looping, Closing, Idle, Batching
    <2>b. \A t \in Turns : ~(pc[t] \in Batching) => CallsAnswered(transcript[t])
      BY DEF PairInv, PairedAt
    <2>1. ASSUME NEW t \in Turns, Start(t) PROVE PairInv'
      <3>1. transcript'[t] = saved[SessionOf[t]] /\ SessionOf[t] \in Sessions
        BY <2>1, TurnAssumption DEF Start, TypeOK
      <3>2. pc'[t] = "admitting" /\ "admitting" \notin Batching
        BY <2>1 DEF Start, Goto, TypeOK, Batching
      <3>3. PairedAt(t)'
        BY <3>1, <3>2 DEF PairInv, PairedAt
      <3>4. QED
        BY <2>1, <3>3, OtherTurns DEF Start, Goto, TypeOK
    <2>2. ASSUME NEW t \in Turns,
                 Refuse(t) \/ Exhausted(t) \/ Halt(t) \/ StreamError(t) \/ StreamCut(t)
                 \/ StreamEmptyFail(t) \/ StreamRefused(t) \/ RerouteError(t)
                 \/ OverBudget(t)
          PROVE PairInv'
      <3>1. /\ pc[t] \notin Batching /\ UNCHANGED <<batch, idx, transcript, saved>>
            /\ \E l \in quiet : Goto(t, l)
        BY <2>2 DEF Refuse, Exhausted, Halt, StreamError, StreamCut, StreamEmptyFail,
           StreamRefused, RerouteError, OverBudget, Fail, Batching, Looping, Closing, Idle
      <3>2. QED
        BY <2>a, <3>1, SilentStep
    <2>3. ASSUME NEW t \in Turns, Admit(t) \/ StreamEmptyRetry(t) PROVE PairInv'
      <3>1. /\ pc[t] \notin Batching /\ UNCHANGED <<batch, idx, saved>>
            /\ Goto(t, "checkpoint") /\ Push(t, UserMessages(1))
        BY <2>3 DEF Admit, StreamEmptyRetry, Batching
      <3>2. UserMessages(1) \in Seq(Entry) /\ Len(UserMessages(1)) = 1
            /\ \A k \in 1 .. 1 : UserMessages(1)[k] = Said("user")
        BY UserMessagesType
      <3>3. "checkpoint" \in Location /\ "checkpoint" \notin Batching
        BY DEF Location, Looping, Batching
      <3>4. QED
        BY <3>1, <3>2, <3>3, QuietStep DEF Said
    <2>4. ASSUME NEW t \in Turns, Drain(t) PROVE PairInv'
      <3> DEFINE n == TextsAhead(pending[SessionOf[t]])
      <3>1. /\ pc[t] \notin Batching /\ UNCHANGED <<batch, idx, saved>>
            /\ Push(t, UserMessages(n)) /\ \E l \in quiet : Goto(t, l)
        BY <2>4 DEF Drain, Fail, Batching, Looping, Closing, Idle
      <3>2. n \in Nat
        BY TextsAheadType, TurnAssumption DEF TypeOK
      <3>3. /\ UserMessages(n) \in Seq(Entry) /\ Len(UserMessages(n)) = n
            /\ \A k \in 1 .. n : UserMessages(n)[k] = Said("user")
        BY <3>2, UserMessagesType
      <3>4. QED
        BY <2>a, <3>1, <3>3, QuietStep DEF Said
    <2>5. ASSUME NEW t \in Turns, Compacted(t) PROVE PairInv'
      <3>1. PICK s \in CompactOutcomes(transcript[t]) :
              transcript' = [transcript EXCEPT ![t] = s]
        BY <2>5 DEF Compacted
      <3>2. /\ pc[t] \notin Batching /\ Goto(t, "streaming") /\ "streaming" \notin Batching
            /\ UNCHANGED <<batch, idx, saved>>
        BY <2>5 DEF Compacted, Batching
      <3>3. transcript[t] \in Seq(Entry)
        BY DEF TypeOK
      <3>4. CallsAnswered(s)
        BY <2>b, <3>2, <3>3, CompactAnswered
      <3>5. PairedAt(t)'
        BY <3>1, <3>2, <3>4 DEF PairedAt, Goto, TypeOK
      <3>6. QED
        BY <3>1, <3>2, <3>5, OtherTurns DEF Goto, TypeOK
    <2>6. ASSUME NEW t \in Turns, StreamAnswer(t) \/ RerouteAnswer(t) PROVE PairInv'
      <3>1. /\ pc[t] \notin Batching /\ UNCHANGED <<batch, idx, saved>>
            /\ Goto(t, "finishing") /\ Push(t, <<Said("assistant")>>)
        BY <2>6 DEF StreamAnswer, RerouteAnswer, Batching
      <3>2. <<Said("assistant")>> \in Seq(Entry)
        BY EntryTypes DEF Roles
      <3>3. "finishing" \in Location /\ "finishing" \notin Batching
        BY DEF Location, Closing, Batching
      <3>4. \A k \in 1 .. Len(<<Said("assistant")>>) : <<Said("assistant")>>[k].n = 0
        BY DEF Said
      <3>5. QED
        BY <3>1, <3>2, <3>3, <3>4, QuietStep
    <2>7. ASSUME NEW t \in Turns, StreamToolCalls(t) PROVE PairInv'
      <3>1. PICK b \in Batches : /\ batch' = [batch EXCEPT ![t] = b]
                                  /\ Push(t, <<Calls(Len(b))>>)
        BY <2>7 DEF StreamToolCalls
      <3>2. b \in Seq(Sigs) /\ Len(b) \in Nat \ {0}
        BY BatchesType
      <3>3. /\ pc[t] \notin Batching /\ Goto(t, "batch") /\ "batch" \in Batching
            /\ idx' = [idx EXCEPT ![t] = 1] /\ saved' = saved
        BY <2>7 DEF StreamToolCalls, Batching
      <3>4. transcript[t] \in Seq(Entry) /\ CallsAnswered(transcript[t])
        BY <2>b, <3>3 DEF TypeOK
      <3>5. OpenBatch(transcript[t] \o <<Calls(Len(b))>>, Len(b), 0)
        BY <3>2, <3>4, OpenNew
      <3>6. /\ pc'[t] = "batch" /\ idx'[t] = 1 /\ batch'[t] = b
            /\ transcript'[t] = transcript[t] \o <<Calls(Len(b))>>
        BY <3>1, <3>3 DEF Goto, Push, TypeOK
      <3>7. PairedAt(t)'
        BY <3>2, <3>3, <3>5, <3>6 DEF PairedAt, Answered
      <3>8. QED
        BY <3>1, <3>3, <3>7, OtherTurns DEF Goto, Push, TypeOK
    <2>8. ASSUME NEW t \in Turns, BatchDone(t) PROVE PairInv'
      <3>1. /\ pc[t] = "batch" /\ "batch" \in Batching /\ idx[t] > Len(batch[t])
            /\ Goto(t, "checkpoint") /\ "checkpoint" \notin Batching
            /\ UNCHANGED <<batch, idx, transcript, saved>>
        BY <2>8 DEF BatchDone, Batching
      <3>2. batch[t] \in Seq(Sigs) /\ Len(batch[t]) \in Nat /\ idx[t] \in Nat
            /\ transcript[t] \in Seq(Entry)
        BY DEF TypeOK
      <3>3. /\ idx[t] \in 1 .. Len(batch[t]) + 1
            /\ OpenBatch(transcript[t], Len(batch[t]), idx[t] - 1)
        BY <3>1 DEF PairInv, PairedAt, Answered
      <3>4. idx[t] - 1 = Len(batch[t])
        BY <3>1, <3>2, <3>3
      <3>5. CallsAnswered(transcript[t])
        BY <3>2, <3>3, <3>4, OpenComplete
      <3>6. PairedAt(t)'
        BY <3>1, <3>5 DEF PairedAt, Goto, TypeOK
      <3>7. QED
        BY <3>1, <3>6, OtherTurns DEF Goto, TypeOK
    <2>9. ASSUME NEW t \in Turns, pc[t] \in Batching \ {"after"},
                 idx[t] <= Len(batch[t]), Abort(t), saved' = saved
          PROVE PairInv'
      BY <2>9, AbortStep
    <2>c. \A t \in Turns : pc[t] \in {"hook", "running", "failing", "after"}
                             => idx[t] <= Len(batch[t])
      BY StageIndex
    <2>10. ASSUME NEW t \in Turns,
                  CallHalted(t) \/ CallRefused(t) \/ HookBlocked(t) \/ Denied(t)
           PROVE PairInv'
      <3>1. /\ pc[t] \in Batching \ {"after"} /\ idx[t] <= Len(batch[t])
            /\ Abort(t) /\ saved' = saved
        BY <2>10, <2>c DEF CallHalted, CallRefused, HookBlocked, Denied, AtCall, Batching
      <3>2. QED
        BY <2>9, <3>1
    <2>11. ASSUME NEW t \in Turns, CallNudged(t) \/ Thrown(t) PROVE PairInv'
      <3>1. /\ pc[t] \in Batching \ {"after"} /\ idx[t] <= Len(batch[t])
            /\ saved' = saved
        BY <2>11, <2>c DEF CallNudged, Thrown, AtCall, Batching
      <3>2. CASE StruckOut(t)
        BY <2>9, <2>11, <3>1, <3>2 DEF CallNudged, Thrown
      <3>3. CASE ~StruckOut(t)
        <4>1. /\ Answer(t, idx[t]) /\ NextCall(t) /\ batch' = batch
              /\ (pc' = pc /\ pc[t] = "batch") \/ Goto(t, "batch")
          BY <2>11, <3>3 DEF CallNudged, Thrown, AtCall
        <4>2. pc' = [pc EXCEPT ![t] = "batch"]
          BY <4>1 DEF Goto, TypeOK
        <4>3. QED
          BY <3>1, <4>1, <4>2, NextStep
      <3>4. QED
        BY <3>2, <3>3
    <2>12. ASSUME NEW t \in Turns,
                  CallInvalid(t) \/ CallChecked(t) \/ ToolStart(t) \/ ToolThrows(t)
           PROVE PairInv'
      <3>1. /\ pc[t] \in Batching \ {"after"} /\ idx[t] <= Len(batch[t])
            /\ \E l \in Batching \ {"after"} : Goto(t, l)
            /\ UNCHANGED <<batch, idx, transcript, saved>>
        BY <2>12, <2>c DEF CallInvalid, CallChecked, ToolStart, ToolThrows, AtCall, Batching
      <3>2. QED
        BY <3>1, StageStep
    <2>13. ASSUME NEW t \in Turns, ToolOk(t) \/ ToolError(t) PROVE PairInv'
      <3>1. /\ pc[t] \in Batching \ {"after"} /\ idx[t] <= Len(batch[t])
            /\ saved' = saved
        BY <2>13, <2>c DEF ToolOk, ToolError, Batching
      <3>2. CASE ToolError(t) /\ StruckOut(t)
        BY <2>9, <3>1, <3>2 DEF ToolError
      <3>3. CASE ToolOk(t) \/ ~StruckOut(t)
        <4>1. Answer(t, idx[t]) /\ Goto(t, "after") /\ UNCHANGED <<batch, idx>>
          BY <2>13, <3>3 DEF ToolOk, ToolError
        <4>2. QED
          BY <3>1, <4>1, AfterStep
      <3>4. QED
        BY <2>13, <3>2, <3>3
    <2>14. ASSUME NEW t \in Turns, AfterTool(t) PROVE PairInv'
      <3>1. /\ pc[t] = "after" /\ Goto(t, "batch") /\ NextCall(t)
            /\ {"after", "batch"} \subseteq Batching
            /\ UNCHANGED <<batch, transcript, saved>>
        BY <2>14 DEF AfterTool, Batching
      <3>2. /\ idx[t] \in 1 .. Len(batch[t]) /\ Len(batch[t]) \in Nat
            /\ OpenBatch(transcript[t], Len(batch[t]), idx[t])
        BY <3>1, <2>c DEF PairInv, PairedAt, Answered, TypeOK
      <3>3. /\ pc'[t] = "batch" /\ idx'[t] = idx[t] + 1
            /\ batch'[t] = batch[t] /\ transcript'[t] = transcript[t]
        BY <3>1 DEF Goto, NextCall, TypeOK
      <3>4. idx'[t] - 1 = idx[t] /\ idx'[t] \in 1 .. Len(batch'[t]) + 1
        BY <3>2, <3>3
      <3>5. PairedAt(t)'
        BY <3>1, <3>2, <3>3, <3>4 DEF PairedAt, Answered
      <3>6. QED
        BY <3>1, <3>5, OtherTurns DEF Goto, NextCall, TypeOK
    <2>15. ASSUME NEW t \in Turns, Finish(t) PROVE PairInv'
      <3>1. /\ pc[t] \notin Batching /\ Goto(t, "saving") /\ "saving" \notin Batching
            /\ transcript' = [transcript EXCEPT ![t] = TrimTranscript(@, MaxEntries)]
            /\ UNCHANGED <<batch, idx, saved>>
        BY <2>15 DEF Finish, Batching
      <3>2. transcript[t] \in Seq(Entry) /\ CallsAnswered(transcript[t])
        BY <2>b, <3>1 DEF TypeOK
      <3>3. CallsAnswered(TrimTranscript(transcript[t], MaxEntries))
        BY <3>2, TrimAnswered, TurnAssumption
      <3>4. PairedAt(t)'
        BY <3>1, <3>3 DEF PairedAt, Goto, TypeOK
      <3>5. QED
        BY <3>1, <3>4, OtherTurns DEF Goto, TypeOK
    <2>16. ASSUME NEW t \in Turns, Save(t) PROVE PairInv'
      <3>1. /\ pc[t] \notin Batching /\ Goto(t, "ended") /\ "ended" \notin Batching
            /\ saved' = [saved EXCEPT ![SessionOf[t]] = transcript[t]]
            /\ UNCHANGED <<batch, idx, transcript>>
        BY <2>16 DEF Save, Batching
      <3>2. CallsAnswered(transcript[t])
        BY <2>b, <3>1
      <3>3. \A s \in Sessions : CallsAnswered(saved'[s])
        BY <3>1, <3>2 DEF PairInv, TypeOK
      <3>4. \A u \in Turns : PairedAt(u)'
        BY <3>1, <3>2 DEF PairInv, PairedAt, Answered, Goto, TypeOK
      <3>5. QED
        BY <3>3, <3>4 DEF PairInv
    <2>17. ASSUME UNCHANGED <<pc, batch, idx, transcript, saved>> PROVE PairInv'
      BY <2>17 DEF PairInv, PairedAt, Answered
    <2>18. CASE Environment \/ UNCHANGED vars
      BY <2>17, <2>18 DEF Environment, ChatQueue, Trip, Reset, AnomalyExpires, turnVars, vars
    <2>19. QED
      BY <2>1, <2>2, <2>3, <2>4, <2>5, <2>6, <2>7, <2>8, <2>10, <2>11, <2>12,
         <2>13, <2>14, <2>15, <2>16, <2>18
         DEF Next, TurnStep, Progress, Admission, LoopHead, Stream, ToolCall
  <1>3. TypeOK /\ PairInv => TranscriptPaired
    BY DEF PairInv, PairedAt, TranscriptPaired
  <1>4. QED
    BY Typing, <1>1, <1>2, <1>3, PTL DEF Spec

-----------------------------------------------------------------------------
(* Strikes. *)

\* While a turn is under way no call has struck out.
StruckAt(t) ==
  (\E g \in Sigs : errored[t][g] >= RepeatThreshold)
    => failed[t] /\ pc[t] \in Closing \cup {"ended"}

\* A step of a turn that is over, or that leaves its strikes alone and goes on
\* from where no call had struck out, keeps the property.
LEMMA StrikeKept ==
  ASSUME TypeOK, NEW t \in Turns, StruckAt(t), errored'[t] = errored[t],
         failed[t] => failed'[t],
         pc[t] \in Closing \cup {"ended"} => pc'[t] \in Closing \cup {"ended"}
  PROVE  StruckAt(t)'
  BY DEF StruckAt

\* A failed call below the threshold strikes nobody out.
LEMMA StrikeBelow ==
  ASSUME TypeOK, NEW t \in Turns, StruckAt(t), Strike(t), ~StruckOut(t),
         pc[t] \notin Closing \cup {"ended"}
  PROVE  StruckAt(t)'
  <1>1. \A g \in Sigs : errored[t][g] < RepeatThreshold
    BY TurnAssumption DEF StruckAt, TypeOK
  <1>2. PICK g : g = Sig(t)
    OBVIOUS
  <1>3. errored' = [errored EXCEPT ![t][g] = @ + 1]
    BY <1>2, Zenon DEF Strike
  <1>4. ~(errored[t][g] + 1 >= RepeatThreshold)
    BY <1>2 DEF StruckOut
  <1>5. errored[t] \in [Sigs -> Nat]
    BY DEF TypeOK
  <1>6. errored'[t] = [errored[t] EXCEPT ![g] = @ + 1]
    BY <1>3 DEF TypeOK
  <1>7. ASSUME NEW h \in Sigs PROVE errored'[t][h] < RepeatThreshold
    <2>1. CASE h = g
      BY <1>4, <1>5, <1>6, <2>1, TurnAssumption
    <2>2. CASE h # g
      BY <1>1, <1>5, <1>6, <2>2
    <2>3. QED
      BY <2>1, <2>2
  <1>8. ASSUME NEW h \in Sigs PROVE ~(errored'[t][h] >= RepeatThreshold)
    <2>1. errored'[t][h] \in Nat
      BY <1>5, <1>6
    <2>2. QED
      BY <1>7, <2>1, TurnAssumption
  <1>9. QED
    BY <1>8 DEF StruckAt

\* A call that failed RepeatThreshold times in a row ends its turn.
THEOREM Strikes == Spec => []StruckOutStops
  <1> DEFINE Inv == \A t \in Turns : StruckAt(t)
  <1>1. Init => Inv
    BY TurnAssumption DEF Init, StruckAt
  <1>2. TypeOK /\ TypeOK' /\ Inv /\ [Next]_vars => Inv'
    <2> SUFFICES ASSUME TypeOK, TypeOK', Inv, [Next]_vars, NEW u \in Turns
                 PROVE StruckAt(u)'
      OBVIOUS
    <2> USE DEF loopVars, callVars, history, sysVars
    <2>0. StruckAt(u)
      OBVIOUS
    <2>1. ASSUME errored' = errored, pc'[u] = pc[u], failed'[u] = failed[u]
          PROVE StruckAt(u)'
      BY <2>0, <2>1, StrikeKept
    <2>2. ASSUME NEW t \in Turns, pc[t] \notin Closing \cup {"ended"},
                 errored' = errored, failed[u] => failed'[u],
                 \A v \in Turns \ {t} : pc'[v] = pc[v]
          PROVE StruckAt(u)'
      BY <2>0, <2>2, StrikeKept
    <2>3. ASSUME NEW t \in Turns,
                 Start(t) \/ Refuse(t) \/ Admit(t) \/ Exhausted(t) \/ Halt(t)
                 \/ Drain(t) \/ Compacted(t)
          PROVE StruckAt(u)'
      <3>1. /\ pc[t] \notin Closing \cup {"ended"} /\ errored' = errored
            /\ failed[u] => failed'[u]
            /\ \A v \in Turns \ {t} : pc'[v] = pc[v]
        BY <2>3 DEF Start, Refuse, Admit, Exhausted, Halt, Drain, Compacted, Fail, Goto,
           Closing, TypeOK
      <3>2. QED
        BY <2>2, <3>1
    <2>4. ASSUME NEW t \in Turns, Stream(t)
          PROVE StruckAt(u)'
      <3>1. /\ pc[t] \notin Closing \cup {"ended"} /\ errored' = errored
            /\ failed[u] => failed'[u]
            /\ \A v \in Turns \ {t} : pc'[v] = pc[v]
        BY <2>4 DEF Stream, StreamError, StreamAnswer, StreamCut, StreamEmptyRetry,
           StreamEmptyFail, StreamRefused, RerouteAnswer, RerouteError, OverBudget,
           StreamToolCalls, Fail, Goto, Closing, TypeOK
      <3>2. QED
        BY <2>2, <3>1
    <2>5. ASSUME NEW t \in Turns,
                 BatchDone(t) \/ CallHalted(t) \/ CallRefused(t) \/ CallInvalid(t)
                 \/ CallChecked(t) \/ HookBlocked(t) \/ ToolStart(t) \/ ToolThrows(t)
                 \/ AfterTool(t) \/ Denied(t)
          PROVE StruckAt(u)'
      <3>1. /\ pc[t] \notin Closing \cup {"ended"} /\ errored' = errored
            /\ failed[u] => failed'[u]
            /\ \A v \in Turns \ {t} : pc'[v] = pc[v]
        BY <2>5 DEF BatchDone, CallHalted, CallRefused, CallInvalid, CallChecked,
           HookBlocked, ToolStart, ToolThrows, AfterTool, Denied, AtCall, Abort,
           Fail, Goto, Closing, TypeOK
      <3>2. QED
        BY <2>2, <3>1
    <2>6. ASSUME NEW t \in Turns, CallNudged(t) \/ ToolError(t) \/ Thrown(t)
          PROVE StruckAt(u)'
      <3>1. pc[t] \notin Closing \cup {"ended"} /\ Strike(t)
        BY <2>6 DEF CallNudged, ToolError, Thrown, AtCall, Closing
      <3>2. CASE u # t
        <4>1. errored'[u] = errored[u]
          <5>1. PICK g : g = Sig(t)
            OBVIOUS
          <5>2. errored' = [errored EXCEPT ![t][g] = @ + 1]
            BY <3>1, <5>1, Zenon DEF Strike
          <5>3. QED
            BY <3>2, <5>2 DEF TypeOK
        <4>2. /\ pc' = pc \/ \E l \in {"after", "batch", "finishing"} : Goto(t, l)
              /\ failed' = failed \/ failed' = [failed EXCEPT ![t] = TRUE]
          BY <2>6, Zenon DEF CallNudged, ToolError, Thrown, Abort, Fail
        <4>21. pc'[u] = pc[u] /\ failed'[u] = failed[u]
          BY <3>2, <4>2 DEF Goto, TypeOK
        <4>3. QED
          BY <2>0, <4>1, <4>21, StrikeKept
      <3>3. CASE u = t /\ ~StruckOut(t)
        BY <2>0, <3>1, <3>3, StrikeBelow
      <3>4. CASE u = t /\ StruckOut(t)
        <4>1. failed'[t] /\ pc'[t] = "finishing"
          BY SMTT(30), <2>6, <3>4 DEF CallNudged, ToolError, Thrown, Abort, Fail, Goto, TypeOK
        <4>2. QED
          BY <3>4, <4>1 DEF StruckAt, Closing
      <3>5. QED
        BY <3>2, <3>3, <3>4
    <2>7. ASSUME NEW t \in Turns, ToolOk(t) PROVE StruckAt(u)'
      <3>1. PICK g : g = Sig(t)
        OBVIOUS
      <3>2. errored' = [errored EXCEPT ![t][g] = 0]
        BY <2>7, <3>1, Zenon DEF ToolOk
      <3>3. /\ pc[t] = "running" /\ failed' = failed
            /\ \A v \in Turns \ {t} : pc'[v] = pc[v]
        BY <2>7 DEF ToolOk, Goto, TypeOK
      <3>4. CASE u # t
        BY <2>0, <3>2, <3>3, <3>4, StrikeKept DEF TypeOK
      <3>5. CASE u = t
        <4>1. \A h \in Sigs : ~(errored[t][h] >= RepeatThreshold)
          BY <2>0, <3>3, <3>5 DEF StruckAt, Closing
        <4>2. \A h \in Sigs : errored'[t][h] = errored[t][h] \/ errored'[t][h] = 0
          BY <3>2 DEF TypeOK
        <4>3. QED
          BY <3>5, <4>1, <4>2, TurnAssumption DEF StruckAt
      <3>6. QED
        BY <3>4, <3>5
    <2>8. ASSUME NEW t \in Turns, Finish(t) \/ Save(t) PROVE StruckAt(u)'
      <3>1. /\ errored' = errored /\ failed' = failed
            /\ pc'[t] \in Closing \cup {"ended"}
            /\ \A v \in Turns \ {t} : pc'[v] = pc[v]
        BY <2>8 DEF Finish, Save, Goto, Closing, TypeOK
      <3>2. QED
        BY <2>0, <3>1, StrikeKept
    <2>9. CASE Environment \/ UNCHANGED vars
      BY <2>1, <2>9 DEF Environment, ChatQueue, Trip, Reset, AnomalyExpires, turnVars, vars
    <2>10. QED
      BY <2>3, <2>4, <2>5, <2>6, <2>7, <2>8, <2>9
         DEF Next, TurnStep, Progress, LoopHead, ToolCall
  <1>3. Inv => StruckOutStops
    BY DEF StruckAt, StruckOutStops
  <1>4. QED
    BY Typing, <1>1, <1>2, <1>3, PTL DEF Spec

-----------------------------------------------------------------------------
(* The kill switch. *)

\* What a turn may have begun since the breaker opened, and from where nothing
\* more can begin.
KillAt(t) ==
  /\ breaker = "closed" => late[t]["tool"] = 0 /\ late[t]["model"] = 0
  /\ late[t]["tool"] # 0 => /\ late[t]["tool"] = 1 /\ late[t]["model"] = 0
                            /\ pc[t] \notin {"hook", "compacting", "streaming"}
  /\ late[t]["model"] # 0 => /\ late[t]["tool"] = 0
                             /\ pc[t] \notin {"hook", "compacting"}
                             /\ \/ late[t]["model"] = 1
                                \/ late[t]["model"] = 2 /\ pc[t] # "streaming"

\* A step that begins no call keeps it, unless it leads to where a call begins.
LEMMA KillKept ==
  ASSUME NEW t \in Turns, KillAt(t), late' = late,
         breaker' = "closed" => breaker = "closed",
         pc'[t] = pc[t] \/ pc'[t] \notin {"hook", "compacting", "streaming"}
  PROVE  KillAt(t)'
  BY DEF KillAt

\* Going on to where a call begins is possible only with the breaker closed.
LEMMA KillClosed ==
  ASSUME NEW t \in Turns, KillAt(t), late' = late, breaker = "closed"
  PROVE  KillAt(t)'
  BY DEF KillAt

\* Calls begun by one turn are not counted for another.
LEMMA BeginOther ==
  ASSUME TypeOK, NEW t \in Turns, NEW u \in Turns \ {t}, NEW w \in Work,
         Begin(t, w), KillAt(u), pc'[u] = pc[u], breaker' = breaker
  PROVE  KillAt(u)'
  <1>1. late'[u] = late[u]
    BY DEF Begin, TypeOK
  <1>2. QED
    BY <1>1 DEF KillAt

LEMMA BeginSelf ==
  ASSUME TypeOK, NEW t \in Turns, NEW w \in Work, Begin(t, w)
  PROVE  /\ breaker = "closed" => late' = late
         /\ breaker # "closed" => late'[t][w] = late[t][w] + 1
         /\ \A v \in Work \ {w} : late'[t][v] = late[t][v]
  <1>1. late[t] \in [Work -> Nat]
    BY DEF TypeOK
  <1>2. CASE breaker = "open"
    <2>1. late'[t] = [late[t] EXCEPT ![w] = @ + 1]
      BY <1>2 DEF Begin, TypeOK
    <2>2. QED
      BY <1>1, <1>2, <2>1
  <1>3. CASE breaker = "closed"
    BY <1>3 DEF Begin
  <1>4. QED
    BY <1>2, <1>3 DEF TypeOK

\* An open breaker is outrun by one tool call, or by one provider call and its
\* refusal fallback, and by nothing else.
THEOREM Kills == Spec => []KillBounded
  <1> DEFINE Inv == \A t \in Turns : KillAt(t)
  <1>1. Init => Inv
    BY DEF Init, KillAt, Work
  <1>2. TypeOK /\ TypeOK' /\ Inv /\ [Next]_vars => Inv'
    <2> SUFFICES ASSUME TypeOK, TypeOK', Inv, [Next]_vars, NEW u \in Turns
                 PROVE KillAt(u)'
      OBVIOUS
    <2> USE DEF loopVars, callVars, history, sysVars
    <2>0. KillAt(u) /\ late[u] \in [Work -> Nat] /\ Work = {"model", "tool"}
      BY DEF TypeOK, Work
    <2>1. ASSUME NEW t \in Turns,
                 Start(t) \/ Refuse(t) \/ Admit(t) \/ Exhausted(t) \/ Halt(t)
                 \/ Finish(t) \/ Save(t)
          PROVE KillAt(u)'
      <3>1. /\ late' = late /\ breaker' = breaker
            /\ pc'[u] = pc[u] \/ pc'[u] \notin {"hook", "compacting", "streaming"}
        BY <2>1 DEF Start, Refuse, Admit, Exhausted, Halt, Finish, Save, Fail, Goto, TypeOK
      <3>2. QED
        BY <2>0, <3>1, KillKept
    <2>2. ASSUME NEW t \in Turns,
                 StreamError(t) \/ StreamAnswer(t) \/ StreamCut(t)
                 \/ StreamEmptyRetry(t) \/ StreamEmptyFail(t) \/ RerouteAnswer(t)
                 \/ RerouteError(t) \/ OverBudget(t) \/ StreamToolCalls(t)
          PROVE KillAt(u)'
      <3>1. /\ late' = late /\ (breaker' = "closed" => breaker = "closed")
            /\ pc'[u] = pc[u] \/ pc'[u] \notin {"hook", "compacting", "streaming"}
        BY <2>2 DEF StreamError, StreamAnswer, StreamCut, StreamEmptyRetry,
           StreamEmptyFail, RerouteAnswer, RerouteError, OverBudget, StreamToolCalls,
           RecordAnomaly, Fail, Goto, TypeOK
      <3>2. QED
        BY <2>0, <3>1, KillKept
    <2>3. ASSUME NEW t \in Turns,
                 BatchDone(t) \/ CallHalted(t) \/ CallRefused(t) \/ CallNudged(t)
                 \/ CallInvalid(t) \/ HookBlocked(t) \/ ToolOk(t) \/ ToolError(t)
                 \/ ToolThrows(t) \/ AfterTool(t) \/ Denied(t) \/ Thrown(t)
          PROVE KillAt(u)'
      <3>1. /\ late' = late /\ breaker' = breaker
            /\ pc'[u] = pc[u] \/ pc'[u] \notin {"hook", "compacting", "streaming"}
        BY <2>3 DEF BatchDone, CallHalted, CallRefused, CallNudged, CallInvalid,
           HookBlocked, ToolOk, ToolError, ToolThrows, AfterTool, Denied, Thrown,
           AtCall, Abort, Fail, Goto, TypeOK
      <3>2. QED
        BY <2>0, <3>1, KillKept
    <2>4. ASSUME NEW t \in Turns, Drain(t) \/ CallChecked(t) PROVE KillAt(u)'
      <3>1. breaker = "closed" /\ late' = late
        BY <2>4 DEF Drain, CallChecked
      <3>2. QED
        BY <2>0, <3>1, KillClosed
    <2>5. ASSUME NEW t \in Turns, Compacted(t) \/ StreamRefused(t) PROVE KillAt(u)'
      <3>1. /\ Begin(t, "model") /\ breaker' = breaker
            /\ \/ pc[t] = "compacting" /\ Goto(t, "streaming")
               \/ pc[t] = "streaming" /\ Goto(t, "rerouting")
        BY <2>5 DEF Compacted, StreamRefused
      <3>2. CASE u # t
        BY <2>0, <3>1, <3>2, BeginOther DEF Goto, TypeOK
      <3>3. CASE u = t
        <4>1. /\ breaker = "closed" => late' = late
              /\ breaker # "closed" => late'[t]["model"] = late[t]["model"] + 1
              /\ late'[t]["tool"] = late[t]["tool"]
          BY <2>0, <3>1, BeginSelf
        <4>2. \/ pc[t] = "compacting" /\ pc'[t] = "streaming"
              \/ pc[t] = "streaming" /\ pc'[t] = "rerouting"
          BY <3>1 DEF Goto, TypeOK
        <4>3. late[t]["model"] \in Nat /\ late[t]["tool"] \in Nat
          BY <2>0, <3>3
        <4>4. QED
          BY <2>0, <3>1, <3>3, <4>1, <4>2, <4>3 DEF KillAt
      <3>4. QED
        BY <3>2, <3>3
    <2>6. ASSUME NEW t \in Turns, ToolStart(t) PROVE KillAt(u)'
      <3>1. /\ Begin(t, "tool") /\ breaker' = breaker
            /\ pc[t] = "hook" /\ Goto(t, "running")
        BY <2>6 DEF ToolStart
      <3>2. CASE u # t
        BY <2>0, <3>1, <3>2, BeginOther DEF Goto, TypeOK
      <3>3. CASE u = t
        <4>1. /\ breaker = "closed" => late' = late
              /\ breaker # "closed" => late'[t]["tool"] = late[t]["tool"] + 1
              /\ late'[t]["model"] = late[t]["model"]
          BY <2>0, <3>1, BeginSelf
        <4>2. pc[t] = "hook" /\ pc'[t] = "running"
          BY <3>1 DEF Goto, TypeOK
        <4>3. QED
          BY <2>0, <3>1, <3>3, <4>1, <4>2 DEF KillAt
      <3>4. QED
        BY <3>2, <3>3
    <2>7. CASE Reset
      BY <2>0, <2>7 DEF Reset, turnVars, KillAt
    <2>8. CASE (\E s \in Sessions : ChatQueue(s)) \/ Trip \/ AnomalyExpires \/ UNCHANGED vars
      <3>1. late' = late /\ pc' = pc /\ (breaker' = "closed" => breaker = "closed")
        BY <2>8 DEF ChatQueue, Trip, AnomalyExpires, turnVars, vars
      <3>2. QED
        BY <2>0, <3>1, KillKept
    <2>9. QED
      BY <2>1, <2>2, <2>3, <2>4, <2>5, <2>6, <2>7, <2>8
         DEF Next, TurnStep, Progress, LoopHead, Stream, ToolCall, Environment
  <1>3. TypeOK /\ Inv => KillBounded
    <2> SUFFICES ASSUME TypeOK, Inv, NEW t \in Turns
                 PROVE  /\ late[t]["tool"] <= 1 /\ late[t]["model"] <= 2
                        /\ late[t]["tool"] = 0 \/ late[t]["model"] = 0
      BY DEF KillBounded
    <2>1. late[t]["tool"] \in Nat /\ late[t]["model"] \in Nat
      BY DEF TypeOK, Work
    <2>2. QED
      BY <2>1 DEF KillAt
  <1>4. QED
    BY Typing, <1>1, <1>2, <1>3, PTL DEF Spec

-----------------------------------------------------------------------------
(* The call budget. *)

Budget == MaxIterations * CallsPerIteration

LEMMA BudgetType == Budget \in Nat
  BY TurnAssumption DEF Budget

\* The calls of the current batch that may still run.
Left(t) ==
  IF pc[t] \in {"batch", "hook"} THEN Len(batch[t]) + 1 - idx[t]
  ELSE IF pc[t] \in {"running", "failing", "after"} THEN Len(batch[t]) - idx[t]
  ELSE 0

\* The calls run and still to run were counted, and while the loop goes on the
\* count is within the budget.
BudgetAt(t) ==
  /\ pc[t] \notin Closing \cup {"ended"} => total[t] <= Budget
  /\ ran[t] <= Budget
  /\ Left(t) \in Nat /\ ran[t] + Left(t) <= total[t]
  /\ pc[t] = "hook" => Left(t) > 0

\* A step that runs nothing and does not add to what is left keeps it.
LEMMA BudgetKept ==
  ASSUME TypeOK, TypeOK', NEW t \in Turns, BudgetAt(t),
         ran'[t] = ran[t], total'[t] = total[t],
         Left(t)' \in Nat, Left(t)' <= Left(t),
         pc[t] \in Closing \cup {"ended"} => pc'[t] \in Closing \cup {"ended"},
         pc'[t] = "hook" => Left(t)' > 0
  PROVE  BudgetAt(t)'
  <1>1. /\ total[t] \in Nat /\ ran[t] \in Nat
    BY DEF TypeOK
  <1>2. Left(t) \in Nat /\ ran[t] + Left(t) <= total[t]
    BY DEF BudgetAt
  <1>3. ran'[t] + Left(t)' <= total'[t]
    BY <1>1, <1>2
  <1>4. QED
    BY <1>3 DEF BudgetAt

\* A step of one turn leaves the batch and the counters of the others alone.
LEMMA OneTurn ==
  ASSUME TypeOK, NEW t \in Turns, TurnStep(t), NEW u \in Turns \ {t}
  PROVE  /\ pc'[u] = pc[u] /\ idx'[u] = idx[u] /\ batch'[u] = batch[u]
         /\ ran'[u] = ran[u] /\ total'[u] = total[u]
  <1> USE DEF loopVars, callVars, history, sysVars, Goto, Fail, TypeOK
  <1>1. CASE Start(t) \/ Refuse(t) \/ Admit(t) \/ Finish(t) \/ Save(t)
    BY <1>1 DEF Start, Refuse, Admit, Finish, Save
  <1>2. CASE LoopHead(t)
    BY <1>2 DEF LoopHead, Exhausted, Halt, Drain, Compacted
  <1>3. CASE Stream(t)
    <2>1. CASE OverBudget(t)
      <3>1. PICK b \in Batches : total' = [total EXCEPT ![t] = @ + Len(b)]
        BY <2>1 DEF OverBudget
      <3>2. QED
        BY <2>1, <3>1 DEF OverBudget
    <2>2. CASE StreamToolCalls(t)
      <3>1. PICK b \in Batches : /\ total' = [total EXCEPT ![t] = @ + Len(b)]
                                  /\ batch' = [batch EXCEPT ![t] = b]
        BY <2>2 DEF StreamToolCalls
      <3>2. QED
        BY <2>2, <3>1 DEF StreamToolCalls
    <2>3. QED
      BY <1>3, <2>1, <2>2 DEF Stream, StreamError, StreamAnswer, StreamCut,
         StreamEmptyRetry, StreamEmptyFail, StreamRefused, RerouteAnswer, RerouteError
  <1>4. CASE ToolCall(t)
    <2>1. CASE BatchDone(t) \/ CallHalted(t) \/ CallRefused(t) \/ CallInvalid(t)
               \/ CallChecked(t) \/ HookBlocked(t) \/ ToolStart(t) \/ ToolThrows(t)
               \/ Denied(t)
      BY <2>1 DEF BatchDone, CallHalted, CallRefused, CallInvalid, CallChecked,
         HookBlocked, ToolStart, ToolThrows, Denied, Abort
    <2>2. CASE CallNudged(t)
      BY <2>2 DEF CallNudged, Abort, NextCall
    <2>3. CASE Thrown(t)
      BY <2>3 DEF Thrown, Abort, NextCall
    <2>4. CASE ToolOk(t) \/ AfterTool(t)
      BY <2>4 DEF ToolOk, AfterTool, NextCall
    <2>5. CASE ToolError(t)
      BY <2>5 DEF ToolError, Abort
    <2>6. QED
      BY <1>4, <2>1, <2>2, <2>3, <2>4, <2>5 DEF ToolCall
  <1>5. QED
    BY <1>1, <1>2, <1>3, <1>4 DEF TurnStep, Progress

\* The tools a turn runs were all admitted, within the budget.
THEOREM Budgets == Spec => []BudgetHeld
  <1> DEFINE Inv == \A t \in Turns : BudgetAt(t)
  <1>1. Init => Inv
    BY BudgetType DEF Init, BudgetAt, Left
  <1>2. TypeOK /\ TypeOK' /\ Inv /\ [Next]_vars => Inv'
    <2> SUFFICES ASSUME TypeOK, TypeOK', Inv, [Next]_vars, NEW u \in Turns
                 PROVE BudgetAt(u)'
      OBVIOUS
    <2> USE DEF loopVars, callVars, history, sysVars
    <2>0. /\ BudgetAt(u) /\ Left(u) \in Nat /\ 0 <= Left(u)
          /\ Len(batch[u]) \in Nat /\ idx[u] \in Nat
          /\ total[u] \in Nat /\ ran[u] \in Nat
      BY DEF TypeOK, BudgetAt
    <2>1. ASSUME pc'[u] = pc[u], ran'[u] = ran[u], total'[u] = total[u],
                 idx'[u] = idx[u], batch'[u] = batch[u]
          PROVE BudgetAt(u)'
      BY <2>0, <2>1 DEF BudgetAt, Left
    <2>2. ASSUME NEW t \in Turns, TurnStep(t), u # t PROVE BudgetAt(u)'
      BY <2>1, <2>2, OneTurn
    <2>3. ASSUME Start(u) \/ Refuse(u) \/ Admit(u) \/ Exhausted(u) \/ Halt(u) \/ Drain(u)
                 \/ Compacted(u)
          PROVE BudgetAt(u)'
      <3>1. /\ ran' = ran /\ total' = total
            /\ pc[u] \in {"idle", "admitting", "checkpoint", "compacting"}
            /\ pc'[u] \in {"admitting", "ended", "checkpoint", "finishing",
                           "compacting", "streaming"}
        BY <2>3 DEF Start, Refuse, Admit, Exhausted, Halt, Drain, Compacted, Fail, Goto,
           TypeOK
      <3>2. Left(u)' = 0
        BY <3>1 DEF Left
      <3>3. QED
        BY <2>0, <3>1, <3>2, BudgetKept DEF Closing
    <2>4. ASSUME StreamError(u) \/ StreamAnswer(u) \/ StreamCut(u) \/ StreamEmptyRetry(u)
                 \/ StreamEmptyFail(u) \/ StreamRefused(u) \/ RerouteAnswer(u)
                 \/ RerouteError(u)
          PROVE BudgetAt(u)'
      <3>1. /\ ran' = ran /\ total' = total /\ pc[u] \in {"streaming", "rerouting"}
            /\ pc'[u] \in {"finishing", "checkpoint", "rerouting"}
        BY <2>4 DEF StreamError, StreamAnswer, StreamCut, StreamEmptyRetry,
           StreamEmptyFail, StreamRefused, RerouteAnswer, RerouteError, Fail, Goto, TypeOK
      <3>2. Left(u)' = 0
        BY <3>1 DEF Left
      <3>3. QED
        BY <2>0, <3>1, <3>2, BudgetKept DEF Closing
    <2>5. ASSUME OverBudget(u) PROVE BudgetAt(u)'
      <3>1. PICK b \in Batches : total' = [total EXCEPT ![u] = @ + Len(b)]
        BY <2>5 DEF OverBudget
      <3>2. Len(b) \in Nat
        BY BatchesType
      <3>3. pc'[u] = "finishing" /\ ran' = ran
        BY <2>5 DEF OverBudget, Fail, Goto, TypeOK
      <3>4. total'[u] = total[u] + Len(b) /\ Left(u)' = 0
        BY <3>1, <3>3 DEF Left, TypeOK
      <3>5. ran[u] <= total[u] /\ ran[u] <= Budget
        BY <2>0, BudgetType DEF BudgetAt
      <3>6. ran'[u] + Left(u)' <= total'[u]
        BY <2>0, <3>2, <3>3, <3>4, <3>5
      <3>7. QED
        BY <3>3, <3>4, <3>5, <3>6 DEF BudgetAt, Closing
    <2>6. ASSUME StreamToolCalls(u) PROVE BudgetAt(u)'
      <3>1. PICK b \in Batches : /\ WithinBudget(u, b)
                                 /\ total' = [total EXCEPT ![u] = @ + Len(b)]
                                 /\ batch' = [batch EXCEPT ![u] = b]
        BY <2>6 DEF StreamToolCalls
      <3>2. Len(b) \in Nat
        BY BatchesType
      <3>3. /\ pc[u] = "streaming" /\ pc'[u] = "batch" /\ ran' = ran /\ idx'[u] = 1
        BY <2>6 DEF StreamToolCalls, Goto, TypeOK
      <3>4. /\ total'[u] = total[u] + Len(b) /\ batch'[u] = b
        BY <3>1 DEF TypeOK
      <3>5. Left(u)' = Len(b)
        BY <3>2, <3>3, <3>4 DEF Left
      <3>6. ran[u] <= total[u] /\ ran[u] <= Budget
        BY <2>0, BudgetType DEF BudgetAt
      <3>7. total'[u] <= Budget
        BY <3>1, <3>4 DEF WithinBudget, Budget
      <3>8. ran'[u] + Left(u)' <= total'[u]
        BY <2>0, <3>2, <3>3, <3>4, <3>5, <3>6
      <3>9. QED
        BY <3>2, <3>3, <3>5, <3>6, <3>7, <3>8 DEF BudgetAt
    <2>7. ASSUME BatchDone(u) \/ CallHalted(u) \/ CallRefused(u) \/ HookBlocked(u)
                 \/ Denied(u)
          PROVE BudgetAt(u)'
      <3>1. /\ ran' = ran /\ total' = total
            /\ pc[u] \in {"batch", "hook", "failing"}
            /\ pc'[u] \in {"checkpoint", "finishing"}
        BY <2>7 DEF BatchDone, CallHalted, CallRefused, HookBlocked, Denied, AtCall,
           Abort, Fail, Goto, TypeOK
      <3>2. Left(u)' = 0
        BY <3>1 DEF Left
      <3>3. QED
        BY <2>0, <3>1, <3>2, BudgetKept DEF Closing
    <2>8. ASSUME CallNudged(u) \/ Thrown(u) \/ ToolOk(u) \/ ToolError(u) \/ AfterTool(u)
          PROVE BudgetAt(u)'
      <3>1. /\ ran' = ran /\ total' = total /\ batch' = batch
            /\ \/ pc'[u] = "finishing"
               \/ pc[u] = "batch" /\ idx[u] <= Len(batch[u]) /\ pc'[u] = "batch"
                  /\ idx'[u] = idx[u] + 1
               \/ pc[u] \in {"failing", "after"} /\ pc'[u] = "batch"
                  /\ idx'[u] = idx[u] + 1
               \/ pc[u] = "running" /\ pc'[u] = "after" /\ idx'[u] = idx[u]
            /\ pc[u] \in Batching
        <4>1. CASE CallNudged(u)
          BY <4>1 DEF CallNudged, AtCall, Abort, NextCall, Fail, Goto, TypeOK, Batching
        <4>2. CASE Thrown(u)
          BY <4>2 DEF Thrown, Abort, NextCall, Fail, Goto, TypeOK, Batching
        <4>3. CASE ToolOk(u)
          BY <4>3 DEF ToolOk, Goto, TypeOK, Batching
        <4>4. CASE ToolError(u)
          BY <4>4 DEF ToolError, Abort, Fail, Goto, TypeOK, Batching
        <4>5. CASE AfterTool(u)
          BY <4>5 DEF AfterTool, NextCall, Goto, TypeOK, Batching
        <4>6. QED
          BY <2>8, <4>1, <4>2, <4>3, <4>4, <4>5
      <3>2. Left(u)' \in Nat /\ Left(u)' <= Left(u)
        <4>1. CASE pc'[u] = "finishing"
          BY <2>0, <4>1 DEF Left
        <4>2. CASE pc[u] = "running" /\ pc'[u] = "after" /\ idx'[u] = idx[u]
          BY <2>0, <3>1, <4>2 DEF Left
        <4>3. CASE pc[u] = "batch" /\ pc'[u] = "batch" /\ idx'[u] = idx[u] + 1
                   /\ idx[u] <= Len(batch[u])
          BY <2>0, <3>1, <4>3 DEF Left
        <4>4. CASE pc[u] \in {"failing", "after"} /\ pc'[u] = "batch"
                   /\ idx'[u] = idx[u] + 1
          <5>1. Left(u) = Len(batch[u]) - idx[u]
            BY <4>4 DEF Left
          <5>2. Left(u)' = Len(batch[u]) + 1 - (idx[u] + 1)
            BY <3>1, <4>4 DEF Left
          <5>3. QED
            BY <2>0, <5>1, <5>2
        <4>5. QED
          BY <3>1, <4>1, <4>2, <4>3, <4>4
      <3>3. pc[u] \notin Closing \cup {"ended"} /\ pc'[u] # "hook"
        BY <3>1 DEF Closing, Batching
      <3>4. QED
        BY <2>0, <3>1, <3>2, <3>3, BudgetKept
    <2>9. ASSUME CallInvalid(u) \/ CallChecked(u) \/ ToolThrows(u) PROVE BudgetAt(u)'
      <3>1. /\ ran' = ran /\ total' = total /\ batch' = batch /\ idx' = idx
            /\ \/ pc[u] = "batch" /\ idx[u] <= Len(batch[u])
                  /\ pc'[u] \in {"failing", "hook"}
               \/ pc[u] = "running" /\ pc'[u] = "failing"
        BY <2>9 DEF CallInvalid, CallChecked, ToolThrows, AtCall, Goto, TypeOK
      <3>2. Left(u)' \in Nat /\ Left(u)' <= Left(u) /\ (pc'[u] = "hook" => Left(u)' > 0)
        BY <2>0, <3>1 DEF Left
      <3>3. QED
        BY <2>0, <3>1, <3>2, BudgetKept DEF Closing
    <2>10. ASSUME ToolStart(u) PROVE BudgetAt(u)'
      <3>1. /\ ran'[u] = ran[u] + 1 /\ total' = total /\ batch' = batch /\ idx' = idx
            /\ pc[u] = "hook" /\ pc'[u] = "running"
        BY <2>10 DEF ToolStart, Goto, TypeOK
      <3>2. Left(u) > 0 /\ Left(u)' = Left(u) - 1
        BY SMTT(30), <2>0, <3>1 DEF Left, BudgetAt
      <3>3. total[u] <= Budget /\ ran[u] + Left(u) <= total[u]
        BY <2>0, <3>1 DEF BudgetAt, Closing
      <3>4. /\ Left(u)' \in Nat /\ ran'[u] + Left(u)' <= total'[u]
            /\ ran'[u] <= Budget /\ total'[u] <= Budget
        BY <2>0, <3>1, <3>2, <3>3, BudgetType
      <3>5. QED
        BY <3>1, <3>4 DEF BudgetAt
    <2>11. ASSUME Finish(u) \/ Save(u) PROVE BudgetAt(u)'
      <3>1. /\ ran' = ran /\ total' = total /\ pc'[u] \in {"saving", "ended"}
        BY <2>11 DEF Finish, Save, Goto, TypeOK
      <3>2. Left(u)' = 0
        BY <3>1 DEF Left
      <3>3. QED
        BY <2>0, <3>1, <3>2, BudgetKept DEF Closing
    <2>12. CASE Environment \/ UNCHANGED vars
      BY <2>1, <2>12 DEF Environment, ChatQueue, Trip, Reset, AnomalyExpires, turnVars, vars
    <2>13. QED
      BY <2>2, <2>3, <2>4, <2>5, <2>6, <2>7, <2>8, <2>9, <2>10, <2>11, <2>12
         DEF Next, TurnStep, Progress, LoopHead, Stream, ToolCall
  <1>3. TypeOK /\ Inv => BudgetHeld
    <2> SUFFICES ASSUME TypeOK, Inv, NEW t \in Turns
                 PROVE ran[t] <= total[t] /\ ran[t] <= Budget
      BY DEF BudgetHeld, Budget
    <2>1. ran[t] \in Nat /\ total[t] \in Nat
      BY DEF TypeOK
    <2>2. QED
      BY <2>1, BudgetType DEF BudgetAt
  <1>4. QED
    BY Typing, <1>1, <1>2, <1>3, PTL DEF Spec
-----------------------------------------------------------------------------
(* The frames a client is sent. *)

\* A turn is silent until its loop is over; a failed one has sent its error and
\* nothing else, and what is sent afterwards is at most the iteration limit.
SilentAt(t) ==
  /\ pc[t] \notin Closing \cup {"ended"} => sent[t] = <<>> /\ ~failed[t]
  /\ pc[t] = "finishing" => failed[t] \/ sent[t] \in {<<>>, <<"done">>}
  /\ sent[t] \in {<<>>, <<"done">>, <<"error">>, <<"done", "error">>, <<"error", "done">>}
  /\ failed[t] => sent[t] = <<"error">>

LEMMA Appended ==
  ASSUME NEW S, NEW e \in S, NEW f \in S
  PROVE  /\ Append(<<>>, f) = <<f>>
         /\ Append(<<e>>, f) = <<e, f>>
         /\ <<>> \o <<e, f>> = <<e, f>>
  <1>1. Append(<<>>, f) = <<f>>
    OBVIOUS
  <1>2. <<e>> \in Seq(S) /\ <<e, f>> \in Seq(S)
    OBVIOUS
  <1>3. PICK s \in Seq(S) : s = <<e>>
    BY <1>2, Zenon
  <1>4. Len(s) = 1 /\ s[1] = e
    BY <1>3
  <1>5. PICK d \in Seq(S) : d = <<e, f>>
    BY <1>2, Zenon
  <1>6. Len(d) = 2 /\ d[1] = e /\ d[2] = f
    BY <1>5
  <1>7. /\ Append(s, f) \in Seq(S) /\ Len(Append(s, f)) = 2
        /\ Append(s, f)[1] = e /\ Append(s, f)[2] = f
    <2>1. Append(s, f) \in Seq(S)
      OBVIOUS
    <2>2. PICK a \in Seq(S) : a = Append(s, f)
      BY <2>1, Zenon
    <2>3. Len(a) = Len(s) + 1 /\ a[Len(s) + 1] = f /\ \A k \in 1 .. Len(s) : a[k] = s[k]
      BY <2>2, AppendProperties
    <2>4. Len(a) = 2 /\ a[1] = e /\ a[2] = f
      BY <1>4, <2>3
    <2>5. QED
      BY <2>2, <2>4, Zenon
  <1>8. \A k \in 1 .. 2 : Append(s, f)[k] = d[k]
    BY <1>6, <1>7
  <1>9. Append(s, f) = d
    BY <1>6, <1>7, <1>8, SeqEqual
  <1>10. Append(<<e>>, f) = <<e, f>>
    BY <1>3, <1>5, <1>9, Zenon
  <1>11. <<>> \o <<e, f>> = <<e, f>>
    OBVIOUS
  <1>12. QED
    BY <1>1, <1>10, <1>11

\* A frame follows what was sent before it.
LEMMA FrameSent ==
  ASSUME NEW f \in {"done", "error"}
  PROVE  /\ Append(<<>>, f) = <<f>>
         /\ Append(<<"done">>, f) = <<"done", f>>
         /\ <<>> \o <<"error", f>> = <<"error", f>>
  <1>1. "done" \in {"done", "error"} /\ "error" \in {"done", "error"}
    OBVIOUS
  <1>2. QED
    BY <1>1, Appended, Zenon

\* A step that sends nothing and fails nothing keeps a turn's frames in order.
LEMMA SilentKept ==
  ASSUME NEW t \in Turns, SilentAt(t), sent'[t] = sent[t], failed'[t] = failed[t],
         pc'[t] \notin Closing \cup {"ended"} => pc[t] \notin Closing \cup {"ended"},
         pc'[t] = "finishing" => pc[t] \notin {"saving", "ended"}
  PROVE  SilentAt(t)'
  BY DEF SilentAt, Closing

\* A turn that fails, or is done, has been silent before.
LEMMA FailSilent ==
  ASSUME TypeOK, NEW t \in Turns, SilentAt(t), Fail(t),
         pc[t] \notin Closing \cup {"ended"}
  PROVE  SilentAt(t)'
  <1>1. sent[t] = <<>>
    BY DEF SilentAt
  <1>2. sent'[t] = Append(sent[t], "error") /\ failed'[t] /\ pc'[t] = "finishing"
    BY DEF Fail, Send, Goto, TypeOK
  <1>3. sent'[t] = <<"error">>
    BY <1>1, <1>2, FrameSent
  <1>4. QED
    BY <1>2, <1>3 DEF SilentAt, Closing

LEMMA DoneSilent ==
  ASSUME TypeOK, NEW t \in Turns, SilentAt(t), Send(t, "done"), Goto(t, "finishing"),
         failed' = failed, pc[t] \notin Closing \cup {"ended"}
  PROVE  SilentAt(t)'
  <1>1. sent[t] = <<>> /\ ~failed[t]
    BY DEF SilentAt
  <1>2. sent'[t] = Append(sent[t], "done") /\ ~failed'[t] /\ pc'[t] = "finishing"
    BY <1>1 DEF Send, Goto, TypeOK
  <1>3. sent'[t] = <<"done">>
    BY <1>1, <1>2, FrameSent
  <1>4. QED
    BY <1>2, <1>3 DEF SilentAt, Closing

\* Whatever the frames of a turn are, one of them at most is a done.
LEMMA OneFrame ==
  ASSUME NEW t \in Turns, SilentAt(t)
  PROVE  /\ Cardinality(Frames(t, "done")) <= 1
         /\ failed[t] => Frames(t, "error") # {}
  <1>1. \E k \in Nat : Frames(t, "done") \subseteq {k}
    <2>1. CASE sent[t] = <<>>
      BY <2>1 DEF Frames
    <2>2. CASE sent[t] = <<"done">>
      BY <2>2 DEF Frames
    <2>3. CASE sent[t] = <<"error">>
      BY <2>3 DEF Frames
    <2>4. CASE sent[t] = <<"done", "error">>
      <3>1. Frames(t, "done") \subseteq {1}
        BY <2>4 DEF Frames
      <3>2. QED
        BY <3>1
    <2>5. CASE sent[t] = <<"error", "done">>
      <3>1. Frames(t, "done") \subseteq {2}
        BY <2>5 DEF Frames
      <3>2. QED
        BY <3>1
    <2>6. QED
      BY <2>1, <2>2, <2>3, <2>4, <2>5 DEF SilentAt
  <1>2. Cardinality(Frames(t, "done")) <= 1
    <2>1. PICK k \in Nat : Frames(t, "done") \subseteq {k}
      BY <1>1
    <2>2. Frames(t, "done") = {} \/ Frames(t, "done") = {k}
      BY <2>1
    <2>3. Cardinality({}) = 0 /\ Cardinality({k}) = 1
      BY FS_EmptySet, FS_Singleton
    <2>4. QED
      BY <2>2, <2>3
  <1>3. ASSUME failed[t] PROVE Frames(t, "error") # {}
    <2>1. sent[t] = <<"error">>
      BY <1>3 DEF SilentAt
    <2>2. 1 \in Frames(t, "error")
      BY <2>1 DEF Frames
    <2>3. QED
      BY <2>2
  <1>4. QED
    BY <1>2, <1>3

\* A step of one turn sends nothing for the others and fails none of them.
LEMMA OwnFrames ==
  ASSUME TypeOK, NEW t \in Turns, TurnStep(t), NEW u \in Turns \ {t}
  PROVE  sent'[u] = sent[u] /\ failed'[u] = failed[u] /\ pc'[u] = pc[u]
  <1> USE DEF loopVars, Fail, Send, Goto, TypeOK
  <1>1. CASE Start(t) \/ Refuse(t) \/ Admit(t) \/ Finish(t) \/ Save(t) \/ LoopHead(t)
    BY SMTT(30), <1>1 DEF Start, Refuse, Admit, Finish, Save, LoopHead, Exhausted, Halt, Drain,
       Compacted
  <1>2. CASE Stream(t)
    BY <1>2 DEF Stream, StreamError, StreamAnswer, StreamCut, StreamEmptyRetry,
       StreamEmptyFail, StreamRefused, RerouteAnswer, RerouteError, OverBudget,
       StreamToolCalls
  <1>3. CASE ToolCall(t)
    BY SMTT(30), <1>3 DEF ToolCall, BatchDone, CallHalted, CallRefused, CallNudged, CallInvalid,
       CallChecked, HookBlocked, ToolStart, ToolOk, ToolError, ToolThrows, AfterTool,
       Denied, Thrown, Abort
  <1>4. QED
    BY <1>1, <1>2, <1>3 DEF TurnStep, Progress

\* A client is told once that a turn is done, and is told when it failed.
THEOREM Dones == Spec => []OneDone
  <1> DEFINE Inv == \A t \in Turns : SilentAt(t)
  <1>1. Init => Inv
    BY DEF Init, SilentAt, Closing
  <1>2. TypeOK /\ Inv /\ [Next]_vars => Inv'
    <2> SUFFICES ASSUME TypeOK, Inv, [Next]_vars, NEW u \in Turns
                 PROVE SilentAt(u)'
      OBVIOUS
    <2> USE DEF loopVars
    <2>0. SilentAt(u)
      OBVIOUS
    <2>1. ASSUME sent'[u] = sent[u], failed'[u] = failed[u], pc'[u] = pc[u]
          PROVE SilentAt(u)'
      BY <2>0, <2>1 DEF SilentAt
    <2>2. ASSUME NEW t \in Turns, TurnStep(t), t # u PROVE SilentAt(u)'
      BY <2>1, <2>2, OwnFrames
    <2>3. ASSUME sent' = sent, failed' = failed, pc[u] \notin Closing \cup {"ended"},
                 NEW l \in Location, Goto(u, l)
          PROVE SilentAt(u)'
      <3>1. pc'[u] = l
        BY <2>3 DEF Goto, TypeOK
      <3>2. QED
        BY <2>0, <2>3, <3>1, SilentKept DEF Closing
    <2>4. ASSUME Fail(u), pc[u] \notin Closing \cup {"ended"} PROVE SilentAt(u)'
      BY <2>0, <2>4, FailSilent
    <2>5. CASE Start(u) \/ Admit(u) \/ Exhausted(u) \/ Compacted(u) \/ StreamCut(u)
               \/ StreamEmptyRetry(u) \/ StreamRefused(u) \/ StreamToolCalls(u)
      <3>1. /\ sent' = sent /\ failed' = failed /\ pc[u] \notin Closing \cup {"ended"}
            /\ \E l \in Location : Goto(u, l)
        BY <2>5 DEF Start, Admit, Exhausted, Compacted, StreamCut, StreamEmptyRetry,
           StreamRefused, StreamToolCalls, Closing, Location, Looping, Batching
      <3>2. QED
        BY <2>3, <3>1
    <2>6. CASE BatchDone(u) \/ CallInvalid(u) \/ CallChecked(u) \/ ToolStart(u)
               \/ ToolOk(u) \/ ToolThrows(u) \/ AfterTool(u)
      <3>1. /\ sent' = sent /\ failed' = failed /\ pc[u] \notin Closing \cup {"ended"}
            /\ \E l \in Location : Goto(u, l)
        BY <2>6 DEF BatchDone, CallInvalid, CallChecked, ToolStart, ToolOk, ToolThrows,
           AfterTool, AtCall, Closing, Location, Looping, Batching
      <3>2. QED
        BY <2>3, <3>1
    <2>7. CASE Halt(u) \/ StreamError(u) \/ StreamEmptyFail(u) \/ RerouteError(u)
               \/ OverBudget(u) \/ CallHalted(u) \/ CallRefused(u) \/ HookBlocked(u)
               \/ Denied(u)
      <3>1. Fail(u) /\ pc[u] \notin Closing \cup {"ended"}
        BY <2>7 DEF Halt, StreamError, StreamEmptyFail, RerouteError, OverBudget,
           CallHalted, CallRefused, HookBlocked, Denied, AtCall, Abort, Closing
      <3>2. QED
        BY <2>4, <3>1
    <2>8. CASE CallNudged(u) \/ ToolError(u) \/ Thrown(u)
      <3>1. pc[u] \notin Closing \cup {"ended"}
        BY <2>8 DEF CallNudged, ToolError, Thrown, AtCall, Closing
      <3>2. \/ Fail(u)
            \/ /\ sent' = sent /\ failed' = failed
               /\ pc' = pc \/ Goto(u, "after") \/ Goto(u, "batch")
        BY <2>8, Zenon DEF CallNudged, ToolError, Thrown, Abort
      <3>3. CASE Fail(u)
        BY <2>4, <3>1, <3>3
      <3>4. CASE sent' = sent /\ failed' = failed /\ pc' = pc
        BY <2>1, <3>4
      <3>5. CASE sent' = sent /\ failed' = failed /\ (Goto(u, "after") \/ Goto(u, "batch"))
        BY <2>3, <3>1, <3>5 DEF Location, Batching
      <3>6. QED
        BY <3>2, <3>3, <3>4, <3>5
    <2>9. CASE Drain(u)
      <3>1. pc[u] = "checkpoint"
        BY <2>9 DEF Drain
      <3>2. \/ Fail(u)
            \/ sent' = sent /\ failed' = failed
               /\ (Goto(u, "streaming") \/ Goto(u, "compacting"))
        BY <2>9, Zenon DEF Drain
      <3>3. QED
        BY <2>3, <2>4, <3>1, <3>2 DEF Location, Looping, Closing
    <2>10. CASE StreamAnswer(u) \/ RerouteAnswer(u)
      <3>1. /\ Send(u, "done") /\ Goto(u, "finishing") /\ failed' = failed
            /\ pc[u] \notin Closing \cup {"ended"}
        BY <2>10 DEF StreamAnswer, RerouteAnswer, Closing
      <3>2. QED
        BY <2>0, <3>1, DoneSilent
    <2>11. CASE Refuse(u)
      <3>1. /\ sent'[u] = sent[u] \o <<"error", "done">> /\ failed'[u] = failed[u]
            /\ pc[u] = "admitting" /\ pc'[u] = "ended"
        BY <2>11 DEF Refuse, Goto, TypeOK
      <3>2. sent[u] = <<>> /\ ~failed[u]
        BY <2>0, <3>1 DEF SilentAt, Closing
      <3>3. sent'[u] = <<"error", "done">>
        BY <3>1, <3>2, FrameSent
      <3>4. QED
        BY <3>1, <3>2, <3>3 DEF SilentAt, Closing
    <2>12. CASE Finish(u)
      <3>1. /\ pc[u] = "finishing" /\ pc'[u] = "saving" /\ failed'[u] = failed[u]
            /\ \/ sent'[u] = sent[u]
               \/ ~failed[u] /\ sent'[u] = Append(sent[u], "error")
        BY <2>12 DEF Finish, Send, Goto, TypeOK
      <3>2. CASE sent'[u] = sent[u]
        BY <2>0, <3>1, <3>2, SilentKept DEF Closing
      <3>3. CASE ~failed[u] /\ sent'[u] = Append(sent[u], "error")
        <4>1. sent[u] \in {<<>>, <<"done">>}
          BY <2>0, <3>1, <3>3 DEF SilentAt
        <4>2. sent'[u] \in {<<"error">>, <<"done", "error">>}
          BY <3>3, <4>1, FrameSent
        <4>3. QED
          BY <3>1, <3>3, <4>2 DEF SilentAt, Closing
      <3>4. QED
        BY <3>1, <3>2, <3>3
    <2>13. CASE Save(u)
      <3>1. /\ sent' = sent /\ failed' = failed /\ pc'[u] = "ended"
        BY <2>13 DEF Save, Goto, TypeOK
      <3>2. QED
        BY <2>0, <3>1, SilentKept
    <2>14. CASE Environment \/ UNCHANGED vars
      BY <2>1, <2>14 DEF Environment, ChatQueue, Trip, Reset, AnomalyExpires, turnVars, vars
    <2>15. QED
      BY <2>2, <2>5, <2>6, <2>7, <2>8, <2>9, <2>10, <2>11, <2>12, <2>13, <2>14
         DEF Next, TurnStep, Progress, LoopHead, Stream, ToolCall
  <1>3. Inv => OneDone
    BY OneFrame DEF OneDone
  <1>4. QED
    BY Typing, <1>1, <1>2, <1>3, PTL DEF Spec

-----------------------------------------------------------------------------
(* What the turns of a session share. *)

\* Either a kill token is queued, or every entry of the queue is a text.
LEMMA TextsAheadAll ==
  ASSUME NEW q \in Seq(Kinds), ~(TextsAhead(q) < Len(q))
  PROVE  TextsAhead(q) = Len(q)
  <1> DEFINE ahead == {k \in 1 .. Len(q) : \A j \in 1 .. k : q[j] = "text"}
  <1>1. Len(q) \in Nat
    OBVIOUS
  <1>2. IsFiniteSet(1 .. Len(q)) /\ Cardinality(1 .. Len(q)) = Len(q)
    BY SMTT(30), <1>1, FS_Interval
  <1>3. Cardinality(ahead) <= Cardinality(1 .. Len(q))
    BY <1>2, FS_Subset
  <1>4. TextsAhead(q) = Cardinality(ahead)
    BY DEF TextsAhead
  <1>5. QED
    BY <1>1, <1>2, <1>3, <1>4, TextsAheadType

\* The stored transcript that two turns write stays paired, and what is queued
\* for them leaves the queue into one of their transcripts or with the breaker.
THEOREM Sharing == Spec => SharedKept
  <1> DEFINE Leaves(s) ==
        pending'[s] # pending[s] /\ Len(pending'[s]) <= Len(pending[s])
          => \/ breaker' = "open"
             \/ \E t \in Turns :
                  /\ SessionOf[t] = s
                  /\ transcript'[t] = transcript[t] \o UserMessages(Len(pending[s]))
  <1>1. TypeOK /\ [Next]_vars => [\A s \in Sessions : Leaves(s)]_vars
    <2> SUFFICES ASSUME TypeOK, [Next]_vars, NEW s \in Sessions PROVE Leaves(s)
      OBVIOUS
    <2> USE DEF sysVars, turnVars
    <2>1. ASSUME pending'[s] = pending[s] PROVE Leaves(s)
      BY <2>1
    <2>2. ASSUME breaker' = "open" PROVE Leaves(s)
      BY <2>2
    <2>3. ASSUME NEW t \in Turns, Halt(t) PROVE Leaves(s)
      BY <2>2, <2>3 DEF Halt
    <2>4. ASSUME NEW t \in Turns, Drain(t) PROVE Leaves(s)
      <3> DEFINE q == pending[SessionOf[t]]
      <3>1. CASE SessionOf[t] # s
        <4>1. pending' = [pending EXCEPT ![SessionOf[t]] = <<>>]
          BY <2>4 DEF Drain, SetPending
        <4>2. pending'[s] = pending[s]
          BY <3>1, <4>1 DEF TypeOK
        <4>3. QED
          BY <2>1, <4>2
      <3>2. CASE SessionOf[t] = s /\ TextsAhead(q) < Len(q)
        BY <2>2, <2>4, <3>2 DEF Drain
      <3>3. CASE SessionOf[t] = s /\ ~(TextsAhead(q) < Len(q))
        <4>1. q \in Seq(Kinds)
          BY <3>3 DEF TypeOK
        <4>2. TextsAhead(q) = Len(q)
          BY <3>3, <4>1, TextsAheadAll
        <4>3. transcript'[t] = transcript[t] \o UserMessages(TextsAhead(q))
          BY <2>4 DEF Drain, Push, TypeOK
        <4>4. QED
          BY <3>3, <4>2, <4>3
      <3>4. QED
        BY <3>1, <3>2, <3>3
    <2>5. ASSUME NEW r \in Sessions, ChatQueue(r) PROVE Leaves(s)
      <3>1. CASE breaker' = "open"
        BY <2>2, <3>1
      <3>2. CASE SetPending(r, Append(pending[r], "text"))
        <4>1. pending[r] \in Seq(Kinds)
          BY DEF TypeOK
        <4>2. Len(Append(pending[r], "text")) = Len(pending[r]) + 1
          BY <4>1
        <4>3. CASE r = s
          <5>1. pending'[s] = Append(pending[s], "text")
            BY <3>2, <4>3 DEF SetPending, TypeOK
          <5>2. ~(Len(pending'[s]) <= Len(pending[s]))
            BY <4>1, <4>2, <4>3, <5>1
          <5>3. QED
            BY <5>2
        <4>4. CASE r # s
          BY <2>1, <3>2, <4>4 DEF SetPending, TypeOK
        <4>5. QED
          BY <4>3, <4>4
      <3>3. QED
        BY <2>5, <3>1, <3>2 DEF ChatQueue
    <2>6. ASSUME NEW t \in Turns,
                 Start(t) \/ Refuse(t) \/ Admit(t) \/ Finish(t) \/ Save(t)
                 \/ Exhausted(t) \/ Compacted(t) \/ Stream(t)
          PROVE Leaves(s)
      <3>1. pending' = pending
        BY <2>6 DEF Start, Refuse, Admit, Finish, Save, Exhausted, Compacted, Stream,
           StreamError, StreamAnswer, StreamCut, StreamEmptyRetry, StreamEmptyFail,
           StreamRefused, RerouteAnswer, RerouteError, OverBudget, StreamToolCalls
      <3>2. QED
        BY <2>1, <3>1
    <2>7. ASSUME NEW t \in Turns, ToolCall(t) PROVE Leaves(s)
      <3>1. pending' = pending
        BY <2>7 DEF ToolCall, BatchDone, CallHalted, CallRefused, CallNudged,
           CallInvalid, CallChecked, HookBlocked, ToolStart, ToolOk, ToolError,
           ToolThrows, AfterTool, Denied, Thrown
      <3>2. QED
        BY <2>1, <3>1
    <2>8. CASE Trip \/ Reset \/ AnomalyExpires \/ UNCHANGED vars
      BY <2>1, <2>8 DEF Trip, Reset, AnomalyExpires, vars
    <2>9. QED
      BY <2>3, <2>4, <2>5, <2>6, <2>7, <2>8
         DEF Next, TurnStep, Progress, LoopHead, Environment
  <1>2. QED
    BY Typing, Pairing, <1>1, PTL DEF Spec, SharedKept, QueueLeaves
=============================================================================
