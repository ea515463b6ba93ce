---------------------------- MODULE GatewayProofs ----------------------------
(***************************************************************************)
(* Theorems about connections, sessions and questions, for any number of   *)
(* connections, sessions and turns and any cap on the owned sessions.      *)
(***************************************************************************)
EXTENDS Gateway, FiniteSetTheorems, SequenceTheorems, TLAPS

\* A sequence is as long as its set of elements just in case none repeats.
LEMMA NoRepeats ==
  ASSUME NEW S, NEW s \in Seq(S)
  PROVE  Cardinality(ToSet(s)) = Len(s) <=> \A i, j \in DOMAIN s : s[i] = s[j] => i = j
  <1>1. DOMAIN s = 1 .. Len(s) /\ Len(s) \in Nat
    OBVIOUS
  <1>a. IsFiniteSet(1 .. Len(s)) /\ Cardinality(1 .. Len(s)) = Len(s)
    <2>1. 1 \in Int /\ Len(s) \in Int
      BY <1>1
    <2>2. IsFiniteSet(1 .. Len(s))
          /\ Cardinality(1 .. Len(s)) = IF 1 > Len(s) THEN 0 ELSE Len(s) - 1 + 1
      BY <2>1, FS_Interval
    <2>3. QED
      BY <1>1, <2>2
  <1>2. s \in Surjection(1 .. Len(s), ToSet(s))
    BY <1>1 DEF Surjection, ToSet
  <1>3. Cardinality(ToSet(s)) = Len(s) <=> s \in Injection(1 .. Len(s), ToSet(s))
    BY <1>a, <1>2, FS_Surjection
  <1>4. s \in [1 .. Len(s) -> ToSet(s)]
    BY <1>1 DEF ToSet
  <1>5. QED
    BY <1>1, <1>3, <1>4 DEF Injection, IsInjective

\* What is left of a sequence without repetition when one element is removed.
LEMMA Removed ==
  ASSUME NEW S, NEW s \in Seq(S), NEW k \in DOMAIN s,
         \A i, j \in DOMAIN s : s[i] = s[j] => i = j
  PROVE  LET r == RemoveAt(s, k)
         IN /\ r \in Seq(S) /\ Len(r) = Len(s) - 1
            /\ ToSet(r) = ToSet(s) \ {s[k]}
            /\ \A i, j \in DOMAIN r : r[i] = r[j] => i = j
  <1> DEFINE r == RemoveAt(s, k)
             At(i) == IF i < k THEN i ELSE i + 1
  <1>1. DOMAIN s = 1 .. Len(s) /\ Len(s) \in Nat /\ k \in 1 .. Len(s)
    OBVIOUS
  <1>2. /\ r \in Seq(S) /\ Len(r) = Len(s) - 1 /\ DOMAIN r = 1 .. Len(s) - 1
        /\ \A i \in 1 .. Len(s) - 1 : At(i) \in DOMAIN s /\ r[i] = s[At(i)]
    <2> DEFINE a == SubSeq(s, 1, k - 1)
               b == SubSeq(s, k + 1, Len(s))
    <2>1. /\ a \in Seq(S) /\ Len(a) = k - 1
          /\ \A i \in 1 .. k - 1 : a[i] = s[i]
      <3>1. \A i \in 1 .. k - 1 : s[i] \in S
        BY <1>1
      <3>2. /\ a \in Seq(S)
            /\ Len(a) = IF 1 <= k - 1 THEN k - 1 - 1 + 1 ELSE 0
            /\ \A i \in 1 .. k - 1 - 1 + 1 : a[i] = s[1 + i - 1]
        BY <1>1, <3>1, SubSeqProperties
      <3>3. QED
        BY <1>1, <3>2
    <2>2. /\ b \in Seq(S) /\ Len(b) = Len(s) - k
          /\ \A i \in 1 .. Len(s) - k : b[i] = s[k + i]
      <3>1. \A i \in k + 1 .. Len(s) : s[i] \in S
        BY <1>1
      <3>2. /\ b \in Seq(S)
            /\ Len(b) = IF k + 1 <= Len(s) THEN Len(s) - (k + 1) + 1 ELSE 0
            /\ \A i \in 1 .. Len(s) - (k + 1) + 1 : b[i] = s[k + 1 + i - 1]
        BY <1>1, <3>1, SubSeqProperties
      <3>3. QED
        BY <1>1, <3>2
    <2>3. r = a \o b
      BY DEF RemoveAt
    <2> HIDE DEF a, b, r
    <2>a. /\ r \in Seq(S) /\ Len(r) = Len(a) + Len(b)
          /\ \A i \in 1 .. Len(a) + Len(b) :
               r[i] = IF i <= Len(a) THEN a[i] ELSE b[i - Len(a)]
      <3>1. a \in Seq(S) /\ b \in Seq(S)
        BY <2>1, <2>2
      <3>2. /\ a \o b \in Seq(S) /\ Len(a \o b) = Len(a) + Len(b)
            /\ \A i \in 1 .. Len(a) + Len(b) :
                 (a \o b)[i] = IF i <= Len(a) THEN a[i] ELSE b[i - Len(a)]
        BY <3>1, ConcatProperties
      <3>3. QED
        BY <2>3, <3>2
    <2>4. r \in Seq(S) /\ Len(r) = Len(s) - 1 /\ DOMAIN r = 1 .. Len(s) - 1
      <3>1. Len(r) = Len(s) - 1
        BY <1>1, <2>1, <2>2, <2>a
      <3>2. QED
        BY <2>a, <3>1
    <2>5. ASSUME NEW i \in 1 .. Len(s) - 1 PROVE At(i) \in DOMAIN s /\ r[i] = s[At(i)]
      <3>1. CASE i < k
        BY SMTT(30), <1>1, <2>1, <2>2, <2>a, <3>1
      <3>2. CASE ~(i < k)
        <4>1. i - (k - 1) \in 1 .. Len(s) - k /\ k + (i - (k - 1)) = i + 1
          BY <1>1, <3>2
        <4>2. r[i] = b[i - (k - 1)]
          BY SMTT(30), <1>1, <2>1, <2>2, <2>a, <3>2, <4>1
        <4>3. QED
          BY <1>1, <2>2, <3>2, <4>1, <4>2
      <3>3. QED
        BY <3>1, <3>2
    <2>6. QED
      BY <2>4, <2>5
  <1>3. \A i \in DOMAIN s : i # k => \E j \in 1 .. Len(s) - 1 : At(j) = i
    <2>1. SUFFICES ASSUME NEW i \in DOMAIN s, i # k
                   PROVE  \E j \in 1 .. Len(s) - 1 : At(j) = i
      OBVIOUS
    <2>2. CASE i < k
      BY <1>1, <2>2
    <2>3. CASE i > k
      <3>1. i - 1 \in 1 .. Len(s) - 1 /\ At(i - 1) = i
        BY <1>1, <2>3
      <3>2. QED
        BY <3>1
    <2>4. QED
      BY <1>1, <2>1, <2>2, <2>3
  <1>4. \A i, j \in 1 .. Len(s) - 1 : At(i) # k /\ (At(i) = At(j) => i = j)
    BY <1>1
  <1> HIDE DEF r, At
  <1>5. ToSet(r) = ToSet(s) \ {s[k]}
    <2>1. ToSet(r) \subseteq ToSet(s) \ {s[k]}
      BY <1>2, <1>4 DEF ToSet
    <2>2. ToSet(s) \ {s[k]} \subseteq ToSet(r)
      <3>1. SUFFICES ASSUME NEW i \in DOMAIN s, s[i] # s[k] PROVE s[i] \in ToSet(r)
        BY DEF ToSet
      <3>2. PICK j \in 1 .. Len(s) - 1 : At(j) = i
        BY <1>3, <3>1
      <3>3. j \in DOMAIN r /\ r[j] = s[i]
        BY <1>2, <3>2
      <3>4. QED
        BY <3>3 DEF ToSet
    <2>3. QED
      BY <2>1, <2>2
  <1>6. \A i, j \in DOMAIN r : r[i] = r[j] => i = j
    BY <1>2, <1>4
  <1>7. QED
    BY <1>2, <1>5, <1>6 DEF r

\* What a sequence holds after an append of an element it does not hold.
LEMMA Added ==
  ASSUME NEW S, NEW s \in Seq(S), NEW e \in S, e \notin ToSet(s),
         \A i, j \in DOMAIN s : s[i] = s[j] => i = j
  PROVE  /\ Append(s, e) \in Seq(S) /\ Len(Append(s, e)) = Len(s) + 1
         /\ ToSet(Append(s, e)) = ToSet(s) \cup {e}
         /\ \A i, j \in DOMAIN Append(s, e) : Append(s, e)[i] = Append(s, e)[j] => i = j
  <1> DEFINE a == Append(s, e)
  <1>1. /\ a \in Seq(S) /\ Len(a) = Len(s) + 1 /\ DOMAIN a = DOMAIN s \cup {Len(s) + 1}
        /\ a[Len(s) + 1] = e
        /\ \A i \in DOMAIN s : a[i] = s[i]
    OBVIOUS
  <1>2. \A i \in DOMAIN s : s[i] # e
    BY DEF ToSet
  <1> HIDE DEF a
  <1>3. ToSet(a) = ToSet(s) \cup {e}
    BY <1>1 DEF ToSet
  <1>4. \A i, j \in DOMAIN a : a[i] = a[j] => i = j
    BY <1>1, <1>2
  <1>5. QED
    BY <1>1, <1>3, <1>4 DEF a

-----------------------------------------------------------------------------
(* The inductive invariant.  A turn that has been started has a session; a  *)
(* session with a client is owned by it, so that taking it over, closing    *)
(* its owner and evicting it find the questions that wait for it.           *)

Started == \A t \in Turns : status[t] # "new" => running[t] \in Sessions

GatewayInv == TypeOK /\ Started /\ ClientsLive /\ ParkedReachable /\ AnswersMatch

\* TypeOK with the owned sessions told apart by their positions.
LEMMA OwnedType ==
  TypeOK => /\ owned \in [Conns -> Seq(Sessions)]
            /\ \A c \in Conns : \A i, j \in DOMAIN owned[c] : owned[c][i] = owned[c][j] => i = j
            /\ \A c \in Conns : Len(owned[c]) <= Cap
  BY NoRepeats DEF TypeOK

\* A step that gives every connection a sequence of sessions within its cap
\* that repeats none keeps that part of the type.
LEMMA OwnedTyped ==
  ASSUME owned' \in [Conns -> Seq(Sessions)],
         \A c \in Conns : Len(owned'[c]) <= Cap,
         \A c \in Conns : \A i, j \in DOMAIN owned'[c] : owned'[c][i] = owned'[c][j] => i = j
  PROVE  \A c \in Conns : Len(owned'[c]) <= Cap /\ Cardinality(ToSet(owned'[c])) = Len(owned'[c])
  BY NoRepeats

\* Where the elements of a sequence are after an append.
LEMMA AppendAt ==
  ASSUME NEW S, NEW s \in Seq(S), NEW e \in S
  PROVE  /\ Append(s, e) \in Seq(S)
         /\ Len(Append(s, e)) = Len(s) + 1
         /\ DOMAIN Append(s, e) = DOMAIN s \cup {Len(s) + 1}
         /\ \A k \in DOMAIN s : Append(s, e)[k] = s[k]
         /\ Append(s, e)[Len(s) + 1] = e
  OBVIOUS

\* What cancelling the questions of S does to the turns.
LEMMA CancelStep ==
  ASSUME GatewayInv, NEW S \in SUBSET Turns, Cancel(S)
  PROVE  /\ status' \in [Turns -> {"new", "running", "asking", "done"}]
         /\ asked' \in [Turns -> Conns \cup {None}]
         /\ outcome' \in [Turns -> Seq(Outcome)]
         /\ UNCHANGED running /\ (\A t \in S : status[t] = "asking") => Started'
         /\ AnswersMatch'
         /\ \A t \in Turns \ S : /\ status'[t] = status[t]
                                /\ asked'[t] = asked[t]
                                /\ outcome'[t] = outcome[t]
         /\ \A t \in S : status'[t] = "running"
  <1>1. TypeOK
    BY DEF GatewayInv
  <1>2. \A t \in Turns : /\ status'[t] = IF t \in S THEN "running" ELSE status[t]
                         /\ asked'[t] = IF t \in S THEN None ELSE asked[t]
                         /\ outcome'[t] = IF t \in S THEN Settled(t, "cancelled", {})
                                                    ELSE outcome[t]
    BY DEF Cancel
  <1>3. \A t \in Turns :
          LET o == Settled(t, "cancelled", {})
          IN /\ o \in Seq(Outcome)
             /\ DOMAIN o = DOMAIN outcome[t] \cup {Len(outcome[t]) + 1}
             /\ \A k \in DOMAIN outcome[t] : o[k] = outcome[t][k]
             /\ o[Len(outcome[t]) + 1].how = "cancelled"
    <2>1. [how |-> "cancelled", to |-> {}] \in Outcome
      BY DEF Outcome
    <2>2. \A t \in Turns : outcome[t] \in Seq(Outcome)
      BY <1>1 DEF TypeOK
    <2>3. QED
      BY <2>1, <2>2, AppendAt DEF Settled
  <1>4. status' \in [Turns -> {"new", "running", "asking", "done"}]
        /\ asked' \in [Turns -> Conns \cup {None}]
    BY <1>1 DEF Cancel, TypeOK
  <1>5. outcome' \in [Turns -> Seq(Outcome)]
    <2>1. \A t \in Turns : outcome'[t] \in Seq(Outcome)
      BY <1>1, <1>2, <1>3 DEF TypeOK
    <2>2. QED
      BY <2>1 DEF Cancel
  <1>6. AnswersMatch'
    <2>1. SUFFICES ASSUME NEW t \in Turns, NEW k \in DOMAIN outcome'[t],
                          outcome'[t][k].how = "answered"
                   PROVE  outcome'[t][k].to = {<<t, k>>}
      BY DEF AnswersMatch
    <2>2. k \in DOMAIN outcome[t] /\ outcome'[t][k] = outcome[t][k]
      <3>1. CASE t \in S
        <4> DEFINE o == Settled(t, "cancelled", {})
        <4>1. /\ outcome'[t] = o
              /\ DOMAIN o = DOMAIN outcome[t] \cup {Len(outcome[t]) + 1}
              /\ \A n \in DOMAIN outcome[t] : o[n] = outcome[t][n]
              /\ o[Len(outcome[t]) + 1].how = "cancelled"
          BY <1>2, <1>3, <3>1
        <4> HIDE DEF o
        <4>2. k # Len(outcome[t]) + 1
          BY <2>1, <4>1
        <4>3. QED
          BY <2>1, <4>1, <4>2
      <3>2. CASE t \notin S
        BY <1>2, <2>1, <3>2
      <3>3. QED
        BY <3>1, <3>2
    <2>3. QED
      BY <2>1, <2>2 DEF GatewayInv, AnswersMatch
  <1>7. QED
    BY <1>2, <1>4, <1>5, <1>6 DEF GatewayInv, Started

\* What settling one question does to the turns.
LEMMA SettleStep ==
  ASSUME GatewayInv, NEW t \in Turns, NEW h, h \in {"answered", "unanswered"},
         NEW Q, Q \subseteq Question, Settle(t, h, Q),
         h = "answered" => Q = {Current(t)},
         status[t] = "asking", UNCHANGED <<connVars, running, seen>>
  PROVE  /\ GatewayInv'
         /\ \A u \in Turns \ {t} : outcome'[u] = outcome[u]
         /\ outcome'[t][Len(outcome'[t])].how = h
  <1>1. TypeOK
    BY DEF GatewayInv
  <1>2. \A u \in Turns : /\ status'[u] = IF u = t THEN "running" ELSE status[u]
                         /\ asked'[u] = IF u = t THEN None ELSE asked[u]
                         /\ outcome'[u] = IF u = t THEN Settled(t, h, Q) ELSE outcome[u]
    BY <1>1 DEF Settle, TypeOK
  <1>a. /\ Settled(t, h, Q) \in Seq(Outcome)
        /\ Len(Settled(t, h, Q)) = Len(outcome[t]) + 1
        /\ DOMAIN Settled(t, h, Q) = DOMAIN outcome[t] \cup {Len(outcome[t]) + 1}
        /\ \A k \in DOMAIN outcome[t] : Settled(t, h, Q)[k] = outcome[t][k]
        /\ Settled(t, h, Q)[Len(outcome[t]) + 1] = [how |-> h, to |-> Q]
    <2>1. [how |-> h, to |-> Q] \in Outcome /\ outcome[t] \in Seq(Outcome)
      BY <1>1 DEF Outcome, TypeOK
    <2>2. QED
      BY <2>1, AppendAt DEF Settled
  <1>3. TypeOK'
    <2>2. outcome' \in [Turns -> Seq(Outcome)]
      BY <1>1, <1>a DEF Settle, TypeOK
    <2>3. QED
      BY <1>1, <2>2 DEF TypeOK, Settle, connVars
  <1>4. Started'
    BY <1>2 DEF GatewayInv, Started
  <1>5. ClientsLive'
    BY DEF GatewayInv, ClientsLive, Owns, connVars
  <1>6. ParkedReachable'
    BY <1>2 DEF GatewayInv, ParkedReachable, Owns, Current, connVars
  <1>7. AnswersMatch'
    <2>1. SUFFICES ASSUME NEW u \in Turns, NEW k \in DOMAIN outcome'[u],
                          outcome'[u][k].how = "answered"
                   PROVE  outcome'[u][k].to = {<<u, k>>}
      BY DEF AnswersMatch
    <2>2. CASE u = t /\ k = Len(outcome[t]) + 1
      BY <1>2, <1>a, <2>1, <2>2 DEF Current
    <2>3. CASE ~(u = t /\ k = Len(outcome[t]) + 1)
      <3>1. k \in DOMAIN outcome[u] /\ outcome'[u][k] = outcome[u][k]
        BY <1>2, <1>a, <2>1, <2>3
      <3>2. QED
        BY <2>1, <3>1 DEF GatewayInv, AnswersMatch
    <2>4. QED
      BY <2>2, <2>3
  <1>8. outcome'[t][Len(outcome'[t])].how = h
    <2>1. outcome'[t] = Settled(t, h, Q) /\ Len(outcome'[t]) = Len(outcome[t]) + 1
      BY <1>2, <1>a
    <2>2. outcome'[t][Len(outcome[t]) + 1] = [how |-> h, to |-> Q]
      BY <1>a, <2>1
    <2>3. QED
      BY <2>1, <2>2
  <1>9. QED
    BY <1>2, <1>3, <1>4, <1>5, <1>6, <1>7, <1>8 DEF GatewayInv

-----------------------------------------------------------------------------
(* The steps of connections. *)

\* What ParkedReachable and ClientsLive say of a turn that waits.
LEMMA Waiting ==
  ASSUME GatewayInv, NEW t \in Turns, status[t] = "asking"
  PROVE  /\ running[t] \in Sessions
         /\ client[running[t]] = asked[t]
         /\ asked[t] \in open /\ asked[t] \in Conns /\ asked[t] # None
         /\ Owns(asked[t], running[t])
         /\ Current(t) \in seen[asked[t]]
  BY GatewayAssumption DEF GatewayInv, Started, ParkedReachable, TypeOK

\* The close callback.
LEMMA CloseStep ==
  ASSUME GatewayInv, NEW c \in Conns, Close(c)
  PROVE  GatewayInv'
  <1> DEFINE S == UNION {Parked(s) : s \in ToSet(owned[c])}
  <1>1. TypeOK /\ S \in SUBSET Turns /\ \A t \in S : status[t] = "asking"
    BY DEF GatewayInv, Parked
  <1>2. \A t \in Turns : status[t] = "asking" /\ Owns(c, running[t]) => t \in S
    BY DEF Parked, Owns
  <1>3. /\ c \in open /\ open' = open \ {c}
        /\ client' = [s \in Sessions |-> IF Owns(c, s) THEN None ELSE client[s]]
        /\ owned' = [owned EXCEPT ![c] = <<>>]
        /\ Cancel(S)
        /\ UNCHANGED <<running, seen>>
    BY DEF Close
  <1> HIDE DEF S
  <1>4. /\ status' \in [Turns -> {"new", "running", "asking", "done"}]
        /\ asked' \in [Turns -> Conns \cup {None}]
        /\ outcome' \in [Turns -> Seq(Outcome)]
        /\ Started' /\ AnswersMatch'
        /\ \A t \in Turns \ S : /\ status'[t] = status[t]
                                /\ asked'[t] = asked[t]
                                /\ outcome'[t] = outcome[t]
        /\ \A t \in S : status'[t] = "running"
    BY <1>1, <1>3, CancelStep
  <1>5. \A d \in Conns : owned'[d] = IF d = c THEN <<>> ELSE owned[d]
    BY <1>1, <1>3 DEF TypeOK
  <1>6. TypeOK'
    <2>1. owned' \in [Conns -> Seq(Sessions)]
      BY <1>1, <1>3 DEF TypeOK
    <2>2. \A d \in Conns : Len(owned'[d]) <= Cap
      BY <1>1, <1>5, OwnedType, GatewayAssumption
    <2>3. \A d \in Conns : \A i, j \in DOMAIN owned'[d] : owned'[d][i] = owned'[d][j] => i = j
      BY <1>1, <1>5, OwnedType
    <2>4. \A d \in Conns : Len(owned'[d]) <= Cap /\ Cardinality(ToSet(owned'[d])) = Len(owned'[d])
      BY <2>1, <2>2, <2>3, OwnedTyped
    <2>5. client' \in [Sessions -> Conns \cup {None}]
      BY <1>1, <1>3 DEF TypeOK
    <2>6. QED
      BY <1>1, <1>3, <1>4, <2>1, <2>4, <2>5 DEF TypeOK
  <1>7. ClientsLive'
    <2>1. SUFFICES ASSUME NEW s \in Sessions, client'[s] # None
                   PROVE  client'[s] \in open' /\ s \in ToSet(owned'[client'[s]])
      BY DEF ClientsLive, Owns
    <2>2. ~Owns(c, s) /\ client'[s] = client[s]
      BY <1>3, <2>1
    <2>3. client[s] \in open /\ client[s] \in Conns /\ Owns(client[s], s)
      BY <1>1, <2>1, <2>2 DEF GatewayInv, ClientsLive, TypeOK
    <2>4. QED
      BY <1>3, <1>5, <2>2, <2>3 DEF Owns
  <1>8. ParkedReachable'
    <2>1. SUFFICES ASSUME NEW t \in Turns, status'[t] = "asking"
                   PROVE  /\ asked'[t] = client'[running'[t]]
                          /\ asked'[t] \in open'
                          /\ running'[t] \in ToSet(owned'[asked'[t]])
                          /\ Current(t)' \in seen'[asked'[t]]
      BY DEF ParkedReachable, Owns
    <2>2. t \notin S /\ status[t] = "asking" /\ asked'[t] = asked[t] /\ outcome'[t] = outcome[t]
      BY <1>4, <2>1
    <2>3. ~Owns(c, running[t])
      BY <1>2, <2>2
    <2>4. QED
      BY <1>3, <1>5, <2>2, <2>3, Waiting DEF Owns, Current
  <1>9. QED
    BY <1>4, <1>6, <1>7, <1>8 DEF GatewayInv

\* chat.send claims a session: in both branches the connection gains s, loses
\* at most a session e that no question is parked on, and every question that
\* was parked on s goes.
LEMMA ClaimCases ==
  ASSUME GatewayInv, NEW c \in Conns, NEW s \in Sessions, ChatSendClaim(c, s)
  PROVE  \E E \in SUBSET Sessions, S \in SUBSET Turns :
           /\ c \in open /\ ~Owns(c, s) /\ s \notin E
           /\ \A e \in E : Parked(e) = {}
           /\ S = IF client[s] # None THEN Parked(s) ELSE {}
           /\ Cancel(S)
           /\ client' \in [Sessions -> Conns \cup {None}]
           /\ \A x \in Sessions : client'[x] = IF x = s THEN c ELSE IF x \in E THEN None ELSE client[x]
           /\ owned' = [owned EXCEPT ![c] = owned'[c]]
           /\ owned'[c] \in Seq(Sessions) /\ Len(owned'[c]) <= Cap
           /\ \A i, j \in DOMAIN owned'[c] : owned'[c][i] = owned'[c][j] => i = j
           /\ ToSet(owned'[c]) = (ToSet(owned[c]) \ E) \cup {s}
           /\ UNCHANGED <<open, running, seen>>
  <1> DEFINE S == IF client[s] # None THEN Parked(s) ELSE {}
  <1>1. TypeOK /\ S \in SUBSET Turns
    BY DEF GatewayInv, Parked
  <1>2. c \in open /\ ~Owns(c, s) /\ Claim(c, s) /\ UNCHANGED <<open, running, seen>>
    BY DEF ChatSendClaim
  <1>3. /\ owned[c] \in Seq(Sessions) /\ Len(owned[c]) <= Cap /\ Len(owned[c]) \in Nat
        /\ \A i, j \in DOMAIN owned[c] : owned[c][i] = owned[c][j] => i = j
    BY <1>1, OwnedType
  <1>4. s \notin ToSet(owned[c]) /\ ToSet(owned[c]) \subseteq Sessions
    BY <1>2, <1>3 DEF Owns, ToSet
  <1>5. CASE ~Full(c)
    <2>1. /\ owned' = [owned EXCEPT ![c] = Append(owned[c], s)]
          /\ client' = [client EXCEPT ![s] = c]
          /\ Cancel(S)
      BY <1>1, <1>2, <1>5 DEF Claim
    <2>2. owned'[c] = Append(owned[c], s) /\ owned' = [owned EXCEPT ![c] = owned'[c]]
      BY <1>1, <2>1 DEF TypeOK
    <2>3. /\ owned'[c] \in Seq(Sessions) /\ Len(owned'[c]) = Len(owned[c]) + 1
          /\ ToSet(owned'[c]) = ToSet(owned[c]) \cup {s}
          /\ \A i, j \in DOMAIN owned'[c] : owned'[c][i] = owned'[c][j] => i = j
      BY <1>3, <1>4, <2>2, Added
    <2>4. Len(owned'[c]) <= Cap
      BY <1>3, <1>5, <2>3, GatewayAssumption DEF Full
    <2>5. /\ client' \in [Sessions -> Conns \cup {None}]
          /\ \A x \in Sessions : client'[x] = IF x = s THEN c ELSE IF x \in {} THEN None ELSE client[x]
      BY <1>1, <2>1 DEF TypeOK
    <2> HIDE DEF S
    <2>6. QED
      <3>1. {} \in SUBSET Sessions /\ ToSet(owned'[c]) = (ToSet(owned[c]) \ {}) \cup {s}
        BY <2>3
      <3>2. QED
        BY <1>1, <1>2, <2>1, <2>2, <2>3, <2>4, <2>5, <3>1 DEF S
  <1>6. CASE Full(c)
    <2>1. PICK k \in DOMAIN owned[c] :
            /\ Oldest(c, k)
            /\ owned' = [owned EXCEPT ![c] = Append(RemoveAt(owned[c], k), s)]
            /\ client' = [client EXCEPT ![owned[c][k]] = None, ![s] = c]
            /\ Cancel(Parked(owned[c][k]) \cup S)
      BY <1>1, <1>2, <1>6 DEF Claim
    <2> DEFINE e == owned[c][k]
               r == RemoveAt(owned[c], k)
    <2>2. e \in Sessions /\ e # s /\ Parked(e) = {} /\ e \in ToSet(owned[c])
      BY <1>3, <1>4, <2>1 DEF Oldest, Evictable, ToSet
    <2>3. Cancel(S)
      <3>1. Parked(e) \cup S = S
        BY <2>2
      <3>2. QED
        BY <2>1, <3>1
    <2>4. owned'[c] = Append(r, s) /\ owned' = [owned EXCEPT ![c] = owned'[c]]
      BY <1>1, <2>1 DEF TypeOK
    <2>5. /\ r \in Seq(Sessions) /\ Len(r) = Len(owned[c]) - 1
          /\ ToSet(r) = ToSet(owned[c]) \ {e}
          /\ \A i, j \in DOMAIN r : r[i] = r[j] => i = j
      BY <1>3, Removed
    <2> HIDE DEF r
    <2>6. /\ owned'[c] \in Seq(Sessions) /\ Len(owned'[c]) = Len(r) + 1
          /\ ToSet(owned'[c]) = ToSet(r) \cup {s}
          /\ \A i, j \in DOMAIN owned'[c] : owned'[c][i] = owned'[c][j] => i = j
      <3>1. s \notin ToSet(r)
        BY <1>4, <2>5
      <3>2. QED
        BY <2>4, <2>5, <3>1, Added
    <2>7. Len(owned'[c]) <= Cap
      BY <1>3, <2>5, <2>6
    <2>8. /\ client' \in [Sessions -> Conns \cup {None}]
          /\ \A x \in Sessions : client'[x] = IF x = s THEN c ELSE IF x \in {e} THEN None ELSE client[x]
      BY <1>1, <2>1, <2>2 DEF TypeOK
    <2>9. {e} \in SUBSET Sessions /\ s \notin {e} /\ \A x \in {e} : Parked(x) = {}
      BY <2>2
    <2>10. ToSet(owned'[c]) = (ToSet(owned[c]) \ {e}) \cup {s}
      BY <2>5, <2>6
    <2> HIDE DEF S, e
    <2>11. QED
      BY <1>1, <1>2, <2>3, <2>4, <2>6, <2>7, <2>8, <2>9, <2>10 DEF S
  <1>7. QED
    BY <1>5, <1>6

LEMMA ClaimStep ==
  ASSUME GatewayInv, NEW c \in Conns, NEW s \in Sessions, ChatSendClaim(c, s)
  PROVE  GatewayInv'
  <1>1. PICK E \in SUBSET Sessions, S \in SUBSET Turns :
           /\ c \in open /\ ~Owns(c, s) /\ s \notin E
           /\ \A e \in E : Parked(e) = {}
           /\ S = IF client[s] # None THEN Parked(s) ELSE {}
           /\ Cancel(S)
           /\ client' \in [Sessions -> Conns \cup {None}]
           /\ \A x \in Sessions : client'[x] = IF x = s THEN c ELSE IF x \in E THEN None ELSE client[x]
           /\ owned' = [owned EXCEPT ![c] = owned'[c]]
           /\ owned'[c] \in Seq(Sessions) /\ Len(owned'[c]) <= Cap
           /\ \A i, j \in DOMAIN owned'[c] : owned'[c][i] = owned'[c][j] => i = j
           /\ ToSet(owned'[c]) = (ToSet(owned[c]) \ E) \cup {s}
           /\ UNCHANGED <<open, running, seen>>
    BY ClaimCases
  <1>2. TypeOK /\ \A t \in S : status[t] = "asking"
    BY <1>1 DEF GatewayInv, Parked
  <1>3. /\ status' \in [Turns -> {"new", "running", "asking", "done"}]
        /\ asked' \in [Turns -> Conns \cup {None}]
        /\ outcome' \in [Turns -> Seq(Outcome)]
        /\ Started' /\ AnswersMatch'
        /\ \A t \in Turns \ S : /\ status'[t] = status[t]
                                /\ asked'[t] = asked[t]
                                /\ outcome'[t] = outcome[t]
        /\ \A t \in S : status'[t] = "running"
    BY <1>1, <1>2, CancelStep
  <1>4. \A d \in Conns : d # c => owned'[d] = owned[d]
    BY <1>1, <1>2 DEF TypeOK
  <1>5. TypeOK'
    <2>1. owned' \in [Conns -> Seq(Sessions)]
      BY <1>1, <1>2 DEF TypeOK
    <2>2. \A d \in Conns : Len(owned'[d]) <= Cap
      BY <1>1, <1>2, <1>4, OwnedType
    <2>3. \A d \in Conns : \A i, j \in DOMAIN owned'[d] : owned'[d][i] = owned'[d][j] => i = j
      BY <1>1, <1>2, <1>4, OwnedType
    <2>4. \A d \in Conns : Len(owned'[d]) <= Cap /\ Cardinality(ToSet(owned'[d])) = Len(owned'[d])
      BY <2>1, <2>2, <2>3, OwnedTyped
    <2>5. QED
      BY <1>1, <1>2, <1>3, <2>1, <2>4 DEF TypeOK
  <1>6. ClientsLive'
    <2>1. SUFFICES ASSUME NEW x \in Sessions, client'[x] # None
                   PROVE  client'[x] \in open' /\ x \in ToSet(owned'[client'[x]])
      BY DEF ClientsLive, Owns
    <2>2. CASE x = s
      BY <1>1, <2>2
    <2>3. CASE x # s
      <3>1. x \notin E /\ client'[x] = client[x]
        BY <1>1, <2>1, <2>3
      <3>2. client[x] \in open /\ client[x] \in Conns /\ x \in ToSet(owned[client[x]])
        BY <1>2, <2>1, <3>1 DEF GatewayInv, ClientsLive, TypeOK, Owns
      <3>3. QED
        BY <1>1, <1>4, <2>3, <3>1, <3>2
    <2>4. QED
      BY <2>2, <2>3
  <1>7. ParkedReachable'
    <2>1. SUFFICES ASSUME NEW t \in Turns, status'[t] = "asking"
                   PROVE  /\ asked'[t] = client'[running'[t]]
                          /\ asked'[t] \in open'
                          /\ running'[t] \in ToSet(owned'[asked'[t]])
                          /\ Current(t)' \in seen'[asked'[t]]
      BY DEF ParkedReachable, Owns
    <2>2. t \notin S /\ status[t] = "asking" /\ asked'[t] = asked[t] /\ outcome'[t] = outcome[t]
      BY <1>3, <2>1
    <2>3. /\ running[t] \in Sessions /\ client[running[t]] = asked[t]
          /\ asked[t] \in open /\ asked[t] \in Conns /\ asked[t] # None
          /\ running[t] \in ToSet(owned[asked[t]])
          /\ Current(t) \in seen[asked[t]]
      BY <2>2, Waiting DEF Owns
    <2>4. t \in Parked(running[t])
      BY <2>2 DEF Parked
    <2>5. running[t] # s /\ running[t] \notin E
      BY <1>1, <2>2, <2>3, <2>4
    <2>6. asked'[t] = client'[running'[t]] /\ running'[t] \in ToSet(owned'[asked'[t]])
      BY <1>1, <1>4, <2>2, <2>3, <2>5
    <2>7. Current(t)' = Current(t)
      BY <2>2 DEF Current
    <2>8. QED
      BY <1>1, <2>2, <2>3, <2>6, <2>7
  <1>8. QED
    BY <1>3, <1>5, <1>6, <1>7 DEF GatewayInv

LEMMA ConnectStep ==
  ASSUME GatewayInv, NEW c \in Conns, Connect(c)
  PROVE  GatewayInv'
  <1>1. open' = open \cup {c} /\ UNCHANGED <<owned, client, running, status, asked, outcome, seen>>
    BY DEF Connect, turnVars
  <1>2. TypeOK' /\ Started' /\ AnswersMatch'
    BY <1>1 DEF GatewayInv, TypeOK, Started, AnswersMatch
  <1>3. ClientsLive' /\ ParkedReachable'
    BY <1>1 DEF GatewayInv, ClientsLive, ParkedReachable, Owns, Current
  <1>4. QED
    BY <1>2, <1>3 DEF GatewayInv

-----------------------------------------------------------------------------
(* The steps of turns. *)

LEMMA TurnStartStep ==
  ASSUME GatewayInv, NEW c \in Conns, NEW s \in Sessions, NEW t \in Turns, ChatSendTurn(c, s, t)
  PROVE  GatewayInv'
  <1>1. /\ status[t] = "new"
        /\ status' = [status EXCEPT ![t] = "running"]
        /\ running' = [running EXCEPT ![t] = s]
        /\ UNCHANGED <<open, owned, client, asked, outcome, seen>>
    BY DEF ChatSendTurn, connVars
  <1>2. TypeOK /\ TypeOK'
    BY <1>1 DEF GatewayInv, TypeOK
  <1>3. \A u \in Turns : /\ status'[u] = IF u = t THEN "running" ELSE status[u]
                         /\ running'[u] = IF u = t THEN s ELSE running[u]
    BY <1>1, <1>2 DEF TypeOK
  <1>4. Started' /\ AnswersMatch' /\ ClientsLive'
    BY <1>1, <1>3 DEF GatewayInv, Started, AnswersMatch, ClientsLive, Owns
  <1>5. ParkedReachable'
    BY <1>1, <1>3 DEF GatewayInv, ParkedReachable, Owns, Current
  <1>6. QED
    BY <1>2, <1>4, <1>5 DEF GatewayInv

LEMMA AskRefusedStep ==
  ASSUME GatewayInv, NEW t \in Turns, AskRefused(t)
  PROVE  /\ GatewayInv'
         /\ \A u \in Turns \ {t} : outcome'[u] = outcome[u]
         /\ outcome'[t][Len(outcome'[t])].how = "unanswered"
  <1>1. /\ status[t] = "running"
        /\ outcome' = [outcome EXCEPT ![t] = Settled(t, "unanswered", {})]
        /\ UNCHANGED <<open, owned, client, running, status, asked, seen>>
    BY DEF AskRefused, connVars
  <1>2. TypeOK
    BY DEF GatewayInv
  <1>3. \A u \in Turns : outcome'[u] = IF u = t THEN Settled(t, "unanswered", {}) ELSE outcome[u]
    BY <1>1, <1>2 DEF TypeOK
  <1>4. /\ Settled(t, "unanswered", {}) \in Seq(Outcome)
        /\ Len(Settled(t, "unanswered", {})) = Len(outcome[t]) + 1
        /\ DOMAIN Settled(t, "unanswered", {}) = DOMAIN outcome[t] \cup {Len(outcome[t]) + 1}
        /\ \A k \in DOMAIN outcome[t] : Settled(t, "unanswered", {})[k] = outcome[t][k]
        /\ Settled(t, "unanswered", {})[Len(outcome[t]) + 1] = [how |-> "unanswered", to |-> {}]
    <2>1. [how |-> "unanswered", to |-> {}] \in Outcome /\ outcome[t] \in Seq(Outcome)
      BY <1>2 DEF Outcome, TypeOK
    <2>2. QED
      BY <2>1, AppendAt DEF Settled
  <1>5. TypeOK'
    <2>1. outcome' \in [Turns -> Seq(Outcome)]
      BY <1>1, <1>2, <1>4 DEF TypeOK
    <2>2. QED
      BY <1>1, <1>2, <2>1 DEF TypeOK
  <1>6. Started' /\ ClientsLive'
    BY <1>1 DEF GatewayInv, Started, ClientsLive, Owns
  <1>7. ParkedReachable'
    BY <1>1, <1>3 DEF GatewayInv, ParkedReachable, Owns, Current
  <1>8. AnswersMatch'
    <2>1. SUFFICES ASSUME NEW u \in Turns, NEW k \in DOMAIN outcome'[u],
                          outcome'[u][k].how = "answered"
                   PROVE  outcome'[u][k].to = {<<u, k>>}
      BY DEF AnswersMatch
    <2>2. k \in DOMAIN outcome[u] /\ outcome'[u][k] = outcome[u][k]
      BY <1>3, <1>4, <2>1
    <2>3. QED
      BY <2>1, <2>2 DEF GatewayInv, AnswersMatch
  <1>9. outcome'[t][Len(outcome'[t])].how = "unanswered"
    <2>1. outcome'[t] = Settled(t, "unanswered", {}) /\ Len(outcome'[t]) = Len(outcome[t]) + 1
      BY <1>3, <1>4
    <2>2. outcome'[t][Len(outcome[t]) + 1] = [how |-> "unanswered", to |-> {}]
      BY <1>4, <2>1
    <2>3. QED
      BY <2>1, <2>2
  <1>10. QED
    BY <1>3, <1>5, <1>6, <1>7, <1>8, <1>9 DEF GatewayInv

LEMMA AskStep ==
  ASSUME GatewayInv, NEW t \in Turns, Ask(t)
  PROVE  GatewayInv'
  <1> DEFINE c == client[running[t]]
  <1>1. /\ status[t] = "running" /\ c # None
        /\ status' = [status EXCEPT ![t] = "asking"]
        /\ asked' = [asked EXCEPT ![t] = c]
        /\ seen' = [seen EXCEPT ![c] = @ \cup {Current(t)}]
        /\ UNCHANGED <<open, owned, client, running, outcome>>
    BY DEF Ask, connVars
  <1>2. TypeOK /\ running[t] \in Sessions
    BY <1>1 DEF GatewayInv, Started
  <1>3. c \in Conns /\ c \in open /\ running[t] \in ToSet(owned[c])
    BY <1>1, <1>2 DEF GatewayInv, ClientsLive, TypeOK, Owns
  <1>4. Current(t) \in Question
    <2>1. outcome[t] \in Seq(Outcome)
      BY <1>2 DEF TypeOK
    <2>2. Len(outcome[t]) + 1 \in Nat
      BY <2>1
    <2>3. QED
      BY <2>2 DEF Current, Question
  <1> HIDE DEF c
  <1>5. /\ \A u \in Turns : /\ status'[u] = IF u = t THEN "asking" ELSE status[u]
                            /\ asked'[u] = IF u = t THEN c ELSE asked[u]
        /\ \A d \in Conns : seen'[d] = IF d = c THEN seen[c] \cup {Current(t)} ELSE seen[d]
    BY <1>1, <1>2, <1>3 DEF TypeOK
  <1>6. TypeOK'
    <2>1. seen' \in [Conns -> SUBSET Question]
      BY <1>1, <1>2, <1>3, <1>4 DEF TypeOK
    <2>2. QED
      BY <1>1, <1>2, <1>3, <2>1 DEF TypeOK
  <1>7. Started' /\ ClientsLive' /\ AnswersMatch'
    BY <1>1, <1>2, <1>5 DEF GatewayInv, Started, ClientsLive, AnswersMatch, Owns
  <1>8. ParkedReachable'
    <2>1. SUFFICES ASSUME NEW u \in Turns, status'[u] = "asking"
                   PROVE  /\ asked'[u] = client'[running'[u]]
                          /\ asked'[u] \in open'
                          /\ running'[u] \in ToSet(owned'[asked'[u]])
                          /\ Current(u)' \in seen'[asked'[u]]
      BY DEF ParkedReachable, Owns
    <2>2. Current(u)' = Current(u)
      BY <1>1 DEF Current
    <2>3. CASE u = t
      BY <1>1, <1>3, <1>5, <2>2, <2>3 DEF c
    <2>4. CASE u # t
      <3>1. status[u] = "asking" /\ asked'[u] = asked[u]
        BY <1>5, <2>1, <2>4
      <3>2. QED
        BY <1>1, <1>5, <2>2, <3>1, Waiting DEF Owns
    <2>5. QED
      BY <2>3, <2>4
  <1>9. QED
    BY <1>6, <1>7, <1>8 DEF GatewayInv

LEMMA TurnEndsStep ==
  ASSUME GatewayInv, NEW t \in Turns, TurnEnds(t)
  PROVE  GatewayInv'
  <1>1. /\ status[t] = "running"
        /\ status' = [status EXCEPT ![t] = "done"]
        /\ UNCHANGED <<open, owned, client, running, asked, outcome, seen>>
    BY DEF TurnEnds, connVars
  <1>2. TypeOK /\ TypeOK'
    BY <1>1 DEF GatewayInv, TypeOK
  <1>3. \A u \in Turns : status'[u] = IF u = t THEN "done" ELSE status[u]
    BY <1>1, <1>2 DEF TypeOK
  <1>4. Started' /\ AnswersMatch' /\ ClientsLive' /\ ParkedReachable'
    BY <1>1, <1>3 DEF GatewayInv, Started, AnswersMatch, ClientsLive, ParkedReachable, Owns, Current
  <1>5. QED
    BY <1>2, <1>4 DEF GatewayInv

\* A question is answered, or its time is over.
LEMMA AnswerStep ==
  ASSUME GatewayInv, NEW c \in Conns, NEW q \in seen[c], UserAnswer(c, q)
  PROVE  /\ GatewayInv' /\ q[1] \in Turns
         /\ \A u \in Turns \ {q[1]} : outcome'[u] = outcome[u]
         /\ outcome'[q[1]][Len(outcome'[q[1]])].how = "answered"
  <1>1. q \in Question
    BY DEF GatewayInv, TypeOK
  <1>2. q[1] \in Turns /\ {q} \subseteq Question
    BY <1>1 DEF Question
  <1>3. /\ Settle(q[1], "answered", {q}) /\ {q} = {Current(q[1])} /\ status[q[1]] = "asking"
        /\ UNCHANGED <<connVars, running, seen>>
    BY DEF UserAnswer
  <1>4. QED
    BY <1>2, <1>3, SettleStep

LEMMA TimeoutStep ==
  ASSUME GatewayInv, NEW t \in Turns, Timeout(t)
  PROVE  /\ GatewayInv'
         /\ \A u \in Turns \ {t} : outcome'[u] = outcome[u]
         /\ outcome'[t][Len(outcome'[t])].how = "unanswered"
  <1>1. Settle(t, "unanswered", {}) /\ status[t] = "asking" /\ UNCHANGED <<connVars, running, seen>>
    BY DEF Timeout
  <1>2. {} \subseteq Question
    OBVIOUS
  <1>3. QED
    BY <1>1, <1>2, SettleStep

-----------------------------------------------------------------------------
(* The theorems. *)

LEMMA InitInv == Init => GatewayInv
  <1> SUFFICES ASSUME Init PROVE GatewayInv
    OBVIOUS
  <1>1. TypeOK
    <2>1. <<>> \in Seq(Sessions) /\ Len(<<>>) = 0 /\ DOMAIN <<>> = {}
      OBVIOUS
    <2>2. Cardinality(ToSet(<<>>)) = Len(<<>>)
      BY <2>1, NoRepeats
    <2>3. owned \in [Conns -> Seq(Sessions)]
          /\ \A c \in Conns : Len(owned[c]) <= Cap /\ Cardinality(ToSet(owned[c])) = Len(owned[c])
      BY <2>1, <2>2, GatewayAssumption DEF Init
    <2>4. QED
      BY <2>3 DEF Init, TypeOK
  <1>2. Started /\ ClientsLive /\ ParkedReachable /\ AnswersMatch
    BY DEF Init, Started, ClientsLive, ParkedReachable, AnswersMatch
  <1>3. QED
    BY <1>1, <1>2 DEF GatewayInv

LEMMA NextInv == GatewayInv /\ [Next]_vars => GatewayInv'
  <1> SUFFICES ASSUME GatewayInv, [Next]_vars PROVE GatewayInv'
    OBVIOUS
  <1>1. ASSUME NEW c \in Conns, Connect(c) PROVE GatewayInv'
    BY <1>1, ConnectStep
  <1>2. ASSUME NEW c \in Conns, Close(c) PROVE GatewayInv'
    BY <1>2, CloseStep
  <1>3. ASSUME NEW c \in Conns, Frame(c) PROVE GatewayInv'
    BY <1>3, ClaimStep, TurnStartStep, AnswerStep DEF Frame
  <1>4. ASSUME NEW t \in Turns, TurnStep(t) PROVE GatewayInv'
    BY <1>4, AskRefusedStep, AskStep, TimeoutStep, TurnEndsStep DEF TurnStep
  <1>5. CASE UNCHANGED vars
    BY <1>5 DEF vars, connVars, turnVars, GatewayInv, TypeOK, Started, ClientsLive,
                ParkedReachable, AnswersMatch, Owns, Current
  <1>6. QED
    BY <1>1, <1>2, <1>3, <1>4, <1>5 DEF Next

\* Every variable of the gateway keeps its type, a connection never owns more
\* sessions than its cap, nor one twice, and what waits can be reached.
THEOREM Invariance == Spec => []GatewayInv
  BY InitInv, NextInv, PTL DEF Spec

\* A session's sender belongs to an open connection that owns the session.
\* (attachMessageHandler, its close callback and handleChatSend)
THEOREM SendersLive == Spec => []ClientsLive
  <1>1. GatewayInv => ClientsLive
    BY DEF GatewayInv
  <1>2. QED
    BY <1>1, Invariance, PTL

\* An answer that comes late, twice, or after the next question was put is
\* never taken for the answer to another question.  (AskUserBroker.answer)
THEOREM AnswersTold == Spec => []AnswersMatch
  <1>1. GatewayInv => AnswersMatch
    BY DEF GatewayInv
  <1>2. QED
    BY <1>1, Invariance, PTL

\* Who may cancel the question a turn waits for: the connection that owned
\* the session closes, or another one takes the session over.
CancelledByOthers(t) ==
  /\ Len(outcome'[t]) > Len(outcome[t])
  /\ outcome'[t][Len(outcome'[t])].how = "cancelled"
  => \/ \E c \in open \ open' : Owns(c, running[t])
     \/ client'[running[t]] \notin {client[running[t]], None}

\* A step that settles one question, in another way, or none.
LEMMA OneSettled ==
  ASSUME TypeOK, NEW t \in Turns, NEW how,
         \A u \in Turns \ {t} : outcome'[u] = outcome[u],
         outcome'[t][Len(outcome'[t])].how = how, how # "cancelled"
  PROVE  \A u \in Turns : CancelledByOthers(u)
  <1>1. \A u \in Turns : Len(outcome[u]) \in Nat
    BY DEF TypeOK
  <1>2. QED
    BY <1>1 DEF CancelledByOthers

LEMMA NoneSettled ==
  ASSUME TypeOK, outcome' = outcome
  PROVE  \A u \in Turns : CancelledByOthers(u)
  <1>1. \A u \in Turns : Len(outcome[u]) \in Nat
    BY DEF TypeOK
  <1>2. QED
    BY <1>1 DEF CancelledByOthers

LEMMA CancelOnly ==
  ASSUME TypeOK, NEW S \in SUBSET Turns, Cancel(S),
         \A t \in S :
           \/ \E c \in open \ open' : Owns(c, running[t])
           \/ client'[running[t]] \notin {client[running[t]], None}
  PROVE  \A u \in Turns : CancelledByOthers(u)
  <1>1. \A u \in Turns : Len(outcome[u]) \in Nat
    BY DEF TypeOK
  <1>2. \A u \in Turns \ S : outcome'[u] = outcome[u]
    BY DEF Cancel
  <1>3. QED
    BY <1>1, <1>2 DEF CancelledByOthers

LEMMA CancelledStep == GatewayInv /\ [Next]_vars => \A t \in Turns : CancelledByOthers(t)
  <1> SUFFICES ASSUME GatewayInv, [Next]_vars PROVE \A t \in Turns : CancelledByOthers(t)
    OBVIOUS
  <1>a. TypeOK
    BY DEF GatewayInv
  <1>1. ASSUME NEW c \in Conns, Close(c) PROVE \A t \in Turns : CancelledByOthers(t)
    <2> DEFINE S == UNION {Parked(s) : s \in ToSet(owned[c])}
    <2>1. Cancel(S) /\ c \in open /\ open' = open \ {c}
      BY <1>1 DEF Close
    <2>2. S \in SUBSET Turns /\ \A t \in S : Owns(c, running[t])
      BY DEF Parked, Owns
    <2> HIDE DEF S
    <2>3. c \in open \ open'
      BY <2>1
    <2>4. QED
      BY <1>a, <2>1, <2>2, <2>3, CancelOnly
  <1>2. ASSUME NEW c \in Conns, NEW s \in Sessions, ChatSendClaim(c, s)
        PROVE  \A t \in Turns : CancelledByOthers(t)
    <2>1. PICK S \in SUBSET Turns :
            /\ ~Owns(c, s)
            /\ S = (IF client[s] # None THEN Parked(s) ELSE {})
            /\ Cancel(S)
            /\ client'[s] = c
      BY <1>2, ClaimCases
    <2>2. client[s] # c
      BY <1>a, <2>1, GatewayAssumption DEF GatewayInv, ClientsLive
    <2>3. c \notin {client[s], None} /\ \A t \in S : running[t] = s
      BY <2>1, <2>2, GatewayAssumption DEF Parked
    <2>4. QED
      BY <1>a, <2>1, <2>3, CancelOnly
  <1>3. ASSUME NEW c \in Conns, Connect(c) PROVE \A t \in Turns : CancelledByOthers(t)
    BY <1>a, <1>3, NoneSettled DEF Connect, turnVars
  <1>4. ASSUME NEW c \in Conns, NEW s \in Sessions, NEW t \in Turns, ChatSendTurn(c, s, t)
        PROVE  \A u \in Turns : CancelledByOthers(u)
    BY <1>a, <1>4, NoneSettled DEF ChatSendTurn
  <1>5. ASSUME NEW c \in Conns, NEW q \in seen[c], UserAnswer(c, q)
        PROVE  \A u \in Turns : CancelledByOthers(u)
    BY <1>a, <1>5, AnswerStep, OneSettled
  <1>6. ASSUME NEW t \in Turns, TurnStep(t) PROVE \A u \in Turns : CancelledByOthers(u)
    <2>1. CASE AskRefused(t)
      BY <1>a, <2>1, AskRefusedStep, OneSettled
    <2>2. CASE Timeout(t)
      BY <1>a, <2>2, TimeoutStep, OneSettled
    <2>3. CASE Ask(t)
      BY <1>a, <2>3, NoneSettled DEF Ask
    <2>4. CASE TurnEnds(t)
      BY <1>a, <2>4, NoneSettled DEF TurnEnds
    <2>5. QED
      BY <1>6, <2>1, <2>2, <2>3, <2>4 DEF TurnStep
  <1>7. CASE UNCHANGED vars
    BY <1>a, <1>7, NoneSettled DEF vars, turnVars
  <1>8. QED
    BY <1>1, <1>2, <1>3, <1>4, <1>5, <1>6, <1>7 DEF Next, Frame

\* Whoever a question waits for can answer it, and it waits until it is
\* answered, its time is over or its session is taken over: evictions spare
\* it.  (handleChatSend's eviction, AskUserBroker.cancelAllForSession)
THEOREM Questions == Spec => QuestionsServed
  <1>1. GatewayInv => TypeOK /\ ParkedReachable
    BY DEF GatewayInv
  <1>2. GatewayInv /\ [Next]_vars =>
          [\A t \in Turns :
             /\ Len(outcome'[t]) > Len(outcome[t])
             /\ outcome'[t][Len(outcome'[t])].how = "cancelled"
             => \/ \E c \in open \ open' : Owns(c, running[t])
                \/ client'[running[t]] \notin {client[running[t]], None}]_vars
    BY CancelledStep DEF CancelledByOthers
  <1>3. QED
    BY <1>1, <1>2, Invariance, PTL DEF Spec, QuestionsServed, EvictionSparesQuestions
=============================================================================
