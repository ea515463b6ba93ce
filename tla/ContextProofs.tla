---------------------------- MODULE ContextProofs ----------------------------
(***************************************************************************)
(* Theorems about what the model gets to see of a session, for any budget, *)
(* weights, caps and batches.                                              *)
(***************************************************************************)
EXTENDS Context, FilterTheorems, SequenceTheorems

-----------------------------------------------------------------------------
(* Sums. *)

LEMMA MinIs ==
  ASSUME NEW T \in SUBSET Nat, T # {}
  PROVE  Min(T) \in T /\ \A k \in T : Min(T) <= k
  BY LeastOf DEF Min

\* The running sums of n weights exist: those of the first m - 1 are extended.
LEMMA Summing ==
  ASSUME NEW n \in Nat, NEW w \in [1 .. n -> Nat]
  PROVE  \E f \in [0 .. n -> Nat] : f[0] = 0 /\ \A k \in 1 .. n : f[k] = f[k - 1] + w[k]
  <1> DEFINE Is(m, f) == f \in [0 .. m -> Nat] /\ f[0] = 0
                           /\ \A k \in 1 .. m : f[k] = f[k - 1] + w[k]
             Without == {m \in 0 .. n : ~ \E f : Is(m, f)}
  <1>1. SUFFICES ASSUME Without # {} PROVE FALSE
    <2>1. n \in 0 .. n
      OBVIOUS
    <2>2. CASE Without = {}
      <3>1. \E f : Is(n, f)
        BY <2>1, <2>2
      <3>2. QED
        BY <3>1
    <2>3. QED
      BY <2>2
  <1>2. PICK m \in Without : \A k \in Without : m <= k
    <2>1. Without \in SUBSET Nat
      OBVIOUS
    <2> HIDE DEF Without
    <2>2. QED
      BY <1>1, <2>1, LeastOf
  <1>3. m # 0
    <2>1. Is(0, [i \in 0 .. 0 |-> 0])
      OBVIOUS
    <2> HIDE DEF Is
    <2>2. QED
      BY <1>2, <2>1
  <1>4. m \in 1 .. n /\ m - 1 \in 0 .. n /\ m - 1 \notin Without
    <2>1. m \in 0 .. n
      OBVIOUS
    <2> HIDE DEF Without
    <2>2. QED
      BY <1>2, <1>3, <2>1
  <1>5. PICK g : Is(m - 1, g)
    <2> HIDE DEF Is
    <2>1. QED
      BY <1>4
  <1> DEFINE h == [i \in 0 .. m |-> IF i = m THEN g[m - 1] + w[m] ELSE g[i]]
  <1>6. g[m - 1] \in Nat /\ w[m] \in Nat
    BY <1>4, <1>5
  <1>7. /\ h \in [0 .. m -> Nat] /\ h[m] = g[m - 1] + w[m]
        /\ \A i \in 0 .. m - 1 : h[i] = g[i]
    BY <1>4, <1>5, <1>6
  <1> HIDE DEF h
  <1>8. ASSUME NEW k \in 1 .. m PROVE h[k] = h[k - 1] + w[k]
    <2>1. h[k - 1] = g[k - 1]
      BY <1>4, <1>7
    <2>2. CASE k = m
      BY <1>7, <2>1, <2>2
    <2>3. CASE k # m
      <3>1. k \in 1 .. m - 1 /\ k \in 0 .. m - 1
        BY <1>4, <2>3
      <3>2. h[k] = g[k] /\ g[k] = g[k - 1] + w[k]
        BY <1>5, <1>7, <3>1
      <3>3. QED
        BY <2>1, <3>2
    <2>4. QED
      BY <2>2, <2>3
  <1>9. h[0] = 0
    BY <1>4, <1>5, <1>7
  <1>10. Is(m, h)
    BY <1>7, <1>8, <1>9
  <1> HIDE DEF Is
  <1>11. QED
    BY <1>2, <1>10

\* The sums of the last entries of s, from one entry on.
Sums(f, s) ==
  /\ f \in [0 .. Len(s) -> Nat]
  /\ f[0] = 0
  /\ \A m \in 1 .. Len(s) : f[m] = f[m - 1] + s[Len(s) + 1 - m].w

\* What TokensFrom computes are these sums.
LEMMA SumsAre ==
  ASSUME NEW s \in Seq(Weighed)
  PROVE  \E f : Sums(f, s) /\ \A p \in 1 .. Len(s) + 1 : TokensFrom(s, p) = f[Len(s) + 1 - p]
  <1> DEFINE n == Len(s)
             Eq(g) == g = [m \in 0 .. n |-> IF m = 0 THEN 0 ELSE g[m - 1] + s[n + 1 - m].w]
             w == [k \in 1 .. n |-> s[n + 1 - k].w]
             sum == CHOOSE g : Eq(g)
  <1>1. n \in Nat
    OBVIOUS
  <1>2. \A k \in 1 .. n : s[n + 1 - k].w \in Nat
    <2>1. \A k \in 1 .. n : n + 1 - k \in 1 .. n
      BY <1>1
    <2>2. \A k \in 1 .. n : s[k] \in Weighed
      OBVIOUS
    <2>3. QED
      BY <2>1, <2>2 DEF Weighed
  <1>3. w \in [1 .. n -> Nat]
    BY <1>2
  <1>4. PICK f \in [0 .. n -> Nat] : f[0] = 0 /\ \A k \in 1 .. n : f[k] = f[k - 1] + w[k]
    <2> HIDE DEF n, w
    <2>1. QED
      BY <1>1, <1>3, Summing
  <1>5. \A k \in 1 .. n : f[k] = f[k - 1] + s[n + 1 - k].w
    BY <1>4
  <1>6. Eq(f)
    BY <1>1, <1>4, <1>5
  <1>7. Eq(sum)
    <2> HIDE DEF Eq
    <2>1. QED
      BY <1>6
  <1>8. \A p \in 1 .. n + 1 : TokensFrom(s, p) = sum[n + 1 - p]
    BY DEF TokensFrom
  <1> HIDE DEF sum, w
  <1>9. /\ sum[0] = 0 /\ sum = [m \in 0 .. n |-> sum[m]]
        /\ \A m \in 1 .. n : sum[m] = sum[m - 1] + s[n + 1 - m].w
    <2>1. sum = [m \in 0 .. n |-> IF m = 0 THEN 0 ELSE sum[m - 1] + s[n + 1 - m].w]
      BY <1>7
    <2>2. \A m \in 0 .. n : sum[m] = IF m = 0 THEN 0 ELSE sum[m - 1] + s[n + 1 - m].w
      BY <2>1
    <2>3. sum = [m \in 0 .. n |-> sum[m]]
      BY <2>1
    <2>4. QED
      BY <1>1, <2>2, <2>3
  <1>10. \A m \in 0 .. n : sum[m] \in Nat
    <2> DEFINE Bad == {m \in 0 .. n : sum[m] \notin Nat}
    <2>1. SUFFICES ASSUME Bad # {} PROVE FALSE
      OBVIOUS
    <2>2. PICK m \in Bad : \A k \in Bad : m <= k
      <3>1. Bad \in SUBSET Nat
        BY <1>1
      <3> HIDE DEF Bad
      <3>2. QED
        BY <2>1, <3>1, LeastOf
    <2>3. m \in 1 .. n /\ m - 1 \in 0 .. n /\ m - 1 \notin Bad
      BY <1>1, <1>9, <2>2
    <2>4. sum[m] = sum[m - 1] + s[n + 1 - m].w /\ sum[m - 1] \in Nat
      BY <1>9, <2>3
    <2>5. s[n + 1 - m].w \in Nat
      BY <1>2, <2>3
    <2>6. sum[m] \in Nat
      BY <2>4, <2>5
    <2>7. QED
      BY <2>2, <2>6
  <1>11. Sums(sum, s)
    BY <1>9, <1>10 DEF Sums
  <1>12. QED
    BY <1>8, <1>11

\* From the end no tokens, and each entry adds its own.
LEMMA TokensAre ==
  ASSUME NEW s \in Seq(Weighed)
  PROVE  /\ TokensFrom(s, Len(s) + 1) = 0
         /\ \A p \in 1 .. Len(s) + 1 : TokensFrom(s, p) \in Nat
         /\ \A p \in 1 .. Len(s) : TokensFrom(s, p) = TokensFrom(s, p + 1) + s[p].w
  <1>1. PICK f : Sums(f, s) /\ \A p \in 1 .. Len(s) + 1 : TokensFrom(s, p) = f[Len(s) + 1 - p]
    BY SumsAre
  <1>2. Len(s) \in Nat
    OBVIOUS
  <1>3. TokensFrom(s, Len(s) + 1) = 0
    BY <1>1, <1>2 DEF Sums
  <1>4. \A p \in 1 .. Len(s) + 1 : TokensFrom(s, p) \in Nat
    BY <1>1, <1>2 DEF Sums
  <1>5. ASSUME NEW p \in 1 .. Len(s)
        PROVE  TokensFrom(s, p) = TokensFrom(s, p + 1) + s[p].w
    <2> DEFINE m == Len(s) + 1 - p
    <2>1. m \in 1 .. Len(s) /\ m - 1 = Len(s) + 1 - (p + 1) /\ Len(s) + 1 - m = p
      BY <1>2
    <2>2. f[m] = f[m - 1] + s[Len(s) + 1 - m].w
      BY <1>1, <2>1 DEF Sums
    <2>3. p \in 1 .. Len(s) + 1 /\ p + 1 \in 1 .. Len(s) + 1
      BY <1>2
    <2>4. QED
      BY <1>1, <2>1, <2>2, <2>3
  <1>6. QED
    BY <1>3, <1>4, <1>5

\* The entries of a suffix.
LEMMA FromIs ==
  ASSUME NEW s \in Seq(Weighed), NEW p \in 1 .. Len(s) + 1
  PROVE  /\ From(s, p) \in Seq(Weighed)
         /\ Len(From(s, p)) = Len(s) + 1 - p
         /\ \A k \in 1 .. Len(s) + 1 - p : From(s, p)[k] = s[p + k - 1]
  BY DEF From

\* A suffix weighs what the transcript weighs from there on.
LEMMA SuffixWeighs ==
  ASSUME NEW s \in Seq(Weighed), NEW p \in 1 .. Len(s) + 1
  PROVE  Tokens(From(s, p)) = TokensFrom(s, p)
  <1> DEFINE q == From(s, p)
             l == Len(s) + 1 - p
  <1>1. /\ q \in Seq(Weighed) /\ Len(q) = l
        /\ \A k \in 1 .. l : q[k] = s[p + k - 1]
    BY FromIs
  <1>2. l \in Nat /\ l <= Len(s) /\ Len(s) \in Nat
    OBVIOUS
  <1> HIDE DEF q
  <1>3. PICK f : Sums(f, s) /\ \A i \in 1 .. Len(s) + 1 : TokensFrom(s, i) = f[Len(s) + 1 - i]
    BY SumsAre
  <1>4. PICK g : Sums(g, q) /\ \A i \in 1 .. Len(q) + 1 : TokensFrom(q, i) = g[Len(q) + 1 - i]
    BY <1>1, SumsAre
  <1>5. \A m \in 0 .. l : g[m] = f[m]
    <2> DEFINE Bad == {m \in 0 .. l : g[m] # f[m]}
    <2>1. SUFFICES ASSUME Bad # {} PROVE FALSE
      OBVIOUS
    <2>2. PICK m \in Bad : \A k \in Bad : m <= k
      <3>1. Bad \in SUBSET Nat
        BY <1>2
      <3> HIDE DEF Bad
      <3>2. QED
        BY <2>1, <3>1, LeastOf
    <2>3. m \in 1 .. l /\ m - 1 \in 0 .. l /\ m - 1 \notin Bad
      BY SMTT(30), <1>2, <1>3, <1>4, <2>2 DEF Sums
    <2>4. l + 1 - m \in 1 .. l /\ p + (l + 1 - m) - 1 = Len(s) + 1 - m /\ m \in 1 .. Len(s)
      BY <1>2, <2>3
    <2>5. q[l + 1 - m] = s[Len(s) + 1 - m]
      BY <1>1, <2>4
    <2>6. g[m] = g[m - 1] + q[l + 1 - m].w /\ f[m] = f[m - 1] + s[Len(s) + 1 - m].w
      BY <1>1, <1>3, <1>4, <2>3, <2>4 DEF Sums
    <2>7. QED
      BY <2>2, <2>3, <2>5, <2>6
  <1>6. TokensFrom(q, 1) = g[l] /\ TokensFrom(s, p) = f[l]
    BY <1>1, <1>2, <1>3, <1>4
  <1>7. QED
    BY <1>2, <1>5, <1>6 DEF Tokens, q

-----------------------------------------------------------------------------
(* Calls and their results. *)

\* Every call is followed by its results.
Followed(s) ==
  \A p \in 1 .. Len(s) : s[p].role = "assistant" =>
    \A k \in 1 .. s[p].n : p + k <= Len(s) /\ s[p + k].role = "tool" /\ s[p + k].n = k

\* A result has its call before it, or only results and system entries.
Anchored(s, p) ==
  \E q \in 1 .. p - 1 : s[q].role = "assistant" /\ s[p].n <= s[q].n /\ q + s[p].n = p
Fronted(s) ==
  \A p \in 1 .. Len(s) : s[p].role = "tool" =>
    Anchored(s, p) \/ \A q \in 1 .. p - 1 : s[q].role \in {"system", "tool"}

Paired(s) == Followed(s) /\ Fronted(s)

LEMMA WeighedAt ==
  ASSUME NEW s \in Seq(Weighed), NEW p \in 1 .. Len(s)
  PROVE  s[p] \in Weighed /\ s[p].role \in Roles /\ s[p].n \in Nat /\ s[p].w \in Nat
  <1>1. s[p] \in Weighed
    OBVIOUS
  <1>2. QED
    BY <1>1 DEF Weighed

\* This is what the properties say of a transcript.
LEMMA PairedSays ==
  ASSUME NEW s \in Seq(Weighed), Paired(s)
  PROVE  CallsAnswered(Bare(s)) /\ OrphansInFront(s)
  <1>1. /\ DOMAIN s = 1 .. Len(s) /\ Len(s) \in Nat
        /\ Len(Bare(s)) = Len(s)
        /\ \A p \in 1 .. Len(s) : Bare(s)[p] = [role |-> s[p].role, n |-> s[p].n]
    BY DEF Bare
  <1>2. ASSUME NEW p \in 1 .. Len(s), Bare(s)[p].role = "assistant", NEW k \in 1 .. Bare(s)[p].n
        PROVE  p + k <= Len(s) /\ Bare(s)[p + k] = Result(k)
    <2>1. s[p].role = "assistant" /\ s[p].n = Bare(s)[p].n
      <3>1. Bare(s)[p] = [role |-> s[p].role, n |-> s[p].n]
        BY <1>1
      <3>2. QED
        BY <1>2, <3>1
    <2>2. s[p].n \in Nat
      BY WeighedAt
    <2>3. p + k <= Len(s) /\ s[p + k].role = "tool" /\ s[p + k].n = k
      BY <2>1, <2>2 DEF Paired, Followed
    <2>4. p + k \in 1 .. Len(s)
      BY <1>1, <2>1, <2>2, <2>3
    <2>5. QED
      BY <1>1, <2>3, <2>4 DEF Result
  <1>3. CallsAnswered(Bare(s))
    BY <1>1, <1>2 DEF CallsAnswered
  <1>4. OrphansInFront(s)
    BY <1>1 DEF Paired, Fronted, Anchored, OrphansInFront, Orphaned
  <1>5. QED
    BY <1>3, <1>4

\* A cut keeps calls and results together but at the front: c is s without its
\* first b entries, behind a system entry or none.
LEMMA CutKeeps ==
  ASSUME NEW s \in Seq(Weighed), Paired(s), NEW c \in Seq(Weighed),
         NEW a \in {0, 1}, NEW b \in 0 .. Len(s), Len(c) = a + (Len(s) - b),
         a = 1 => c[1].role = "system",
         \A k \in 1 .. Len(s) - b : c[a + k] = s[b + k]
  PROVE  Paired(c)
  <1>1. Len(s) \in Nat /\ a \in Nat /\ b \in Nat
    OBVIOUS
  <1>2. ASSUME NEW p \in 1 .. Len(c)
        PROVE  \/ p <= a /\ p = 1 /\ c[p].role = "system"
               \/ p > a /\ p - a \in 1 .. Len(s) - b /\ b + (p - a) \in 1 .. Len(s)
                    /\ c[p] = s[b + (p - a)]
    <2>1. CASE p <= a
      BY <1>1, <2>1
    <2>2. CASE p > a
      <3>1. p - a \in 1 .. Len(s) - b /\ a + (p - a) = p
        BY <1>1, <2>2
      <3>2. QED
        BY SMTT(30), <1>1, <2>2, <3>1
    <2>3. QED
      BY <1>1, <2>1, <2>2
  <1>3. Followed(c)
    <2> SUFFICES ASSUME NEW p \in 1 .. Len(c), c[p].role = "assistant", NEW k \in 1 .. c[p].n
                 PROVE  p + k <= Len(c) /\ c[p + k].role = "tool" /\ c[p + k].n = k
      BY DEF Followed
    <2> DEFINE i == b + (p - a)
    <2>1. p > a /\ i \in 1 .. Len(s) /\ c[p] = s[i]
      BY <1>2
    <2>2. s[i].n \in Nat
      BY <2>1, WeighedAt
    <2>3. i + k <= Len(s) /\ s[i + k].role = "tool" /\ s[i + k].n = k
      BY <2>1, <2>2 DEF Paired, Followed
    <2>4. (p - a) + k \in 1 .. Len(s) - b /\ a + ((p - a) + k) = p + k
          /\ b + ((p - a) + k) = i + k
      BY <1>1, <2>1, <2>2, <2>3
    <2>5. c[p + k] = s[i + k]
      BY <2>4
    <2>6. QED
      BY <1>1, <2>3, <2>4, <2>5
  <1>4. Fronted(c)
    <2> SUFFICES ASSUME NEW p \in 1 .. Len(c), c[p].role = "tool", ~Anchored(c, p),
                        NEW q \in 1 .. p - 1
                 PROVE  c[q].role \in {"system", "tool"}
      BY DEF Fronted
    <2> DEFINE i == b + (p - a)
               j == b + (q - a)
    <2>1. p > a /\ i \in 1 .. Len(s) /\ c[p] = s[i] /\ s[i].role = "tool"
      BY <1>2
    <2>2. q \in 1 .. Len(c)
      BY <1>1
    <2>3. CASE q <= a
      BY <1>2, <2>2, <2>3
    <2>4. CASE q > a
      <3>1. j \in 1 .. Len(s) /\ c[q] = s[j] /\ j \in 1 .. i - 1 /\ j > b
        BY <1>1, <1>2, <2>1, <2>2, <2>4
      <3>2. CASE \A r \in 1 .. i - 1 : s[r].role \in {"system", "tool"}
        BY <3>1, <3>2
      <3>3. CASE Anchored(s, i)
        <4>1. PICK r \in 1 .. i - 1 : s[r].role = "assistant" /\ s[i].n <= s[r].n /\ r + s[i].n = i
          BY <3>3 DEF Anchored
        <4>2. r \in 1 .. Len(s) /\ s[i].n \in Nat /\ s[r].n \in Nat
          BY <1>1, <2>1, <4>1, WeighedAt
        <4>3. CASE r > b
          <5> DEFINE u == a + (r - b)
          <5>1. r - b \in 1 .. Len(s) - b /\ b + (r - b) = r /\ u \in 1 .. p - 1
            <6>1. r < b + (p - a) /\ p \in Nat /\ r \in Nat
              BY <1>1, <4>1, <4>2
            <6>5. PICK m \in Nat : m = Len(s)
              BY <1>1
            <6>6. 1 <= r /\ r <= m /\ r > b /\ b \in Nat
              BY <1>1, <4>2, <4>3, <6>1, <6>5
            <6>7. r - b \in 1 .. m - b /\ b + (r - b) = r
              BY <6>1, <6>6
            <6>2. r - b \in 1 .. Len(s) - b /\ b + (r - b) = r
              BY <6>5, <6>7
            <6>3. u \in 1 .. p - 1
              BY <1>1, <4>3, <6>1
            <6>4. QED
              BY <6>2, <6>3
          <5>2. c[u] = s[r]
            BY <5>1
          <5>3. u + c[p].n = p
            <6>1. c[p].n = s[i].n
              BY <2>1
            <6>2. PICK x \in Nat : x = s[i].n
              BY <4>2
            <6>3. r + x = b + (p - a) /\ p \in Nat /\ r \in Nat
              BY <4>1, <4>2, <6>2
            <6>4. u + x = p
              BY <1>1, <6>3
            <6>5. QED
              BY <6>1, <6>2, <6>4
          <5>4. c[u].role = "assistant" /\ c[p].n <= c[u].n
            BY <2>1, <4>1, <5>2
          <5>5. Anchored(c, p)
            BY <5>1, <5>3, <5>4 DEF Anchored
          <5>6. QED
            BY <5>5
        <4>4. CASE r <= b
          <5>1. j - r \in 1 .. s[r].n /\ r + (j - r) = j
            <6>1. PICK x \in Nat, y \in Nat : x = s[i].n /\ y = s[r].n
              BY <4>2
            <6>2. x <= y /\ r + x = i /\ r \in Nat /\ i \in Nat /\ j \in Nat
              BY <2>1, <3>1, <4>1, <4>2, <6>1
            <6> HIDE DEF i, j
            <6>3. j < i
              BY <3>1, <6>2
            <6>7. b \in Nat
              BY <1>1
            <6>8. r < j
              BY <3>1, <4>4, <6>2, <6>7
            <6>4. j - r \in 1 .. y
              BY <6>2, <6>3, <6>8
            <6>5. QED
              BY <6>1, <6>2, <6>4
          <5>2. s[j].role = "tool"
            BY <4>1, <4>2, <5>1 DEF Paired, Followed
          <5>3. QED
            BY <3>1, <5>2
        <4>5. QED
          BY <1>1, <4>2, <4>3, <4>4
      <3>4. QED
        BY <2>1, <3>2, <3>3 DEF Paired, Fronted
    <2>5. QED
      BY <1>1, <2>2, <2>3, <2>4
  <1>5. QED
    BY <1>3, <1>4 DEF Paired

\* What is pushed keeps them together when it brings its calls with its results.
LEMMA JoinKeeps ==
  ASSUME NEW s \in Seq(Weighed), Paired(s), NEW q \in Seq(Weighed), Followed(q),
         \A p \in 1 .. Len(q) : q[p].role = "tool" => Anchored(q, p)
  PROVE  s \o q \in Seq(Weighed) /\ Paired(s \o q)
  <1> DEFINE c == s \o q
             l == Len(s)
  <1>1. /\ c \in Seq(Weighed) /\ Len(c) = l + Len(q) /\ l \in Nat /\ Len(q) \in Nat
        /\ \A k \in 1 .. l : c[k] = s[k]
        /\ \A k \in 1 .. Len(q) : c[l + k] = q[k]
    OBVIOUS
  <1> HIDE DEF c
  <1>2. ASSUME NEW p \in 1 .. Len(c), p > l
        PROVE  p - l \in 1 .. Len(q) /\ c[p] = q[p - l]
    <2>1. p - l \in 1 .. Len(q) /\ l + (p - l) = p
      BY <1>1, <1>2
    <2>2. QED
      BY <1>1, <2>1
  <1>3. Followed(c)
    <2> SUFFICES ASSUME NEW p \in 1 .. Len(c), c[p].role = "assistant", NEW k \in 1 .. c[p].n
                 PROVE  p + k <= Len(c) /\ c[p + k].role = "tool" /\ c[p + k].n = k
      BY DEF Followed
    <2>1. CASE p <= l
      <3>1. p \in 1 .. l /\ c[p] = s[p]
        BY <1>1, <2>1
      <3>2. s[p].n \in Nat
        BY <3>1, WeighedAt
      <3>3. p + k <= l /\ s[p + k].role = "tool" /\ s[p + k].n = k
        BY <3>1, <3>2 DEF Paired, Followed
      <3>4. p + k \in 1 .. l
        BY <1>1, <3>1, <3>2, <3>3
      <3>5. QED
        BY <1>1, <3>3, <3>4
    <2>2. CASE p > l
      <3> DEFINE i == p - l
      <3>1. i \in 1 .. Len(q) /\ c[p] = q[i]
        BY <1>2, <2>2
      <3>2. q[i].n \in Nat
        BY <3>1, WeighedAt
      <3>3. i + k <= Len(q) /\ q[i + k].role = "tool" /\ q[i + k].n = k
        BY <3>1, <3>2 DEF Followed
      <3>4. i + k \in 1 .. Len(q) /\ l + (i + k) = p + k
        BY <1>1, <3>1, <3>2, <3>3
      <3>5. c[p + k] = q[i + k]
        BY <1>1, <3>4
      <3>6. QED
        BY <1>1, <3>3, <3>4, <3>5
    <2>3. QED
      BY <1>1, <2>1, <2>2
  <1>4. Fronted(c)
    <2> SUFFICES ASSUME NEW p \in 1 .. Len(c), c[p].role = "tool"
                 PROVE  Anchored(c, p) \/ \A r \in 1 .. p - 1 : c[r].role \in {"system", "tool"}
      BY DEF Fronted
    <2>1. CASE p <= l
      <3>1. p \in 1 .. l /\ \A r \in 1 .. p : c[r] = s[r]
        BY <1>1, <2>1
      <3>2. p \in 1 .. p
        BY <1>1
      <3>3. s[p].role = "tool"
        BY <3>1, <3>2
      <3>4. CASE Anchored(s, p)
        BY <1>1, <3>1, <3>2, <3>4 DEF Anchored
      <3>5. CASE \A r \in 1 .. p - 1 : s[r].role \in {"system", "tool"}
        <4>1. ASSUME NEW r \in 1 .. p - 1 PROVE c[r].role \in {"system", "tool"}
          <5>1. r \in 1 .. p
            BY <3>1
          <5>2. c[r] = s[r] /\ s[r].role \in {"system", "tool"}
            BY <3>1, <3>5, <5>1
          <5>3. QED
            BY <5>2
        <4>2. QED
          BY <4>1
      <3>6. Fronted(s)
        BY DEF Paired
      <3>7. Anchored(s, p) \/ \A r \in 1 .. p - 1 : s[r].role \in {"system", "tool"}
        BY <3>1, <3>3, <3>6, Zenon DEF Fronted
      <3>8. QED
        BY <3>4, <3>5, <3>7, Zenon
    <2>2. CASE p > l
      <3> DEFINE i == p - l
      <3>1. i \in 1 .. Len(q) /\ c[p] = q[i]
        BY <1>2, <2>2
      <3>2. PICK r \in 1 .. i - 1 : q[r].role = "assistant" /\ q[i].n <= q[r].n /\ r + q[i].n = i
        BY <3>1 DEF Anchored
      <3>3. l + r \in 1 .. p - 1 /\ c[l + r] = q[r] /\ q[i].n \in Nat
        BY <1>1, <3>1, <3>2, WeighedAt
      <3>4. (l + r) + c[p].n = p
        <4>1. PICK x \in Nat : x = q[i].n
          BY <3>3
        <4>2. r + x = p - l /\ r \in Nat /\ p \in Nat
          BY <1>1, <3>2, <4>1
        <4>3. (l + r) + x = p
          BY <1>1, <4>2
        <4>4. QED
          BY <3>1, <4>1, <4>3
      <3>5. QED
        BY <3>1, <3>2, <3>3, <3>4 DEF Anchored
    <2>3. QED
      BY <1>1, <2>1, <2>2
  <1>5. QED
    BY <1>1, <1>3, <1>4 DEF Paired, c

-----------------------------------------------------------------------------
(* Cuts. *)

LEMMA FromPaired ==
  ASSUME NEW s \in Seq(Weighed), Paired(s), NEW p \in 1 .. Len(s) + 1
  PROVE  From(s, p) \in Seq(Weighed) /\ Paired(From(s, p))
  <1> DEFINE c == From(s, p)
             b == p - 1
  <1>1. /\ c \in Seq(Weighed) /\ Len(c) = Len(s) + 1 - p
        /\ \A k \in 1 .. Len(s) + 1 - p : c[k] = s[p + k - 1]
    BY FromIs
  <1>2. b \in 0 .. Len(s) /\ Len(s) \in Nat
    OBVIOUS
  <1> HIDE DEF c
  <1>3. Len(c) = 0 + (Len(s) - b) /\ \A k \in 1 .. Len(s) - b : c[0 + k] = s[b + k]
    <2>1. Len(s) + 1 - p = Len(s) - b
      BY <1>2
    <2>2. ASSUME NEW k \in 1 .. Len(s) - b PROVE c[0 + k] = s[b + k]
      <3>1. k \in 1 .. Len(s) + 1 - p /\ p + k - 1 = b + k /\ 0 + k = k
        BY <1>2
      <3>2. QED
        BY <1>1, <3>1
    <2>3. QED
      BY <1>1, <1>2, <2>1, <2>2
  <1> HIDE DEF b
  <1>4. Paired(c)
    BY <1>1, <1>2, <1>3, CutKeeps
  <1>5. QED
    BY <1>1, <1>4 DEF c

\* The same behind a system entry.
LEMMA HeadedPaired ==
  ASSUME NEW s \in Seq(Weighed), Paired(s), NEW p \in 1 .. Len(s) + 1,
         NEW e \in Weighed, e.role = "system"
  PROVE  /\ <<e>> \o From(s, p) \in Seq(Weighed)
         /\ Len(<<e>> \o From(s, p)) = Len(s) + 2 - p
         /\ Paired(<<e>> \o From(s, p))
         /\ \A k \in 1 .. Len(s) + 1 - p : (<<e>> \o From(s, p))[1 + k] = s[p + k - 1]
  <1> DEFINE f == From(s, p)
             c == <<e>> \o f
             b == p - 1
  <1>1. /\ f \in Seq(Weighed) /\ Len(f) = Len(s) + 1 - p
        /\ \A k \in 1 .. Len(s) + 1 - p : f[k] = s[p + k - 1]
    BY FromIs
  <1>2. b \in 0 .. Len(s) /\ Len(s) \in Nat
    OBVIOUS
  <1> HIDE DEF f
  <1>3. /\ c \in Seq(Weighed) /\ Len(c) = 1 + Len(f) /\ c[1] = e
        /\ \A k \in 1 .. Len(f) : c[1 + k] = f[k]
    BY <1>1
  <1> HIDE DEF c
  <1>4. Len(c) = 1 + (Len(s) - b) /\ \A k \in 1 .. Len(s) - b : c[1 + k] = s[b + k]
    <2>1. Len(f) = Len(s) - b
      BY <1>1, <1>2
    <2>2. ASSUME NEW k \in 1 .. Len(s) - b PROVE c[1 + k] = s[b + k]
      <3>1. k \in 1 .. Len(s) + 1 - p /\ p + k - 1 = b + k /\ k \in 1 .. Len(f)
        BY <1>2, <2>1
      <3>2. QED
        BY <1>1, <1>3, <3>1
    <2>3. QED
      BY <1>3, <2>1, <2>2
  <1>5. \A k \in 1 .. Len(s) + 1 - p : c[1 + k] = s[p + k - 1]
    BY <1>1, <1>3
  <1>6. Len(c) = Len(s) + 2 - p
    BY <1>1, <1>2, <1>3
  <1> HIDE DEF b
  <1>7. Paired(c)
    BY <1>2, <1>3, <1>4, CutKeeps
  <1>8. QED
    BY <1>3, <1>5, <1>6, <1>7 DEF c, f

\* slice(-m) is a suffix.
LEMMA SliceIs ==
  ASSUME NEW s \in Seq(Weighed), NEW m \in Nat
  PROVE  \E p \in 1 .. Len(s) + 1 : SliceLast(s, m) = From(s, p)
  <1>1. CASE m = 0 \/ m >= Len(s)
    <2>1. From(s, 1) = s
      BY DEF From
    <2>2. 1 \in 1 .. Len(s) + 1
      OBVIOUS
    <2>3. QED
      BY <1>1, <2>1, <2>2 DEF SliceLast
  <1>2. CASE ~(m = 0 \/ m >= Len(s))
    <2>1. Len(s) - m + 1 \in 1 .. Len(s) + 1
      BY <1>2
    <2>2. QED
      BY <1>2, <2>1 DEF SliceLast
  <1>3. QED
    BY <1>1, <1>2

LEMMA TrimPaired ==
  ASSUME NEW s \in Seq(Weighed), Paired(s), NEW max \in Nat \ {0}
  PROVE  TrimTranscript(s, max) \in Seq(Weighed) /\ Paired(TrimTranscript(s, max))
  <1>1. CASE Len(s) <= max
    BY <1>1 DEF TrimTranscript
  <1>2. CASE ~(Len(s) <= max) /\ s[1].role = "system"
    <2>1. max - 1 \in Nat /\ s[1] \in Weighed
      BY <1>2
    <2>2. PICK p \in 1 .. Len(s) + 1 : SliceLast(s, max - 1) = From(s, p)
      BY <2>1, SliceIs
    <2>3. TrimTranscript(s, max) = <<s[1]>> \o From(s, p)
      BY <1>2, <2>2 DEF TrimTranscript
    <2>4. QED
      BY <1>2, <2>1, <2>3, HeadedPaired
  <1>3. CASE ~(Len(s) <= max) /\ s[1].role # "system"
    <2>1. PICK p \in 1 .. Len(s) + 1 : SliceLast(s, max) = From(s, p)
      BY SliceIs
    <2>2. TrimTranscript(s, max) = From(s, p)
      BY <1>3, <2>1 DEF TrimTranscript
    <2>3. QED
      BY <2>2, FromPaired
  <1>4. QED
    BY <1>1, <1>2, <1>3

\* The newest units are the longest suffix of whole units that fits.
LEMMA NewestIs ==
  ASSUME NEW s \in Seq(Weighed), NEW b \in Nat
  PROVE  \E p \in 1 .. Len(s) + 1 :
           /\ NewestUnits(s, b) = From(s, p)
           /\ TokensFrom(s, p) <= b
           /\ \A q \in 1 .. Len(s) : UnitStart(s, q) /\ TokensFrom(s, q) <= b => p <= q
  <1> DEFINE starts == {p \in 1 .. Len(s) : UnitStart(s, p)} \cup {Len(s) + 1}
             fits == {p \in starts : TokensFrom(s, p) <= b}
  <1>1. Len(s) \in Nat
    OBVIOUS
  <1>2. Len(s) + 1 \in fits
    BY <1>1, TokensAre
  <1>3. fits \in SUBSET Nat /\ \A p \in fits : p \in 1 .. Len(s) + 1 /\ TokensFrom(s, p) <= b
    BY <1>1
  <1>4. NewestUnits(s, b) = From(s, Min(fits))
    BY DEF NewestUnits
  <1>5. \A q \in 1 .. Len(s) : UnitStart(s, q) /\ TokensFrom(s, q) <= b => q \in fits
    OBVIOUS
  <1> HIDE DEF fits
  <1>6. Min(fits) \in fits /\ \A k \in fits : Min(fits) <= k
    BY <1>2, <1>3, MinIs
  <1>7. QED
    BY <1>3, <1>4, <1>5, <1>6

\* Compaction leaves room for what it keeps.
LEMMA KeepType == KeepBudget \in Nat
  <1> DEFINE share == (15 * Budget) \div 100
  <1>1. Budget \in Nat /\ MaxSummaryTokens \in Nat
    BY ContextAssumption
  <1>2. share \in Nat /\ share <= Budget
    BY <1>1
  <1> HIDE DEF share
  <1>3. {MaxSummaryTokens, share} \in SUBSET Nat /\ {MaxSummaryTokens, share} # {}
    BY <1>1, <1>2
  <1>4. Min({MaxSummaryTokens, share}) \in Nat /\ Min({MaxSummaryTokens, share}) <= share
    BY <1>3, MinIs
  <1>5. SummaryBudget \in Nat /\ SummaryBudget <= share
    BY <1>4 DEF SummaryBudget, share
  <1>6. QED
    BY <1>1, <1>2, <1>5 DEF KeepBudget

LEMMA SplitIs ==
  ASSUME NEW s \in Seq(Weighed)
  PROVE  /\ SplitIndex(s) \in 1 .. Len(s) + 1
         /\ \A q \in 1 .. Len(s) : TokensFrom(s, q) <= KeepBudget => SplitIndex(s) <= q
  <1> DEFINE fits == {p \in 1 .. Len(s) + 1 : TokensFrom(s, p) <= KeepBudget}
  <1>1. Len(s) \in Nat
    OBVIOUS
  <1>2. Len(s) + 1 \in fits
    BY <1>1, TokensAre, KeepType
  <1>3. fits \in SUBSET Nat /\ fits \subseteq 1 .. Len(s) + 1
    BY <1>1
  <1>4. SplitIndex(s) = Min(fits)
    BY DEF SplitIndex
  <1>5. \A q \in 1 .. Len(s) : TokensFrom(s, q) <= KeepBudget => q \in fits
    BY <1>1
  <1> HIDE DEF fits
  <1>6. Min(fits) \in fits /\ \A k \in fits : Min(fits) <= k
    BY <1>2, <1>3, MinIs
  <1>7. QED
    BY <1>3, <1>4, <1>5, <1>6

\* Whatever compaction makes of a transcript is paired, and keeps a last entry
\* of the user's that fits.
LastFits(s, b) == s[Len(s)].role = "user" /\ s[Len(s)].w <= b

LEMMA LastAlone ==
  ASSUME NEW s \in Seq(Weighed), Len(s) > 0, NEW b \in Nat, LastFits(s, b)
  PROVE  Len(s) \in 1 .. Len(s) /\ UnitStart(s, Len(s)) /\ TokensFrom(s, Len(s)) <= b
  <1>1. Len(s) \in 1 .. Len(s)
    OBVIOUS
  <1>2. s[Len(s)].role # "tool" /\ s[Len(s)].w \in Nat
    BY <1>1, WeighedAt DEF LastFits
  <1>3. TokensFrom(s, Len(s)) = TokensFrom(s, Len(s) + 1) + s[Len(s)].w
    BY <1>1, TokensAre
  <1>4. TokensFrom(s, Len(s) + 1) = 0
    BY TokensAre
  <1>5. TokensFrom(s, Len(s)) = s[Len(s)].w
    BY <1>2, <1>3, <1>4
  <1>6. QED
    BY <1>1, <1>2, <1>5 DEF UnitStart, LastFits

LEMMA FromLast ==
  ASSUME NEW s \in Seq(Weighed), NEW p \in 1 .. Len(s)
  PROVE  Len(From(s, p)) > 0 /\ From(s, p)[Len(From(s, p))] = s[Len(s)]
  <1> DEFINE l == Len(s) + 1 - p
  <1>1. Len(s) \in Nat /\ p \in 1 .. Len(s) + 1 /\ l \in 1 .. l /\ p + l - 1 = Len(s)
    OBVIOUS
  <1>2. Len(From(s, p)) = l /\ \A k \in 1 .. l : From(s, p)[k] = s[p + k - 1]
    BY <1>1, FromIs
  <1>3. From(s, p)[l] = s[p + l - 1]
    BY <1>1, <1>2
  <1>4. QED
    BY <1>1, <1>2, <1>3

LEMMA CompactIs ==
  ASSUME NEW s \in Seq(Weighed), Paired(s), NEW c \in CompactHistory(s)
  PROVE  /\ c \in Seq(Weighed) /\ Paired(c)
         /\ Len(s) > 0 /\ LastFits(s, Budget) /\ LastFits(s, KeepBudget)
              => Len(c) > 0 /\ c[Len(c)] = s[Len(s)]
  <1>0. Budget \in Nat /\ KeepBudget \in Nat /\ SummaryWeights \subseteq Nat /\ Len(s) \in Nat
    BY ContextAssumption, KeepType
  <1>1. CASE c = s
    BY <1>1
  <1>2. CASE c \in {<<Weigh(Said("system"), w)>> \o From(s, SplitIndex(s)) : w \in SummaryWeights}
    <2>1. PICK w \in SummaryWeights : c = <<Weigh(Said("system"), w)>> \o From(s, SplitIndex(s))
      BY <1>2
    <2>2. PICK p \in 1 .. Len(s) + 1 : p = SplitIndex(s)
      BY SplitIs
    <2>3. PICK e \in Weighed : e = Weigh(Said("system"), w) /\ e.role = "system"
      <3>1. Weigh(Said("system"), w) \in Weighed /\ Weigh(Said("system"), w).role = "system"
        BY <1>0 DEF Weigh, Said, Weighed, Roles
      <3>2. QED
        BY <3>1
    <2>4. c = <<e>> \o From(s, p)
      BY <2>1, <2>2, <2>3
    <2>5. /\ c \in Seq(Weighed) /\ Len(c) = Len(s) + 2 - p /\ Paired(c)
          /\ \A k \in 1 .. Len(s) + 1 - p : c[1 + k] = s[p + k - 1]
      BY <2>3, <2>4, HeadedPaired
    <2>6. ASSUME Len(s) > 0, LastFits(s, KeepBudget)
          PROVE  Len(c) > 0 /\ c[Len(c)] = s[Len(s)]
      <3>1. Len(s) \in 1 .. Len(s) /\ TokensFrom(s, Len(s)) <= KeepBudget
        BY <1>0, <2>6, LastAlone
      <3>2. p <= Len(s)
        BY <2>2, <3>1, SplitIs
      <3> DEFINE k == Len(s) + 1 - p
      <3>3. k \in 1 .. Len(s) + 1 - p /\ 1 + k = Len(s) + 2 - p /\ p + k - 1 = Len(s)
        BY <1>0, <3>2
      <3>4. c[1 + k] = s[p + k - 1]
        BY <2>5, <3>3
      <3>5. QED
        BY <1>0, <2>5, <3>3, <3>4
    <2>7. QED
      BY <2>5, <2>6
  <1>3. CASE c = NewestUnits(s, Budget)
    <2>1. PICK p \in 1 .. Len(s) + 1 :
            /\ NewestUnits(s, Budget) = From(s, p)
            /\ \A q \in 1 .. Len(s) : UnitStart(s, q) /\ TokensFrom(s, q) <= Budget => p <= q
      BY <1>0, NewestIs
    <2>2. c = From(s, p) /\ c \in Seq(Weighed) /\ Paired(c)
      BY <1>3, <2>1, FromPaired
    <2>3. ASSUME Len(s) > 0, LastFits(s, Budget)
          PROVE  Len(c) > 0 /\ c[Len(c)] = s[Len(s)]
      <3>1. /\ Len(s) \in 1 .. Len(s) /\ UnitStart(s, Len(s))
            /\ TokensFrom(s, Len(s)) <= Budget
        BY <1>0, <2>3, LastAlone
      <3>2. p \in 1 .. Len(s)
        BY <1>0, <2>1, <3>1
      <3>3. QED
        BY <2>2, <3>2, FromLast
    <2>4. QED
      BY <2>2, <2>3
  <1>4. QED
    BY <1>1, <1>2, <1>3 DEF CompactHistory

\* The window is a paired suffix that fits, and ends in what fits alone.
LEMMA WindowIs ==
  ASSUME NEW s \in Seq(Weighed), Paired(s), NEW st \in Nat, NEW w, w = BuildWindow(s, st)
  PROVE  /\ w \in Window /\ w.system = st /\ Paired(w.history)
         /\ w.history # <<>> => w.system + Tokens(w.history) <= Budget
         /\ Len(s) > 0 /\ st < Budget /\ LastFits(s, Budget - st)
              => w.history # <<>> /\ w.history[Len(w.history)] = s[Len(s)]
  <1>0. Budget \in Nat /\ Len(s) \in Nat
    BY ContextAssumption
  <1>1. CASE Budget <= st
    <2>1. w.system = st /\ w.history = <<>> /\ w \in Window
      BY <1>1 DEF BuildWindow, Window
    <2>2. Paired(<<>>)
      BY DEF Paired, Followed, Fronted
    <2>3. QED
      BY <1>0, <1>1, <2>1, <2>2
  <1>2. CASE ~(Budget <= st)
    <2> DEFINE b == Budget - st
    <2>1. b \in Nat
      BY <1>0, <1>2
    <2>2. PICK p \in 1 .. Len(s) + 1 :
            /\ NewestUnits(s, b) = From(s, p)
            /\ TokensFrom(s, p) <= b
            /\ \A q \in 1 .. Len(s) : UnitStart(s, q) /\ TokensFrom(s, q) <= b => p <= q
      BY <2>1, NewestIs
    <2>3. w.system = st /\ w.history = From(s, p) /\ w = [system |-> st, history |-> From(s, p)]
      BY <1>2, <2>2 DEF BuildWindow
    <2>4. From(s, p) \in Seq(Weighed) /\ Paired(From(s, p))
      BY FromPaired
    <2>5. w \in Window
      BY <2>3, <2>4 DEF Window
    <2>6. Tokens(From(s, p)) = TokensFrom(s, p) /\ TokensFrom(s, p) \in Nat
      BY SuffixWeighs, TokensAre
    <2>7. w.system + Tokens(w.history) <= Budget
      BY <1>0, <2>2, <2>3, <2>6
    <2>8. ASSUME Len(s) > 0, LastFits(s, b)
          PROVE  w.history # <<>> /\ w.history[Len(w.history)] = s[Len(s)]
      <3>1. Len(s) \in 1 .. Len(s) /\ UnitStart(s, Len(s)) /\ TokensFrom(s, Len(s)) <= b
        BY <2>1, <2>8, LastAlone
      <3>2. p \in 1 .. Len(s)
        BY <1>0, <2>2, <3>1
      <3>3. Len(w.history) > 0 /\ w.history[Len(w.history)] = s[Len(s)]
        BY <2>3, <3>2, FromLast
      <3>4. QED
        BY <3>3
    <2>9. QED
      BY <2>3, <2>4, <2>5, <2>7, <2>8
  <1>3. QED
    BY <1>1, <1>2

-----------------------------------------------------------------------------
(* What the turns push. *)

\* q is a sequence of whole exchanges: pushing it keeps a transcript paired.
Whole(q) ==
  /\ q \in Seq(Weighed)
  /\ Len(q) > 0
  /\ Followed(q)
  /\ \A p \in 1 .. Len(q) : q[p].role = "tool" => Anchored(q, p)

\* A message of the user or of the model, without calls.
LEMMA MessageType ==
  ASSUME NEW r \in {"user", "assistant"}, NEW w \in Nat
  PROVE  /\ Weigh(Said(r), w) \in Weighed
         /\ Weigh(Said(r), w).role = r /\ Weigh(Said(r), w).n = 0
  BY DEF Weigh, Said, Weighed, Roles

\* One message.
LEMMA MessageWhole ==
  ASSUME NEW r \in {"user", "assistant"}, NEW w \in Nat
  PROVE  Whole(<<Weigh(Said(r), w)>>)
  <1> DEFINE e == Weigh(Said(r), w)
  <1>1. e \in Weighed /\ e.role = r /\ e.n = 0
    BY MessageType
  <1> HIDE DEF e
  <1>2. <<e>> \in Seq(Weighed) /\ Len(<<e>>) = 1 /\ <<e>>[1] = e
    BY <1>1
  <1>3. PICK q \in Seq(Weighed) : q = <<e>>
    BY <1>2, Zenon
  <1>4. Len(q) = 1 /\ q[1].role = r /\ q[1].n = 0
    BY <1>1, <1>2, <1>3
  <1>5. Whole(q)
    BY <1>4 DEF Whole, Followed
  <1>6. QED
    BY <1>3, <1>5 DEF e

\* The two messages of an exchange the fast path answered.
LEMMA ExchangeWhole ==
  ASSUME NEW u \in Nat, NEW a \in Nat
  PROVE  Whole(<<Weigh(Said("user"), u), Weigh(Said("assistant"), a)>>)
  <1> DEFINE e == Weigh(Said("user"), u)
             f == Weigh(Said("assistant"), a)
  <1>1. /\ e \in Weighed /\ e.role = "user" /\ e.n = 0
        /\ f \in Weighed /\ f.role = "assistant" /\ f.n = 0
    BY MessageType
  <1> HIDE DEF e, f
  <1>2. /\ <<e, f>> \in Seq(Weighed) /\ Len(<<e, f>>) = 2
        /\ <<e, f>>[1] = e /\ <<e, f>>[2] = f
    BY <1>1
  <1>3. PICK q \in Seq(Weighed) : q = <<e, f>>
    BY <1>2, Zenon
  <1>4. Len(q) = 2 /\ \A p \in 1 .. 2 : q[p].role # "tool" /\ q[p].n = 0
    BY <1>1, <1>2, <1>3
  <1>5. Whole(q)
    BY <1>4 DEF Whole, Followed
  <1>6. QED
    BY <1>3, <1>5 DEF e, f

\* A batch of m calls and its results.
LEMMA BatchWhole ==
  ASSUME NEW m \in Nat \ {0}, NEW w \in Nat, NEW rw \in [1 .. m -> Nat]
  PROVE  Whole(<<Weigh(Calls(m), w)>> \o [k \in 1 .. m |-> Weigh(Result(k), rw[k])])
  <1> DEFINE e == Weigh(Calls(m), w)
             r == [k \in 1 .. m |-> Weigh(Result(k), rw[k])]
  <1>1. e \in Weighed /\ e.role = "assistant" /\ e.n = m
    BY DEF Weigh, Calls, Weighed, Roles
  <1>2. \A k \in 1 .. m : Weigh(Result(k), rw[k]) \in Weighed
                           /\ Weigh(Result(k), rw[k]).role = "tool"
                           /\ Weigh(Result(k), rw[k]).n = k
    BY DEF Weigh, Result, Weighed, Roles
  <1>3. r \in Seq(Weighed) /\ Len(r) = m
    BY <1>2
  <1>4. \A k \in 1 .. m : r[k].role = "tool" /\ r[k].n = k
    BY <1>2
  <1> HIDE DEF e, r
  <1>5. <<e>> \in Seq(Weighed) /\ Len(<<e>>) = 1 /\ <<e>>[1] = e
    BY <1>1
  <1>6. PICK q \in Seq(Weighed) : q = <<e>> \o r
    <2>1. <<e>> \o r \in Seq(Weighed)
      BY <1>3, <1>5
    <2>2. QED
      BY <2>1, Zenon
  <1>7. /\ Len(q) = 1 + m
        /\ q[1] = e
        /\ \A k \in 1 .. m : q[1 + k] = r[k]
    BY <1>3, <1>5, <1>6
  <1>8. ASSUME NEW p \in 1 .. Len(q)
        PROVE  \/ p = 1 /\ q[p].role = "assistant" /\ q[p].n = m
               \/ p - 1 \in 1 .. m /\ q[p].role = "tool" /\ q[p].n = p - 1
    <2>1. CASE p = 1
      BY <1>1, <1>7, <2>1
    <2>2. CASE p # 1
      <3>1. p - 1 \in 1 .. m /\ 1 + (p - 1) = p
        BY <1>7, <2>2
      <3>2. q[p] = r[p - 1]
        BY <1>7, <3>1
      <3>3. QED
        BY <1>4, <3>1, <3>2
    <2>3. QED
      BY <2>1, <2>2
  <1>9. Followed(q)
    <2> SUFFICES ASSUME NEW p \in 1 .. Len(q), q[p].role = "assistant", NEW k \in 1 .. q[p].n
                 PROVE  p + k <= Len(q) /\ q[p + k].role = "tool" /\ q[p + k].n = k
      BY DEF Followed
    <2>1. p = 1 /\ k \in 1 .. m
      BY <1>8
    <2>2. q[1 + k] = r[k] /\ 1 + k <= Len(q)
      BY <1>7, <2>1
    <2>3. QED
      BY <1>4, <2>1, <2>2
  <1>10. ASSUME NEW p \in 1 .. Len(q), q[p].role = "tool"
         PROVE  Anchored(q, p)
    <2>1. p - 1 \in 1 .. m /\ q[p].n = p - 1
      BY <1>8, <1>10
    <2>2. q[1].role = "assistant" /\ q[1].n = m
      BY <1>1, <1>7
    <2>3. 1 \in 1 .. p - 1 /\ q[p].n <= q[1].n /\ 1 + q[p].n = p
      BY <2>1, <2>2
    <2>4. QED
      BY <2>2, <2>3 DEF Anchored
  <1>11. Whole(q)
    BY <1>7, <1>9, <1>10 DEF Whole
  <1>12. QED
    BY <1>6, <1>11 DEF e, r

\* What is pushed joins a paired transcript.
LEMMA PushKeeps ==
  ASSUME NEW s \in Seq(Weighed), Paired(s), NEW q, Whole(q)
  PROVE  s \o q \in Seq(Weighed) /\ Paired(s \o q) /\ Len(s \o q) > 0
  <1>1. s \o q \in Seq(Weighed) /\ Paired(s \o q)
    BY JoinKeeps DEF Whole
  <1>2. q \in Seq(Weighed) /\ Len(q) > 0
    BY DEF Whole
  <1>3. Len(s \o q) = Len(s) + Len(q) /\ Len(s) >= 0
    BY <1>2
  <1>4. QED
    BY <1>1, <1>2, <1>3

-----------------------------------------------------------------------------
(* The invariant. *)

\* Pairs in the transcript, and not only in the window, are what makes the next
\* window paired; a turn that assembles a window has pushed something.
ContextInv ==
  /\ TypeOK
  /\ Paired(transcript)
  /\ Paired(window.history)
  /\ pc \in {"loop", "assembling"} => Len(transcript) > 0
  /\ WindowFits

\* A window that shows nothing is a paired one that fits.
LEMMA NoWindowFine ==
  /\ NoWindow \in Window /\ NoWindow.history = <<>> /\ Paired(<<>>)
  <1>1. NoWindow \in Window /\ NoWindow.history = <<>>
    BY DEF NoWindow, Window
  <1>2. Paired(<<>>)
    BY DEF Paired, Followed, Fronted
  <1>3. QED
    BY <1>1, <1>2

LEMMA InitInv == Init => ContextInv
  <1> SUFFICES ASSUME Init PROVE ContextInv
    OBVIOUS
  <1>0. 0 \in 0 .. MaxIterations /\ <<>> \in Seq(Weighed)
    BY ContextAssumption
  <1>1. TypeOK
    BY <1>0, NoWindowFine DEF Init, TypeOK
  <1>2. Paired(transcript) /\ Paired(window.history) /\ WindowFits
    BY NoWindowFine DEF Init, WindowFits
  <1>3. QED
    BY <1>1, <1>2 DEF Init, ContextInv

\* Storing a capped transcript ends a turn well.
LEMMA EndTurnInv ==
  ASSUME ContextInv, NEW s \in Seq(Weighed), Paired(s), EndTurn(s)
  PROVE  ContextInv'
  <1>1. transcript' \in Seq(Weighed) /\ Paired(transcript')
    BY TrimPaired, ContextAssumption DEF EndTurn
  <1>2. window' = NoWindow /\ window'.history = <<>>
    BY NoWindowFine DEF EndTurn
  <1>0. 0 \in 0 .. MaxIterations
    BY ContextAssumption
  <1>3. TypeOK'
    BY <1>0, <1>1, <1>2, NoWindowFine DEF TypeOK, EndTurn
  <1>4. Paired(window.history)' /\ Paired(transcript)'
    BY <1>1, <1>2, NoWindowFine
  <1>5. WindowFits'
    BY <1>2 DEF WindowFits
  <1>6. QED
    BY <1>3, <1>4, <1>5 DEF ContextInv, EndTurn

\* A push that leaves the window alone, or clears it.
LEMMA PushInv ==
  ASSUME ContextInv, NEW q, Whole(q), PushAll(q),
         window' = window \/ window' = NoWindow,
         pc' \in {"idle", "loop", "assembling", "calling"},
         iter' \in 0 .. MaxIterations, compacted' \in BOOLEAN, retried' \in BOOLEAN
  PROVE  ContextInv'
  <1>1. transcript' \in Seq(Weighed) /\ Paired(transcript') /\ Len(transcript') > 0
    BY PushKeeps DEF ContextInv, TypeOK, PushAll
  <1>2. window' \in Window /\ Paired(window'.history)
    BY NoWindowFine DEF ContextInv, TypeOK
  <1>3. WindowFits'
    BY NoWindowFine DEF ContextInv, WindowFits
  <1>4. TypeOK'
    BY <1>1, <1>2 DEF TypeOK
  <1>5. QED
    BY <1>1, <1>2, <1>3, <1>4 DEF ContextInv

\* What assembling a window leaves: it is cut from the compacted transcript.
LEMMA AssembleIs ==
  ASSUME ContextInv, Assemble
  PROVE  \E st \in SystemWeights :
           /\ window' = BuildWindow(transcript', st)
           /\ transcript' \in Seq(Weighed) /\ Paired(transcript')
           /\ LastFits(transcript, Budget) /\ LastFits(transcript, KeepBudget)
                => Len(transcript') > 0 /\ transcript'[Len(transcript')] = transcript[Len(transcript)]
  <1>1. PICK st \in SystemWeights : window' = BuildWindow(transcript', st)
    BY DEF Assemble
  <1>2. transcript \in Seq(Weighed) /\ Paired(transcript) /\ Len(transcript) > 0
    BY DEF ContextInv, TypeOK, Assemble
  <1>3. transcript' \in CompactHistory(transcript) \/ transcript' = transcript
    BY DEF Assemble
  <1>4. CASE transcript' \in CompactHistory(transcript)
    BY <1>1, <1>2, <1>4, CompactIs
  <1>5. CASE transcript' = transcript
    BY <1>1, <1>2, <1>5
  <1>6. QED
    BY <1>3, <1>4, <1>5

LEMMA AssembleInv == ContextInv /\ Assemble => ContextInv'
  <1> SUFFICES ASSUME ContextInv, Assemble PROVE ContextInv'
    OBVIOUS
  <1>1. PICK st \in SystemWeights :
          /\ window' = BuildWindow(transcript', st)
          /\ transcript' \in Seq(Weighed) /\ Paired(transcript')
    BY AssembleIs
  <1>2. st \in Nat
    BY ContextAssumption
  <1>3. /\ window' \in Window /\ Paired(window'.history)
        /\ window'.history # <<>> => window'.system + Tokens(window'.history) <= Budget
    BY <1>1, <1>2, WindowIs
  <1>4. TypeOK'
    BY <1>1, <1>3 DEF ContextInv, TypeOK, Assemble
  <1>5. QED
    BY <1>1, <1>3, <1>4 DEF ContextInv, WindowFits, Assemble

LEMMA StepInv == ContextInv /\ [Next]_vars => ContextInv'
  <1> SUFFICES ASSUME ContextInv, [Next]_vars PROVE ContextInv'
    OBVIOUS
  <1>0. /\ transcript \in Seq(Weighed) /\ Paired(transcript)
        /\ iter \in 0 .. MaxIterations /\ compacted \in BOOLEAN /\ retried \in BOOLEAN
        /\ pc \in {"idle", "loop", "assembling", "calling"}
    BY DEF ContextInv, TypeOK
  <1>1. CASE Ask
    <2>1. PICK w \in Weights : PushAll(<<Weigh(Said("user"), w)>>)
      BY <1>1 DEF Ask
    <2>2. Whole(<<Weigh(Said("user"), w)>>)
      BY MessageWhole, ContextAssumption
    <2>3. QED
      BY <1>0, <1>1, <2>1, <2>2, PushInv DEF Ask, locals
  <1>2. CASE FastPath
    <2>1. PICK u \in Weights, a \in Weights :
            PushAll(<<Weigh(Said("user"), u), Weigh(Said("assistant"), a)>>)
      BY <1>2 DEF FastPath
    <2>2. Whole(<<Weigh(Said("user"), u), Weigh(Said("assistant"), a)>>)
      BY ExchangeWhole, ContextAssumption
    <2>3. QED
      BY <1>0, <1>2, <2>1, <2>2, PushInv DEF FastPath, locals
  <1>3. CASE Checkpoint
    <2>1. iter' \in 0 .. MaxIterations
      BY <1>0, <1>3, ContextAssumption DEF Checkpoint, MoreIterations
    <2>2. CASE UNCHANGED transcript
      <3>1. TypeOK'
        BY <1>3, <2>1, <2>2 DEF ContextInv, TypeOK, Checkpoint
      <3>2. QED
        BY <1>3, <2>2, <3>1 DEF ContextInv, WindowFits, Checkpoint
    <2>3. CASE \E w \in Weights : PushAll(<<Weigh(Said("user"), w)>>)
      <3>1. PICK w \in Weights : PushAll(<<Weigh(Said("user"), w)>>)
        BY <2>3
      <3>2. Whole(<<Weigh(Said("user"), w)>>)
        BY MessageWhole, ContextAssumption
      <3>3. QED
        BY <1>0, <1>3, <2>1, <3>1, <3>2, PushInv DEF Checkpoint
    <2>4. QED
      BY <1>3, <2>2, <2>3 DEF Checkpoint
  <1>4. CASE Assemble
    BY <1>4, AssembleInv
  <1>5. CASE Exhausted
    BY <1>0, <1>5, EndTurnInv DEF Exhausted
  <1>6. CASE Answer
    <2>1. PICK w \in Weights : EndTurn(Append(transcript, Weigh(Said("assistant"), w)))
      BY <1>6 DEF Answer
    <2> DEFINE e == Weigh(Said("assistant"), w)
    <2>2. Whole(<<e>>) /\ e \in Weighed
      BY MessageWhole, MessageType, ContextAssumption
    <2>3. transcript \o <<e>> \in Seq(Weighed) /\ Paired(transcript \o <<e>>)
      BY <1>0, <2>2, PushKeeps
    <2>4. Append(transcript, e) = transcript \o <<e>>
      <3> HIDE DEF e
      <3>1. QED
        BY <1>0, <2>2
    <2>5. QED
      BY <2>1, <2>3, <2>4, EndTurnInv
  <1>7. CASE GiveUp
    BY <1>0, <1>7, EndTurnInv DEF GiveUp
  <1>8. CASE Nudge
    <2>1. PICK w \in Weights : PushAll(<<Weigh(Said("user"), w)>>)
      BY <1>8 DEF Nudge
    <2>2. Whole(<<Weigh(Said("user"), w)>>)
      BY MessageWhole, ContextAssumption
    <2>3. QED
      BY <1>0, <1>8, <2>1, <2>2, PushInv DEF Nudge, Again
  <1>9. CASE CallTools
    <2>1. PICK m \in 1 .. MaxBatch, w \in CallWeights :
            \E rw \in [1 .. m -> ResultWeights] :
              LET es == <<Weigh(Calls(m), w)>> \o [k \in 1 .. m |-> Weigh(Result(k), rw[k])]
              IN \/ /\ PushAll(es)
                    /\ Again
                    /\ UNCHANGED <<iter, compacted, retried>>
                 \/ EndTurn(transcript \o es)
      BY <1>9 DEF CallTools
    <2>0. PICK rw \in [1 .. m -> ResultWeights] :
            LET es == <<Weigh(Calls(m), w)>> \o [k \in 1 .. m |-> Weigh(Result(k), rw[k])]
            IN \/ /\ PushAll(es)
                  /\ Again
                  /\ UNCHANGED <<iter, compacted, retried>>
               \/ EndTurn(transcript \o es)
      BY <2>1
    <2> DEFINE es == <<Weigh(Calls(m), w)>> \o [k \in 1 .. m |-> Weigh(Result(k), rw[k])]
    <2>2. m \in Nat \ {0} /\ w \in Nat /\ rw \in [1 .. m -> Nat]
      <3>1. m \in Nat \ {0} /\ w \in Nat
        BY ContextAssumption
      <3>2. ResultWeights \subseteq Nat
        BY ContextAssumption
      <3>3. QED
        BY <3>1, <3>2
    <2>3. Whole(es)
      BY <2>2, BatchWhole
    <2>4. \/ PushAll(es) /\ Again /\ UNCHANGED <<iter, compacted, retried>>
          \/ EndTurn(transcript \o es)
      BY <2>0
    <2> HIDE DEF es
    <2>5. transcript \o es \in Seq(Weighed) /\ Paired(transcript \o es)
      BY <1>0, <2>3, PushKeeps
    <2>6. CASE EndTurn(transcript \o es)
      BY <2>5, <2>6, EndTurnInv
    <2>7. CASE PushAll(es) /\ Again /\ UNCHANGED <<iter, compacted, retried>>
      BY <1>0, <2>3, <2>7, PushInv DEF Again
    <2>8. QED
      BY <2>4, <2>6, <2>7
  <1>10. CASE CompactCommand
    <2>1. transcript' \in Seq(Weighed) /\ Paired(transcript')
      BY <1>0, <1>10, CompactIs DEF CompactCommand
    <2>2. TypeOK'
      BY <1>10, <2>1 DEF ContextInv, TypeOK, CompactCommand, locals
    <2>3. QED
      BY <1>10, <2>1, <2>2 DEF ContextInv, WindowFits, CompactCommand, locals
  <1>11. CASE Clear
    <2>1. TypeOK'
      BY <1>11 DEF ContextInv, TypeOK, Clear, locals
    <2>2. QED
      BY <1>11, <2>1, NoWindowFine DEF ContextInv, WindowFits, Clear, locals
  <1>12. CASE UNCHANGED vars
    <2>1. TypeOK'
      BY <1>12 DEF ContextInv, TypeOK, vars, locals
    <2>2. QED
      BY <1>12, <2>1 DEF ContextInv, WindowFits, vars, locals
  <1>13. QED
    BY <1>1, <1>2, <1>3, <1>4, <1>5, <1>6, <1>7, <1>8, <1>9, <1>10, <1>11, <1>12 DEF Next

-----------------------------------------------------------------------------
(* The theorems. *)

\* In every state, whatever is compacted, truncated and capped, the invariant
\* holds.
THEOREM Invariance == Spec => []ContextInv
  <1>1. QED
    BY InitInv, StepInv, PTL DEF Spec

\* No cut parts a call from its results, in what the provider is shown or in
\* what is stored, and results without their call stand in front only:
\* compactHistory, hardTruncate, buildContextWindow, trimTranscript and the
\* /compact and /clear commands, for every budget, cap and weight.
THEOREM Pairs == Spec => []PairsKept
  <1>1. ContextInv => PairsKept
    <2> SUFFICES ASSUME ContextInv PROVE PairsKept
      OBVIOUS
    <2>1. TypeOK /\ transcript \in Seq(Weighed) /\ window.history \in Seq(Weighed)
      BY DEF ContextInv, TypeOK, Window
    <2>2. Paired(transcript) /\ Paired(window.history)
      BY DEF ContextInv
    <2>3. CallsAnswered(Bare(transcript)) /\ OrphansInFront(transcript)
      BY <2>1, <2>2, PairedSays
    <2>4. CallsAnswered(Bare(window.history)) /\ OrphansInFront(window.history)
      BY <2>1, <2>2, PairedSays
    <2>5. QED
      BY <2>1, <2>3, <2>4 DEF PairsKept, CallsWhole, OrphansOnlyInFront
  <1>2. QED
    BY <1>1, Invariance, PTL

\* The request fits the budget, and a newest message that fits alone ends it:
\* neither compaction nor the window drops the question the model answers.
THEOREM Serving == Spec => WindowServes
  <1>1. ASSUME ContextInv, Assemble,
               LET e == transcript[Len(transcript)]
               IN e.role = "user" /\ e.w <= Budget - window'.system /\ e.w <= KeepBudget
                    /\ window'.system < Budget
        PROVE  window'.history # <<>>
                 /\ window'.history[Len(window'.history)] = transcript[Len(transcript)]
    <2> DEFINE e == transcript[Len(transcript)]
    <2>1. PICK st \in SystemWeights :
            /\ window' = BuildWindow(transcript', st)
            /\ transcript' \in Seq(Weighed) /\ Paired(transcript')
            /\ LastFits(transcript, Budget) /\ LastFits(transcript, KeepBudget)
                 => Len(transcript') > 0 /\ transcript'[Len(transcript')] = e
      BY <1>1, AssembleIs
    <2>2. st \in Nat
      BY ContextAssumption
    <2>3. /\ window'.system = st
          /\ Len(transcript') > 0 /\ st < Budget /\ LastFits(transcript', Budget - st)
               => window'.history # <<>>
                    /\ window'.history[Len(window'.history)] = transcript'[Len(transcript')]
      BY <2>1, <2>2, WindowIs
    <2>4. e.role = "user" /\ e.w <= Budget - st /\ e.w <= KeepBudget /\ st < Budget
      BY <1>1, <2>3
    <2>5. e.w \in Nat /\ Budget \in Nat
      <3>1. transcript \in Seq(Weighed) /\ Len(transcript) > 0
        BY <1>1 DEF ContextInv, TypeOK, Assemble
      <3>2. Len(transcript) \in 1 .. Len(transcript)
        BY <3>1
      <3>3. QED
        BY <3>1, <3>2, WeighedAt, ContextAssumption
    <2>6. PICK x \in Nat : x = e.w
      BY <2>5
    <2>7. x <= Budget
      BY <2>2, <2>4, <2>5, <2>6
    <2>8. LastFits(transcript, Budget) /\ LastFits(transcript, KeepBudget)
      BY <2>4, <2>6, <2>7 DEF LastFits
    <2>9. Len(transcript') > 0 /\ transcript'[Len(transcript')] = e
      BY <2>1, <2>8
    <2> HIDE DEF e
    <2>10. LastFits(transcript', Budget - st)
      BY <2>4, <2>9 DEF LastFits
    <2>11. QED
      BY <2>3, <2>4, <2>9, <2>10 DEF e
  <1>2. ContextInv /\ [Next]_vars
          => (pc = "assembling" /\ pc' = "calling" =>
               LET e == transcript[Len(transcript)]
               IN e.role = "user" /\ e.w <= Budget - window'.system /\ e.w <= KeepBudget
                    /\ window'.system < Budget
                  => window'.history # <<>> /\ window'.history[Len(window'.history)] = e)
    <2> SUFFICES ASSUME ContextInv, [Next]_vars, pc = "assembling", pc' = "calling",
                        LET e == transcript[Len(transcript)]
                        IN e.role = "user" /\ e.w <= Budget - window'.system
                             /\ e.w <= KeepBudget /\ window'.system < Budget
                 PROVE  window'.history # <<>>
                          /\ window'.history[Len(window'.history)] = transcript[Len(transcript)]
      OBVIOUS
    <2>1. Assemble
      BY DEF Next, Ask, FastPath, Checkpoint, Exhausted, Answer, GiveUp, Nudge, CallTools,
             CompactCommand, Clear, vars
    <2>2. QED
      BY <1>1, <2>1
  <1>3. ContextInv => WindowFits
    BY DEF ContextInv
  <1>4. Spec => QuestionSeen
    BY <1>2, Invariance, PTL DEF Spec, QuestionSeen
  <1>5. Spec => []WindowFits
    BY <1>3, Invariance, PTL
  <1>6. QED
    BY <1>4, <1>5, PTL DEF WindowServes

=============================================================================
