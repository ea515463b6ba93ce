--------------------------- MODULE FilterTheorems ---------------------------
(***************************************************************************)
(* What filtering a sequence returns.  A recursion over the natural        *)
(* numbers is reasoned about by the least number for which a claim would   *)
(* fail.                                                                   *)
(***************************************************************************)
EXTENDS Filter, WellFoundedInduction, TLAPS

\* A set of natural numbers that is not empty has a least element.
LEMMA LeastOf ==
  ASSUME NEW T \in SUBSET Nat, T # {}
  PROVE  \E n \in T : \A k \in T : n <= k
  <1> DEFINE R == OpToRel(<, Nat)
  <1>1. IsWellFoundedOn(R, Nat)
    BY NatLessThanWellFounded
  <1>2. \A k, n \in Nat : k < n => <<k, n>> \in R
    BY DEF OpToRel
  <1> HIDE DEF R
  <1>3. PICK n \in T : \A k \in T : ~ (<<k, n>> \in R)
    BY <1>1, WFMin
  <1>4. \A k \in T : ~ (k < n)
    BY <1>2, <1>3
  <1>5. QED
    BY <1>4

\* The same, as the proofs by a least counterexample want it.
LEMMA Least ==
  ASSUME NEW T \in SUBSET Nat, T # {}
  PROVE  \E n \in T : \A k \in T : ~(k < n)
  BY LeastOf

\* What Kept has gathered of the first i elements, from what it had before.
Gathers(f, s, S, i) ==
  f[i] = IF i = 0 THEN <<>> ELSE IF s[i] \in S THEN Append(f[i - 1], s[i]) ELSE f[i - 1]

\* The function Kept chooses.
Filters(f, s, S) ==
  f = [i \in 0..Len(s) |->
         IF i = 0 THEN <<>> ELSE IF s[i] \in S THEN Append(f[i - 1], s[i]) ELSE f[i - 1]]

\* There is such a function: one for the first n - 1 elements is extended to n.
LEMMA FilterExists ==
  ASSUME NEW P, NEW S, NEW s \in Seq(P)
  PROVE  \E f : Filters(f, s, S)
  <1> DEFINE Is(n, f) == /\ f = [i \in 0..n |-> f[i]]
                         /\ \A i \in 0..n : Gathers(f, s, S, i)
             Without == {n \in Nat : n <= Len(s) /\ ~ \E f : Is(n, f)}
  <1>1. Without = {}
    <2>1. SUFFICES ASSUME Without # {} PROVE FALSE
      OBVIOUS
    <2>2. PICK n \in Without : \A k \in Without : ~(k < n)
      BY <2>1, Least
    <2>3. n \in Nat /\ n > 0
      <3>1. Is(0, [i \in 0..0 |-> <<>>])
        BY DEF Gathers
      <3> HIDE DEF Is
      <3>2. 0 \notin Without
        BY <3>1
      <3>3. QED
        BY <2>2, <3>2
    <2>4. PICK g : Is(n - 1, g)
      <3> HIDE DEF Is
      <3>1. QED
        BY <2>2, <2>3
    <2> DEFINE h == [i \in 0..n |->
                       IF i = n THEN IF s[n] \in S THEN Append(g[n - 1], s[n]) ELSE g[n - 1]
                       ELSE g[i]]
    <2>5. /\ h = [i \in 0..n |-> h[i]]
          /\ \A i \in 0..n - 1 : h[i] = g[i]
          /\ h[n] = IF s[n] \in S THEN Append(g[n - 1], s[n]) ELSE g[n - 1]
      BY <2>3
    <2> HIDE DEF h
    <2>6. ASSUME NEW i \in 0..n PROVE Gathers(h, s, S, i)
      <3>1. CASE i = n
        <4>1. n - 1 \in 0..n - 1
          BY <2>3
        <4>2. h[n - 1] = g[n - 1]
          BY <2>5, <4>1
        <4>3. QED
          BY <2>3, <2>5, <3>1, <4>2 DEF Gathers
      <3>2. CASE i # n
        <4>1. i \in 0..n - 1 /\ (i # 0 => i - 1 \in 0..n - 1)
          BY <2>3, <3>2
        <4>2. h[i] = g[i] /\ (i # 0 => h[i - 1] = g[i - 1]) /\ Gathers(g, s, S, i)
          BY <2>4, <2>5, <4>1
        <4>3. QED
          BY <4>2 DEF Gathers
      <3>3. QED
        BY <3>1, <3>2
    <2>7. Is(n, h)
      BY <2>5, <2>6
    <2>8. QED
      BY <2>7
  <1>2. Len(s) \in Nat
    OBVIOUS
  <1>3. PICK f : Is(Len(s), f)
    <2> HIDE DEF Is
    <2>1. QED
      BY <1>1, <1>2
  <1>4. QED
    BY <1>3 DEF Gathers, Filters

\* Kept returns elements of the sequence that are in the set.
LEMMA KeptIs ==
  ASSUME NEW P, NEW S, NEW s \in Seq(P)
  PROVE  Kept(s, S) \in Seq(P \cap S)
  <1> DEFINE f == CHOOSE g : Filters(g, s, S)
  <1>1. Filters(f, s, S)
    BY FilterExists
  <1>2. Kept(s, S) = f[Len(s)]
    BY DEF Kept, Filters
  <1> HIDE DEF f
  <1>3. Len(s) \in Nat /\ \A i \in 0..Len(s) : Gathers(f, s, S, i)
    <2>1. Len(s) \in Nat
      OBVIOUS
    <2>2. QED
      BY <1>1, <2>1 DEF Filters, Gathers
  <1> DEFINE Bad == {n \in Nat : n <= Len(s) /\ f[n] \notin Seq(P \cap S)}
  <1>4. Bad = {}
    <2>1. SUFFICES ASSUME Bad # {} PROVE FALSE
      OBVIOUS
    <2>2. PICK n \in Bad : \A k \in Bad : ~(k < n)
      BY <2>1, Least
    <2>3. n # 0
      <3>1. f[0] = <<>> /\ <<>> \in Seq(P \cap S)
        BY <1>3 DEF Gathers
      <3>2. QED
        BY <2>2, <3>1
    <2>4. n - 1 \in Nat /\ n \in 1..Len(s) /\ n \in 0..Len(s)
      BY <1>3, <2>3
    <2>5. f[n - 1] \in Seq(P \cap S)
      BY <2>2, <2>4
    <2>6. f[n] = IF s[n] \in S THEN Append(f[n - 1], s[n]) ELSE f[n - 1]
      BY <1>3, <2>3, <2>4 DEF Gathers
    <2>7. s[n] \in P
      BY <2>4
    <2>8. f[n] \in Seq(P \cap S)
      BY <2>5, <2>6, <2>7
    <2>9. QED
      BY <2>2, <2>8
  <1>5. QED
    BY <1>2, <1>3, <1>4

\* The elements keep their order and all that are in the set are there: h gives
\* the place each comes from.  Fewer are left if one is not in the set.
Picks(h, q, s, n, S) ==
  /\ h \in [1..Len(q) -> 1..n]
  /\ \A i \in 1..Len(q) : q[i] = s[h[i]] /\ s[h[i]] \in S
  /\ \A i, j \in 1..Len(q) : i < j => h[i] < h[j]
  /\ \A j \in 1..n : s[j] \in S => \E i \in 1..Len(q) : h[i] = j
Picked(q, s, n, S) ==
  /\ Len(q) <= n
  /\ (\E j \in 1..n : s[j] \notin S) => Len(q) < n
  /\ \E h : Picks(h, q, s, n, S)

LEMMA PickedNext ==
  ASSUME NEW P, NEW S, NEW s \in Seq(P), NEW n \in 1..Len(s), NEW q \in Seq(P),
         Picked(q, s, n - 1, S)
  PROVE  /\ s[n] \in S => Picked(Append(q, s[n]), s, n, S)
         /\ s[n] \notin S => Picked(q, s, n, S)
  <1>1. PICK h : Picks(h, q, s, n - 1, S)
    BY DEF Picked
  <1>2. Len(q) \in Nat /\ Len(q) <= n - 1 /\ n \in Nat /\ s[n] \in P
    BY DEF Picked
  <1>3. ASSUME s[n] \notin S PROVE Picked(q, s, n, S)
    <2>1. Picks(h, q, s, n, S)
      BY <1>1, <1>2, <1>3 DEF Picks
    <2>2. QED
      BY <1>2, <2>1 DEF Picked
  <1>4. ASSUME s[n] \in S PROVE Picked(Append(q, s[n]), s, n, S)
    <2> DEFINE r == Append(q, s[n])
               l == Len(q)
               g == [i \in 1..l + 1 |-> IF i = l + 1 THEN n ELSE h[i]]
    <2>1. /\ r \in Seq(P) /\ Len(r) = l + 1 /\ r[l + 1] = s[n]
          /\ \A i \in 1..l : r[i] = q[i]
      BY <1>2
    <2>2. l \in Nat /\ \A i \in 1..l : h[i] \in 1..n - 1 /\ i # l + 1
      BY <1>1, <1>2 DEF Picks
    <2>3. g \in [1..l + 1 -> 1..n] /\ g[l + 1] = n /\ \A i \in 1..l : g[i] = h[i] /\ g[i] < n
      <3> HIDE DEF l
      <3>1. \A i \in 1..l + 1 : i = l + 1 \/ i \in 1..l
        BY <2>2
      <3>2. \A i \in 1..l : i \in 1..l + 1
        BY <2>2
      <3>3. \A i \in 1..l + 1 : g[i] \in 1..n
        BY <1>2, <2>2, <3>1
      <3>4. \A i \in 1..l : g[i] = h[i] /\ g[i] < n
        BY <1>2, <2>2, <3>2
      <3>5. g[l + 1] = n
        BY <2>2
      <3>6. QED
        BY <3>3, <3>4, <3>5
    <2> HIDE DEF g, r
    <2>4. \A i \in 1..l + 1 : r[i] = s[g[i]] /\ s[g[i]] \in S
      <3> SUFFICES ASSUME NEW i \in 1..l + 1 PROVE r[i] = s[g[i]] /\ s[g[i]] \in S
        OBVIOUS
      <3>1. CASE i = l + 1
        BY <1>4, <2>1, <2>3, <3>1
      <3>2. CASE i # l + 1
        <4>1. i \in 1..l
          BY <1>2, <3>2
        <4>2. q[i] = s[h[i]] /\ s[h[i]] \in S
          BY <1>1, <4>1 DEF Picks
        <4>3. QED
          BY <2>1, <2>3, <4>1, <4>2
      <3>3. QED
        BY <3>1, <3>2
    <2>5. \A i, j \in 1..l + 1 : i < j => g[i] < g[j]
      <3> SUFFICES ASSUME NEW i \in 1..l + 1, NEW j \in 1..l + 1, i < j PROVE g[i] < g[j]
        OBVIOUS
      <3>1. i \in 1..l
        BY <1>2
      <3>2. CASE j = l + 1
        BY <2>3, <3>1, <3>2
      <3>3. CASE j # l + 1
        <4>1. j \in 1..l
          BY <1>2, <3>3
        <4>2. h[i] < h[j]
          BY <1>1, <3>1, <4>1 DEF Picks
        <4>3. QED
          BY <2>3, <3>1, <4>1, <4>2
      <3>4. QED
        BY <3>2, <3>3
    <2>6. ASSUME NEW j \in 1..n, s[j] \in S PROVE \E i \in 1..l + 1 : g[i] = j
      <3>1. CASE j = n
        BY <1>2, <2>3, <3>1
      <3>2. CASE j # n
        <4>1. j \in 1..n - 1
          BY <1>2, <3>2
        <4>2. PICK i \in 1..l : h[i] = j
          BY <1>1, <2>6, <4>1 DEF Picks
        <4>3. i \in 1..l + 1
          BY <1>2
        <4>4. QED
          BY <2>3, <4>2, <4>3
      <3>3. QED
        BY <3>1, <3>2
    <2>7. Picks(g, r, s, n, S)
      BY <2>1, <2>3, <2>4, <2>5, <2>6 DEF Picks
    <2>8. (\E j \in 1..n : s[j] \notin S) => \E j \in 1..n - 1 : s[j] \notin S
      BY <1>2, <1>4
    <2>9. Len(r) <= n /\ ((\E j \in 1..n : s[j] \notin S) => Len(r) < n)
      BY <1>2, <2>1, <2>8 DEF Picked
    <2>10. QED
      BY <2>7, <2>9 DEF Picked, r
  <1>5. QED
    BY <1>3, <1>4

LEMMA KeptPicks ==
  ASSUME NEW P, NEW S, NEW s \in Seq(P)
  PROVE  Picked(Kept(s, S), s, Len(s), S)
  <1> DEFINE f == CHOOSE g : Filters(g, s, S)
  <1>1. Filters(f, s, S)
    BY FilterExists
  <1>2. Kept(s, S) = f[Len(s)]
    BY DEF Kept, Filters
  <1> HIDE DEF f
  <1>3. Len(s) \in Nat /\ \A i \in 0..Len(s) : Gathers(f, s, S, i)
    <2>1. Len(s) \in Nat
      OBVIOUS
    <2>2. QED
      BY <1>1, <2>1 DEF Filters, Gathers
  <1> DEFINE Bad == {n \in Nat : n <= Len(s) /\ ~(f[n] \in Seq(P) /\ Picked(f[n], s, n, S))}
  <1>4. Bad = {}
    <2>1. SUFFICES ASSUME Bad # {} PROVE FALSE
      OBVIOUS
    <2>2. PICK n \in Bad : \A k \in Bad : ~(k < n)
      BY <2>1, Least
    <2>3. n # 0
      <3>1. f[0] = <<>> /\ <<>> \in Seq(P) /\ Len(<<>>) = 0
        BY <1>3 DEF Gathers
      <3>2. \A q \in Seq(P) : Len(q) = 0 => Picks([i \in 1..0 |-> 0], q, s, 0, S)
        BY DEF Picks
      <3>3. Picked(f[0], s, 0, S)
        <4>1. Picks([i \in 1..0 |-> 0], f[0], s, 0, S) /\ Len(f[0]) = 0
          BY <3>1, <3>2
        <4>2. ~ \E j \in 1..0 : s[j] \notin S
          OBVIOUS
        <4>3. QED
          BY <4>1, <4>2 DEF Picked
      <3>4. QED
        BY <2>2, <3>1, <3>3
    <2>4. n - 1 \in Nat /\ n \in 1..Len(s) /\ n \in 0..Len(s) /\ n - 1 < n /\ n - 1 <= Len(s)
      BY <1>3, <2>3
    <2>5. f[n - 1] \in Seq(P) /\ Picked(f[n - 1], s, n - 1, S)
      BY <2>2, <2>4
    <2>6. f[n] = IF s[n] \in S THEN Append(f[n - 1], s[n]) ELSE f[n - 1]
      BY <1>3, <2>3, <2>4 DEF Gathers
    <2>7. s[n] \in P
      BY <2>4
    <2>8. f[n] \in Seq(P)
      BY <2>5, <2>6, <2>7
    <2>9. Picked(f[n], s, n, S)
      BY <2>4, <2>5, <2>6, PickedNext
    <2>10. QED
      BY <2>2, <2>8, <2>9
  <1>5. QED
    BY <1>2, <1>3, <1>4


\* One more element is kept behind the others, or is left out.
LEMMA KeptAppend ==
  ASSUME NEW P, NEW S, NEW s \in Seq(P), NEW e \in P
  PROVE  Kept(Append(s, e), S) = IF e \in S THEN Append(Kept(s, S), e) ELSE Kept(s, S)
  <1> DEFINE t == Append(s, e)
             f == CHOOSE h : Filters(h, s, S)
             g == CHOOSE h : Filters(h, t, S)
  <1>1. t \in Seq(P) /\ Len(t) = Len(s) + 1 /\ t[Len(s) + 1] = e /\ Len(s) \in Nat
        /\ \A i \in 1..Len(s) : t[i] = s[i]
    OBVIOUS
  <1>2. Filters(f, s, S) /\ Filters(g, t, S)
    BY <1>1, FilterExists
  <1>3. Kept(s, S) = f[Len(s)] /\ Kept(t, S) = g[Len(s) + 1]
    BY <1>1 DEF Kept, Filters
  <1> HIDE DEF f, g, t
  <1>4. /\ \A i \in 0..Len(s) : Gathers(f, s, S, i)
        /\ \A i \in 0..Len(s) + 1 : Gathers(g, t, S, i)
    BY <1>1, <1>2 DEF Filters, Gathers
  <1> DEFINE Bad == {n \in Nat : n <= Len(s) /\ f[n] # g[n]}
  <1>5. Bad = {}
    <2>1. SUFFICES ASSUME Bad # {} PROVE FALSE
      OBVIOUS
    <2>2. PICK n \in Bad : \A k \in Bad : ~(k < n)
      BY <2>1, Least
    <2>3. n # 0
      BY <1>1, <1>4, <2>2 DEF Gathers
    <2>4. n - 1 \in Nat /\ n \in 1..Len(s) /\ n \in 0..Len(s) /\ n \in 0..Len(s) + 1
          /\ n - 1 < n /\ n - 1 <= Len(s)
      BY <1>1, <2>3
    <2>5. f[n - 1] = g[n - 1]
      BY <2>2, <2>4
    <2>6. t[n] = s[n]
      BY <1>1, <2>4
    <2>7. f[n] = g[n]
      BY <1>4, <2>3, <2>4, <2>5, <2>6 DEF Gathers
    <2>8. QED
      BY <2>2, <2>7
  <1>6. f[Len(s)] = g[Len(s)]
    BY <1>1, <1>5
  <1>7. Len(s) + 1 \in 0..Len(s) + 1 /\ Len(s) + 1 # 0 /\ (Len(s) + 1) - 1 = Len(s)
    BY <1>1
  <1>8. g[Len(s) + 1] = IF e \in S THEN Append(g[Len(s)], e) ELSE g[Len(s)]
    BY <1>1, <1>4, <1>7 DEF Gathers
  <1>9. QED
    BY <1>3, <1>6, <1>8 DEF t


\* What is kept comes from the sequence, and is in the set.
LEMMA KeptFrom ==
  ASSUME NEW P, NEW S, NEW s \in Seq(P)
  PROVE  /\ Kept(s, S) \in Seq(P) /\ Len(Kept(s, S)) <= Len(s)
         /\ \A i \in 1..Len(Kept(s, S)) :
              Kept(s, S)[i] \in S /\ \E j \in 1..Len(s) : Kept(s, S)[i] = s[j]
  <1>1. Kept(s, S) \in Seq(P)
    <2>1. \A q \in Seq(P \cap S) : Len(q) \in Nat /\ q \in [1..Len(q) -> P]
      OBVIOUS
    <2>2. \A q \in Seq(P \cap S) : q \in Seq(P)
      BY <2>1
    <2>3. QED
      BY <2>2, KeptIs
  <1>2. Picked(Kept(s, S), s, Len(s), S)
    BY KeptPicks
  <1>3. QED
    BY <1>1, <1>2 DEF Picked, Picks

\* Nothing is kept of nothing.
LEMMA KeptEmpty ==
  ASSUME NEW S
  PROVE  Kept(<<>>, S) = <<>>
  <1>1. <<>> \in Seq({}) /\ Len(<<>>) = 0
    OBVIOUS
  <1>2. Kept(<<>>, S) \in Seq({})
    BY <1>1, KeptFrom
  <1>3. QED
    BY <1>2

\* A sequence that is not empty is another with one more element behind it.
LEMMA FrontAndLast ==
  ASSUME NEW P, NEW s \in Seq(P), Len(s) # 0
  PROVE  \E q \in Seq(P), e \in P : s = Append(q, e) /\ Len(q) = Len(s) - 1
  <1> DEFINE q == [i \in 1..Len(s) - 1 |-> s[i]]
  <1>1. Len(s) \in Nat \ {0} /\ s[Len(s)] \in P
    OBVIOUS
  <1>2. q \in Seq(P) /\ Len(q) = Len(s) - 1 /\ \A i \in 1..Len(s) - 1 : q[i] = s[i]
    BY <1>1
  <1> HIDE DEF q
  <1>3. s = Append(q, s[Len(s)])
    BY <1>1, <1>2
  <1>4. QED
    BY <1>1, <1>2, <1>3

\* To filter twice is to filter by what is in both sets.
LEMMA KeptTwice ==
  ASSUME NEW P, NEW S, NEW R, NEW s \in Seq(P)
  PROVE  Kept(Kept(s, S), R) = Kept(s, S \cap R)
  <1> DEFINE Same(q) == Kept(Kept(q, S), R) = Kept(q, S \cap R)
             Bad == {n \in Nat : \E q \in Seq(P) : Len(q) = n /\ ~Same(q)}
  <1>1. Bad = {}
    <2>1. SUFFICES ASSUME Bad # {} PROVE FALSE
      OBVIOUS
    <2>2. PICK n \in Bad : \A k \in Bad : ~(k < n)
      BY <2>1, Least
    <2>3. PICK t \in Seq(P) : Len(t) = n /\ ~Same(t)
      BY <2>2
    <2>4. n # 0
      <3>1. Same(<<>>)
        BY KeptEmpty
      <3>2. Len(t) = 0 => t = <<>>
        OBVIOUS
      <3>3. QED
        BY <2>3, <3>1, <3>2
    <2>5. PICK q \in Seq(P), e \in P : t = Append(q, e) /\ Len(q) = n - 1
      <3> HIDE DEF Bad, Same
      <3>1. QED
        BY <2>3, <2>4, FrontAndLast
    <2>6. n - 1 \in Nat /\ n - 1 < n
      BY <2>2, <2>4
    <2>7. Same(q)
      BY <2>2, <2>5, <2>6
    <2>8. Kept(q, S) \in Seq(P)
      BY KeptFrom
    <2>9. Kept(t, S) = IF e \in S THEN Append(Kept(q, S), e) ELSE Kept(q, S)
      BY <2>5, KeptAppend
    <2>10. Kept(t, S \cap R)
             = IF e \in S /\ e \in R THEN Append(Kept(q, S \cap R), e) ELSE Kept(q, S \cap R)
      BY <2>5, KeptAppend
    <2>11. Kept(Append(Kept(q, S), e), R)
             = IF e \in R THEN Append(Kept(Kept(q, S), R), e) ELSE Kept(Kept(q, S), R)
      BY <2>8, KeptAppend
    <2>12. Same(t)
      BY <2>7, <2>9, <2>10, <2>11
    <2>13. QED
      BY <2>3, <2>12
  <1>2. Len(s) \in Nat
    OBVIOUS
  <1>3. QED
    BY <1>1, <1>2

\* All is kept if all is in the set.
LEMMA KeptAll ==
  ASSUME NEW P, NEW S, NEW s \in Seq(P), \A i \in 1..Len(s) : s[i] \in S
  PROVE  Kept(s, S) = s
  <1> DEFINE Wrong(q) == (\A i \in 1..Len(q) : q[i] \in S) /\ Kept(q, S) # q
             Bad == {n \in Nat : \E q \in Seq(P) : Len(q) = n /\ Wrong(q)}
  <1>1. Bad = {}
    <2>1. SUFFICES ASSUME Bad # {} PROVE FALSE
      OBVIOUS
    <2>2. PICK n \in Bad : \A k \in Bad : ~(k < n)
      BY <2>1, Least
    <2>3. PICK t \in Seq(P) : Len(t) = n /\ Wrong(t)
      BY <2>2
    <2>4. n # 0
      <3>1. Len(t) = 0 => t = <<>>
        OBVIOUS
      <3> HIDE DEF Bad
      <3>2. QED
        BY <2>3, <3>1, KeptEmpty
    <2>5. PICK q \in Seq(P), e \in P : t = Append(q, e) /\ Len(q) = n - 1
      <3> HIDE DEF Bad
      <3>1. QED
        BY <2>3, <2>4, FrontAndLast
    <2>6. n - 1 \in Nat /\ n - 1 < n /\ n \in 1..n
      BY <2>2, <2>4
    <2>7. e \in S /\ \A i \in 1..Len(q) : q[i] \in S
      <3>1. e = t[n] /\ n \in 1..Len(t)
        BY <2>3, <2>5, <2>6
      <3>2. \A i \in 1..Len(q) : i \in 1..Len(t) /\ q[i] = t[i]
        BY <2>3, <2>5, <2>6
      <3>3. QED
        BY <2>3, <3>1, <3>2
    <2>8. Kept(q, S) = q
      BY <2>2, <2>5, <2>6, <2>7
    <2>9. Kept(t, S) = t
      BY <2>5, <2>7, <2>8, KeptAppend
    <2> HIDE DEF Bad
    <2>10. QED
      BY <2>3, <2>9
  <1>2. Len(s) \in Nat
    OBVIOUS
  <1>3. QED
    BY <1>1, <1>2

\* No more is kept by a smaller set.
LEMMA KeptWithin ==
  ASSUME NEW P, NEW S, NEW R \in SUBSET S, NEW s \in Seq(P)
  PROVE  Len(Kept(s, R)) <= Len(Kept(s, S))
  <1>1. Kept(s, R) = Kept(Kept(s, S), R)
    <2>1. S \cap R = R
      OBVIOUS
    <2>2. QED
      BY <2>1, KeptTwice
  <1>2. Kept(s, S) \in Seq(P)
    BY KeptFrom
  <1>3. QED
    BY <1>1, <1>2, KeptFrom
=============================================================================
