--------------------------- MODULE RuleTextProofs ---------------------------
(***************************************************************************)
(* The text of a rule, for rules, values and placeholders of any number    *)
(* and length: what is sent is the rule with everything put in at once, if *)
(* the rule is clean and the values are plain.                             *)
(***************************************************************************)
EXTENDS RuleText, CommandWordsProofs, WellFoundedInduction, SequenceTheorems, TLAPS

-----------------------------------------------------------------------------
(* Induction, with a set in the place of a predicate *)

LEMMA LeastOf ==
    ASSUME NEW T, T \subseteq Nat, T # {}
    PROVE  \E m \in T : \A n \in T : m <= n
<1> DEFINE R == {p \in Nat \X Nat : p[1] < p[2]}
<1>1. IsWellFoundedOn(R, Nat)
    BY NatLessThanWellFounded DEF OpToRel
<1>2. \A p : p \in R <=> p \in Nat \X Nat /\ p[1] < p[2]
    OBVIOUS
<1> HIDE DEF R
<1>3. PICK m \in T : \A n \in T : ~(<<n, m>> \in R)
    BY <1>1, WFMin
<1>4. ASSUME NEW n \in T PROVE m <= n
  <2>1. m \in Nat /\ n \in Nat
      OBVIOUS
  <2>2. <<n, m>> \in Nat \X Nat /\ <<n, m>>[1] = n /\ <<n, m>>[2] = m
      BY <2>1
  <2> QED
      BY <2>1, <2>2, <1>2, <1>3
<1> QED
    BY <1>4

LEMMA NumbersByInduction ==
    ASSUME NEW P, 0 \in P, \A n \in Nat : n \in P => n + 1 \in P
    PROVE  \A n \in Nat : n \in P
<1>1. SUFFICES ASSUME Nat \ P # {} PROVE FALSE
    OBVIOUS
<1>2. PICK m \in Nat \ P : \A n \in Nat \ P : m <= n
  <2> DEFINE T == Nat \ P
  <2>1. T \subseteq Nat /\ T # {}
      BY <1>1
  <2> HIDE DEF T
  <2>2. \E m \in T : \A n \in T : m <= n
      BY <2>1, LeastOf
  <2> QED
      BY <2>2 DEF T
<1>3. m - 1 \in Nat /\ m - 1 \in P /\ (m - 1) + 1 = m
    BY <1>2
<1> QED
    BY <1>2, <1>3

LEMMA SequencesByInduction ==
    ASSUME NEW X, NEW P, << >> \in P,
           \A s \in Seq(X), x \in X : s \in P => Append(s, x) \in P
    PROVE  \A s \in Seq(X) : s \in P
<1> DEFINE N == {n \in Nat : \A s \in Seq(X) : Len(s) = n => s \in P}
<1>1. 0 \in N
  <2>1. \A s \in Seq(X) : Len(s) = 0 => s = << >>
      BY EmptySeq
  <2> QED
      BY <2>1
<1>2. ASSUME NEW n \in Nat, n \in N PROVE n + 1 \in N
  <2>1. SUFFICES ASSUME NEW s \in Seq(X), Len(s) = n + 1 PROVE s \in P
      OBVIOUS
  <2>2. s # << >>
      BY <2>1
  <2>3. PICK q \in Seq(X), x \in X : s = Append(q, x)
      BY <2>2, SequenceEmptyOrAppend
  <2>4. Len(q) = n
      BY <2>1, <2>3
  <2> QED
      BY <1>2, <2>3, <2>4
<1>3. \A n \in Nat : n \in N
  <2> HIDE DEF N
  <2> QED
      BY <1>1, <1>2, NumbersByInduction
<1> QED
    BY <1>3

-----------------------------------------------------------------------------
(* Signs in a text *)

\* What is left of t without its first n characters.
Behind(t, n) == [k \in 1..(Len(t) - n) |-> t[k + n]]

LEMMA BehindIs ==
    ASSUME NEW t \in Seq(Tokens), NEW n \in 0..Len(t)
    PROVE  /\ Behind(t, n) \in Seq(Tokens) /\ Len(Behind(t, n)) = Len(t) - n
           /\ \A k \in 1..(Len(t) - n) : Behind(t, n)[k] = t[k + n]
<1>1. Len(t) - n \in Nat /\ \A k \in 1..(Len(t) - n) : k + n \in 1..Len(t)
  <2>1. Len(t) \in Nat /\ n \in Nat /\ n <= Len(t)
      OBVIOUS
  <2> QED
      BY <2>1
<1>2. Behind(t, n) \in [1..(Len(t) - n) -> Tokens]
    BY <1>1 DEF Behind
<1> QED
    BY <1>1, <1>2 DEF Behind

LEMMA StartsBehind ==
    ASSUME NEW t \in Seq(Tokens), NEW n \in 0..Len(t), NEW w \in Seq(Tokens),
           NEW i \in Nat, i >= 1
    PROVE  StartsAt(w, Behind(t, n), i) <=> StartsAt(w, t, i + n)
<1>1. /\ Len(w) \in Nat /\ Len(t) \in Nat /\ n \in Nat
      /\ Len(Behind(t, n)) = Len(t) - n
      /\ \A k \in 1..(Len(t) - n) : Behind(t, n)[k] = t[k + n]
  <2>1. Len(w) \in Nat /\ Len(t) \in Nat /\ n \in Nat
      OBVIOUS
  <2> QED
      BY <2>1, BehindIs
<1>2. i + Len(w) - 1 <= Len(t) - n <=> (i + n) + Len(w) - 1 <= Len(t)
    BY <1>1
<1>3. ASSUME i + Len(w) - 1 <= Len(t) - n, NEW k \in 1..Len(w)
      PROVE  Behind(t, n)[i + k - 1] = t[(i + n) + k - 1]
  <2>1. i + k - 1 \in 1..(Len(t) - n) /\ (i + k - 1) + n = (i + n) + k - 1
      BY <1>1, <1>3
  <2> QED
      BY <1>1, <2>1
<1> QED
    BY <1>1, <1>2, <1>3 DEF StartsAt

\* Two signs do not begin at one place.
LEMMA OneSign ==
    ASSUME NEW W, ApartFrom(W), NEW v \in W, NEW w \in W, NEW t, NEW i \in Nat, i >= 1,
           StartsAt(v, t, i), StartsAt(w, t, i)
    PROVE  v = w
<1>1. Len(v) \in Nat /\ Len(w) \in Nat
    BY DEF ApartFrom
<1>2. \A x, y \in W : StartsAt(x, t, i) /\ StartsAt(y, t, i) /\ Len(x) <= Len(y) => x = y
  <2>1. SUFFICES ASSUME NEW x \in W, NEW y \in W, StartsAt(x, t, i), StartsAt(y, t, i),
                        Len(x) <= Len(y)
                 PROVE  x = y
      OBVIOUS
  <2>2. Len(x) \in Nat /\ Len(y) \in Nat
      BY DEF ApartFrom
  <2>3. ASSUME NEW k \in 1..Len(x) PROVE y[1 + k - 1] = x[k]
    <3>1. k \in 1..Len(y) /\ 1 + k - 1 = k
        BY <2>1, <2>2
    <3> QED
        BY <2>1, <3>1 DEF StartsAt
  <2>4. StartsAt(x, y, 1)
      BY <2>1, <2>2, <2>3 DEF StartsAt
  <2> QED
      BY <2>4 DEF ApartFrom
<1> QED
    BY <1>1, <1>2

-----------------------------------------------------------------------------
(* Scan *)

\* f puts texts in for signs that can be told apart.
Puts(f) ==
    /\ ApartFrom(DOMAIN f)
    /\ \A w \in DOMAIN f : f[w] \in Seq(Tokens)

Finds(f, t, i) == \E w \in DOMAIN f : StartsAt(w, t, i)

\* g[i] is what becomes of t from i on.
Scans(t, f, g) ==
    /\ g \in [1..(Len(t) + 1) -> Seq(Tokens)]
    /\ g[Len(t) + 1] = << >>
    /\ \A i \in 1..Len(t) : ~Finds(f, t, i) => g[i] = <<t[i]>> \o g[i + 1]
    /\ \A i \in 1..Len(t), w \in DOMAIN f :
          StartsAt(w, t, i) => g[i] = f[w] \o g[i + Len(w)]

LEMMA SignFits ==
    ASSUME NEW f, Puts(f), NEW t \in Seq(Tokens), NEW i \in 1..Len(t),
           NEW w \in DOMAIN f, StartsAt(w, t, i)
    PROVE  w \in Seq(Tokens) /\ Len(w) \in Nat /\ Len(w) >= 1 /\ i + Len(w) \in (i + 1)..(Len(t) + 1)
<1>1. w \in Seq(Tokens) /\ Len(w) >= 1 /\ Len(w) \in Nat
    BY DEF Puts, ApartFrom
<1> QED
    BY <1>1 DEF StartsAt

LEMMA ScansOne ==
    ASSUME NEW f, Puts(f), NEW t \in Seq(Tokens)
    PROVE  \E g : Scans(t, f, g)
<1> DEFINE P == {n \in Nat : \A s \in Seq(Tokens) : Len(s) = n => \E g : Scans(s, f, g)}
<1>1. 0 \in P
  <2>1. SUFFICES ASSUME NEW s \in Seq(Tokens), Len(s) = 0 PROVE \E g : Scans(s, f, g)
      OBVIOUS
  <2>2. << >> \in Seq(Tokens)
      OBVIOUS
  <2>3. Scans(s, f, [i \in 1..(Len(s) + 1) |-> << >>])
      BY <2>1, <2>2 DEF Scans
  <2> QED
      BY <2>3
<1>2. ASSUME NEW n \in Nat, n \in P PROVE n + 1 \in P
  <2>1. SUFFICES ASSUME NEW s \in Seq(Tokens), Len(s) = n + 1 PROVE \E g : Scans(s, f, g)
      OBVIOUS
  <2> DEFINE r == Behind(s, 1)
  <2>2. 1 \in 0..Len(s) /\ r \in Seq(Tokens) /\ Len(r) = n
        /\ \A k \in 1..n : r[k] = s[k + 1]
    <3>1. 1 \in 0..Len(s) /\ Len(s) - 1 = n
        BY <2>1
    <3> QED
        BY <3>1, BehindIs
  <2>3. PICK g : Scans(r, f, g)
      BY <1>2, <2>2
  <2> HIDE DEF r
  <2>4. /\ g \in [1..(n + 1) -> Seq(Tokens)] /\ g[n + 1] = << >>
        /\ \A i \in 1..n : ~Finds(f, r, i) => g[i] = <<r[i]>> \o g[i + 1]
        /\ \A i \in 1..n, w \in DOMAIN f :
              StartsAt(w, r, i) => g[i] = f[w] \o g[i + Len(w)]
      BY <2>2, <2>3 DEF Scans
  <2>5. PICK x \in Seq(Tokens) :
            /\ ~Finds(f, s, 1) => x = <<s[1]>> \o g[1]
            /\ \A w \in DOMAIN f : StartsAt(w, s, 1) => x = f[w] \o g[Len(w)]
    <3>1. CASE Finds(f, s, 1)
      <4>1. PICK w \in DOMAIN f : StartsAt(w, s, 1)
          BY <3>1 DEF Finds
      <4>2. 1 \in 1..Len(s) /\ Len(w) \in 1..(n + 1)
        <5>1. 1 \in 1..Len(s)
            BY <2>1
        <5>2. Len(w) \in Nat /\ Len(w) >= 1 /\ 1 + Len(w) \in (1 + 1)..(Len(s) + 1)
            BY <4>1, <5>1, SignFits
        <5> QED
            BY <2>1, <5>1, <5>2
      <4>3. f[w] \in Seq(Tokens) /\ g[Len(w)] \in Seq(Tokens)
          BY <2>4, <4>2 DEF Puts
      <4>4. f[w] \o g[Len(w)] \in Seq(Tokens)
          BY <4>3, ConcatProperties
      <4>5. \A v \in DOMAIN f : StartsAt(v, s, 1) => v = w
          BY <4>1, OneSign DEF Puts
      <4> QED
          BY <3>1, <4>4, <4>5
    <3>2. CASE ~Finds(f, s, 1)
      <4>1. s[1] \in Tokens /\ g[1] \in Seq(Tokens)
          BY <2>1, <2>4
      <4>2. <<s[1]>> \o g[1] \in Seq(Tokens)
          BY <4>1, ConcatProperties
      <4> QED
          BY <3>2, <4>2 DEF Finds
    <3> QED
        BY <3>1, <3>2
  <2> DEFINE h == [i \in 1..(n + 2) |-> IF i = 1 THEN x ELSE g[i - 1]]
  <2>6. /\ h \in [1..(n + 2) -> Seq(Tokens)] /\ h[1] = x
        /\ \A i \in 1..(n + 1) : h[i + 1] = g[i]
    <3>1. ASSUME NEW i \in 1..(n + 2), i # 1 PROVE g[i - 1] \in Seq(Tokens)
      <4>1. i - 1 \in 1..(n + 1)
          BY <3>1
      <4> QED
          BY <2>4, <4>1
    <3>2. ASSUME NEW i \in 1..(n + 1) PROVE h[i + 1] = g[i]
      <4>1. i + 1 \in 1..(n + 2) /\ i + 1 # 1 /\ (i + 1) - 1 = i
          OBVIOUS
      <4> QED
          BY <4>1
    <3>3. 1 \in 1..(n + 2)
        OBVIOUS
    <3> QED
        BY <3>1, <3>2, <3>3
  <2> HIDE DEF h
  <2>7. h[Len(s) + 1] = << >>
    <3>1. Len(s) + 1 = (n + 1) + 1 /\ n + 1 \in 1..(n + 1)
        BY <2>1
    <3> QED
        BY <2>4, <2>6, <3>1
  <2>8. ASSUME NEW i \in 1..n, NEW w \in DOMAIN f
        PROVE  StartsAt(w, r, i) <=> StartsAt(w, s, i + 1)
    <3>1. w \in Seq(Tokens) /\ i \in Nat /\ i >= 1
        BY DEF Puts, ApartFrom
    <3> QED
        BY <2>2, <3>1, StartsBehind DEF r
  <2>9. ASSUME NEW i \in 1..Len(s), ~Finds(f, s, i) PROVE h[i] = <<s[i]>> \o h[i + 1]
    <3>1. CASE i = 1
      <4>1. h[1 + 1] = g[1]
          BY <2>6
      <4> QED
          BY <2>5, <2>6, <2>9, <3>1, <4>1
    <3>2. CASE i # 1
      <4>1. PICK j \in 1..n : i = j + 1
        <5>1. i - 1 \in 1..n /\ i = (i - 1) + 1
            BY <2>1, <3>2
        <5> QED
            BY <5>1
      <4>2. ~Finds(f, r, j)
          BY <2>8, <2>9, <4>1 DEF Finds
      <4>3. h[j + 1] = g[j] /\ h[(j + 1) + 1] = g[j + 1] /\ r[j] = s[j + 1]
        <5>1. j \in 1..(n + 1) /\ j + 1 \in 1..(n + 1)
            OBVIOUS
        <5> QED
            BY <2>2, <2>6, <5>1
      <4> QED
          BY <2>4, <4>1, <4>2, <4>3
    <3> QED
        BY <3>1, <3>2
  <2>10. ASSUME NEW i \in 1..Len(s), NEW w \in DOMAIN f, StartsAt(w, s, i)
         PROVE  h[i] = f[w] \o h[i + Len(w)]
    <3>0. Len(w) \in Nat /\ Len(w) >= 1 /\ i + Len(w) \in (i + 1)..(Len(s) + 1)
        BY <2>10, SignFits
    <3>1. CASE i = 1
      <4>1. Len(w) \in 1..(n + 1) /\ i + Len(w) = Len(w) + 1
          BY <2>1, <3>0, <3>1
      <4>2. h[Len(w) + 1] = g[Len(w)]
          BY <2>6, <4>1
      <4>3. x = f[w] \o g[Len(w)]
          BY <2>5, <2>10, <3>1
      <4> QED
          BY <2>6, <3>1, <4>1, <4>2, <4>3
    <3>2. CASE i # 1
      <4>1. PICK j \in 1..n : i = j + 1
        <5>1. i - 1 \in 1..n /\ i = (i - 1) + 1
            BY <2>1, <3>2
        <5> QED
            BY <5>1
      <4>2. StartsAt(w, r, j)
          BY <2>8, <2>10, <4>1
      <4>3. g[j] = f[w] \o g[j + Len(w)]
          BY <2>4, <4>2
      <4>4. j + Len(w) \in 1..(n + 1) /\ i + Len(w) = (j + Len(w)) + 1
          BY <2>1, <3>0, <4>1
      <4>5. h[(j + Len(w)) + 1] = g[j + Len(w)] /\ h[j + 1] = g[j]
          BY <2>6, <4>4
      <4> QED
          BY <4>1, <4>3, <4>4, <4>5
    <3> QED
        BY <3>1, <3>2
  <2>11. Len(s) + 1 = n + 2
      BY <2>1
  <2>12. Scans(s, f, h)
      BY <2>6, <2>7, <2>9, <2>10, <2>11 DEF Scans
  <2> QED
      BY <2>12
<1>3. \A n \in Nat : n \in P
  <2> HIDE DEF P
  <2> QED
      BY <1>1, <1>2, NumbersByInduction
<1> QED
    BY <1>3

LEMMA ScanIs ==
    ASSUME NEW f, Puts(f), NEW t \in Seq(Tokens), NEW g, Scans(t, f, g)
    PROVE  Scan(t, f) = g[1]
<1> DEFINE n == Len(t)
           Found(i) == CHOOSE w \in DOMAIN f : StartsAt(w, t, i)
           Put(h, i) == IF i > n THEN << >>
                        ELSE IF Finds(f, t, i) THEN f[Found(i)] \o h[i + Len(Found(i))]
                        ELSE <<t[i]>> \o h[i + 1]
           Equation(h) == h = [i \in 1..(n + 1) |-> Put(h, i)]
           h0 == CHOOSE h : Equation(h)
<1>1. n \in Nat /\ g \in [1..(n + 1) -> Seq(Tokens)] /\ g[n + 1] = << >>
    BY DEF Scans
<1>2. Scan(t, f) = h0[1]
    BY DEF Scan, Finds
<1>3. \A i \in 1..n : Finds(f, t, i) => Found(i) \in DOMAIN f /\ StartsAt(Found(i), t, i)
    BY DEF Finds
<1> HIDE DEF Found
<1>4. Equation(g)
  <2>1. ASSUME NEW i \in 1..(n + 1) PROVE g[i] = Put(g, i)
    <3>1. CASE i = n + 1
        BY <1>1, <3>1
    <3>2. CASE i # n + 1
      <4>1. i \in 1..n /\ ~(i > n)
          BY <1>1, <3>2
      <4>2. CASE Finds(f, t, i)
        <5>1. g[i] = f[Found(i)] \o g[i + Len(Found(i))]
            BY <1>3, <4>1, <4>2 DEF Scans
        <5> QED
            BY <4>1, <4>2, <5>1
      <4>3. CASE ~Finds(f, t, i)
        <5>1. g[i] = <<t[i]>> \o g[i + 1]
            BY <4>1, <4>3 DEF Scans
        <5> QED
            BY <4>1, <4>3, <5>1
      <4> QED
          BY <4>2, <4>3
    <3> QED
        BY <3>1, <3>2
  <2> HIDE DEF Put
  <2>2. g = [i \in 1..(n + 1) |-> g[i]]
      BY <1>1
  <2> QED
      BY <2>1, <2>2
<1>5. Equation(h0)
  <2> HIDE DEF Equation
  <2> QED
      BY <1>4
<1> HIDE DEF h0
<1>6. \A i \in 1..(n + 1) : h0[i] = Put(h0, i)
    BY <1>5
<1> DEFINE P == {m \in Nat : \A i \in 1..(n + 1) : n + 1 - i <= m => h0[i] = g[i]}
<1>7. 0 \in P
  <2>1. h0[n + 1] = << >>
    <3>1. n + 1 \in 1..(n + 1) /\ n + 1 > n
        BY <1>1
    <3> QED
        BY <1>6, <3>1
  <2>2. \A i \in 1..(n + 1) : n + 1 - i <= 0 => i = n + 1
      BY <1>1
  <2> QED
      BY <1>1, <2>1, <2>2
<1>8. ASSUME NEW m \in Nat, m \in P PROVE m + 1 \in P
  <2>1. SUFFICES ASSUME NEW i \in 1..(n + 1), n + 1 - i <= m + 1 PROVE h0[i] = g[i]
      OBVIOUS
  <2>2. \A j \in 1..(n + 1) : n + 1 - j <= m => h0[j] = g[j]
      BY <1>8
  <2>3. CASE i = n + 1
    <3>1. n + 1 > n
        BY <1>1
    <3>2. h0[i] = << >>
        BY <1>6, <2>3, <3>1
    <3> QED
        BY <1>1, <2>3, <3>2
  <2>4. CASE i # n + 1
    <3>1. i \in 1..n /\ ~(i > n)
        BY <1>1, <2>4
    <3>2. CASE Finds(f, t, i)
      <4> DEFINE w == Found(i)
      <4>1. w \in DOMAIN f /\ StartsAt(w, t, i)
          BY <1>3, <3>1, <3>2
      <4> HIDE DEF w
      <4>2. Len(w) \in Nat /\ Len(w) >= 1 /\ i + Len(w) \in (i + 1)..(n + 1)
          BY <3>1, <4>1, SignFits
      <4>3. i + Len(w) \in 1..(n + 1) /\ n + 1 - (i + Len(w)) <= m
          BY <1>1, <2>1, <3>1, <4>2
      <4>4. g[i] = f[w] \o g[i + Len(w)]
          BY <3>1, <4>1 DEF Scans
      <4>5. h0[i] = f[w] \o h0[i + Len(w)]
          BY <1>6, <3>1, <3>2 DEF w
      <4> QED
          BY <2>2, <4>3, <4>4, <4>5
    <3>3. CASE ~Finds(f, t, i)
      <4>1. i + 1 \in 1..(n + 1) /\ n + 1 - (i + 1) <= m
          BY <1>1, <2>1, <3>1
      <4>2. g[i] = <<t[i]>> \o g[i + 1]
          BY <3>1, <3>3 DEF Scans
      <4>3. h0[i] = <<t[i]>> \o h0[i + 1]
          BY <1>6, <3>1, <3>3
      <4> QED
          BY <2>2, <4>1, <4>2, <4>3
    <3> QED
        BY <3>2, <3>3
  <2> QED
      BY <2>3, <2>4
<1>9. \A m \in Nat : m \in P
  <2> HIDE DEF P
  <2> QED
      BY <1>7, <1>8, NumbersByInduction
<1>10. h0[1] = g[1]
  <2>1. n \in P
      BY <1>1, <1>9
  <2>2. 1 \in 1..(n + 1) /\ n + 1 - 1 <= n
      BY <1>1
  <2> QED
      BY <2>1, <2>2
<1> QED
    BY <1>2, <1>10

\* What is made of t from n + 1 on is what is made of the rest of t.
LEMMA ScansBehind ==
    ASSUME NEW f, Puts(f), NEW t \in Seq(Tokens), NEW g, Scans(t, f, g), NEW n \in 0..Len(t)
    PROVE  Scan(Behind(t, n), f) = g[n + 1]
<1> DEFINE r == Behind(t, n)
           size == Len(t) - n
           h == [i \in 1..(size + 1) |-> g[i + n]]
<1>1. /\ Len(t) \in Nat /\ n \in Nat /\ size \in Nat
      /\ r \in Seq(Tokens) /\ Len(r) = size /\ \A k \in 1..size : r[k] = t[k + n]
  <2>1. Len(t) \in Nat /\ n \in Nat /\ size \in Nat
      OBVIOUS
  <2> QED
      BY <2>1, BehindIs
<1>2. /\ g \in [1..(Len(t) + 1) -> Seq(Tokens)] /\ g[Len(t) + 1] = << >>
      /\ \A i \in 1..Len(t) : ~Finds(f, t, i) => g[i] = <<t[i]>> \o g[i + 1]
      /\ \A i \in 1..Len(t), w \in DOMAIN f :
            StartsAt(w, t, i) => g[i] = f[w] \o g[i + Len(w)]
    BY DEF Scans
<1>3. \A i \in 1..size, w \in DOMAIN f : StartsAt(w, r, i) <=> StartsAt(w, t, i + n)
  <2>1. SUFFICES ASSUME NEW i \in 1..size, NEW w \in DOMAIN f
                 PROVE  StartsAt(w, r, i) <=> StartsAt(w, t, i + n)
      OBVIOUS
  <2>2. w \in Seq(Tokens) /\ i \in Nat /\ i >= 1
      BY DEF Puts, ApartFrom
  <2> QED
      BY <2>2, StartsBehind
<1> HIDE DEF r
<1>4. /\ h \in [1..(size + 1) -> Seq(Tokens)] /\ h[size + 1] = << >>
      /\ \A i \in 1..(size + 1) : h[i] = g[i + n]
  <2>1. \A i \in 1..(size + 1) : i + n \in 1..(Len(t) + 1)
      BY <1>1
  <2>2. size + 1 \in 1..(size + 1) /\ (size + 1) + n = Len(t) + 1
      BY <1>1
  <2> QED
      BY <1>2, <2>1, <2>2
<1> HIDE DEF h
<1>5. ASSUME NEW i \in 1..size, ~Finds(f, r, i) PROVE h[i] = <<r[i]>> \o h[i + 1]
  <2>1. i + n \in 1..Len(t) /\ i \in 1..(size + 1) /\ i + 1 \in 1..(size + 1)
        /\ (i + n) + 1 = (i + 1) + n
      BY <1>1
  <2>2. ~Finds(f, t, i + n)
      BY <1>3, <1>5 DEF Finds
  <2> QED
      BY <1>1, <1>2, <1>4, <2>1, <2>2
<1>6. ASSUME NEW i \in 1..size, NEW w \in DOMAIN f, StartsAt(w, r, i)
      PROVE  h[i] = f[w] \o h[i + Len(w)]
  <2>1. i \in 1..Len(r)
      BY <1>1
  <2>2. Len(w) \in Nat /\ Len(w) >= 1 /\ i + Len(w) \in (i + 1)..(size + 1)
      BY <1>1, <1>6, <2>1, SignFits
  <2>3. i + n \in 1..Len(t) /\ i \in 1..(size + 1) /\ i + Len(w) \in 1..(size + 1)
        /\ (i + n) + Len(w) = (i + Len(w)) + n
      BY <1>1, <2>2
  <2> QED
      BY <1>2, <1>3, <1>4, <1>6, <2>3
<1>7. Scans(r, f, h)
    BY <1>1, <1>4, <1>5, <1>6 DEF Scans
<1>8. Scan(r, f) = h[1]
    BY <1>1, <1>7, ScanIs
<1>9. h[1] = g[n + 1]
  <2>1. 1 \in 1..(size + 1) /\ 1 + n = n + 1
      BY <1>1
  <2> QED
      BY <1>4, <2>1
<1> QED
    BY <1>8, <1>9 DEF r

\* One sign, or one character, from the front of the text.
LEMMA ScanStep ==
    ASSUME NEW f, Puts(f), NEW t \in Seq(Tokens)
    PROVE  /\ Scan(t, f) \in Seq(Tokens)
           /\ Len(t) = 0 => Scan(t, f) = << >>
           /\ \A w \in DOMAIN f :
                 StartsAt(w, t, 1) => Scan(t, f) = f[w] \o Scan(Behind(t, Len(w)), f)
           /\ Len(t) # 0 /\ ~Finds(f, t, 1) => Scan(t, f) = <<t[1]>> \o Scan(Behind(t, 1), f)
<1>1. PICK g : Scans(t, f, g)
    BY ScansOne
<1>2. Scan(t, f) = g[1] /\ Len(t) \in Nat
    BY <1>1, ScanIs
<1>3. g \in [1..(Len(t) + 1) -> Seq(Tokens)] /\ g[Len(t) + 1] = << >>
    BY <1>1 DEF Scans
<1>4. ASSUME NEW w \in DOMAIN f, StartsAt(w, t, 1)
      PROVE  Scan(t, f) = f[w] \o Scan(Behind(t, Len(w)), f)
  <2>1. 1 \in 1..Len(t)
    <3>1. Len(w) \in Nat /\ Len(w) >= 1
        BY DEF Puts, ApartFrom
    <3> QED
        BY <1>2, <1>4, <3>1 DEF StartsAt
  <2>2. Len(w) \in Nat /\ Len(w) \in 0..Len(t) /\ 1 + Len(w) = Len(w) + 1
    <3>1. Len(w) \in Nat /\ 1 + Len(w) \in (1 + 1)..(Len(t) + 1)
        BY <1>4, <2>1, SignFits
    <3> QED
        BY <1>2, <3>1
  <2>3. g[1] = f[w] \o g[1 + Len(w)]
      BY <1>1, <1>4, <2>1 DEF Scans
  <2>4. Scan(Behind(t, Len(w)), f) = g[Len(w) + 1]
      BY <1>1, <2>2, ScansBehind
  <2> QED
      BY <1>2, <2>2, <2>3, <2>4
<1>5. ASSUME Len(t) # 0, ~Finds(f, t, 1)
      PROVE  Scan(t, f) = <<t[1]>> \o Scan(Behind(t, 1), f)
  <2>1. 1 \in 1..Len(t) /\ 1 \in 0..Len(t)
      BY <1>2, <1>5
  <2>2. g[1] = <<t[1]>> \o g[1 + 1]
      BY <1>1, <1>5, <2>1 DEF Scans
  <2>3. Scan(Behind(t, 1), f) = g[1 + 1]
      BY <1>1, <2>1, ScansBehind
  <2> QED
      BY <1>2, <2>2, <2>3
<1>6. 1 \in 1..(Len(t) + 1) /\ (Len(t) = 0 => Len(t) + 1 = 1)
    BY <1>2
<1> QED
    BY <1>2, <1>3, <1>4, <1>5, <1>6

-----------------------------------------------------------------------------
(* Texts put together *)

LEMMA ConcatIs ==
    ASSUME NEW s \in Seq(Tokens), NEW r \in Seq(Tokens)
    PROVE  /\ s \o r \in Seq(Tokens) /\ Len(s \o r) = Len(s) + Len(r)
           /\ \A k \in 1..Len(s) : (s \o r)[k] = s[k]
           /\ \A k \in 1..Len(r) : (s \o r)[k + Len(s)] = r[k]
<1>1. Len(s) \in Nat /\ Len(r) \in Nat
    OBVIOUS
<1>2. \A k \in 1..Len(r) : k + Len(s) > Len(s) /\ k + Len(s) <= Len(s) + Len(r)
                           /\ (k + Len(s)) - Len(s) = k
    BY <1>1
<1> QED
    BY <1>1, <1>2, ConcatProperties

LEMMA ConcatThree ==
    ASSUME NEW a \in Seq(Tokens), NEW b \in Seq(Tokens), NEW c \in Seq(Tokens)
    PROVE  /\ (a \o b) \o c = a \o (b \o c)
           /\ a \o b \in Seq(Tokens) /\ b \o c \in Seq(Tokens)
BY ConcatAssociative, ConcatProperties

LEMMA OneBetween ==
    ASSUME NEW a \in Seq(Tokens), NEW x \in Tokens, NEW c \in Seq(Tokens)
    PROVE  <<x>> \o c \in Seq(Tokens) /\ Append(a, x) \o c = a \o (<<x>> \o c)
<1>1. <<x>> \in Seq(Tokens) /\ Append(a, x) = a \o <<x>>
    OBVIOUS
<1> DEFINE b == <<x>>
<1> HIDE DEF b
<1>2. b \in Seq(Tokens) /\ Append(a, x) = a \o b
    BY <1>1 DEF b
<1>3. b \o c \in Seq(Tokens) /\ (a \o b) \o c = a \o (b \o c)
    BY <1>2, ConcatThree
<1>4. Append(a, x) \o c = a \o (b \o c)
    BY <1>2, <1>3
<1> QED
    BY <1>3, <1>4 DEF b

LEMMA SameText ==
    ASSUME NEW s \in Seq(Tokens), NEW r \in Seq(Tokens), Len(s) = Len(r),
           \A k \in 1..Len(s) : s[k] = r[k]
    PROVE  s = r
OBVIOUS

LEMMA BehindConcat ==
    ASSUME NEW s \in Seq(Tokens), NEW r \in Seq(Tokens)
    PROVE  Behind(s \o r, Len(s)) = r
<1>1. Len(s) \in Nat /\ Len(r) \in Nat
    OBVIOUS
<1>2. Len(s) \in 0..Len(s \o r) /\ Len(s \o r) - Len(s) = Len(r) /\ s \o r \in Seq(Tokens)
    BY <1>1, ConcatIs
<1>3. /\ Behind(s \o r, Len(s)) \in Seq(Tokens) /\ Len(Behind(s \o r, Len(s))) = Len(r)
      /\ \A k \in 1..Len(r) : Behind(s \o r, Len(s))[k] = (s \o r)[k + Len(s)]
    BY <1>2, BehindIs
<1> QED
    BY <1>3, ConcatIs, SameText

\* A text begins with a sign that stands at its beginning.
LEMMA SignAndRest ==
    ASSUME NEW t \in Seq(Tokens), NEW w \in Seq(Tokens), StartsAt(w, t, 1)
    PROVE  Len(w) \in 0..Len(t) /\ t = w \o Behind(t, Len(w))
<1>1. Len(w) \in Nat /\ Len(t) \in Nat /\ Len(w) <= Len(t)
      /\ \A k \in 1..Len(w) : t[1 + k - 1] = w[k]
    BY DEF StartsAt
<1>2. \A k \in 1..Len(w) : 1 + k - 1 = k
    BY <1>1
<1>3. Len(w) \in 0..Len(t)
    BY <1>1
<1> DEFINE r == Behind(t, Len(w))
<1>4. /\ r \in Seq(Tokens) /\ Len(r) = Len(t) - Len(w)
      /\ \A k \in 1..(Len(t) - Len(w)) : r[k] = t[k + Len(w)]
    BY <1>3, BehindIs
<1> HIDE DEF r
<1>5. w \o r \in Seq(Tokens) /\ Len(w \o r) = Len(t)
    BY <1>1, <1>4, ConcatIs
<1>6. ASSUME NEW k \in 1..Len(t) PROVE (w \o r)[k] = t[k]
  <2>1. CASE k <= Len(w)
    <3>1. k \in 1..Len(w)
        BY <1>1, <2>1
    <3> QED
        BY <1>1, <1>2, <1>4, <3>1, ConcatIs
  <2>2. CASE ~(k <= Len(w))
    <3>1. PICK j \in 1..(Len(t) - Len(w)) : k = j + Len(w)
      <4>1. k - Len(w) \in 1..(Len(t) - Len(w)) /\ k = (k - Len(w)) + Len(w)
          BY <1>1, <2>2
      <4> QED
          BY <4>1
    <3> QED
        BY <1>4, <3>1, ConcatIs
  <2> QED
      BY <2>1, <2>2
<1> QED
    BY <1>3, <1>5, <1>6, SameText DEF r

LEMMA SignStarts ==
    ASSUME NEW w \in Seq(Tokens), NEW r \in Seq(Tokens)
    PROVE  StartsAt(w, w \o r, 1)
<1>1. Len(w) \in Nat /\ Len(r) \in Nat
    OBVIOUS
<1>2. \A k \in 1..Len(w) : 1 + k - 1 = k
    BY <1>1
<1> QED
    BY <1>1, <1>2, ConcatIs DEF StartsAt

\* One character before the rest.
LEMMA OneAndRest ==
    ASSUME NEW t \in Seq(Tokens), Len(t) # 0
    PROVE  /\ t[1] \in Tokens /\ Behind(t, 1) \in Seq(Tokens)
           /\ Len(Behind(t, 1)) = Len(t) - 1 /\ t = <<t[1]>> \o Behind(t, 1)
<1>1. /\ Len(t) \in Nat /\ 1 \in 0..Len(t) /\ t[1] \in Tokens
      /\ <<t[1]>> \in Seq(Tokens) /\ Len(<<t[1]>>) = 1 /\ <<t[1]>>[1] = t[1]
    OBVIOUS
<1>2. StartsAt(<<t[1]>>, t, 1)
  <2>1. 1 + 1 - 1 <= Len(t) /\ \A k \in 1..1 : k = 1 /\ 1 + k - 1 = 1
      BY <1>1
  <2> QED
      BY <1>1, <2>1 DEF StartsAt
<1> QED
    BY <1>1, <1>2, BehindIs, SignAndRest

-----------------------------------------------------------------------------
(* Scan, piece by piece *)

\* No sign of f begins in s.
Quiet(s, f) == \A i \in 1..Len(s), w \in DOMAIN f : s[i] # w[1]

LEMMA ScanOne ==
    ASSUME NEW f, Puts(f), NEW x \in Tokens, NEW r \in Seq(Tokens), ~Finds(f, <<x>> \o r, 1)
    PROVE  Scan(<<x>> \o r, f) = <<x>> \o Scan(r, f)
<1>1. <<x>> \in Seq(Tokens) /\ Len(<<x>>) = 1 /\ <<x>>[1] = x
    OBVIOUS
<1>2. /\ <<x>> \o r \in Seq(Tokens) /\ Len(<<x>> \o r) # 0 /\ (<<x>> \o r)[1] = x
      /\ Behind(<<x>> \o r, 1) = r
  <2>1. Len(r) \in Nat /\ 1 \in 1..Len(<<x>>)
      BY <1>1
  <2>2. Len(<<x>> \o r) = 1 + Len(r) /\ (<<x>> \o r)[1] = <<x>>[1] /\ <<x>> \o r \in Seq(Tokens)
      BY <1>1, <2>1, ConcatIs
  <2>3. Behind(<<x>> \o r, Len(<<x>>)) = r
      BY <1>1, BehindConcat
  <2> QED
      BY <1>1, <2>1, <2>2, <2>3
<1> QED
    BY <1>2, ScanStep

LEMMA ScanQuiet ==
    ASSUME NEW f, Puts(f), NEW s \in Seq(Tokens), Quiet(s, f), NEW r \in Seq(Tokens)
    PROVE  Scan(s \o r, f) = s \o Scan(r, f)
<1> DEFINE P == {q \in Seq(Tokens) :
                    Quiet(q, f) => \A z \in Seq(Tokens) : Scan(q \o z, f) = q \o Scan(z, f)}
<1>1. << >> \in P
  <2>1. \A z \in Seq(Tokens) : << >> \o z = z /\ << >> \o Scan(z, f) = Scan(z, f)
      BY ScanStep, ConcatEmptySeq
  <2>2. << >> \in Seq(Tokens)
      OBVIOUS
  <2> QED
      BY <2>1, <2>2
<1>2. ASSUME NEW q \in Seq(Tokens), NEW x \in Tokens, q \in P PROVE Append(q, x) \in P
  <2>1. /\ Append(q, x) \in Seq(Tokens) /\ Len(Append(q, x)) = Len(q) + 1 /\ Len(q) \in Nat
        /\ Append(q, x)[Len(q) + 1] = x
        /\ \A i \in 1..Len(q) : Append(q, x)[i] = q[i]
        /\ <<x>> \in Seq(Tokens) /\ Append(q, x) = q \o <<x>>
      OBVIOUS
  <2>2. SUFFICES ASSUME Quiet(Append(q, x), f), NEW z \in Seq(Tokens)
                 PROVE  Scan(Append(q, x) \o z, f) = Append(q, x) \o Scan(z, f)
      BY <2>1
  <2>3. Quiet(q, f) /\ \A w \in DOMAIN f : x # w[1]
    <3>1. \A i \in 1..Len(q) : i \in 1..(Len(q) + 1)
        BY <2>1
    <3>2. Len(q) + 1 \in 1..(Len(q) + 1)
        BY <2>1
    <3> QED
        BY <2>1, <2>2, <3>1, <3>2 DEF Quiet
  <2>4. <<x>> \o z \in Seq(Tokens) /\ Append(q, x) \o z = q \o (<<x>> \o z)
      BY OneBetween
  <2>5. Scan(q \o (<<x>> \o z), f) = q \o Scan(<<x>> \o z, f)
      BY <1>2, <2>3, <2>4
  <2>6. ~Finds(f, <<x>> \o z, 1)
    <3>1. SUFFICES ASSUME NEW w \in DOMAIN f, StartsAt(w, <<x>> \o z, 1) PROVE FALSE
        BY DEF Finds
    <3>2. Len(w) \in Nat /\ Len(w) >= 1
        BY DEF Puts, ApartFrom
    <3>3. 1 \in 1..Len(w) /\ 1 + 1 - 1 = 1
        BY <3>2
    <3>4. (<<x>> \o z)[1] = w[1]
        BY <3>1, <3>3 DEF StartsAt
    <3>5. (<<x>> \o z)[1] = x
      <4>1. Len(<<x>>) = 1 /\ <<x>>[1] = x /\ 1 \in 1..Len(<<x>>)
          OBVIOUS
      <4> QED
          BY <2>1, <4>1, ConcatIs
    <3> QED
        BY <2>3, <3>4, <3>5
  <2>7. Scan(<<x>> \o z, f) = <<x>> \o Scan(z, f)
      BY <2>6, ScanOne
  <2>8. Scan(z, f) \in Seq(Tokens)
      BY ScanStep
  <2>9. q \o (<<x>> \o Scan(z, f)) = Append(q, x) \o Scan(z, f)
      BY <2>8, OneBetween
  <2> QED
      BY <2>4, <2>5, <2>7, <2>9
<1>3. \A q \in Seq(Tokens) : q \in P
  <2> HIDE DEF P
  <2> QED
      BY <1>1, <1>2, SequencesByInduction
<1> QED
    BY <1>3

\* A text in which no sign begins stays as it is.
LEMMA ScanNothing ==
    ASSUME NEW f, Puts(f), NEW s \in Seq(Tokens), Quiet(s, f)
    PROVE  Scan(s, f) = s
<1>1. << >> \in Seq(Tokens) /\ Len(<< >>) = 0 /\ s \o << >> = s
    BY ConcatEmptySeq
<1>2. Scan(<< >>, f) = << >>
    BY <1>1, ScanStep
<1>3. Scan(s \o << >>, f) = s \o Scan(<< >>, f)
    BY <1>1, ScanQuiet
<1> QED
    BY <1>1, <1>2, <1>3

LEMMA ScanSign ==
    ASSUME NEW f, Puts(f), NEW w \in DOMAIN f, NEW r \in Seq(Tokens)
    PROVE  Scan(w \o r, f) = f[w] \o Scan(r, f)
<1>1. w \in Seq(Tokens)
    BY DEF Puts, ApartFrom
<1>2. StartsAt(w, w \o r, 1) /\ w \o r \in Seq(Tokens) /\ Behind(w \o r, Len(w)) = r
    BY <1>1, SignStarts, ConcatIs, BehindConcat
<1> QED
    BY <1>2, ScanStep

\* A sign that f does not put in for stays.
LEMMA ScanOtherSign ==
    ASSUME NEW W, ApartFrom(W), NEW f, Puts(f), DOMAIN f \subseteq W,
           NEW x \in W, x \notin DOMAIN f, NEW r \in Seq(Tokens)
    PROVE  Scan(x \o r, f) = x \o Scan(r, f)
<1> DEFINE y == Behind(x, 1)
<1>1. x \in Seq(Tokens) /\ Len(x) # 0 /\ Len(x) \in Nat /\ \A k \in 2..Len(x) : x[k] \notin Openers
  <2>1. x \in Seq(Tokens) /\ Len(x) >= 1 /\ \A k \in 2..Len(x) : x[k] \notin Openers
      BY DEF ApartFrom
  <2>2. Len(x) \in Nat
      BY <2>1
  <2> QED
      BY <2>1, <2>2
<1>2. x[1] \in Tokens /\ y \in Seq(Tokens) /\ Len(y) = Len(x) - 1 /\ x = <<x[1]>> \o y
    BY <1>1, OneAndRest
<1>3. Quiet(y, f)
  <2>1. SUFFICES ASSUME NEW i \in 1..Len(y), NEW w \in DOMAIN f PROVE y[i] # w[1]
      BY DEF Quiet
  <2>2. w[1] \in Openers
      BY DEF ApartFrom
  <2>3. 1 \in 0..Len(x) /\ i \in 1..(Len(x) - 1) /\ i + 1 \in 2..Len(x)
      BY <1>1, <1>2
  <2>4. y[i] = x[i + 1]
      BY <1>1, <2>3, BehindIs
  <2> QED
      BY <1>1, <2>2, <2>3, <2>4
<1> HIDE DEF y
<1>4. x \o r = <<x[1]>> \o (y \o r) /\ y \o r \in Seq(Tokens) /\ x \o r \in Seq(Tokens)
  <2>1. <<x[1]>> \in Seq(Tokens)
      BY <1>2
  <2>2. (<<x[1]>> \o y) \o r = <<x[1]>> \o (y \o r) /\ y \o r \in Seq(Tokens)
      BY <1>2, <2>1, ConcatThree
  <2>3. x \o r \in Seq(Tokens)
      BY <1>1, ConcatIs
  <2> QED
      BY <1>2, <2>2, <2>3
<1>5. ~Finds(f, x \o r, 1)
  <2>1. StartsAt(x, x \o r, 1)
      BY <1>1, SignStarts
  <2>2. \A w \in DOMAIN f : StartsAt(w, x \o r, 1) => w = x
      BY <1>4, <2>1, OneSign
  <2> QED
      BY <2>2 DEF Finds
<1>6. Scan(x \o r, f) = <<x[1]>> \o Scan(y \o r, f)
    BY <1>2, <1>4, <1>5, ScanOne
<1>7. Scan(y \o r, f) = y \o Scan(r, f) /\ Scan(r, f) \in Seq(Tokens)
    BY <1>2, <1>3, ScanQuiet, ScanStep
<1>8. <<x[1]>> \o (y \o Scan(r, f)) = (<<x[1]>> \o y) \o Scan(r, f)
  <2>1. <<x[1]>> \in Seq(Tokens)
      BY <1>2
  <2> QED
      BY <1>2, <1>7, <2>1, ConcatThree
<1> QED
    BY <1>2, <1>6, <1>7, <1>8

-----------------------------------------------------------------------------
(* One sign more *)

LEMMA CleanBehind ==
    ASSUME NEW W, NEW t \in Seq(Tokens), Clean(t, W), NEW n \in 0..Len(t)
    PROVE  Clean(Behind(t, n), W)
<1> DEFINE r == Behind(t, n)
<1>1. /\ Len(t) \in Nat /\ n \in Nat /\ Len(r) = Len(t) - n
      /\ \A k \in 1..(Len(t) - n) : r[k] = t[k + n]
  <2>1. Len(t) \in Nat /\ n \in Nat
      OBVIOUS
  <2> QED
      BY <2>1, BehindIs
<1> HIDE DEF r
<1>2. SUFFICES ASSUME NEW i \in 1..Len(r), NEW j \in 1..Len(r), NEW w \in W,
                      i < j, j - i < Len(w), r[j] \in Openers,
                      \A k \in 1..(j - i) : r[i + k - 1] = w[k]
               PROVE  FALSE
    BY DEF Clean, r
<1>3. /\ i + n \in 1..Len(t) /\ j + n \in 1..Len(t) /\ i + n < j + n
      /\ (j + n) - (i + n) = j - i
    BY <1>1, <1>2
<1>4. t[j + n] \in Openers
    BY <1>1, <1>2
<1>5. ASSUME NEW k \in 1..(j - i) PROVE t[(i + n) + k - 1] = w[k]
  <2>1. i + k - 1 \in 1..(Len(t) - n) /\ (i + k - 1) + n = (i + n) + k - 1
      BY <1>1
  <2> QED
      BY <1>1, <1>2, <2>1
<1> QED
    BY <1>2, <1>3, <1>4, <1>5 DEF Clean

\* In a clean text no sign comes about from a character and what becomes of the rest.
LEMMA NotFormed ==
    ASSUME NEW W, ApartFrom(W), NEW f, Puts(f), DOMAIN f \subseteq W, NEW w \in W,
           NEW s \in Seq(Tokens), Len(s) # 0, Clean(s, W), ~StartsAt(w, s, 1)
    PROVE  ~StartsAt(w, <<s[1]>> \o Scan(Behind(s, 1), f), 1)
<1> DEFINE r == Behind(s, 1)
           T == {p \in 1..Len(r) : r[p] \in Openers}
<1>1. /\ s[1] \in Tokens /\ r \in Seq(Tokens) /\ Len(r) = Len(s) - 1
      /\ s = <<s[1]>> \o r
    BY OneAndRest
<1>2. Len(s) \in Nat /\ Len(s) >= 1 /\ Len(r) \in Nat
    BY <1>1
<1>3. \A k \in 1..Len(r) : r[k] = s[k + 1]
    BY <1>2, BehindIs
<1> HIDE DEF r
<1>4. \A x \in DOMAIN f : x[1] \in Openers
    BY DEF ApartFrom
<1>5. CASE T = {}
  <2>1. Quiet(r, f)
      BY <1>4, <1>5 DEF Quiet
  <2>2. Scan(r, f) = r
      BY <1>1, <2>1, ScanNothing
  <2> QED
      BY <1>1, <2>2 DEF r
<1>6. CASE T # {}
  <2>1. PICK p \in T : \A x \in T : p <= x
    <3>1. T \subseteq Nat
        BY <1>2
    <3> HIDE DEF T
    <3> QED
        BY <1>6, <3>1, LeastOf
  <2>2. /\ p \in 1..Len(r) /\ r[p] \in Openers /\ p - 1 \in Nat
        /\ \A k \in 1..(p - 1) : r[k] \notin Openers
    <3>1. p \in 1..Len(r) /\ r[p] \in Openers
        OBVIOUS
    <3>2. \A k \in 1..(p - 1) : k \in 1..Len(r) /\ ~(p <= k)
        BY <1>2, <3>1
    <3> QED
        BY <1>2, <2>1, <3>1, <3>2
  <2> HIDE DEF T
  <2> DEFINE q == [k \in 1..(p - 1) |-> r[k]]
  <2>3. q \in Seq(Tokens) /\ Len(q) = p - 1 /\ \A k \in 1..(p - 1) : q[k] = r[k]
    <3>1. \A k \in 1..(p - 1) : r[k] \in Tokens
        BY <1>1, <1>2, <2>2
    <3>2. q \in [1..(p - 1) -> Tokens]
        BY <3>1
    <3> QED
        BY <2>2, <3>2
  <2> HIDE DEF q
  <2>4. StartsAt(q, r, 1)
    <3>1. \A k \in 1..(p - 1) : 1 + k - 1 = k
        BY <2>2
    <3> QED
        BY <1>2, <2>2, <2>3, <3>1 DEF StartsAt
  <2> DEFINE z == Scan(Behind(r, p - 1), f)
  <2>5. z \in Seq(Tokens) /\ Scan(r, f) = q \o z
    <3>1. p - 1 \in 0..Len(r) /\ r = q \o Behind(r, p - 1)
        BY <1>1, <2>3, <2>4, SignAndRest
    <3>2. Behind(r, p - 1) \in Seq(Tokens)
        BY <1>1, <3>1, BehindIs
    <3>3. Quiet(q, f)
        BY <1>4, <2>2, <2>3 DEF Quiet
    <3>4. z \in Seq(Tokens)
        BY <3>2, ScanStep
    <3>5. Scan(q \o Behind(r, p - 1), f) = q \o z
        BY <2>3, <3>2, <3>3, ScanQuiet
    <3> QED
        BY <3>1, <3>4, <3>5
  <2> HIDE DEF z
  <2> DEFINE u == <<s[1]>> \o (q \o z)
  <2>6. \A k \in 1..p : u[k] = s[k]
    <3>1. /\ <<s[1]>> \in Seq(Tokens) /\ Len(<<s[1]>>) = 1 /\ <<s[1]>>[1] = s[1]
          /\ q \o z \in Seq(Tokens) /\ Len(z) \in Nat /\ Len(q \o z) = (p - 1) + Len(z)
          /\ \A k \in 1..(p - 1) : (q \o z)[k] = q[k]
      <4>1. /\ <<s[1]>> \in Seq(Tokens) /\ Len(<<s[1]>>) = 1 /\ <<s[1]>>[1] = s[1]
            /\ Len(z) \in Nat
          BY <1>1, <2>5
      <4>2. /\ q \o z \in Seq(Tokens) /\ Len(q \o z) = Len(q) + Len(z)
            /\ \A k \in 1..Len(q) : (q \o z)[k] = q[k]
          BY <2>3, <2>5, ConcatIs
      <4> QED
          BY <2>3, <4>1, <4>2
    <3>2. u[1] = s[1] /\ \A k \in 1..Len(q \o z) : u[k + 1] = (q \o z)[k]
      <4> DEFINE one == <<s[1]>>
      <4> HIDE DEF one
      <4>1. one \in Seq(Tokens) /\ Len(one) = 1 /\ one[1] = s[1] /\ 1 \in 1..1
          BY <3>1 DEF one
      <4>2. /\ (one \o (q \o z))[1] = one[1]
            /\ \A k \in 1..Len(q \o z) : (one \o (q \o z))[k + 1] = (q \o z)[k]
        <5> DEFINE y == q \o z
        <5>1. y \in Seq(Tokens)
            BY <3>1
        <5> HIDE DEF y
        <5>2. /\ \A k \in 1..Len(one) : (one \o y)[k] = one[k]
              /\ \A k \in 1..Len(y) : (one \o y)[k + Len(one)] = y[k]
            BY <4>1, <5>1, ConcatIs
        <5> QED
            BY <4>1, <5>2 DEF y
      <4> QED
          BY <4>1, <4>2 DEF one
    <3> HIDE DEF u
    <3>3. ASSUME NEW k \in 1..p, k # 1 PROVE u[k] = s[k]
      <4>1. PICK j \in 1..(p - 1) : k = j + 1
        <5>1. k - 1 \in 1..(p - 1) /\ k = (k - 1) + 1
            BY <2>2, <3>3
        <5> QED
            BY <5>1
      <4>2. j \in 1..Len(q \o z) /\ j \in 1..Len(r)
          BY <1>2, <2>2, <3>1
      <4> QED
          BY <1>3, <2>3, <3>1, <3>2, <4>1, <4>2
    <3> QED
        BY <3>2, <3>3
  <2> HIDE DEF u
  <2>7. SUFFICES ASSUME StartsAt(w, u, 1) PROVE FALSE
      BY <2>5 DEF r, u
  <2>8. Len(w) \in Nat /\ Len(w) >= 1 /\ \A k \in 1..Len(w) : u[k] = w[k]
    <3>1. Len(w) \in Nat /\ Len(w) >= 1
        BY DEF ApartFrom
    <3>2. \A k \in 1..Len(w) : 1 + k - 1 = k
        BY <3>1
    <3> QED
        BY <2>7, <3>1, <3>2 DEF StartsAt
  <2>9. CASE Len(w) <= p
    <3>1. \A k \in 1..Len(w) : k \in 1..p /\ 1 + k - 1 = k
        BY <2>2, <2>8, <2>9
    <3>2. 1 + Len(w) - 1 <= Len(s)
        BY <1>1, <1>2, <2>2, <2>8, <2>9
    <3> QED
        BY <2>6, <2>8, <3>1, <3>2 DEF StartsAt
  <2>10. CASE p < Len(w)
    <3>1. 1 \in 1..Len(s) /\ p + 1 \in 1..Len(s) /\ 1 < p + 1 /\ (p + 1) - 1 = p
        BY <1>1, <1>2, <2>2
    <3>2. s[p + 1] \in Openers
        BY <1>3, <2>2
    <3>3. \A k \in 1..p : 1 + k - 1 = k /\ k \in 1..Len(w)
        BY <2>2, <2>8, <2>10
    <3>4. \A k \in 1..((p + 1) - 1) : s[1 + k - 1] = w[k]
        BY <2>6, <2>8, <3>1, <3>3
    <3> QED
        BY <2>10, <3>1, <3>2, <3>4 DEF Clean
  <2> QED
      BY <2>2, <2>8, <2>9, <2>10
<1> QED
    BY <1>5, <1>6

\* g puts in for the sign w what f leaves, and nothing f put in could hold a w.
Extends(g, f, w, W) ==
    /\ ApartFrom(W) /\ Puts(f)
    /\ w \in W /\ w \notin DOMAIN f /\ DOMAIN f \subseteq W
    /\ DOMAIN g = DOMAIN f \cup {w} /\ g[w] \in Seq(Tokens)
    /\ \A x \in DOMAIN f : g[x] = f[x] /\ ~Holds(f[x], w[1])

\* A clean text in which f was put in, and then what stands for w, is one in which both
\* were put in at once.
LEMMA OneMore ==
    ASSUME NEW W, NEW f, NEW w, NEW g, Extends(g, f, w, W), NEW t \in Seq(Tokens), Clean(t, W)
    PROVE  Replace(Scan(t, f), w, g[w]) = Scan(t, g)
<1> DEFINE v == g[w]
<1>0. /\ ApartFrom(W) /\ Puts(f)
      /\ w \in W /\ w \notin DOMAIN f /\ DOMAIN f \subseteq W
      /\ DOMAIN g = DOMAIN f \cup {w} /\ g[w] = v /\ v \in Seq(Tokens)
      /\ \A x \in DOMAIN f : g[x] = f[x] /\ ~Holds(f[x], w[1])
    BY DEF Extends
<1> HIDE DEF v
<1> USE <1>0
<1> DEFINE e == [d \in {w} |-> v]
<1>1. DOMAIN e = {w} /\ e[w] = v
    OBVIOUS
<1> HIDE DEF e
<1>2. Puts(e) /\ Puts(g)
  <2>1. \A V \in SUBSET W : ApartFrom(V)
      BY DEF ApartFrom
  <2>2. {w} \in SUBSET W /\ (DOMAIN f \cup {w}) \in SUBSET W
      OBVIOUS
  <2>3. ApartFrom(DOMAIN e) /\ ApartFrom(DOMAIN g)
      BY <1>1, <2>1, <2>2
  <2> QED
      BY <1>1, <2>3 DEF Puts
<1>3. DOMAIN e \subseteq W /\ DOMAIN g \subseteq W
    BY <1>1
<1> DEFINE P == {n \in Nat : \A s \in Seq(Tokens) :
                     Len(s) <= n /\ Clean(s, W) => Scan(Scan(s, f), e) = Scan(s, g)}
<1>4. 0 \in P
  <2>1. SUFFICES ASSUME NEW s \in Seq(Tokens), Len(s) <= 0
                 PROVE  Scan(Scan(s, f), e) = Scan(s, g)
      OBVIOUS
  <2>2. Len(s) = 0
      BY <2>1
  <2>3. << >> \in Seq(Tokens) /\ Len(<< >>) = 0
      OBVIOUS
  <2>4. Scan(s, f) = << >> /\ Scan(s, g) = << >> /\ Scan(<< >>, e) = << >>
      BY <1>2, <2>2, <2>3, ScanStep
  <2> QED
      BY <2>4
<1>5. ASSUME NEW n \in Nat, n \in P PROVE n + 1 \in P
  <2>1. SUFFICES ASSUME NEW s \in Seq(Tokens), Len(s) <= n + 1, Clean(s, W)
                 PROVE  Scan(Scan(s, f), e) = Scan(s, g)
      OBVIOUS
  <2>2. \A z \in Seq(Tokens) :
            Len(z) <= n /\ Clean(z, W) => Scan(Scan(z, f), e) = Scan(z, g)
      BY <1>5
  <2> HIDE DEF P
  <2>3. CASE Len(s) = 0
    <3>1. << >> \in Seq(Tokens) /\ Len(<< >>) = 0
        OBVIOUS
    <3>2. Scan(s, f) = << >> /\ Scan(s, g) = << >> /\ Scan(<< >>, e) = << >>
        BY <1>2, <2>3, <3>1, ScanStep
    <3> QED
        BY <3>2
  <2>4. ASSUME NEW x \in W, StartsAt(x, s, 1) PROVE Scan(Scan(s, f), e) = Scan(s, g)
    <3> DEFINE r == Behind(s, Len(x))
    <3>1. x \in Seq(Tokens) /\ Len(x) >= 1 /\ Len(x) \in Nat
      <4>1. x \in Seq(Tokens) /\ Len(x) >= 1
          BY DEF ApartFrom
      <4> QED
          BY <4>1
    <3>2. Len(x) \in 0..Len(s) /\ s = x \o r
        BY <2>4, <3>1, SignAndRest
    <3>3. r \in Seq(Tokens) /\ Len(r) = Len(s) - Len(x) /\ Clean(r, W)
        BY <2>1, <3>2, BehindIs, CleanBehind
    <3> HIDE DEF r
    <3>4. Scan(Scan(r, f), e) = Scan(r, g) /\ Scan(r, f) \in Seq(Tokens)
      <4>1. Len(r) <= n
          BY <2>1, <3>1, <3>2, <3>3
      <4> QED
          BY <2>2, <3>3, <4>1, ScanStep
    <3>5. CASE x \in DOMAIN f
      <4>1. Scan(s, f) = f[x] \o Scan(r, f) /\ f[x] \in Seq(Tokens)
          BY <3>2, <3>3, <3>5, ScanSign DEF Puts
      <4>2. Quiet(f[x], e)
          BY <1>1, <3>5 DEF Quiet, Holds
      <4>3. Scan(f[x] \o Scan(r, f), e) = f[x] \o Scan(Scan(r, f), e)
          BY <1>2, <3>4, <4>1, <4>2, ScanQuiet
      <4>4. Scan(s, g) = g[x] \o Scan(r, g)
        <5>1. x \in DOMAIN g
            BY <3>5
        <5>2. Scan(x \o r, g) = g[x] \o Scan(r, g)
            BY <1>2, <3>3, <5>1, ScanSign
        <5> QED
            BY <3>2, <5>1, <5>2
      <4> QED
          BY <3>4, <3>5, <4>1, <4>3, <4>4
    <3>6. CASE x = w
      <4>1. Scan(s, f) = x \o Scan(r, f)
        <5>1. x \notin DOMAIN f
            BY <3>6
        <5> QED
            BY <3>2, <3>3, <5>1, ScanOtherSign
      <4>2. Scan(x \o Scan(r, f), e) = v \o Scan(Scan(r, f), e)
        <5>1. x \in DOMAIN e /\ e[x] = v
            BY <1>1, <3>6
        <5> QED
            BY <1>2, <3>4, <5>1, ScanSign
      <4>3. Scan(s, g) = v \o Scan(r, g)
        <5>1. x \in DOMAIN g /\ g[x] = v
            BY <3>6
        <5>2. Scan(x \o r, g) = g[x] \o Scan(r, g)
            BY <1>2, <3>3, <5>1, ScanSign
        <5> QED
            BY <3>2, <5>1, <5>2
      <4> QED
          BY <3>4, <4>1, <4>2, <4>3
    <3>7. CASE x \notin DOMAIN f /\ x # w
      <4>1. Scan(s, f) = x \o Scan(r, f)
          BY <3>2, <3>3, <3>7, ScanOtherSign
      <4>2. Scan(x \o Scan(r, f), e) = x \o Scan(Scan(r, f), e)
        <5>1. x \notin DOMAIN e
            BY <1>1, <3>7
        <5>2. \A y \in Seq(Tokens) : Scan(x \o y, e) = x \o Scan(y, e)
            BY <1>2, <1>3, <5>1, ScanOtherSign
        <5> QED
            BY <3>4, <5>2
      <4>3. Scan(s, g) = x \o Scan(r, g)
        <5>1. x \notin DOMAIN g
            BY <3>7
        <5> QED
            BY <1>2, <1>3, <3>2, <3>3, <5>1, ScanOtherSign
      <4> QED
          BY <3>4, <4>1, <4>2, <4>3
    <3> QED
        BY <3>5, <3>6, <3>7
  <2>5. ASSUME Len(s) # 0, \A x \in W : ~StartsAt(x, s, 1)
        PROVE  Scan(Scan(s, f), e) = Scan(s, g)
    <3> DEFINE r == Behind(s, 1)
    <3>1. s[1] \in Tokens /\ r \in Seq(Tokens) /\ Len(r) = Len(s) - 1 /\ s = <<s[1]>> \o r
        BY <2>5, OneAndRest
    <3>2. 1 \in 0..Len(s)
        BY <2>5
    <3>3. Clean(r, W)
        BY <2>1, <3>2, CleanBehind
    <3>4. Scan(Scan(r, f), e) = Scan(r, g) /\ Scan(r, f) \in Seq(Tokens)
      <4>1. Len(r) <= n
          BY <2>1, <3>1
      <4> HIDE DEF r
      <4> QED
          BY <2>2, <3>1, <3>3, <4>1, ScanStep
    <3>5. ~Finds(f, s, 1) /\ ~Finds(g, s, 1)
        BY <1>3, <2>5 DEF Finds
    <3>6. Scan(s, f) = <<s[1]>> \o Scan(r, f) /\ Scan(s, g) = <<s[1]>> \o Scan(r, g)
      <4> HIDE DEF r
      <4> QED
          BY <1>2, <2>5, <3>5, ScanStep DEF r
    <3>7. ~Finds(e, <<s[1]>> \o Scan(r, f), 1)
      <4>1. ~StartsAt(w, <<s[1]>> \o Scan(r, f), 1)
          BY <2>1, <2>5, NotFormed
      <4> QED
          BY <1>1, <4>1 DEF Finds
    <3>8. Scan(<<s[1]>> \o Scan(r, f), e) = <<s[1]>> \o Scan(Scan(r, f), e)
        BY <1>2, <3>1, <3>4, <3>7, ScanOne
    <3> QED
        BY <3>4, <3>6, <3>8
  <2> QED
      BY <2>3, <2>4, <2>5
<1>6. \A n \in Nat : n \in P
  <2> HIDE DEF P
  <2> QED
      BY <1>4, <1>5, NumbersByInduction
<1>7. Scan(Scan(t, f), e) = Scan(t, g)
  <2>1. Len(t) \in Nat /\ Len(t) <= Len(t)
      OBVIOUS
  <2>2. Len(t) \in P
      BY <1>6, <2>1
  <2> QED
      BY <2>1, <2>2
<1> QED
    BY <1>7 DEF Replace, e, v

-----------------------------------------------------------------------------
(* The invariant *)

\* The signs that were replaced so far, and what stands for them.
Taken ==
    {Mark[first + i - 1] : i \in 1..(num - first)} \cup
        {Spelling[k] : k \in KeysOf(kind) \ pending}
SoFar == [w \in Taken |-> Together[w]]

\* Where a rule begins to number its values.
Counted ==
    step # "idle" =>
        /\ nth \in 1..MaxRules
        /\ IF kind = "event" THEN values \in Arguments /\ first = 1 + (nth - 1) * Len(values)
           ELSE values \in Captures /\ first = 0

\* What a rule has behind it.
Ordered ==
    /\ step # "idle" => pending \subseteq KeysOf(kind)
    /\ step = "numbers" => pending = IF kind = "event" THEN {} ELSE KeysOf(kind)
    /\ step = "keys" => num = IF kind = "event" THEN first ELSE first + Len(values)
    /\ step \in {"act", "acted"} => pending = {} /\ num = first + Len(values)

\* The draft is the rule with those marks and placeholders put in that were taken so far.
Drafted == step # "idle" /\ Plain => draft = Scan(rule, SoFar)

TextInv == TypeOK /\ Counted /\ Ordered /\ Drafted

-----------------------------------------------------------------------------
(* The signs of a rule *)

LEMMA MarksAreThere ==
    ASSUME TypeOK, Counted, step # "idle", NEW i \in 1..Len(values)
    PROVE  first + i - 1 \in DOMAIN Mark
<1>1. Len(values) \in Nat /\ MaxRules \in Nat
    BY RulesAssumption DEF TypeOK
<1>2. CASE kind = "event"
  <2> DEFINE size == Len(values)
             rest == MaxRules - nth
  <2>1. /\ values \in Arguments /\ nth \in 1..MaxRules
        /\ first + i - 1 = (nth - 1) * size + i
      BY <1>1, <1>2 DEF Counted
  <2>2. nth \in Nat /\ nth - 1 \in Nat /\ rest \in Nat /\ MaxRules = (nth - 1) + 1 + rest
      BY <1>1, <2>1
  <2>3. (nth - 1) * size \in Nat /\ rest * size \in Nat
      BY <1>1, <2>2
  <2>4. MaxRules * size = (nth - 1) * size + size + rest * size
    <3>1. \A a, b, c \in Nat : (a + 1 + b) * c = a * c + c + b * c
        OBVIOUS
    <3> QED
        BY <1>1, <2>2, <3>1
  <2>5. (nth - 1) * size + i \in 1..(MaxRules * size)
      BY <1>1, <2>3, <2>4
  <2> QED
      BY <2>1, <2>5, MarkAssumption
<1>3. CASE kind # "event"
    BY <1>1, <1>3, MarkAssumption DEF Counted
<1> QED
    BY <1>2, <1>3

\* Every mark is that of one value.
LEMMA MarksDiffer ==
    ASSUME TypeOK, Counted, step # "idle",
           NEW i \in 1..Len(values), NEW j \in 1..Len(values),
           Mark[first + i - 1] = Mark[first + j - 1]
    PROVE  i = j
<1>1. first + i - 1 = first + j - 1
    BY MarksAreThere, SignsAssumption
<1> QED
    BY <1>1 DEF TypeOK
-----------------------------------------------------------------------------
(* Types *)

LEMMA ReplaceType ==
    ASSUME NEW t \in Seq(Tokens), NEW w \in Signs, NEW v \in Seq(Tokens)
    PROVE  Replace(t, w, v) \in Seq(Tokens)
<1> DEFINE e == [d \in {w} |-> v]
<1>1. DOMAIN e = {w} /\ e[w] = v /\ {w} \subseteq Signs
    OBVIOUS
<1> HIDE DEF e
<1>2. Puts(e)
  <2>1. ApartFrom({w})
      BY <1>1, SignsAssumption DEF ApartFrom
  <2> QED
      BY <1>1, <2>1 DEF Puts
<1> QED
    BY <1>2, ScanStep DEF Replace, e

LEMMA ValueIsText ==
    ASSUME NEW v \in Values, NEW k \in Keys
    PROVE  v[k] \in Seq(Tokens)
BY KeysAssumption

\* A rule does with SplitCommand what its callers may.
LEMMA NextSplits == TypeOK /\ [Next]_vars => [AnyNext]_splitVars
BY DEF TypeOK, vars, Next, Start, Number, NumbersEnd, Key, KeysEnd, Send, Command, Split,
       NextRule, End, AnyNext, splitVars

LEMMA KeysOfKeys == \A k : KeysOf(k) \subseteq Keys
BY DEF KeysOf

LEMMA TypeInit == Init => TypeOK
BY SplitTypeInit, RulesAssumption DEF Init, TypeOK, Kinds

LEMMA TypeNext == TypeOK /\ Counted /\ [Next]_vars => TypeOK'
<1> SUFFICES ASSUME TypeOK, Counted, [Next]_vars PROVE TypeOK'
    OBVIOUS
<1>0. SplitTypeOK'
    BY SplitTypeNext, NextSplits DEF TypeOK
<1>t. /\ step \in {"idle", "numbers", "keys", "act", "acted"} /\ kind \in Kinds
      /\ rule \in Seq(Tokens) /\ draft \in Seq(Tokens)
      /\ values \in Seq(Seq(Tokens)) /\ value \in Values
      /\ first \in Nat /\ num \in first..(first + Len(values))
      /\ pending \subseteq Keys /\ nth \in 0..MaxRules
      /\ MaxRules \in Nat \ {0} /\ Len(values) \in Nat
    BY RulesAssumption DEF TypeOK
<1>1. CASE Start
  <2>1. PICK k \in Kinds :
            /\ kind' = k
            /\ step' = IF k = "event" THEN "keys" ELSE "numbers"
            /\ values' \in IF k = "event" THEN Arguments ELSE Captures
            /\ num' = IF k = "event" THEN 1 ELSE 0
            /\ pending' = KeysOf(k)
      BY <1>1 DEF Start
  <2>2. values' \in Seq(Seq(Tokens)) /\ rule' \in Seq(Tokens)
      BY <1>1, <2>1, RulesAssumption DEF Start
  <2>3. Len(values') \in Nat
      BY <2>2
  <2>4. first' = num' /\ nth' = 1 /\ value' \in Values /\ draft' = rule'
      BY <1>1 DEF Start
  <2> QED
      BY <1>0, <1>t, <2>1, <2>2, <2>3, <2>4, KeysOfKeys DEF TypeOK
<1>2. CASE Number
  <2>1. values[num - first + 1] \in Seq(Tokens) /\ Mark[num] \in Signs
    <3>1. step # "idle" /\ num - first + 1 \in 1..Len(values)
        BY <1>2, <1>t DEF Number
    <3>2. first + (num - first + 1) - 1 = num
        BY <1>t
    <3>3. num \in DOMAIN Mark
        BY <3>1, <3>2, MarksAreThere
    <3> QED
        BY <1>t, <3>1, <3>3 DEF Signs
  <2>2. draft' \in Seq(Tokens)
      BY <1>2, <1>t, <2>1, ReplaceType DEF Number
  <2> QED
      BY <1>0, <1>2, <1>t, <2>2 DEF Number, TypeOK
<1>3. CASE NumbersEnd
    BY <1>0, <1>3, <1>t DEF NumbersEnd, TypeOK
<1>4. CASE Key
  <2>1. PICK k \in pending :
            draft' = Replace(draft, Spelling[k], value[k]) /\ pending' = pending \ {k}
      BY <1>4 DEF Key
  <2>2. draft' \in Seq(Tokens)
    <3>1. k \in Keys /\ Spelling[k] \in Signs
        BY <1>t DEF Signs
    <3> QED
        BY <1>t, <2>1, <3>1, ValueIsText, ReplaceType
  <2> QED
      BY <1>0, <1>4, <1>t, <2>1, <2>2 DEF Key, TypeOK
<1>5. CASE KeysEnd
    BY <1>0, <1>5, <1>t DEF KeysEnd, TypeOK
<1>6. CASE Send \/ Command
    BY <1>0, <1>6, <1>t DEF Send, Command, TypeOK
<1>7. CASE Split \/ UNCHANGED vars
    BY <1>0, <1>7, <1>t DEF Split, vars, draftVars, TypeOK
<1>8. CASE NextRule
  <2>1. rule' \in Seq(Tokens)
      BY <1>8, RulesAssumption DEF NextRule
  <2> QED
      BY <1>0, <1>8, <1>t, <2>1, KeysOfKeys DEF NextRule, TypeOK
<1>9. CASE End
    BY <1>0, <1>9, <1>t DEF End, TypeOK
<1> QED
    BY <1>1, <1>2, <1>3, <1>4, <1>5, <1>6, <1>7, <1>8, <1>9 DEF Next

LEMMA CountedNext == TypeOK /\ Counted /\ Ordered /\ [Next]_vars => Counted'
<1> SUFFICES ASSUME TypeOK, Counted, Ordered, [Next]_vars PROVE Counted'
    OBVIOUS
<1>1. CASE Start
    BY <1>1, RulesAssumption DEF Start, Counted, Kinds
<1>2. CASE NextRule
  <2>1. /\ step = "acted" /\ kind' = kind /\ values' = values /\ kind = "event"
        /\ nth < MaxRules /\ nth' = nth + 1 /\ first' = num
      BY <1>2 DEF NextRule, Returned
  <2>2. /\ nth \in 1..MaxRules /\ values \in Arguments /\ num = first + Len(values)
        /\ first = 1 + (nth - 1) * Len(values)
      BY <2>1 DEF Counted, Ordered
  <2>3. Len(values) \in Nat /\ nth \in Nat /\ nth' \in 1..MaxRules
      BY <2>1, <2>2, RulesAssumption DEF TypeOK
  <2>4. (nth' - 1) * Len(values) = (nth - 1) * Len(values) + Len(values)
    <3>1. \A a, b \in Nat : ((a + 1) - 1) * b = (a - 1) * b + b
        OBVIOUS
    <3> QED
        BY <2>1, <2>3, <3>1
  <2>5. first' = 1 + (nth' - 1) * Len(values)
    <3>1. (nth - 1) * Len(values) \in Int
        BY <2>3
    <3> QED
        BY <2>1, <2>2, <2>3, <2>4, <3>1
  <2> QED
      BY <2>1, <2>2, <2>3, <2>5 DEF Counted
<1>3. CASE Number \/ NumbersEnd \/ Key \/ KeysEnd \/ Send \/ Command \/ Split \/ UNCHANGED vars
    BY <1>3 DEF Number, NumbersEnd, Key, KeysEnd, Send, Command, Split, vars, draftVars, Counted
<1>4. CASE End
    BY <1>4 DEF End, Counted
<1> QED
    BY <1>1, <1>2, <1>3, <1>4 DEF Next

LEMMA OrderedNext == TypeOK /\ Ordered /\ [Next]_vars => Ordered'
<1> SUFFICES ASSUME TypeOK, Ordered, [Next]_vars PROVE Ordered'
    OBVIOUS
<1> USE DEF Ordered
<1>1. CASE Start
    BY <1>1 DEF Start, KeysOf
<1>2. CASE Number \/ Key \/ Send \/ Command \/ Split \/ UNCHANGED vars
    BY <1>2 DEF Number, Key, Send, Command, Split, vars, draftVars, KeysOf
<1>3. CASE NumbersEnd
  <2>1. num = first + Len(values)
      BY <1>3 DEF NumbersEnd, TypeOK
  <2> QED
      BY <1>3, <2>1 DEF NumbersEnd, KeysOf
<1>4. CASE KeysEnd
    BY <1>4 DEF KeysEnd, KeysOf
<1>5. CASE NextRule
    BY <1>5 DEF NextRule, Returned, KeysOf
<1>6. CASE End
    BY <1>6 DEF End
<1> QED
    BY <1>1, <1>2, <1>3, <1>4, <1>5, <1>6 DEF Next

\* The variables of the three functions keep their types, for any rules and values.
THEOREM TypeCorrect == Spec => []TypeOK
<1> DEFINE TypeInv == TypeOK /\ Counted /\ Ordered
<1>1. Init => TypeInv
    BY TypeInit DEF Init, Counted, Ordered
<1>2. TypeInv /\ [Next]_vars => TypeInv'
    BY TypeNext, CountedNext, OrderedNext
<1> QED
    BY <1>1, <1>2, PTL DEF Spec

-----------------------------------------------------------------------------
(* SplitCommand within a rule *)

\* Whatever text a rule yields, its words are those of the command: nothing is lost.
THEOREM CommandLosesNothing == Spec => []NothingLost
<1>1. Init => SplitInv
    BY SplitInvInit DEF Init
<1>2. TypeOK /\ SplitInv /\ [Next]_vars => SplitInv'
    BY NextSplits, SplitInvNext
<1> QED
    BY <1>1, <1>2, InvLosesNothing, TypeCorrect, PTL DEF Spec

\* Only quotes keep words of the text together, and every quote that something closes.
THEOREM CommandTellsQuotes == Spec => []QuotesTell
<1>1. Init => SplitInv
    BY SplitInvInit DEF Init
<1>2. TypeOK /\ SplitInv /\ [Next]_vars => SplitInv'
    BY NextSplits, SplitInvNext
<1> QED
    BY <1>1, <1>2, InvTellsQuotes, TypeCorrect, PTL DEF Spec

-----------------------------------------------------------------------------
(* What is put in *)

LEMMA TogetherIs ==
    ASSUME TypeOK, Counted, step # "idle"
    PROVE  /\ DOMAIN Together = {Mark[first + i - 1] : i \in 1..Len(values)} \cup
                                   {Spelling[k] : k \in KeysOf(kind)}
           /\ DOMAIN Together \subseteq Signs
           /\ \A i \in 1..Len(values) : Together[Mark[first + i - 1]] = values[i]
           /\ \A k \in KeysOf(kind) : Together[Spelling[k]] = value[k]
<1>1. \A i \in 1..Len(values) : first + i - 1 \in DOMAIN Mark
    BY MarksAreThere
<1>2. KeysOf(kind) \subseteq Keys
    BY KeysOfKeys
<1>3. \A i \in 1..Len(values), k \in KeysOf(kind) : Mark[first + i - 1] # Spelling[k]
  <2>1. SUFFICES ASSUME NEW i \in 1..Len(values), NEW k \in KeysOf(kind)
                 PROVE  Mark[first + i - 1] # Spelling[k]
      OBVIOUS
  <2>2. Mark[first + i - 1][1] = "$" /\ Spelling[k][1] = "{"
      BY <1>1, <1>2, SignsAssumption
  <2> QED
      BY <2>2
<1>4. /\ DOMAIN Numbered = {Mark[first + i - 1] : i \in 1..Len(values)}
      /\ DOMAIN Named = {Spelling[k] : k \in KeysOf(kind)}
    BY DEF Numbered, Named
<1>5. /\ DOMAIN Together = DOMAIN Numbered \cup DOMAIN Named
      /\ \A w \in DOMAIN Numbered : Together[w] = Numbered[w]
      /\ \A w \in DOMAIN Named : w \notin DOMAIN Numbered => Together[w] = Named[w]
    BY DEF Together
<1>6. ASSUME NEW i \in 1..Len(values) PROVE Numbered[Mark[first + i - 1]] = values[i]
  <2> DEFINE w == Mark[first + i - 1]
             j == CHOOSE j \in 1..Len(values) : Mark[first + j - 1] = w
  <2>1. j \in 1..Len(values) /\ Mark[first + j - 1] = w
      OBVIOUS
  <2>2. Numbered[w] = values[j]
      BY DEF Numbered
  <2> HIDE DEF j
  <2>3. j = i
      BY <2>1, MarksDiffer
  <2> QED
      BY <2>2, <2>3
<1>7. ASSUME NEW k \in KeysOf(kind) PROVE Named[Spelling[k]] = value[k]
  <2> DEFINE w == Spelling[k]
             l == CHOOSE l \in KeysOf(kind) : Spelling[l] = w
  <2>1. l \in KeysOf(kind) /\ Spelling[l] = w
      OBVIOUS
  <2>2. Named[w] = value[l]
      BY DEF Named
  <2> HIDE DEF l
  <2>3. l = k
      BY <1>2, <2>1, SignsAssumption
  <2> QED
      BY <2>2, <2>3
<1>8. \A k \in KeysOf(kind) : Spelling[k] \in DOMAIN Named /\ Spelling[k] \notin DOMAIN Numbered
    BY <1>3, <1>4
<1>9. DOMAIN Together \subseteq Signs
    BY <1>1, <1>2, <1>4, <1>5 DEF Signs
<1> QED
    BY <1>4, <1>5, <1>6, <1>7, <1>8, <1>9

LEMMA TogetherApart ==
    ASSUME TypeOK, Counted, step # "idle"
    PROVE  /\ ApartFrom(DOMAIN Together)
           /\ \A w \in DOMAIN Together : Together[w] \in Seq(Tokens)
<1>1. ApartFrom(DOMAIN Together)
    BY TogetherIs, SignsAssumption DEF ApartFrom
<1>2. \A i \in 1..Len(values) : values[i] \in Seq(Tokens)
    BY DEF TypeOK
<1>3. \A k \in KeysOf(kind) : value[k] \in Seq(Tokens)
    BY ValueIsText, KeysOfKeys DEF TypeOK
<1> QED
    BY <1>1, <1>2, <1>3, TogetherIs

LEMMA TakenIn ==
    ASSUME TypeOK, Counted, step # "idle"
    PROVE  Taken \subseteq DOMAIN Together
<1>1. \A i \in 1..(num - first) : i \in 1..Len(values)
    BY DEF TypeOK
<1> QED
    BY <1>1, TogetherIs DEF Taken

\* What has been put in so far holds no opener of what is replaced now.
LEMMA PlainNow ==
    ASSUME TypeOK, Counted, Ordered, Plain, NEW w \in Taken
    PROVE  /\ step = "numbers" => ~Holds(Together[w], "$")
           /\ step = "keys" => ~Holds(Together[w], "{")
<1>0. CASE step \notin {"numbers", "keys"}
    BY <1>0
<1>1. CASE step \in {"numbers", "keys"}
  <2>0. Counted /\ step # "idle" /\ Len(values) \in Nat /\ first \in Nat
        /\ num \in first..(first + Len(values))
      BY <1>1 DEF TypeOK
  <2>1. CASE \E i \in 1..(num - first) : w = Mark[first + i - 1]
    <3>1. PICK i \in 1..(num - first) : w = Mark[first + i - 1]
        BY <2>1
    <3>2. i \in 1..Len(values) /\ Together[w] = values[i]
      <4>1. i \in 1..Len(values)
          BY <2>0
      <4> QED
          BY <2>0, <3>1, <4>1, TogetherIs
    <3>3. step = "keys" => kind # "event"
        BY <2>0 DEF Ordered
    <3> QED
        BY <3>2, <3>3 DEF Plain
  <2>2. CASE \E k \in KeysOf(kind) \ pending : w = Spelling[k]
    <3>1. PICK k \in KeysOf(kind) \ pending : w = Spelling[k]
        BY <2>2
    <3>2. Together[w] = value[k] /\ ~Holds(value[k], "{")
        BY <2>0, <3>1, TogetherIs DEF Plain
    <3>3. ASSUME step = "numbers" PROVE ~Holds(value[k], "$")
      <4>1. kind = "event"
          BY <3>1, <3>3 DEF Ordered
      <4>2. k \in Keys \cap SystemKeys /\ value \in Values /\ "$" \in Openers
          BY <3>1, <4>1 DEF KeysOf, TypeOK, Openers
      <4> QED
          BY <4>2, KeysAssumption
    <3> QED
        BY <3>2, <3>3
  <2> QED
      BY <2>1, <2>2 DEF Taken
<1> QED
    BY <1>0, <1>1

\* One replacement: the sign joins those that were taken.
LEMMA OneTaken ==
    TypeOK /\ Counted /\ Ordered /\ Drafted /\ Plain =>
        \A w \in DOMAIN Together :
            /\ w \notin Taken /\ step \in {"numbers", "keys"}
            /\ step = "numbers" => w[1] = "$"
            /\ step = "keys" => w[1] = "{"
            => Replace(draft, w, Together[w]) =
                       Scan(rule, [x \in Taken \cup {w} |-> Together[x]])
<1> SUFFICES ASSUME TypeOK, Counted, Ordered, Drafted, Plain,
                    NEW w \in DOMAIN Together, w \notin Taken,
                    step \in {"numbers", "keys"},
                    step = "numbers" => w[1] = "$", step = "keys" => w[1] = "{"
             PROVE  Replace(draft, w, Together[w]) =
                        Scan(rule, [x \in Taken \cup {w} |-> Together[x]])
    OBVIOUS
<1> DEFINE g == [x \in Taken \cup {w} |-> Together[x]]
<1>1. /\ ApartFrom(DOMAIN Together) /\ Taken \subseteq DOMAIN Together
      /\ \A x \in DOMAIN Together : Together[x] \in Seq(Tokens)
    BY TogetherApart, TakenIn
<1>2. DOMAIN SoFar = Taken /\ \A x \in Taken : SoFar[x] = Together[x]
    BY DEF SoFar
<1>3. Puts(SoFar)
  <2>1. ApartFrom(Taken)
      BY <1>1 DEF ApartFrom
  <2> QED
      BY <1>1, <1>2, <2>1 DEF Puts
<1>4. \A x \in Taken : ~Holds(Together[x], w[1])
    BY PlainNow
<1>5. /\ DOMAIN g = DOMAIN SoFar \cup {w} /\ g[w] = Together[w]
      /\ \A x \in DOMAIN SoFar : g[x] = SoFar[x]
    BY <1>2
<1> HIDE DEF g
<1>6. rule \in Seq(Tokens) /\ Clean(rule, DOMAIN Together) /\ draft = Scan(rule, SoFar)
    BY DEF TypeOK, Plain, Drafted
<1>7. Extends(g, SoFar, w, DOMAIN Together)
    BY <1>1, <1>2, <1>3, <1>4, <1>5 DEF Extends
<1>8. Replace(Scan(rule, SoFar), w, g[w]) = Scan(rule, g)
    BY ONLY <1>6, <1>7, OneMore
<1> QED
    BY <1>5, <1>6, <1>8 DEF g

-----------------------------------------------------------------------------
(* The invariant is kept *)

\* A rule of which nothing is put in yet.
LEMMA FreshDraft ==
    TypeOK /\ Taken = {} /\ draft = rule => Drafted
<1> SUFFICES ASSUME TypeOK, Taken = {}, draft = rule PROVE Drafted
    OBVIOUS
<1>1. DOMAIN SoFar = {} /\ rule \in Seq(Tokens)
    BY DEF SoFar, TypeOK
<1>2. Puts(SoFar) /\ Quiet(rule, SoFar)
    BY <1>1 DEF Puts, ApartFrom, Quiet
<1>3. Scan(rule, SoFar) = rule
    BY <1>1, <1>2, ScanNothing
<1> QED
    BY <1>3 DEF Drafted

LEMMA TextInvInit == Init => TextInv
BY TypeInit DEF Init, TextInv, Counted, Ordered, Drafted

\* Steps that leave alone what is put in.
LEMMA TogetherKept ==
    UNCHANGED <<kind, rule, values, value, first>> =>
        Together' = Together /\ (Plain' <=> Plain) /\ KeysOf(kind)' = KeysOf(kind)
<1> SUFFICES ASSUME UNCHANGED <<kind, rule, values, value, first>>
             PROVE  Together' = Together /\ (Plain' <=> Plain) /\ KeysOf(kind)' = KeysOf(kind)
    OBVIOUS
<1>1. KeysOf(kind)' = KeysOf(kind)
    BY DEF KeysOf
<1>2. Numbered' = Numbered /\ Named' = Named
    BY <1>1 DEF Numbered, Named
<1>3. Together' = Together
    BY <1>2 DEF Together
<1> QED
    BY <1>1, <1>3 DEF Plain

LEMMA DraftedNext ==
    TypeOK /\ TypeOK' /\ Counted /\ Ordered /\ Drafted /\ [Next]_vars => Drafted'
<1> SUFFICES ASSUME TypeOK, TypeOK', Counted, Ordered, Drafted, [Next]_vars PROVE Drafted'
    OBVIOUS
<1>t. /\ Len(values) \in Nat /\ first \in Nat /\ num \in first..(first + Len(values))
      /\ rule \in Seq(Tokens)
    BY DEF TypeOK
<1>1. CASE Start \/ NextRule
  <2>1. draft' = rule' /\ num' = first' /\ pending' = KeysOf(kind)'
      BY <1>1 DEF Start, NextRule, KeysOf
  <2>2. Taken' = {}
    <3>1. num' - first' = 0
      <4>1. first' \in Nat
          BY <1>1, <1>t DEF Start, NextRule
      <4>2. num' = first' /\ \A a \in Nat : a - a = 0
          BY <2>1
      <4>3. first' - first' = 0
          BY <4>1, <4>2
      <4> QED
          BY <4>2, <4>3
    <3> QED
        BY <2>1, <3>1 DEF Taken
  <2>3. (TypeOK /\ Taken = {} /\ draft = rule => Drafted)'
      BY FreshDraft, PTL
  <2> QED
      BY <2>1, <2>2, <2>3
<1>2. CASE Number
  <2>1. UNCHANGED <<step, kind, rule, values, value, first, pending>> /\ step = "numbers"
        /\ num' = num + 1 /\ num - first < Len(values)
        /\ draft' = Replace(draft, Mark[num], values[num - first + 1])
      BY <1>2 DEF Number
  <2>2. SUFFICES ASSUME Plain' PROVE draft' = Scan(rule, SoFar')
      BY <2>1 DEF Drafted
  <2>3. Plain /\ Together' = Together /\ KeysOf(kind)' = KeysOf(kind)
      BY <2>1, <2>2, TogetherKept
  <2> DEFINE n == num - first + 1
             w == Mark[num]
  <2>4. n \in 1..Len(values) /\ first + n - 1 = num /\ n \notin 1..(num - first)
      BY <1>t, <2>1
  <2>5. w \in DOMAIN Together /\ Together[w] = values[n] /\ num \in DOMAIN Mark
    <3>1. step # "idle"
        BY <2>1
    <3> QED
        BY <2>4, <3>1, TogetherIs, MarksAreThere
  <2>6. w[1] = "$"
      BY <2>5, SignsAssumption
  <2>7. w \notin Taken
    <3>1. ASSUME NEW i \in 1..(num - first) PROVE Mark[first + i - 1] # w
      <4>1. i \in 1..Len(values) /\ i # n /\ step # "idle"
          BY <1>t, <2>1, <2>4
      <4> QED
          BY <2>4, <4>1, MarksDiffer
    <3>2. ASSUME NEW k \in KeysOf(kind) PROVE Spelling[k] # w
      <4>1. Spelling[k][1] = "{"
          BY KeysOfKeys, SignsAssumption
      <4> QED
          BY <2>6, <4>1
    <3> QED
        BY <3>1, <3>2 DEF Taken
  <2>8. Taken' = Taken \cup {w}
    <3>1. num' - first' = (num - first) + 1 /\ 1..((num - first) + 1) = (1..(num - first)) \cup {n}
        BY <1>t, <2>1
    <3>2. {Mark[first' + i - 1] : i \in 1..(num' - first')} =
              {Mark[first + i - 1] : i \in 1..(num - first)} \cup {Mark[first + n - 1]}
        BY <2>1, <3>1
    <3> QED
        BY <2>1, <2>3, <2>4, <3>2 DEF Taken
  <2>9. SoFar' = [x \in Taken \cup {w} |-> Together[x]]
      BY <2>3, <2>8 DEF SoFar
  <2> HIDE DEF w, n
  <2>10. Replace(draft, w, Together[w]) = Scan(rule, SoFar')
    <3>1. TypeOK /\ Counted /\ Ordered /\ Drafted /\ Plain
        BY <2>3
    <3>2. w \in DOMAIN Together /\ w \notin Taken /\ step = "numbers"
        BY <2>1, <2>5, <2>7
    <3>3. Replace(draft, w, Together[w]) =
              Scan(rule, [x \in Taken \cup {w} |-> Together[x]])
        BY ONLY <2>6, <3>1, <3>2, OneTaken
    <3> QED
        BY <2>9, <3>3
  <2> QED
      BY <2>1, <2>5, <2>10 DEF w, n
<1>3. CASE Key
  <2>1. UNCHANGED <<step, kind, rule, values, value, first, num>> /\ step = "keys"
      BY <1>3 DEF Key
  <2>2. SUFFICES ASSUME Plain' PROVE draft' = Scan(rule, SoFar')
      BY <2>1 DEF Drafted
  <2>3. Plain /\ Together' = Together /\ KeysOf(kind)' = KeysOf(kind)
      BY <2>1, <2>2, TogetherKept
  <2>4. PICK k \in pending :
            draft' = Replace(draft, Spelling[k], value[k]) /\ pending' = pending \ {k}
      BY <1>3 DEF Key
  <2> DEFINE w == Spelling[k]
  <2>5. k \in KeysOf(kind) /\ k \in Keys /\ step # "idle"
      BY <2>1, KeysOfKeys DEF Ordered
  <2>6. w \in DOMAIN Together /\ Together[w] = value[k] /\ w[1] = "{"
      BY <2>5, TogetherIs, SignsAssumption
  <2>7. w \notin Taken
    <3>1. ASSUME NEW i \in 1..(num - first) PROVE Mark[first + i - 1] # w
      <4>1. i \in 1..Len(values)
          BY <1>t
      <4>2. Mark[first + i - 1][1] = "$"
          BY <2>5, <4>1, MarksAreThere, SignsAssumption
      <4> QED
          BY <2>6, <4>2
    <3>2. ASSUME NEW l \in KeysOf(kind) \ pending PROVE Spelling[l] # w
      <4>1. l # k /\ l \in Keys
          BY KeysOfKeys
      <4> QED
          BY <2>5, <4>1, SignsAssumption
    <3> QED
        BY <3>1, <3>2 DEF Taken
  <2>8. Taken' = Taken \cup {w}
    <3>1. KeysOf(kind) \ (pending \ {k}) = (KeysOf(kind) \ pending) \cup {k}
        BY <2>5
    <3>2. {Spelling[l] : l \in KeysOf(kind) \ (pending \ {k})} =
              {Spelling[l] : l \in KeysOf(kind) \ pending} \cup {w}
        BY <3>1
    <3> QED
        BY <2>1, <2>3, <2>4, <3>2 DEF Taken
  <2>9. SoFar' = [x \in Taken \cup {w} |-> Together[x]]
      BY <2>3, <2>8 DEF SoFar
  <2> HIDE DEF w
  <2>10. Replace(draft, w, Together[w]) = Scan(rule, SoFar')
      BY <2>1, <2>3, <2>6, <2>7, <2>9, OneTaken
  <2> QED
      BY <2>4, <2>6, <2>10 DEF w
<1>4. CASE NumbersEnd \/ KeysEnd \/ Send \/ Command \/ Split \/ UNCHANGED vars
  <2>1. \/ /\ UNCHANGED <<kind, rule, draft, values, value, num, first, pending>>
           /\ step # "idle"
        \/ UNCHANGED draftVars
      BY <1>4 DEF NumbersEnd, KeysEnd, Send, Command, Split, vars, draftVars
  <2>2. /\ UNCHANGED <<kind, rule, draft, values, value, num, first, pending>>
        /\ step' # "idle" => step # "idle"
      BY <2>1 DEF draftVars
  <2>3. Together' = Together /\ (Plain' <=> Plain) /\ KeysOf(kind)' = KeysOf(kind)
      BY <2>2, TogetherKept
  <2>4. SoFar' = SoFar
      BY <2>2, <2>3 DEF SoFar, Taken
  <2> QED
      BY <2>2, <2>3, <2>4 DEF Drafted
<1>5. CASE End
    BY <1>5 DEF End, Drafted
<1> QED
    BY <1>1, <1>2, <1>3, <1>4, <1>5 DEF Next

\* The invariant: the draft of a clean rule with plain values is at every step the rule
\* with what was taken so far put in at once, and the values of a rule have marks of their
\* own, from where the last rule ended.
THEOREM TextInvariance == Spec => []TextInv
<1>1. TextInv /\ [Next]_vars => TextInv'
    BY TypeNext, CountedNext, OrderedNext, DraftedNext DEF TextInv
<1> QED
    BY <1>1, TextInvInit, PTL DEF Spec

-----------------------------------------------------------------------------
(* What follows *)

\* The text that is sent or run is the rule with everything put in at once: for any clean
\* rule, number of values and placeholders, and any order of these.
THEOREM PutInAtOnce == Spec => []WrittenOut
<1>1. TextInv => WrittenOut
  <2> SUFFICES ASSUME TextInv, step \in {"act", "acted"}, Plain
               PROVE  draft = Scan(rule, Together)
      BY DEF WrittenOut
  <2>1. TypeOK /\ Counted /\ step # "idle" /\ draft = Scan(rule, SoFar)
      BY DEF TextInv, Drafted
  <2>2. pending = {} /\ num - first = Len(values)
      BY DEF TextInv, Ordered, TypeOK
  <2>3. Taken = DOMAIN Together
      BY <2>1, <2>2, TogetherIs DEF Taken
  <2>4. SoFar = Together
    <3>1. Together = [w \in DOMAIN Together |-> Together[w]]
        BY DEF Together
    <3> QED
        BY <2>3, <3>1 DEF SoFar
  <2> QED
      BY <2>1, <2>4
<1> QED
    BY <1>1, TextInvariance, PTL

=============================================================================
