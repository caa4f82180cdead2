-------------------------- MODULE Derivations_proofs --------------------------
(* Theorems about Derivations, for any byte strings as inputs: what frame  *)
(* makes of several parts can be taken apart again in one way only.        *)
(*                                                                         *)
(* frame and FlattenSeq are defined by recursion on the number of parts.   *)
(* What they compute is proved by induction on it, which here is a         *)
(* statement about sets of numbers (Induction).                            *)
EXTENDS Derivations, Integers, WellFoundedInduction, SequenceTheorems, TLAPS

-----------------------------------------------------------------------------
(* Induction over the naturals.                                            *)

Less == {p \in Nat \X Nat : p[1] < p[2]}

LEMMA LessWellFounded == IsWellFoundedOn(Less, Nat)
BY NatLessThanWellFounded, Zenon DEF OpToRel, Less

LEMMA Induction ==
    ASSUME NEW T \in SUBSET Nat, 0 \in T, \A n \in T : n + 1 \in T
    PROVE  T = Nat
<1>1. ASSUME Nat \ T # {}
      PROVE  FALSE
  <2>1. PICK n \in Nat \ T : \A m \in Nat \ T : ~ (<<m, n>> \in Less)
    BY LessWellFounded, <1>1, WFMin
  <2>2. n - 1 \in Nat /\ n - 1 < n
    BY <2>1
  <2>3. <<n - 1, n>> \in Less
    BY <2>1, <2>2 DEF Less
  <2>4. n - 1 \in T
    BY <2>1, <2>2, <2>3
  <2>5. (n - 1) + 1 \in T
    BY <2>4
  <2>6. QED
    BY <2>1, <2>5
<1>2. QED
  BY <1>1

\* The same up to n.
LEMMA RangeInduction ==
    ASSUME NEW n \in Nat, NEW T, 1 \in T,
           \A i \in 1..n : i \in T /\ i + 1 \in 1..n => i + 1 \in T
    PROVE  \A i \in 1..n : i \in T
<1> DEFINE U == {i \in Nat : i + 1 \in 1..n => i + 1 \in T}
<1>1. 0 \in U
  OBVIOUS
<1>2. ASSUME NEW i \in U
      PROVE  i + 1 \in U
  <2>1. SUFFICES ASSUME (i + 1) + 1 \in 1..n
                 PROVE  (i + 1) + 1 \in T
    OBVIOUS
  <2>2. i + 1 \in 1..n
    BY <2>1
  <2>3. QED
    BY <2>1, <2>2
<1>3. U = Nat
  <2>1. U \in SUBSET Nat
    OBVIOUS
  <2> HIDE DEF U
  <2>2. QED
    BY <1>1, <1>2, <2>1, Induction
<1>4. ASSUME NEW i \in 1..n
      PROVE  i \in T
  <2>1. i - 1 \in Nat /\ (i - 1) + 1 = i
    OBVIOUS
  <2>2. i - 1 \in U
    BY <1>3, <2>1
  <2>3. QED
    BY <2>1, <2>2
<1>5. QED
  BY <1>4

-----------------------------------------------------------------------------
(* The recursion of FlattenSeq.                                            *)

\* g[i] is what the first i of n sequences are when joined.
Joins(g, seqs, n) ==
    g = [i \in 1..n |-> IF i = 1 THEN seqs[i] ELSE g[i - 1] \o seqs[i]]

LEMMA JoinExists ==
    ASSUME NEW seqs, NEW n \in Nat
    PROVE  \E g : Joins(g, seqs, n)
<1> DEFINE T == {m \in Nat : \E g : Joins(g, seqs, m)}
<1>1. 0 \in T
  <2>1. Joins([i \in 1..0 |-> seqs[i]], seqs, 0)
    BY DEF Joins
  <2>2. QED
    BY <2>1, Zenon
<1>2. ASSUME NEW m \in T
      PROVE  m + 1 \in T
  <2>1. PICK g : Joins(g, seqs, m)
    BY <1>2
  <2> DEFINE h == [i \in 1..(m + 1) |-> IF i = 1 THEN seqs[i] ELSE g[i - 1] \o seqs[i]]
  <2>2. ASSUME NEW i \in 1..(m + 1), i # 1
        PROVE  h[i - 1] = g[i - 1]
    <3>1. i - 1 \in 1..m /\ i - 1 \in 1..(m + 1) /\ m \in Nat
      BY <2>2, <1>2
    <3>2. g[i - 1] = IF i - 1 = 1 THEN seqs[i - 1] ELSE g[(i - 1) - 1] \o seqs[i - 1]
      BY <2>1, <3>1 DEF Joins
    <3>3. h[i - 1] = IF i - 1 = 1 THEN seqs[i - 1] ELSE g[(i - 1) - 1] \o seqs[i - 1]
      BY <3>1
    <3>4. QED
      BY <3>2, <3>3, Zenon
  <2>3. h = [i \in 1..(m + 1) |-> IF i = 1 THEN seqs[i] ELSE h[i - 1] \o seqs[i]]
    <3>1. \A i \in 1..(m + 1) : (IF i = 1 THEN seqs[i] ELSE g[i - 1] \o seqs[i])
                                 = IF i = 1 THEN seqs[i] ELSE h[i - 1] \o seqs[i]
      BY <2>2, Zenon
    <3>2. QED
      BY <3>1, Zenon
  <2>4. \E k : Joins(k, seqs, m + 1)
    BY <2>3, Zenon DEF Joins
  <2>5. QED
    BY <2>4, <1>2
<1>3. T = Nat
  <2> HIDE DEF T
  <2>1. T \in SUBSET Nat
    BY DEF T
  <2>2. QED
    BY <1>1, <1>2, <2>1, Induction
<1>4. QED
  BY <1>3

LEMMA FlattenJoins ==
    ASSUME NEW seqs, Len(seqs) \in Nat \ {0}
    PROVE  \E g : Joins(g, seqs, Len(seqs)) /\ FlattenSeq(seqs) = g[Len(seqs)]
<1> DEFINE g == CHOOSE k : Joins(k, seqs, Len(seqs))
<1>1. FlattenSeq(seqs) = g[Len(seqs)]
  BY Zenon DEF FlattenSeq, Joins
<1>2. Joins(g, seqs, Len(seqs))
  <2>1. \E k : Joins(k, seqs, Len(seqs))
    BY JoinExists
  <2>2. QED
    BY <2>1, Zenon
<1>3. QED
  BY <1>1, <1>2, Zenon

-----------------------------------------------------------------------------
(* Where frame puts the parts.                                             *)

Prefixed(part) == <<Len(part)>> \o part

\* The part after its length stands behind the first at bytes of s.
Block(s, at, part) ==
    /\ at + 1 + Len(part) <= Len(s)
    /\ s[at + 1] = Len(part)
    /\ \A k \in 1..Len(part) : s[at + 1 + k] = part[k]

LEMMA PrefixedIs ==
    ASSUME NEW part \in Bytes
    PROVE  /\ Prefixed(part) \in Bytes
           /\ Len(Prefixed(part)) = 1 + Len(part)
           /\ Prefixed(part)[1] = Len(part)
           /\ \A k \in 1..Len(part) : Prefixed(part)[1 + k] = part[k]
BY DEF Prefixed, Bytes

\* A block goes behind what was there before, which it does not touch.
LEMMA BlockAppended ==
    ASSUME NEW s \in Bytes, NEW part \in Bytes
    PROVE  Block(s \o Prefixed(part), Len(s), part)
<1> DEFINE t == Prefixed(part)
<1>1. /\ t \in Bytes /\ Len(t) = 1 + Len(part) /\ t[1] = Len(part)
      /\ \A k \in 1..Len(part) : t[1 + k] = part[k]
  BY PrefixedIs
<1> HIDE DEF t
<1>2. /\ Len(s) \in Nat /\ Len(t) \in Nat /\ Len(part) \in Nat
      /\ Len(s \o t) = Len(s) + Len(t)
      /\ \A i \in 1..(Len(s) + Len(t)) :
             (s \o t)[i] = IF i <= Len(s) THEN s[i] ELSE t[i - Len(s)]
  <2>1. s \in Seq(Nat) /\ t \in Seq(Nat) /\ part \in Seq(Nat)
    BY <1>1 DEF Bytes
  <2>2. QED
    BY <2>1
<1>3. (s \o t)[Len(s) + 1] = Len(part)
  <2>1. Len(s) + 1 \in 1..(Len(s) + Len(t)) /\ ~(Len(s) + 1 <= Len(s)) /\ (Len(s) + 1) - Len(s) = 1
    BY <1>1, <1>2
  <2>2. QED
    BY <1>1, <1>2, <2>1
<1>4. ASSUME NEW k \in 1..Len(part)
      PROVE  (s \o t)[Len(s) + 1 + k] = part[k]
  <2>1. /\ Len(s) + 1 + k \in 1..(Len(s) + Len(t))
        /\ ~(Len(s) + 1 + k <= Len(s))
        /\ (Len(s) + 1 + k) - Len(s) = 1 + k
    BY <1>1, <1>2
  <2>2. QED
    BY <1>1, <1>2, <2>1
<1>5. QED
  BY <1>1, <1>2, <1>3, <1>4 DEF Block, t

LEMMA BlockStays ==
    ASSUME NEW s \in Bytes, NEW t \in Bytes, NEW at \in Nat, NEW part \in Bytes,
           Block(s, at, part)
    PROVE  Block(s \o t, at, part)
<1>1. /\ Len(s) \in Nat /\ Len(t) \in Nat /\ Len(part) \in Nat
      /\ Len(s \o t) = Len(s) + Len(t)
      /\ \A i \in 1..Len(s) : (s \o t)[i] = s[i]
  BY DEF Bytes
<1>2. at + 1 \in 1..Len(s) /\ \A k \in 1..Len(part) : at + 1 + k \in 1..Len(s)
  BY <1>1 DEF Block
<1>3. QED
  BY <1>1, <1>2 DEF Block


\* o[i] is where the first i parts end in s.
Layout(s, parts, o) ==
    /\ o \in [0..Len(parts) -> Nat]
    /\ o[0] = 0
    /\ o[Len(parts)] = Len(s)
    /\ \A i \in 1..Len(parts) :
           /\ o[i] = o[i - 1] + 1 + Len(parts[i])
           /\ Block(s, o[i - 1], parts[i])

\* g[i] is the first i parts, prefixed and joined.
PrefixJoins(g, parts) ==
    /\ g[1] = Prefixed(parts[1])
    /\ \A i \in 1..Len(parts) :
           i + 1 \in 1..Len(parts) => g[i + 1] = g[i] \o Prefixed(parts[i + 1])

LEMMA FrameJoins ==
    ASSUME NEW parts \in Seq(Bytes), parts # << >>
    PROVE  \E g : PrefixJoins(g, parts) /\ frame(parts) = g[Len(parts)]
<1> DEFINE n == Len(parts)
           seqs == [i \in DOMAIN parts |-> <<Len(parts[i])>> \o parts[i]]
<1>1. n \in Nat \ {0} /\ DOMAIN parts = 1..n /\ \A i \in 1..n : parts[i] \in Bytes
  OBVIOUS
<1>2. /\ seqs = [i \in 1..n |-> Prefixed(parts[i])]
      /\ \A i \in 1..n : Prefixed(parts[i]) \in Bytes
  BY <1>1, PrefixedIs DEF Prefixed
<1>3. frame(parts) = FlattenSeq(seqs)
  BY Zenon DEF frame
<1> HIDE DEF n, seqs
<1>4. DOMAIN seqs = 1..n /\ seqs \in [1..n -> Bytes] /\ \A i \in 1..n : seqs[i] = Prefixed(parts[i])
  BY <1>2
<1>5. Len(seqs) = n
  <2>1. seqs \in Seq(Bytes)
    BY <1>1, <1>4
  <2>2. Len(seqs) \in Nat /\ DOMAIN seqs = 1..Len(seqs)
    BY <2>1
  <2>3. QED
    BY <1>1, <1>4, <2>2
<1>6. PICK g : Joins(g, seqs, n) /\ FlattenSeq(seqs) = g[n]
  <2>1. Len(seqs) \in Nat \ {0}
    BY <1>1, <1>5
  <2>2. QED
    BY <1>5, <2>1, FlattenJoins
<1>7. \A i \in 1..n : g[i] = IF i = 1 THEN seqs[i] ELSE g[i - 1] \o seqs[i]
  BY <1>6 DEF Joins
<1>8. g[1] = Prefixed(parts[1])
  BY <1>1, <1>4, <1>7
<1>9. ASSUME NEW i \in 1..n, i + 1 \in 1..n
      PROVE  g[i + 1] = g[i] \o Prefixed(parts[i + 1])
  <2>1. i + 1 # 1 /\ (i + 1) - 1 = i
    BY <1>1
  <2>2. g[i + 1] = IF i + 1 = 1 THEN seqs[i + 1] ELSE g[(i + 1) - 1] \o seqs[i + 1]
    BY <1>7, <1>9, Zenon
  <2>3. QED
    BY <1>4, <1>9, <2>1, <2>2
<1>10. QED
  BY <1>3, <1>6, <1>8, <1>9 DEF PrefixJoins, n

LEMMA JoinsLayout ==
    ASSUME NEW parts \in Seq(Bytes), parts # << >>, NEW g, PrefixJoins(g, parts)
    PROVE  g[Len(parts)] \in Bytes /\ \E o : Layout(g[Len(parts)], parts, o)
<1>1. PICK n \in Nat \ {0} : Len(parts) = n
  OBVIOUS
<1>2. /\ 1 \in 1..n
      /\ \A i \in 1..n :
             /\ parts[i] \in Bytes /\ Len(parts[i]) \in Nat
             /\ Prefixed(parts[i]) \in Bytes
             /\ Len(Prefixed(parts[i])) = 1 + Len(parts[i])
  BY <1>1, PrefixedIs DEF Bytes
<1>3. /\ g[1] = Prefixed(parts[1])
      /\ \A i \in 1..n : i + 1 \in 1..n => g[i + 1] = g[i] \o Prefixed(parts[i + 1])
  BY <1>1 DEF PrefixJoins
<1>4. \A i \in 1..n : g[i] \in Bytes
  <2> DEFINE T == {i \in 1..n : g[i] \in Bytes}
  <2>1. 1 \in T
    BY <1>2, <1>3
  <2>2. ASSUME NEW i \in 1..n, i \in T, i + 1 \in 1..n
        PROVE  i + 1 \in T
    <3>1. g[i] \in Bytes /\ Prefixed(parts[i + 1]) \in Bytes
      BY <1>2, <2>2
    <3>2. g[i] \o Prefixed(parts[i + 1]) \in Bytes
      BY <3>1 DEF Bytes
    <3>3. QED
      BY <1>3, <2>2, <3>2
  <2> HIDE DEF T
  <2>3. \A i \in 1..n : i \in T
    BY <2>1, <2>2, RangeInduction
  <2>4. QED
    BY <2>3 DEF T
<1>5. \A i \in 1..n : Len(g[i]) \in Nat
  BY <1>4 DEF Bytes
<1>6. PICK o \in [0..n -> Nat] : o[0] = 0 /\ \A i \in 1..n : o[i] = Len(g[i])
  <2> DEFINE f == [i \in 0..n |-> IF i = 0 THEN 0 ELSE Len(g[i])]
  <2>1. \A i \in 0..n : i # 0 => i \in 1..n
    OBVIOUS
  <2>2. f \in [0..n -> Nat] /\ f[0] = 0
    BY <1>5, <2>1
  <2>3. \A i \in 1..n : f[i] = Len(g[i])
    OBVIOUS
  <2>4. QED
    BY <2>2, <2>3
<1>7. ASSUME NEW i \in 1..n, i + 1 \in 1..n
      PROVE  /\ o[i + 1] = o[i] + 1 + Len(parts[i + 1])
             /\ \A at \in Nat : \A part \in Bytes :
                    Block(g[i], at, part) => Block(g[i + 1], at, part)
             /\ Block(g[i + 1], o[i], parts[i + 1])
  <2>1. PICK s \in Bytes : s = g[i]
    BY <1>4
  <2>2. PICK part \in Bytes : part = parts[i + 1]
    BY <1>2, <1>7
  <2>3. PICK t \in Bytes : t = Prefixed(part) /\ Len(t) = 1 + Len(part)
    BY PrefixedIs
  <2>4. g[i + 1] = s \o t
    BY <1>3, <1>7, <2>1, <2>2, <2>3
  <2>5. Len(s \o t) = Len(s) + Len(t) /\ Len(s) \in Nat /\ Len(part) \in Nat
    BY DEF Bytes
  <2>6. o[i] = Len(s) /\ o[i + 1] = Len(s \o t)
    BY <1>6, <1>7, <2>1, <2>4
  <2>7. o[i + 1] = o[i] + 1 + Len(part)
    BY <2>3, <2>5, <2>6
  <2>8. Block(s \o t, Len(s), part)
    BY <2>3, BlockAppended
  <2>9. \A at \in Nat : \A p \in Bytes : Block(s, at, p) => Block(s \o t, at, p)
    BY BlockStays
  <2>10. QED
    BY <2>1, <2>2, <2>4, <2>6, <2>7, <2>8, <2>9
<1>8. o[1] = o[0] + 1 + Len(parts[1]) /\ Block(g[1], o[0], parts[1])
  <2>1. PICK part \in Bytes : part = parts[1] /\ Len(part) \in Nat
    BY <1>2
  <2>2. PICK e \in Bytes : Len(e) = 0 /\ e = << >>
    <3>1. << >> \in Bytes /\ Len(<< >>) = 0
      BY DEF Bytes
    <3>2. QED
      BY <3>1, Zenon
  <2>3. Block(e \o Prefixed(part), Len(e), part)
    BY BlockAppended
  <2>4. e \o Prefixed(part) = Prefixed(part)
    BY <2>2, PrefixedIs DEF Bytes
  <2>5. Block(Prefixed(part), 0, part)
    BY <2>2, <2>3, <2>4
  <2>6. o[1] = 1 + Len(part)
    BY <1>2, <1>3, <1>6, <2>1
  <2>7. QED
    BY <1>3, <1>6, <2>1, <2>5, <2>6
<1>9. \A i \in 1..n : o[i] = o[i - 1] + 1 + Len(parts[i]) /\ Block(g[i], o[i - 1], parts[i])
  <2>1. ASSUME NEW i \in 1..n, i # 1
        PROVE  o[i] = o[i - 1] + 1 + Len(parts[i]) /\ Block(g[i], o[i - 1], parts[i])
    <3>1. PICK m \in 1..n : m + 1 = i /\ i - 1 = m
      <4>1. i - 1 \in 1..n /\ (i - 1) + 1 = i
        BY <2>1
      <4>2. QED
        BY <4>1
    <3>2. /\ o[m + 1] = o[m] + 1 + Len(parts[m + 1])
          /\ Block(g[m + 1], o[m], parts[m + 1])
      BY <1>7, <3>1
    <3>3. QED
      BY <3>1, <3>2
  <2>2. 1 - 1 = 0
    OBVIOUS
  <2>3. QED
    BY <1>8, <2>1, <2>2
<1>10. \A i \in 1..n : \A j \in 1..i : Block(g[i], o[j - 1], parts[j])
  <2> DEFINE T == {i \in 1..n : \A j \in 1..i : Block(g[i], o[j - 1], parts[j])}
  <2>1. 1 \in T
    BY <1>2, <1>9
  <2>2. ASSUME NEW i \in 1..n, i \in T, i + 1 \in 1..n
        PROVE  i + 1 \in T
    <3>1. ASSUME NEW j \in 1..i
          PROVE  Block(g[i + 1], o[j - 1], parts[j])
      <4>1. j \in 1..n /\ j - 1 \in 0..n /\ Block(g[i], o[j - 1], parts[j])
        BY <2>2
      <4>2. o[j - 1] \in Nat /\ parts[j] \in Bytes
        BY <1>2, <1>6, <4>1
      <4>3. QED
        BY <1>7, <2>2, <4>1, <4>2
    <3>2. ASSUME NEW j \in 1..(i + 1), ~(j \in 1..i)
          PROVE  Block(g[i + 1], o[j - 1], parts[j])
      <4>1. j = i + 1
        BY <3>2
      <4>2. QED
        BY <1>9, <2>2, <4>1
    <3>3. QED
      BY <2>2, <3>1, <3>2
  <2> HIDE DEF T
  <2>3. \A i \in 1..n : i \in T
    BY <2>1, <2>2, RangeInduction
  <2>4. QED
    BY <2>3 DEF T
<1>11. n \in 1..n /\ o[n] = Len(g[n])
  BY <1>6
<1>12. Layout(g[n], parts, o)
  BY <1>1, <1>6, <1>9, <1>10, <1>11 DEF Layout
<1>13. QED
  BY <1>1, <1>4, <1>11, <1>12

LEMMA FrameLayout ==
    ASSUME NEW parts \in Seq(Bytes), parts # << >>
    PROVE  frame(parts) \in Bytes /\ \E o : Layout(frame(parts), parts, o)
BY FrameJoins, JoinsLayout

-----------------------------------------------------------------------------
(* A string of bytes is laid out in one way only.                          *)

\* What stands behind the first at bytes decides the part and where it ends.
LEMMA BlockUnique ==
    ASSUME NEW s, NEW at \in Nat, NEW p \in Bytes, NEW q \in Bytes,
           Block(s, at, p), Block(s, at, q)
    PROVE  p = q
<1>1. Len(p) = Len(q) /\ \A k \in 1..Len(p) : p[k] = q[k]
  BY DEF Block
<1>2. p \in Seq(Nat) /\ q \in Seq(Nat)
  BY DEF Bytes
<1>3. QED
  BY <1>1, <1>2, SeqEqual

\* The shorter of two layouts is the beginning of the other.
LEMMA LayoutsAgree ==
    ASSUME NEW s \in Bytes, NEW p \in Seq(Bytes), NEW q \in Seq(Bytes), NEW o, NEW r,
           Layout(s, p, o), Layout(s, q, r), Len(p) <= Len(q)
    PROVE  \A i \in 1..Len(p) : p[i] = q[i] /\ o[i] = r[i]
<1>1. PICK n \in Nat, m \in Nat : Len(p) = n /\ Len(q) = m /\ n <= m
  OBVIOUS
<1>2. \A i \in 1..n : i \in 1..m /\ p[i] \in Bytes /\ q[i] \in Bytes
  BY <1>1
<1>3. /\ o \in [0..n -> Nat] /\ o[0] = 0 /\ r[0] = 0
      /\ \A i \in 1..n : /\ o[i] = o[i - 1] + 1 + Len(p[i])
                         /\ r[i] = r[i - 1] + 1 + Len(q[i])
                         /\ Block(s, o[i - 1], p[i])
                         /\ Block(s, r[i - 1], q[i])
  BY <1>1, <1>2 DEF Layout
<1>4. ASSUME NEW i \in 1..n, o[i - 1] = r[i - 1]
      PROVE  p[i] = q[i] /\ o[i] = r[i]
  <2>1. i - 1 \in 0..n
    BY <1>1
  <2>2. o[i - 1] \in Nat
    BY <1>3, <2>1
  <2>3. p[i] = q[i]
    BY <1>2, <1>3, <1>4, <2>2, BlockUnique
  <2>4. QED
    BY <1>3, <1>4, <2>3
<1> DEFINE T == {i \in 1..n : p[i] = q[i] /\ o[i] = r[i]}
<1>5. ASSUME 1 \in 1..n
      PROVE  1 \in T
  <2>1. o[1 - 1] = r[1 - 1]
    BY <1>3
  <2>2. QED
    BY <1>4, <1>5, <2>1
<1>6. ASSUME NEW i \in 1..n, i \in T, i + 1 \in 1..n
      PROVE  i + 1 \in T
  <2>1. o[(i + 1) - 1] = r[(i + 1) - 1]
    BY <1>6
  <2>2. QED
    BY <1>4, <1>6, <2>1
<1> HIDE DEF T
<1>7. \A i \in 1..n : i \in T
  <2>1. 1 \in 1..n => \A i \in 1..n : i \in T
    BY <1>1, <1>5, <1>6, RangeInduction
  <2>2. QED
    BY <1>1, <2>1
<1>8. QED
  BY <1>1, <1>7 DEF T

LEMMA LayoutUnique ==
    ASSUME NEW s \in Bytes, NEW p \in Seq(Bytes), NEW q \in Seq(Bytes), NEW o, NEW r,
           p # << >>, Layout(s, p, o), Layout(s, q, r), Len(p) <= Len(q)
    PROVE  p = q
<1>1. PICK n \in Nat \ {0}, m \in Nat : Len(p) = n /\ Len(q) = m /\ n <= m
  OBVIOUS
<1>2. \A i \in 1..n : p[i] = q[i] /\ o[i] = r[i]
  BY <1>1, LayoutsAgree
<1>3. n = m
  <2>1. SUFFICES ASSUME n + 1 \in 1..m
                 PROVE  FALSE
    BY <1>1
  <2>2. r[n] = Len(s) /\ Len(s) \in Nat
    <3>1. o[n] = Len(s)
      BY <1>1 DEF Layout
    <3>2. QED
      BY <1>1, <1>2, <3>1 DEF Bytes
  <2>3. PICK part \in Bytes : part = q[n + 1] /\ Len(part) \in Nat
    BY <1>1, <2>1 DEF Bytes
  <2>4. Block(s, r[(n + 1) - 1], part) /\ (n + 1) - 1 = n
    BY <1>1, <2>1, <2>3 DEF Layout
  <2>5. QED
    BY <2>2, <2>3, <2>4 DEF Block
<1>4. QED
  BY <1>1, <1>2, <1>3, SeqEqual

LEMMA FrameInjective ==
    ASSUME NEW p \in Seq(Bytes), NEW q \in Seq(Bytes), p # << >>, q # << >>,
           frame(p) = frame(q)
    PROVE  p = q
<1>1. PICK s \in Bytes : s = frame(p) /\ s = frame(q)
  BY FrameLayout
<1>2. PICK o : Layout(s, p, o)
  BY <1>1, FrameLayout
<1>3. PICK r : Layout(s, q, r)
  BY <1>1, FrameLayout
<1>4. Len(p) <= Len(q) \/ Len(q) <= Len(p)
  OBVIOUS
<1>5. QED
  BY <1>2, <1>3, <1>4, LayoutUnique

-----------------------------------------------------------------------------
(* The derivations.                                                        *)

LEMMA InputsAreBytes ==
    /\ Fixed \subseteq Bytes /\ Salts \subseteq Bytes /\ Text \subseteq Bytes /\ Epoch \subseteq Bytes
    /\ Reason \subseteq Bytes /\ Direction \subseteq Bytes
    /\ {DOMAIN_ROOT} \subseteq Bytes /\ {CONFIRMATION_INFO} \subseteq Bytes
    /\ {REVOCATION_TAG} \subseteq Bytes
<1>1. Fixed \subseteq Bytes /\ Salts \subseteq Bytes /\ Text \subseteq Bytes /\ Epoch \subseteq Bytes
  BY InputsAssumption
<1>2. /\ << >> \in Bytes
      /\ <<0, 1>> \in Bytes /\ <<0, 2>> \in Bytes /\ <<1, 1>> \in Bytes /\ <<2, 2>> \in Bytes
  BY DEF Bytes
<1>3. QED
  BY <1>1, <1>2 DEF Reason, Direction, DOMAIN_ROOT, CONFIRMATION_INFO, REVOCATION_TAG

\* Several parts, each from a set of byte strings, are a sequence of byte strings.
LEMMA Pair ==
    ASSUME NEW S1, NEW S2,
           S1 \subseteq Bytes, S2 \subseteq Bytes,
           NEW p \in S1 \X S2
    PROVE  p \in Seq(Bytes) /\ p # << >> /\ Len(p) = 2 /\ p[2] \in S2
<1>1. /\ p[1] \in S1 /\ p[2] \in S2
      /\ p = <<p[1], p[2]>>
  OBVIOUS
<1>2. PICK x1 \in Bytes, x2 \in Bytes :
          p = <<x1, x2>>
  <2>1. /\ p[1] \in Bytes /\ p[2] \in Bytes
    BY <1>1
  <2>2. QED
    BY <1>1, <2>1, Zenon
<1>3. QED
  BY <1>1, <1>2

LEMMA Quadruple ==
    ASSUME NEW S1, NEW S2, NEW S3, NEW S4,
           S1 \subseteq Bytes, S2 \subseteq Bytes, S3 \subseteq Bytes,
           S4 \subseteq Bytes,
           NEW p \in S1 \X S2 \X S3 \X S4
    PROVE  p \in Seq(Bytes) /\ p # << >> /\ Len(p) = 4 /\ p[2] \in S2
<1>1. /\ p[1] \in S1 /\ p[2] \in S2 /\ p[3] \in S3 /\ p[4] \in S4
      /\ p = <<p[1], p[2], p[3], p[4]>>
  OBVIOUS
<1>2. PICK x1 \in Bytes, x2 \in Bytes, x3 \in Bytes, x4 \in Bytes :
          p = <<x1, x2, x3, x4>>
  <2>1. /\ p[1] \in Bytes /\ p[2] \in Bytes /\ p[3] \in Bytes /\ p[4] \in Bytes
    BY <1>1
  <2>2. QED
    BY <1>1, <2>1, Zenon
<1>3. QED
  BY <1>1, <1>2

LEMMA Quintuple ==
    ASSUME NEW S1, NEW S2, NEW S3, NEW S4, NEW S5,
           S1 \subseteq Bytes, S2 \subseteq Bytes, S3 \subseteq Bytes,
           S4 \subseteq Bytes, S5 \subseteq Bytes,
           NEW p \in S1 \X S2 \X S3 \X S4 \X S5
    PROVE  p \in Seq(Bytes) /\ p # << >> /\ Len(p) = 5 /\ p[2] \in S2
<1>1. /\ p[1] \in S1 /\ p[2] \in S2 /\ p[3] \in S3 /\ p[4] \in S4 /\ p[5] \in S5
      /\ p = <<p[1], p[2], p[3], p[4], p[5]>>
  OBVIOUS
<1>2. PICK x1 \in Bytes, x2 \in Bytes, x3 \in Bytes, x4 \in Bytes,
           x5 \in Bytes :
          p = <<x1, x2, x3, x4, x5>>
  <2>1. /\ p[1] \in Bytes /\ p[2] \in Bytes /\ p[3] \in Bytes /\ p[4] \in Bytes
        /\ p[5] \in Bytes
    BY <1>1
  <2>2. QED
    BY <1>1, <2>1, Zenon
<1>3. QED
  BY <1>1, <1>2

LEMMA Septuple ==
    ASSUME NEW S1, NEW S2, NEW S3, NEW S4, NEW S5, NEW S6, NEW S7,
           S1 \subseteq Bytes, S2 \subseteq Bytes, S3 \subseteq Bytes,
           S4 \subseteq Bytes, S5 \subseteq Bytes,
           S6 \subseteq Bytes, S7 \subseteq Bytes,
           NEW p \in S1 \X S2 \X S3 \X S4 \X S5 \X S6 \X S7
    PROVE  p \in Seq(Bytes) /\ p # << >> /\ Len(p) = 7 /\ p[2] \in S2
<1>1. /\ p[1] \in S1 /\ p[2] \in S2 /\ p[3] \in S3 /\ p[4] \in S4 /\ p[5] \in S5
      /\ p[6] \in S6 /\ p[7] \in S7
      /\ p = <<p[1], p[2], p[3], p[4], p[5], p[6], p[7]>>
  OBVIOUS
<1>2. PICK x1 \in Bytes, x2 \in Bytes, x3 \in Bytes, x4 \in Bytes,
           x5 \in Bytes, x6 \in Bytes, x7 \in Bytes :
          p = <<x1, x2, x3, x4, x5, x6, x7>>
  <2>1. /\ p[1] \in Bytes /\ p[2] \in Bytes /\ p[3] \in Bytes /\ p[4] \in Bytes
        /\ p[5] \in Bytes /\ p[6] \in Bytes /\ p[7] \in Bytes
    BY <1>1
  <2>2. QED
    BY <1>1, <2>1, Zenon
<1>3. QED
  BY <1>1, <1>2

LEMMA Nonuple ==
    ASSUME NEW S1, NEW S2, NEW S3, NEW S4, NEW S5, NEW S6, NEW S7, NEW S8,
           NEW S9,
           S1 \subseteq Bytes, S2 \subseteq Bytes, S3 \subseteq Bytes,
           S4 \subseteq Bytes, S5 \subseteq Bytes,
           S6 \subseteq Bytes, S7 \subseteq Bytes,
           S8 \subseteq Bytes, S9 \subseteq Bytes,
           NEW p \in S1 \X S2 \X S3 \X S4 \X S5 \X S6 \X S7 \X S8 \X S9
    PROVE  p \in Seq(Bytes) /\ p # << >> /\ Len(p) = 9 /\ p[2] \in S2
<1>1. /\ p[1] \in S1 /\ p[2] \in S2 /\ p[3] \in S3 /\ p[4] \in S4 /\ p[5] \in S5
      /\ p[6] \in S6 /\ p[7] \in S7 /\ p[8] \in S8 /\ p[9] \in S9
      /\ p = <<p[1], p[2], p[3], p[4], p[5], p[6], p[7], p[8], p[9]>>
  OBVIOUS
<1>2. PICK x1 \in Bytes, x2 \in Bytes, x3 \in Bytes, x4 \in Bytes,
           x5 \in Bytes, x6 \in Bytes, x7 \in Bytes, x8 \in Bytes,
           x9 \in Bytes :
          p = <<x1, x2, x3, x4, x5, x6, x7, x8, x9>>
  <2>1. /\ p[1] \in Bytes /\ p[2] \in Bytes /\ p[3] \in Bytes /\ p[4] \in Bytes
        /\ p[5] \in Bytes /\ p[6] \in Bytes /\ p[7] \in Bytes /\ p[8] \in Bytes
        /\ p[9] \in Bytes
    BY <1>1
  <2>2. QED
    BY <1>1, <2>1, Zenon
<1>3. QED
  BY <1>1, <1>2

\* The functions and the numbers of parts tell the kinds apart, but for two.
IsKind(kind, name, n) ==
    \/ kind = "device pseudonym" /\ name = "sha256" /\ n = 4
    \/ kind = "ledger freshness" /\ name = "sha256" /\ n = 2
    \/ kind = "salt commitment" /\ name = "sha256" /\ n = 2
    \/ kind = "session key" /\ name = "hkdf" /\ n = 9
    \/ kind = "confirmation tag" /\ name = "hmac" /\ n = 7
    \/ kind = "session commitment" /\ name = "sha256" /\ n = 5
    \/ kind = "revocation commitment" /\ name = "sha256" /\ n = 7

IsDerivation(d) ==
    /\ d = [kind |-> d.kind, function |-> d.function, parts |-> d.parts]
    /\ d.parts \in Seq(Bytes) /\ d.parts # << >>
    /\ IsKind(d.kind, d.function[1], Len(d.parts))
    /\ d.kind = "ledger freshness" => d.parts[2] \in Epoch
    /\ d.kind = "salt commitment" => d.parts[2] \in Salts

LEMMA FunctionNames ==
    /\ \A f \in sha256 : f[1] = "sha256"
    /\ \A f \in hkdf : f[1] = "hkdf"
    /\ \A f \in hmac : f[1] = "hmac"
<1>1. /\ \A f \in sha256 : f = <<"sha256">>
      /\ \A f \in hkdf : f = <<"hkdf">>
  BY DEF sha256, hkdf
<1>2. \A f \in hmac : f[1] = "hmac"
  BY DEF hmac
<1>3. QED
  BY <1>1, <1>2

LEMMA EveryDerivation ==
    ASSUME NEW d \in AllDerivations
    PROVE  IsDerivation(d)
<1>1. CASE d \in derive_device_pseudonym
  <2>1. PICK p \in Fixed \X Fixed \X Text \X Fixed :
            d.parts = p
    BY <1>1 DEF derive_device_pseudonym, Derivation
  <2>2. p \in Seq(Bytes) /\ p # << >> /\ Len(p) = 4 /\ p[2] \in Fixed
    BY InputsAreBytes, Quadruple
  <2>3. /\ d.kind = "device pseudonym" /\ d.function \in sha256
        /\ d = [kind |-> d.kind, function |-> d.function, parts |-> d.parts]
    BY <1>1 DEF derive_device_pseudonym, Derivation
  <2>4. d.function[1] = "sha256"
    BY <2>3, FunctionNames
  <2>5. IsKind(d.kind, d.function[1], Len(d.parts))
    BY <2>1, <2>2, <2>3, <2>4 DEF IsKind
  <2>6. QED
    BY <2>1, <2>2, <2>3, <2>5 DEF IsDerivation
<1>2. CASE d \in derive_ledger_freshness
  <2>1. PICK p \in Fixed \X Epoch :
            d.parts = p
    BY <1>2 DEF derive_ledger_freshness, Derivation
  <2>2. p \in Seq(Bytes) /\ p # << >> /\ Len(p) = 2 /\ p[2] \in Epoch
    BY InputsAreBytes, Pair
  <2>3. /\ d.kind = "ledger freshness" /\ d.function \in sha256
        /\ d = [kind |-> d.kind, function |-> d.function, parts |-> d.parts]
    BY <1>2 DEF derive_ledger_freshness, Derivation
  <2>4. d.function[1] = "sha256"
    BY <2>3, FunctionNames
  <2>5. IsKind(d.kind, d.function[1], Len(d.parts))
    BY <2>1, <2>2, <2>3, <2>4 DEF IsKind
  <2>6. QED
    BY <2>1, <2>2, <2>3, <2>5 DEF IsDerivation
<1>3. CASE d \in derive_salt_commitment
  <2>1. PICK p \in Fixed \X Salts :
            d.parts = p
    BY <1>3 DEF derive_salt_commitment, Derivation
  <2>2. p \in Seq(Bytes) /\ p # << >> /\ Len(p) = 2 /\ p[2] \in Salts
    BY InputsAreBytes, Pair
  <2>3. /\ d.kind = "salt commitment" /\ d.function \in sha256
        /\ d = [kind |-> d.kind, function |-> d.function, parts |-> d.parts]
    BY <1>3 DEF derive_salt_commitment, Derivation
  <2>4. d.function[1] = "sha256"
    BY <2>3, FunctionNames
  <2>5. IsKind(d.kind, d.function[1], Len(d.parts))
    BY <2>1, <2>2, <2>3, <2>4 DEF IsKind
  <2>6. QED
    BY <2>1, <2>2, <2>3, <2>5 DEF IsDerivation
<1>4. CASE d \in derive_session_key
  <2>1. PICK p \in {DOMAIN_ROOT} \X Fixed \X Salts \X Fixed \X Fixed \X Fixed \X Text \X Text \X Fixed :
            d.parts = p
    BY <1>4 DEF derive_session_key, Derivation
  <2>2. p \in Seq(Bytes) /\ p # << >> /\ Len(p) = 9 /\ p[2] \in Fixed
    BY InputsAreBytes, Nonuple
  <2>3. /\ d.kind = "session key" /\ d.function \in hkdf
        /\ d = [kind |-> d.kind, function |-> d.function, parts |-> d.parts]
    BY <1>4 DEF derive_session_key, Derivation
  <2>4. d.function[1] = "hkdf"
    BY <2>3, FunctionNames
  <2>5. IsKind(d.kind, d.function[1], Len(d.parts))
    BY <2>1, <2>2, <2>3, <2>4 DEF IsKind
  <2>6. QED
    BY <2>1, <2>2, <2>3, <2>5 DEF IsDerivation
<1>5. CASE d \in confirmation_tag
  <2>1. PICK p \in {CONFIRMATION_INFO} \X Fixed \X Fixed \X Fixed \X Fixed \X Fixed \X Direction :
            d.parts = p
    BY <1>5 DEF confirmation_tag, Derivation
  <2>2. p \in Seq(Bytes) /\ p # << >> /\ Len(p) = 7 /\ p[2] \in Fixed
    BY InputsAreBytes, Septuple
  <2>3. /\ d.kind = "confirmation tag" /\ d.function \in hmac
        /\ d = [kind |-> d.kind, function |-> d.function, parts |-> d.parts]
    BY <1>5 DEF confirmation_tag, Derivation
  <2>4. d.function[1] = "hmac"
    BY <2>3, FunctionNames
  <2>5. IsKind(d.kind, d.function[1], Len(d.parts))
    BY <2>1, <2>2, <2>3, <2>4 DEF IsKind
  <2>6. QED
    BY <2>1, <2>2, <2>3, <2>5 DEF IsDerivation
<1>6. CASE d \in derive_session_commitment
  <2>1. PICK p \in Fixed \X Text \X Text \X Fixed \X Fixed :
            d.parts = p
    BY <1>6 DEF derive_session_commitment, Derivation
  <2>2. p \in Seq(Bytes) /\ p # << >> /\ Len(p) = 5 /\ p[2] \in Text
    BY InputsAreBytes, Quintuple
  <2>3. /\ d.kind = "session commitment" /\ d.function \in sha256
        /\ d = [kind |-> d.kind, function |-> d.function, parts |-> d.parts]
    BY <1>6 DEF derive_session_commitment, Derivation
  <2>4. d.function[1] = "sha256"
    BY <2>3, FunctionNames
  <2>5. IsKind(d.kind, d.function[1], Len(d.parts))
    BY <2>1, <2>2, <2>3, <2>4 DEF IsKind
  <2>6. QED
    BY <2>1, <2>2, <2>3, <2>5 DEF IsDerivation
<1>7. CASE d \in derive_revocation_commitment
  <2>1. PICK p \in {REVOCATION_TAG} \X Fixed \X Fixed \X Text \X Fixed \X Reason \X Text :
            d.parts = p
    BY <1>7 DEF derive_revocation_commitment, Derivation
  <2>2. p \in Seq(Bytes) /\ p # << >> /\ Len(p) = 7 /\ p[2] \in Fixed
    BY InputsAreBytes, Septuple
  <2>3. /\ d.kind = "revocation commitment" /\ d.function \in sha256
        /\ d = [kind |-> d.kind, function |-> d.function, parts |-> d.parts]
    BY <1>7 DEF derive_revocation_commitment, Derivation
  <2>4. d.function[1] = "sha256"
    BY <2>3, FunctionNames
  <2>5. IsKind(d.kind, d.function[1], Len(d.parts))
    BY <2>1, <2>2, <2>3, <2>4 DEF IsKind
  <2>6. QED
    BY <2>1, <2>2, <2>3, <2>5 DEF IsDerivation
<1>8. QED
  BY <1>1, <1>2, <1>3, <1>4, <1>5, <1>6, <1>7 DEF AllDerivations

LEMMA KindsDiffer ==
    ASSUME NEW j, NEW k, NEW f, NEW n, IsKind(j, f, n), IsKind(k, f, n)
    PROVE  \/ j = k
           \/ j = "ledger freshness" /\ k = "salt commitment"
           \/ k = "ledger freshness" /\ j = "salt commitment"
<1>1. 2 # 4 /\ 2 # 5 /\ 2 # 7 /\ 4 # 5 /\ 4 # 7 /\ 5 # 7
  OBVIOUS
<1>2. QED
  BY <1>1, Zenon DEF IsKind

LEMMA ValuesDiffer ==
    ASSUME NEW d, NEW e, IsDerivation(d), IsDerivation(e), Value(d) = Value(e)
    PROVE  d = e
<1>1. d.function = e.function /\ frame(d.parts) = frame(e.parts)
  BY DEF Value
<1>2. d.parts = e.parts
  BY <1>1, FrameInjective DEF IsDerivation
<1>3. d.kind = e.kind
  <2>1. /\ IsKind(d.kind, d.function[1], Len(d.parts))
        /\ IsKind(e.kind, d.function[1], Len(d.parts))
    BY <1>1, <1>2, Zenon DEF IsDerivation
  <2>2. ~(d.parts[2] \in Epoch /\ d.parts[2] \in Salts)
    BY EpochAssumption
  <2>3. ~(d.kind = "ledger freshness" /\ e.kind = "salt commitment")
    BY <1>2, <2>2, Zenon DEF IsDerivation
  <2>4. ~(e.kind = "ledger freshness" /\ d.kind = "salt commitment")
    BY <1>2, <2>2, Zenon DEF IsDerivation
  <2>5. QED
    BY <2>1, <2>3, <2>4, KindsDiffer, Zenon
<1>4. QED
  BY <1>1, <1>2, <1>3, Zenon DEF IsDerivation

\* No two derivations compute the same value, whatever byte strings the inputs
\* are: the length before each part fixes where it ends, and the kinds with the
\* same function differ in the number of parts or in the second of two.
THEOREM DerivedValuesBindInputs == Spec => []ValuesBindInputs
<1> DEFINE Inv == \A d \in derived : IsDerivation(d)
<1>1. Init => Inv
  BY DEF Init
<1>2. Inv /\ [Next]_derived => Inv'
  <2>1. SUFFICES ASSUME Inv, [Next]_derived
                 PROVE  Inv'
    OBVIOUS
  <2>2. CASE UNCHANGED derived
    BY <2>1, <2>2
  <2>3. ASSUME NEW d \in AllDerivations, Derive(d)
        PROVE  Inv'
    BY <2>1, <2>3, EveryDerivation DEF Derive
  <2>4. QED
    BY <2>1, <2>2, <2>3 DEF Next
<1>3. Inv => ValuesBindInputs
  BY ValuesDiffer DEF ValuesBindInputs
<1>4. QED
  BY <1>1, <1>2, <1>3, PTL DEF Spec
=============================================================================
