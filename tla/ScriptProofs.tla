---------------------------- MODULE ScriptProofs ----------------------------
(***************************************************************************)
(* Theorems about Script for every set of variables and of commands, every *)
(* bound, and every program made of bodies that KeptPrograms allows, which *)
(* are not all programs: what is left of the script is the code of what    *)
(* Semantics has left to do, so the script does what the program means.    *)
(*                                                                         *)
(* The invariant says this of the state before each line.  Either the      *)
(* script is the code of items that are placed (each of them may stand     *)
(* behind the loops that are underway there), or a command has just run    *)
(* and the line that needs its result comes next: the code before a        *)
(* statement is a step of its own, and Semantics takes its step with it.   *)
(* A loop that is left is found by counting the loops behind it, so the    *)
(* proof of break and continue is that both sides count the same.          *)
(***************************************************************************)
EXTENDS Script, SequenceTheorems, FiniteSetTheorems, WellFoundedInduction, TLAPS

CONSTANT
  Body         \* the bodies a program is made of, by the number of loops around

-----------------------------------------------------------------------------
\* Induction over the numbers: a set that has 0, and n + 1 with n, has them all.
LEMMA AllNumbers ==
  ASSUME NEW P, 0 \in P, \A n \in Nat : n \in P => n + 1 \in P
  PROVE  \A n \in Nat : n \in P
<1> DEFINE T == Nat \ P
<1> SUFFICES ASSUME NEW n \in T PROVE FALSE
  OBVIOUS
<1>1. IsWellFoundedOn(OpToRel(<, Nat), Nat)
  BY NatLessThanWellFounded
<1>2. \A k, j \in Nat : <<k, j>> \in OpToRel(<, Nat) <=> k < j
  BY DEF OpToRel
<1> DEFINE R == OpToRel(<, Nat)
<1> HIDE DEF R
<1>3. PICK m \in T : \A y \in T : ~ (<<y, m>> \in R)
  <2>1. T \subseteq Nat /\ T # {}
    OBVIOUS
  <2>2. QED
    BY <1>1, <2>1, WFMin DEF R
<1>4. m \in Nat /\ m # 0 /\ m - 1 \in Nat /\ m - 1 < m
  OBVIOUS
<1>5. m - 1 \notin T
  BY <1>2, <1>3, <1>4 DEF R
<1>6. m \in P
  <2>1. m - 1 \in P
    BY <1>4, <1>5
  <2>2. m - 1 + 1 = m
    BY <1>4
  <2>3. QED
    BY <1>4, <2>1, <2>2
<1>7. QED
  BY <1>6

-----------------------------------------------------------------------------
\* The function the library's FlattenSeq is the last value of.
Flattening(ss) ==
  LET flatten[i \in 1 .. Len(ss)] == IF i = 1 THEN ss[i] ELSE flatten[i - 1] \o ss[i]
  IN flatten

\* The recursive function behind FlattenSeq, unfolded once.
LEMMA FlatteningIs ==
  ASSUME NEW S, NEW ss \in Seq(Seq(S))
  PROVE  /\ DOMAIN Flattening(ss) = 1 .. Len(ss)
         /\ \A i \in 1 .. Len(ss) :
              Flattening(ss)[i] = IF i = 1 THEN ss[i] ELSE Flattening(ss)[i - 1] \o ss[i]
<1> DEFINE IsFlat(f, n) ==
             f = [i \in 1 .. n |-> IF i = 1 THEN ss[i] ELSE f[i - 1] \o ss[i]]
<1> DEFINE P == {n \in Nat : \E f : IsFlat(f, n)}
<1>1. 0 \in P
  <2>1. IsFlat([i \in 1 .. 0 |-> <<>>], 0)
    OBVIOUS
  <2>2. QED
    BY <2>1
<1>2. ASSUME NEW n \in Nat, n \in P PROVE n + 1 \in P
  <2>1. PICK f : IsFlat(f, n)
    BY <1>2
  <2> DEFINE g == [i \in 1 .. n + 1 |->
                     IF i = n + 1 THEN (IF i = 1 THEN ss[i] ELSE f[n] \o ss[i]) ELSE f[i]]
  <2>2. ASSUME NEW i \in 1 .. n + 1
        PROVE  g[i] = IF i = 1 THEN ss[i] ELSE g[i - 1] \o ss[i]
    <3>1. CASE i = n + 1
      BY <3>1
    <3>2. CASE i # n + 1
      <4>1. i \in 1 .. n /\ i # n + 1
        BY <3>2
      <4>2. g[i] = f[i]
        BY <4>1
      <4>3. f[i] = IF i = 1 THEN ss[i] ELSE f[i - 1] \o ss[i]
        BY <2>1, <4>1
      <4>4. i # 1 => i - 1 \in 1 .. n + 1 /\ i - 1 # n + 1
        BY <4>1
      <4>5. i # 1 => g[i - 1] = f[i - 1]
        BY <4>4
      <4>6. QED
        BY <4>2, <4>3, <4>5
    <3>3. QED
      BY <3>1, <3>2
  <2>3. g = [i \in 1 .. n + 1 |-> g[i]]
    OBVIOUS
  <2>4. IsFlat(g, n + 1)
    <3> HIDE DEF g
    <3>1. QED
      BY <2>2, <2>3
  <2>5. \E h : IsFlat(h, n + 1)
    <3> HIDE DEF g
    <3> HIDE DEF IsFlat
    <3>1. QED
      BY <2>4
  <2>6. QED
    <3> HIDE DEF IsFlat
    <3>1. QED
      BY <2>5
<1>3. Len(ss) \in Nat
  BY LenProperties
<1>4. Len(ss) \in P
  <2> HIDE DEF P
  <2>1. QED
    BY <1>1, <1>2, <1>3, AllNumbers
<1>5. PICK f : IsFlat(f, Len(ss))
  BY <1>4
<1>6. IsFlat(Flattening(ss), Len(ss))
  BY <1>5 DEF Flattening
<1>7. QED
  <2> DEFINE h == Flattening(ss)
  <2>1. IsFlat(h, Len(ss))
    BY <1>6
  <2> HIDE DEF h
  <2>2. DOMAIN h = 1 .. Len(ss) /\ \A i \in 1 .. Len(ss) : h[i] = IF i = 1 THEN ss[i] ELSE h[i - 1] \o ss[i]
    BY <2>1
  <2>3. QED
    BY <2>2 DEF h

\* Of no sequences, and of one more.
LEMMA FlattenNone == FlattenSeq(<<>>) = <<>>
BY DEF FlattenSeq

\* FlattenSeq is the last value of that function.
LEMMA FlattenIs ==
  ASSUME NEW S, NEW ss \in Seq(Seq(S)), Len(ss) # 0
  PROVE  FlattenSeq(ss) = Flattening(ss)[Len(ss)]
BY DEF FlattenSeq, Flattening

\* A sequence appended to the others comes last when they are flattened.
LEMMA FlattenAppend ==
  ASSUME NEW S, NEW ss \in Seq(Seq(S)), NEW t \in Seq(S)
  PROVE  FlattenSeq(Append(ss, t)) = FlattenSeq(ss) \o t
<1> DEFINE n == Len(ss)
           tt == Append(ss, t)
           f == Flattening(ss)
           g == Flattening(tt)
<1>1. /\ n \in Nat /\ tt \in Seq(Seq(S)) /\ Len(tt) = n + 1 /\ tt[n + 1] = t
      /\ \A i \in 1 .. n : tt[i] = ss[i]
  BY LenProperties, AppendProperties
<1>2. \A i \in 1 .. n : f[i] = IF i = 1 THEN ss[i] ELSE f[i - 1] \o ss[i]
  BY FlatteningIs
<1>3. \A i \in 1 .. n + 1 : g[i] = IF i = 1 THEN tt[i] ELSE g[i - 1] \o tt[i]
  BY <1>1, FlatteningIs
<1>4. FlattenSeq(tt) = g[n + 1]
  <2>1. Len(tt) # 0
    BY <1>1
  <2>2. QED
    BY <1>1, <2>1, FlattenIs
<1>5. CASE n = 0
  <2>1. ss = <<>>
    BY <1>5, EmptySeq
  <2>2. FlattenSeq(ss) = <<>>
    BY <2>1, FlattenNone
  <2>3. g[1] = t
    BY <1>1, <1>3, <1>5
  <2>4. <<>> \o t = t
    BY ConcatEmptySeq
  <2>5. QED
    BY <1>4, <1>5, <2>2, <2>3, <2>4
<1>6. CASE n # 0
  <2>1. FlattenSeq(ss) = f[n]
    BY <1>6, FlattenIs
  <2> DEFINE P == {i \in Nat : i \in 1 .. n => g[i] = f[i]}
  <2>2. \A i \in Nat : i \in P
    <3>1. 0 \in P
      OBVIOUS
    <3>2. ASSUME NEW i \in Nat, i \in P PROVE i + 1 \in P
      <4> HIDE DEF f, g, tt
      <4>1. SUFFICES ASSUME i + 1 \in 1 .. n PROVE g[i + 1] = f[i + 1]
        OBVIOUS
      <4>2. i + 1 \in 1 .. n + 1 /\ i + 1 - 1 = i /\ (i + 1 = 1 <=> i = 0) /\ (i # 0 => i \in 1 .. n)
        BY <1>1, <4>1
      <4>3. g[i + 1] = IF i = 0 THEN tt[i + 1] ELSE g[i] \o tt[i + 1]
        BY <1>3, <4>2
      <4>4. f[i + 1] = IF i = 0 THEN ss[i + 1] ELSE f[i] \o ss[i + 1]
        BY <1>2, <4>1, <4>2
      <4>5. tt[i + 1] = ss[i + 1]
        BY <1>1, <4>1
      <4>6. QED
        BY <3>2, <4>2, <4>3, <4>4, <4>5
    <3> HIDE DEF P
    <3>3. QED
      BY <3>1, <3>2, AllNumbers
  <2>3. g[n] = f[n]
    BY <1>1, <1>6, <2>2
  <2>4. g[n + 1] = g[n] \o t
    <3>1. PICK m \in 1 .. n + 1 : m = n + 1 /\ m # 1 /\ m - 1 = n
      BY <1>1, <1>6
    <3> HIDE DEF g, f, tt, n
    <3>2. g[m] = g[m - 1] \o tt[m]
      BY <1>3, <3>1
    <3>3. QED
      BY <1>1, <3>1, <3>2
  <2>5. QED
    BY <1>4, <2>1, <2>3, <2>4
<1>7. QED
  BY <1>5, <1>6

\* What flattening gives, and of a sequence of sequences after another.
LEMMA FlattenType ==
  ASSUME NEW S, NEW ss \in Seq(Seq(S))
  PROVE  FlattenSeq(ss) \in Seq(S)
<1> DEFINE P == {n \in Nat : \A tt \in Seq(Seq(S)) : Len(tt) = n => FlattenSeq(tt) \in Seq(S)}
<1>1. 0 \in P
  <2>1. \A tt \in Seq(Seq(S)) : Len(tt) = 0 => tt = <<>>
    BY EmptySeq
  <2>2. <<>> \in Seq(S)
    OBVIOUS
  <2>3. QED
    BY <2>1, <2>2, FlattenNone
<1>2. ASSUME NEW n \in Nat, n \in P PROVE n + 1 \in P
  <2>1. SUFFICES ASSUME NEW tt \in Seq(Seq(S)), Len(tt) = n + 1
                 PROVE  FlattenSeq(tt) \in Seq(S)
    OBVIOUS
  <2>2. tt # <<>>
    BY <2>1
  <2>3. PICK vv \in Seq(Seq(S)), t \in Seq(S) : tt = Append(vv, t)
    BY <2>2, SequenceEmptyOrAppend
  <2>4. Len(vv) = n
    BY <2>1, <2>3, AppendProperties, LenProperties
  <2>5. FlattenSeq(tt) = FlattenSeq(vv) \o t
    BY <2>3, FlattenAppend
  <2>6. QED
    BY <1>2, <2>3, <2>4, <2>5, ConcatProperties
<1>3. Len(ss) \in P
  <2> HIDE DEF P
  <2>1. QED
    BY <1>1, <1>2, AllNumbers, LenProperties
<1>4. QED
  BY <1>3

\* Appending to the second of two sequences appends to both of them.
LEMMA ConcatAppend ==
  ASSUME NEW T, NEW a \in Seq(T), NEW b \in Seq(T), NEW t \in T
  PROVE  a \o Append(b, t) = Append(a \o b, t) /\ a \o b \in Seq(T)
<1>1. PICK m \in Seq(T) : m = <<t>>
  <2>1. <<t>> \in Seq(T)
    OBVIOUS
  <2>2. QED
    BY <2>1
<1>2. (a \o b) \o m = a \o (b \o m)
  BY ConcatAssociative
<1>3. a \o b \in Seq(T)
  BY ConcatProperties
<1>4. Append(a \o b, t) = (a \o b) \o <<t>> /\ Append(b, t) = b \o <<t>>
  BY <1>3, AppendIsConcat
<1>5. QED
  BY <1>1, <1>2, <1>3, <1>4

\* Flattening goes through a concatenation.
LEMMA FlattenConcat ==
  ASSUME NEW S, NEW ss \in Seq(Seq(S)), NEW tt \in Seq(Seq(S))
  PROVE  FlattenSeq(ss \o tt) = FlattenSeq(ss) \o FlattenSeq(tt)
<1> DEFINE P == {n \in Nat : \A uu \in Seq(Seq(S)) :
                   Len(uu) = n => FlattenSeq(ss \o uu) = FlattenSeq(ss) \o FlattenSeq(uu)}
<1>0. FlattenSeq(ss) \in Seq(S)
  BY FlattenType
<1>1. 0 \in P
  <2>1. \A uu \in Seq(Seq(S)) : Len(uu) = 0 => uu = <<>>
    BY EmptySeq
  <2>2. ss \o <<>> = ss /\ FlattenSeq(ss) \o <<>> = FlattenSeq(ss)
    BY <1>0, ConcatEmptySeq
  <2>3. QED
    BY <2>1, <2>2, FlattenNone
<1>2. ASSUME NEW n \in Nat, n \in P PROVE n + 1 \in P
  <2>1. SUFFICES ASSUME NEW uu \in Seq(Seq(S)), Len(uu) = n + 1
                 PROVE  FlattenSeq(ss \o uu) = FlattenSeq(ss) \o FlattenSeq(uu)
    OBVIOUS
  <2>2. PICK vv \in Seq(Seq(S)), t \in Seq(S) : uu = Append(vv, t)
    <3>1. uu # <<>>
      BY <2>1
    <3>2. QED
      BY <3>1, SequenceEmptyOrAppend
  <2>3. vv \in Seq(Seq(S)) /\ Len(vv) = n /\ t \in Seq(S) /\ uu = Append(vv, t)
    BY <2>1, <2>2, AppendProperties, LenProperties
  <2>4. FlattenSeq(uu) = FlattenSeq(vv) \o t
    BY <2>3, FlattenAppend
  <2>5. ss \o uu = Append(ss \o vv, t) /\ ss \o vv \in Seq(Seq(S))
    <3>1. PICK T : T = Seq(S)
      OBVIOUS
    <3>2. ss \in Seq(T) /\ vv \in Seq(T) /\ t \in T
      BY <3>1
    <3>3. ss \o Append(vv, t) = Append(ss \o vv, t) /\ ss \o vv \in Seq(T)
      BY <3>2, ConcatAppend
    <3>4. QED
      BY <2>3, <3>1, <3>3
  <2>6. FlattenSeq(ss \o uu) = FlattenSeq(ss \o vv) \o t
    BY <2>3, <2>5, FlattenAppend
  <2>7. FlattenSeq(ss \o vv) = FlattenSeq(ss) \o FlattenSeq(vv)
    BY <1>2, <2>3
  <2>8. FlattenSeq(vv) \in Seq(S)
    BY <2>3, FlattenType
  <2>9. (FlattenSeq(ss) \o FlattenSeq(vv)) \o t = FlattenSeq(ss) \o (FlattenSeq(vv) \o t)
    <3> DEFINE a == FlattenSeq(ss)
               b == FlattenSeq(vv)
    <3>1. a \in Seq(S) /\ b \in Seq(S)
      BY <1>0, <2>8
    <3> HIDE DEF a, b, P
    <3>2. (a \o b) \o t = a \o (b \o t)
      <4>1. t \in Seq(S)
        OBVIOUS
      <4>2. QED
        BY <3>1, <4>1, ConcatAssociative, SMTT(30)
    <3>3. QED
      BY <3>2 DEF a, b
  <2>10. QED
    BY <2>4, <2>6, <2>7, <2>9
<1>3. Len(tt) \in P
  <2> HIDE DEF P
  <2>1. QED
    BY <1>1, <1>2, AllNumbers, LenProperties
<1>4. QED
  BY <1>3

\* One sequence flattens to itself.
LEMMA FlattenOne ==
  ASSUME NEW S, NEW t \in Seq(S)
  PROVE  FlattenSeq(<<t>>) = t
<1>1. Append(<<>>, t) = <<t>> /\ <<>> \in Seq(Seq(S))
  OBVIOUS
<1>2. FlattenSeq(<<t>>) = FlattenSeq(<<>>) \o t
  BY <1>1, FlattenAppend
<1>3. QED
  BY <1>2, FlattenNone, ConcatEmptySeq

-----------------------------------------------------------------------------
(***************************************************************************)
(* A sequence with one element in front of it, and mapping.                *)
(***************************************************************************)
LEMMA Single == \A S : \A s \in S : <<s>> \in Seq(S)
OBVIOUS

\* What Cons makes.
LEMMA Fronted ==
  ASSUME NEW S, NEW s \in S, NEW r \in Seq(S)
  PROVE  /\ Cons(s, r) \in Seq(S) /\ Cons(s, r) # <<>> /\ (Cons(s, r))[1] = s
         /\ Len(Cons(s, r)) = Len(r) + 1 /\ Tail(Cons(s, r)) = r
         /\ <<s>> \in Seq(S) /\ Len(<<s>>) = 1
<1>1. <<s>> \in Seq(S) /\ Len(<<s>>) = 1 /\ <<s>>[1] = s
  OBVIOUS
<1> DEFINE t == Cons(s, r)
<1>2. /\ t \in Seq(S) /\ Len(t) = Len(r) + 1 /\ Len(r) \in Nat
      /\ \A i \in 1 .. 1 + Len(r) : t[i] = IF i <= 1 THEN <<s>>[i] ELSE r[i - 1]
  BY <1>1, ConcatProperties, LenProperties DEF Cons
<1> HIDE DEF t
<1>3. t[1] = s
  BY <1>1, <1>2
<1>4. t # <<>>
  BY <1>2
<1>5. /\ Tail(t) \in Seq(S) /\ Len(Tail(t)) = Len(r)
      /\ \A i \in 1 .. Len(Tail(t)) : Tail(t)[i] = t[i + 1]
  BY <1>2, <1>4, HeadTailProperties
<1>6. ASSUME NEW i \in 1 .. Len(r) PROVE Tail(t)[i] = r[i]
  <2>1. i + 1 \in 1 .. 1 + Len(r) /\ ~ (i + 1 <= 1) /\ i + 1 - 1 = i
    BY <1>2
  <2>2. QED
    BY <1>2, <1>5, <2>1
<1>7. Tail(t) = r
  BY <1>5, <1>6, SeqEqual
<1>8. QED
  BY <1>1, <1>2, <1>3, <1>4, <1>7 DEF t

\* A sequence that is not empty is its first and the others.
LEMMA Unfronted ==
  ASSUME NEW S, NEW t \in Seq(S), t # <<>>
  PROVE  /\ t[1] \in S /\ Tail(t) \in Seq(S) /\ t = Cons(t[1], Tail(t))
         /\ Len(Tail(t)) = Len(t) - 1 /\ Len(t) \in Nat /\ Len(t) # 0
<1>1. Len(t) \in Nat /\ Len(t) # 0 /\ 1 \in 1 .. Len(t)
  BY EmptySeq
<1>2. t[1] \in S
  BY <1>1, ElementOfSeq
<1>3. /\ Tail(t) \in Seq(S) /\ Len(Tail(t)) = Len(t) - 1
      /\ \A i \in 1 .. Len(Tail(t)) : Tail(t)[i] = t[i + 1]
  BY HeadTailProperties
<1> DEFINE u == Cons(t[1], Tail(t))
<1>4. <<t[1]>> \in Seq(S) /\ Len(<<t[1]>>) = 1 /\ <<t[1]>>[1] = t[1]
  BY <1>2
<1>5. /\ u \in Seq(S) /\ Len(u) = Len(t)
      /\ \A i \in 1 .. Len(t) : u[i] = IF i <= 1 THEN <<t[1]>>[i] ELSE Tail(t)[i - 1]
  BY <1>1, <1>3, <1>4, ConcatProperties DEF Cons
<1> HIDE DEF u
<1>6. ASSUME NEW i \in 1 .. Len(t) PROVE t[i] = u[i]
  <2>1. CASE i = 1
    BY <1>4, <1>5, <2>1
  <2>2. CASE i # 1
    <3>1. i - 1 \in 1 .. Len(Tail(t)) /\ ~ (i <= 1) /\ i - 1 + 1 = i
      BY <1>1, <1>3, <2>2
    <3>2. QED
      BY <1>3, <1>5, <3>1
  <2>3. QED
    BY <2>1, <2>2
<1>7. t = u
  BY <1>5, <1>6, SeqEqual
<1>8. QED
  BY <1>1, <1>2, <1>3, <1>7 DEF u

\* Each element is replaced by a sequence, and these are joined.
Mapping(f, t) == [i \in DOMAIN t |-> f[t[i]]]
Joined(f, t) == FlattenSeq(Mapping(f, t))

MapsInto(f, S, T) == f \in [S -> T]

\* The sequence of the values of f.
LEMMA Mapped ==
  ASSUME NEW S, NEW T, NEW f, MapsInto(f, S, T), NEW t \in Seq(S)
  PROVE  /\ Mapping(f, t) \in Seq(T) /\ Len(Mapping(f, t)) = Len(t)
         /\ \A i \in 1 .. Len(t) : Mapping(f, t)[i] = f[t[i]]
<1>1. Len(t) \in Nat /\ DOMAIN t = 1 .. Len(t) /\ \A i \in 1 .. Len(t) : t[i] \in S
  BY LenProperties
<1>2. \A i \in 1 .. Len(t) : f[t[i]] \in T
  BY <1>1 DEF MapsInto
<1>3. Mapping(f, t) \in [1 .. Len(t) -> T] /\ \A i \in 1 .. Len(t) : Mapping(f, t)[i] = f[t[i]]
  BY <1>1, <1>2 DEF Mapping
<1>4. QED
  BY <1>1, <1>3

\* Mapping goes through a concatenation.
LEMMA MappedConcat ==
  ASSUME NEW S, NEW T, NEW f, MapsInto(f, S, T), NEW p \in Seq(S), NEW q \in Seq(S)
  PROVE  Mapping(f, p \o q) = Mapping(f, p) \o Mapping(f, q)
<1>0. PICK pq, fp, fq, fpq, g :
        /\ pq = p \o q /\ fp = Mapping(f, p) /\ fq = Mapping(f, q)
        /\ fpq = Mapping(f, pq) /\ g = fp \o fq
  OBVIOUS
<1>1. /\ pq \in Seq(S) /\ Len(pq) = Len(p) + Len(q)
      /\ \A i \in 1 .. Len(p) + Len(q) : pq[i] = IF i <= Len(p) THEN p[i] ELSE q[i - Len(p)]
  BY <1>0, ConcatProperties
<1>2. Len(p) \in Nat /\ Len(q) \in Nat
  BY LenProperties
<1>3. fp \in Seq(T) /\ Len(fp) = Len(p) /\ \A i \in 1 .. Len(p) : fp[i] = f[p[i]]
  <2>1. /\ Mapping(f, p) \in Seq(T) /\ Len(Mapping(f, p)) = Len(p)
        /\ \A i \in 1 .. Len(p) : Mapping(f, p)[i] = f[p[i]]
    BY Mapped
  <2>2. QED
    BY <1>0, <2>1
<1>4. fq \in Seq(T) /\ Len(fq) = Len(q) /\ \A i \in 1 .. Len(q) : fq[i] = f[q[i]]
  <2>1. /\ Mapping(f, q) \in Seq(T) /\ Len(Mapping(f, q)) = Len(q)
        /\ \A i \in 1 .. Len(q) : Mapping(f, q)[i] = f[q[i]]
    BY Mapped
  <2>2. QED
    BY <1>0, <2>1
<1>5. fpq \in Seq(T) /\ Len(fpq) = Len(pq) /\ \A i \in 1 .. Len(pq) : fpq[i] = f[pq[i]]
  <2>1. /\ Mapping(f, pq) \in Seq(T) /\ Len(Mapping(f, pq)) = Len(pq)
        /\ \A i \in 1 .. Len(pq) : Mapping(f, pq)[i] = f[pq[i]]
    <3>1. pq \in Seq(S)
      BY <1>1
    <3>2. QED
      BY <3>1, Mapped
  <2>2. QED
    BY <1>0, <2>1
<1>6. /\ g \in Seq(T) /\ Len(g) = Len(fp) + Len(fq)
      /\ \A i \in 1 .. Len(fp) + Len(fq) : g[i] = IF i <= Len(fp) THEN fp[i] ELSE fq[i - Len(fp)]
  <2>1. /\ fp \o fq \in Seq(T) /\ Len(fp \o fq) = Len(fp) + Len(fq)
        /\ \A i \in 1 .. Len(fp) + Len(fq) :
             (fp \o fq)[i] = IF i <= Len(fp) THEN fp[i] ELSE fq[i - Len(fp)]
    <3>1. fp \in Seq(T) /\ fq \in Seq(T)
      BY <1>3, <1>4
    <3>2. QED
      BY <3>1, ConcatProperties
  <2>2. QED
    BY <1>0, <2>1
<1>7. ASSUME NEW i \in 1 .. Len(fpq) PROVE fpq[i] = g[i]
  <2>0. i \in 1 .. Len(p) + Len(q)
    BY <1>1, <1>5
  <2>1. CASE i <= Len(p)
    <3>1. i \in 1 .. Len(p)
      BY <1>2, <2>0, <2>1
    <3>2. pq[i] = p[i] /\ g[i] = fp[i]
      BY <1>1, <1>3, <1>4, <1>6, <2>0, <2>1
    <3>3. QED
      BY <1>1, <1>3, <1>5, <2>0, <3>1, <3>2
  <2>2. CASE ~ (i <= Len(p))
    <3>1. i - Len(p) \in 1 .. Len(q)
      BY <1>2, <2>0, <2>2
    <3>2. pq[i] = q[i - Len(p)] /\ g[i] = fq[i - Len(p)]
      BY <1>1, <1>3, <1>4, <1>6, <2>0, <2>2
    <3>3. QED
      BY <1>1, <1>4, <1>5, <2>0, <3>1, <3>2
  <2>3. QED
    BY <2>1, <2>2
<1>8. Len(fpq) = Len(g)
  BY <1>1, <1>3, <1>4, <1>5, <1>6
<1>9. fpq = g
  BY <1>5, <1>6, <1>7, <1>8, SeqEqual
<1>10. QED
  BY <1>0, <1>9

\* So does joining what every element is mapped to.
LEMMA JoinedConcat ==
  ASSUME NEW S, NEW T, NEW f, MapsInto(f, S, Seq(T)), NEW p \in Seq(S), NEW q \in Seq(S)
  PROVE  Joined(f, p \o q) = Joined(f, p) \o Joined(f, q)
<1>1. Mapping(f, p) \in Seq(Seq(T)) /\ Mapping(f, q) \in Seq(Seq(T))
  BY Mapped
<1>2. Mapping(f, p \o q) = Mapping(f, p) \o Mapping(f, q)
  BY MappedConcat
<1>3. FlattenSeq(Mapping(f, p) \o Mapping(f, q))
        = FlattenSeq(Mapping(f, p)) \o FlattenSeq(Mapping(f, q))
  BY <1>1, FlattenConcat
<1>4. QED
  BY <1>2, <1>3 DEF Joined

\* What is joined is a sequence again.
LEMMA JoinedType ==
  ASSUME NEW S, NEW T, NEW f, MapsInto(f, S, Seq(T)), NEW t \in Seq(S)
  PROVE  Joined(f, t) \in Seq(T)
<1>1. Mapping(f, t) \in Seq(Seq(T))
  BY Mapped
<1>2. QED
  BY <1>1, FlattenType DEF Joined

\* Nothing joins to nothing.
LEMMA JoinedNone == \A f : Joined(f, <<>>) = <<>>
<1>1. ASSUME NEW f PROVE Mapping(f, <<>>) = <<>>
  BY DEF Mapping
<1>2. QED
  BY <1>1, FlattenNone DEF Joined

\* The first element comes first.
LEMMA JoinedFronted ==
  ASSUME NEW S, NEW T, NEW f, MapsInto(f, S, Seq(T)), NEW s \in S, NEW r \in Seq(S)
  PROVE  Joined(f, Cons(s, r)) = f[s] \o Joined(f, r)
<1>1. <<s>> \in Seq(S) /\ f[s] \in Seq(T)
  BY DEF MapsInto
<1>2. PICK p \in Seq(S) : p = <<s>>
  BY <1>1
<1>3. Joined(f, p \o r) = Joined(f, p) \o Joined(f, r)
  BY JoinedConcat
<1>4. Mapping(f, <<s>>) = <<f[s]>>
  BY DEF Mapping
<1>5. Joined(f, <<s>>) = f[s]
  BY <1>1, <1>4, FlattenOne DEF Joined
<1>6. QED
  BY <1>2, <1>3, <1>5 DEF Cons


-----------------------------------------------------------------------------
(***************************************************************************)
(* The loops under way, in what is to be done as in the script.            *)
(***************************************************************************)
Going(s) == s[1] \in {"next", "again", "left"}

\* How many there are up to an element, and in all.
GoingUpTo(t, i) == {j \in 1 .. i : Going(t[j])}
Count(t, i) == Cardinality(GoingUpTo(t, i))
Total(t) == Count(t, Len(t))

\* The loops among the first elements, counted from the front.
LEMMA CountFrom ==
  \A t : /\ Count(t, 0) = 0
         /\ \A i \in Nat :
              /\ Count(t, i) \in Nat
              /\ Count(t, i + 1) = IF Going(t[i + 1]) THEN Count(t, i) + 1 ELSE Count(t, i)
<1> SUFFICES ASSUME NEW t
             PROVE  /\ Count(t, 0) = 0
                    /\ \A i \in Nat :
                         /\ Count(t, i) \in Nat
                         /\ Count(t, i + 1) =
                              IF Going(t[i + 1]) THEN Count(t, i) + 1 ELSE Count(t, i)
  OBVIOUS
<1>1. GoingUpTo(t, 0) = {}
  BY DEF GoingUpTo
<1>2. ASSUME NEW i \in Nat
      PROVE  /\ Count(t, i) \in Nat
             /\ Count(t, i + 1) = IF Going(t[i + 1]) THEN Count(t, i) + 1 ELSE Count(t, i)
  <2>1. IsFiniteSet(1 .. i)
    BY FS_Interval
  <2>2. GoingUpTo(t, i) \subseteq 1 .. i
    BY DEF GoingUpTo
  <2>3. IsFiniteSet(GoingUpTo(t, i))
    BY <2>1, <2>2, FS_Subset
  <2>4. i + 1 \notin GoingUpTo(t, i)
    BY <2>2
  <2>5. GoingUpTo(t, i + 1) =
          IF Going(t[i + 1]) THEN GoingUpTo(t, i) \cup {i + 1} ELSE GoingUpTo(t, i)
    <3>1. 1 .. i + 1 = (1 .. i) \cup {i + 1}
      OBVIOUS
    <3>2. QED
      BY <3>1 DEF GoingUpTo
  <2>6. Cardinality(GoingUpTo(t, i)) \in Nat
    BY <2>3, FS_CardinalityType
  <2>7. Cardinality(GoingUpTo(t, i) \cup {i + 1}) = Cardinality(GoingUpTo(t, i)) + 1
    BY <2>3, <2>4, FS_AddElement
  <2>8. QED
    BY <2>5, <2>6, <2>7 DEF Count
<1>3. Count(t, 0) = 0
  BY <1>1, FS_EmptySet DEF Count
<1>4. QED
  BY <1>2, <1>3

\* The count never falls, and rises at every loop.
LEMMA CountRises ==
  ASSUME NEW t, NEW i \in Nat, NEW k \in Nat, i <= k
  PROVE  Count(t, i) <= Count(t, k) /\ (i < k /\ Going(t[k]) => Count(t, i) < Count(t, k))
<1> DEFINE P == {d \in Nat : /\ Count(t, i) <= Count(t, i + d)
                             /\ d > 0 /\ Going(t[i + d]) => Count(t, i) < Count(t, i + d)}
<1>1. 0 \in P
  <2>1. Count(t, i) \in Nat /\ i + 0 = i
    BY CountFrom
  <2>2. QED
    BY <2>1
<1>2. ASSUME NEW d \in Nat, d \in P PROVE d + 1 \in P
  <2>1. i + d \in Nat /\ i + d + 1 = i + (d + 1)
    OBVIOUS
  <2>2. PICK m \in Nat : m = i + d
    BY <2>1
  <2>3. /\ Count(t, i) \in Nat /\ Count(t, m) \in Nat
        /\ Count(t, m + 1) = IF Going(t[m + 1]) THEN Count(t, m) + 1 ELSE Count(t, m)
    BY CountFrom
  <2>4. Count(t, i) <= Count(t, m) /\ m + 1 = i + (d + 1)
    BY <1>2, <2>1, <2>2
  <2>5. /\ Count(t, i) <= Count(t, m + 1)
        /\ Going(t[m + 1]) => Count(t, i) < Count(t, m + 1)
    BY <2>3, <2>4
  <2>6. QED
    BY <2>4, <2>5
<1>3. k - i \in Nat /\ i + (k - i) = k /\ (i < k => k - i > 0)
  OBVIOUS
<1>4. k - i \in P
  <2> HIDE DEF P
  <2>1. QED
    BY <1>1, <1>2, <1>3, AllNumbers
<1>5. QED
  BY <1>3, <1>4

\* Of two sequences the loops of the first are counted first.
LEMMA CountConcat ==
  ASSUME NEW S, NEW p \in Seq(S), NEW q \in Seq(S)
  PROVE  /\ Len(p) \in Nat /\ Len(q) \in Nat
         /\ \A i \in 0 .. Len(p) : Count(p \o q, i) = Count(p, i)
         /\ \A i \in 0 .. Len(q) : Count(p \o q, Len(p) + i) = Total(p) + Count(q, i)
         /\ Total(p \o q) = Total(p) + Total(q)
         /\ Total(p) \in Nat /\ Total(q) \in Nat
<1>0. Len(p) \in Nat /\ Len(q) \in Nat
  BY LenProperties
<1>1. PICK t : t = p \o q
  OBVIOUS
<1>2. /\ t \in Seq(S) /\ Len(t) = Len(p) + Len(q)
      /\ \A i \in 1 .. Len(p) + Len(q) : t[i] = IF i <= Len(p) THEN p[i] ELSE q[i - Len(p)]
  BY <1>1, ConcatProperties
<1>3. \A i \in Nat : /\ Count(p, i) \in Nat /\ Count(q, i) \in Nat /\ Count(t, i) \in Nat
  BY CountFrom
<1>4. \A i \in 0 .. Len(p) : Count(t, i) = Count(p, i)
  <2> DEFINE P == {i \in Nat : i <= Len(p) => Count(t, i) = Count(p, i)}
  <2>1. 0 \in P
    BY CountFrom
  <2>2. ASSUME NEW i \in Nat, i \in P PROVE i + 1 \in P
    <3>1. SUFFICES ASSUME i + 1 <= Len(p) PROVE Count(t, i + 1) = Count(p, i + 1)
      OBVIOUS
    <3>2. Count(t, i) = Count(p, i)
      BY <1>0, <2>2, <3>1
    <3>3. i + 1 \in 1 .. Len(p) + Len(q)
      BY <1>0, <3>1
    <3>4. t[i + 1] = p[i + 1]
      BY <1>2, <3>1, <3>3
    <3>5. /\ Count(t, i + 1) = IF Going(t[i + 1]) THEN Count(t, i) + 1 ELSE Count(t, i)
          /\ Count(p, i + 1) = IF Going(p[i + 1]) THEN Count(p, i) + 1 ELSE Count(p, i)
      BY CountFrom
    <3>6. QED
      BY <3>2, <3>4, <3>5
  <2>3. \A i \in Nat : i \in P
    <3> HIDE DEF P
    <3>1. QED
      BY <2>1, <2>2, AllNumbers
  <2>4. QED
    BY <1>0, <2>3
<1>5. Count(t, Len(p)) = Total(p)
  BY <1>0, <1>4 DEF Total
<1>6. \A i \in 0 .. Len(q) : Count(t, Len(p) + i) = Total(p) + Count(q, i)
  <2> DEFINE P == {i \in Nat : i <= Len(q) => Count(t, Len(p) + i) = Total(p) + Count(q, i)}
  <2>0. Total(p) \in Nat
    BY <1>0, <1>3 DEF Total
  <2>1. 0 \in P
    <3>1. Len(p) + 0 = Len(p) /\ Count(q, 0) = 0
      BY <1>0, CountFrom
    <3>2. QED
      BY <1>5, <2>0, <3>1
  <2>2. ASSUME NEW i \in Nat, i \in P PROVE i + 1 \in P
    <3>1. SUFFICES ASSUME i + 1 <= Len(q)
                   PROVE  Count(t, Len(p) + (i + 1)) = Total(p) + Count(q, i + 1)
      OBVIOUS
    <3>2. PICK m \in Nat : m = Len(p) + i
      BY <1>0
    <3>3. Count(t, m) = Total(p) + Count(q, i)
      BY <1>0, <2>2, <3>1, <3>2
    <3>4. m + 1 \in 1 .. Len(p) + Len(q) /\ ~ (m + 1 <= Len(p)) /\ m + 1 - Len(p) = i + 1
      BY <1>0, <3>1, <3>2
    <3>5. t[m + 1] = q[i + 1]
      BY <1>2, <3>4
    <3>6. /\ Count(t, m + 1) = IF Going(t[m + 1]) THEN Count(t, m) + 1 ELSE Count(t, m)
          /\ Count(q, i + 1) = IF Going(q[i + 1]) THEN Count(q, i) + 1 ELSE Count(q, i)
      BY CountFrom
    <3>7. Count(t, m + 1) = Total(p) + Count(q, i + 1)
      <4>1. Count(q, i) \in Nat /\ (Going(t[m + 1]) <=> Going(q[i + 1]))
        BY <1>3, <3>5
      <4>2. CASE Going(q[i + 1])
        BY <2>0, <3>3, <3>6, <4>1, <4>2
      <4>3. CASE ~ Going(q[i + 1])
        BY <2>0, <3>3, <3>6, <4>1, <4>3
      <4>4. QED
        BY <4>2, <4>3
    <3>8. m + 1 = Len(p) + (i + 1)
      BY <1>0, <3>2
    <3>9. QED
      BY <3>7, <3>8
  <2>3. \A i \in Nat : i \in P
    <3> HIDE DEF P
    <3>1. QED
      BY <2>1, <2>2, AllNumbers
  <2>4. QED
    BY <1>0, <2>3
<1>7. Count(t, Len(t)) = Total(p) + Count(q, Len(q))
  BY <1>0, <1>2, <1>6
<1>8. QED
  BY <1>0, <1>1, <1>3, <1>4, <1>6, <1>7 DEF Total

\* The loops of one element, and of none.
LEMMA TotalOne ==
  ASSUME NEW s
  PROVE  Total(<<s>>) = (IF Going(s) THEN 1 ELSE 0) /\ Total(<<>>) = 0
<1>1. Count(<<s>>, 0 + 1) = IF Going(<<s>>[1]) THEN Count(<<s>>, 0) + 1 ELSE Count(<<s>>, 0)
  BY CountFrom
<1>2. Count(<<s>>, 0) = 0 /\ Count(<<>>, 0) = 0
  BY CountFrom
<1>3. Len(<<s>>) = 1 /\ <<s>>[1] = s /\ Len(<<>>) = 0
  OBVIOUS
<1>4. QED
  BY <1>1, <1>2, <1>3 DEF Total

\* What SubSeq leaves behind a prefix.
LEMMA SuffixIs ==
  ASSUME NEW S, NEW p \in Seq(S), NEW u \in Seq(S), u # <<>>
  PROVE  SubSeq(p \o u, Len(p) + 1, Len(p \o u)) = u
<1>1. PICK t, m, n : t = p \o u /\ m = Len(p) + 1 /\ n = Len(p \o u)
  OBVIOUS
<1>2. Len(p) \in Nat /\ Len(u) \in Nat /\ Len(u) # 0
  BY EmptySeq, LenProperties
<1>3. /\ t \in Seq(S) /\ n = Len(t) /\ Len(t) = Len(p) + Len(u)
      /\ \A i \in 1 .. Len(p) + Len(u) : t[i] = IF i <= Len(p) THEN p[i] ELSE u[i - Len(p)]
  BY <1>1, ConcatProperties
<1>4. m \in Int /\ n \in Int /\ m <= n /\ Len(u) = n - m + 1
  BY <1>1, <1>2, <1>3
<1>5. \A i \in m .. n : t[i] \in S
  <2>1. \A i \in 1 .. Len(t) : t[i] \in S
    BY <1>3, LenProperties
  <2>2. QED
    BY <1>1, <1>2, <1>3, <2>1
<1>6. PICK w : w = SubSeq(t, m, n)
  OBVIOUS
<1>7. /\ SubSeq(t, m, n) \in Seq(S)
      /\ Len(SubSeq(t, m, n)) = IF m <= n THEN n - m + 1 ELSE 0
      /\ \A i \in 1 .. n - m + 1 : SubSeq(t, m, n)[i] = t[m + i - 1]
  BY <1>4, <1>5, SubSeqProperties
<1>8. w \in Seq(S) /\ Len(w) = Len(u) /\ \A i \in 1 .. Len(u) : w[i] = t[m + i - 1]
  BY <1>4, <1>6, <1>7
<1>9. ASSUME NEW i \in 1 .. Len(u) PROVE w[i] = u[i]
  <2>0. m = Len(p) + 1
    BY <1>1
  <2>1. PICK j : j = m + i - 1
    OBVIOUS
  <2>2. j \in 1 .. Len(p) + Len(u) /\ ~ (j <= Len(p)) /\ j - Len(p) = i
    BY <1>2, <2>0, <2>1
  <2>3. w[i] = t[j]
    BY <1>8, <2>1
  <2>4. QED
    BY <1>3, <2>2, <2>3
<1>10. w = u
  BY <1>8, <1>9, SeqEqual
<1>11. QED
  BY <1>1, <1>6, <1>10

\* The loops of a sequence are those of its first and those of the others.
LEMMA TotalFirst ==
  ASSUME NEW S, NEW s \in S, NEW r \in Seq(S)
  PROVE  /\ Total(Cons(s, r)) = (IF Going(s) THEN 1 ELSE 0) + Total(r)
         /\ Total(r) \in Nat
<1>1. PICK p \in Seq(S) : p = <<s>>
  BY Single
<1>2. Total(p \o r) = Total(p) + Total(r) /\ Total(r) \in Nat
  BY CountConcat
<1>3. Total(p) = IF Going(s) THEN 1 ELSE 0
  BY <1>1, TotalOne
<1>4. QED
  BY <1>1, <1>2, <1>3 DEF Cons

Split(t, p, s, q) == t = p \o Cons(s, q)

\* The n-th loop is where n - 1 come before it, and what is left from it on.
LEMMA NthLoop ==
  ASSUME NEW S, NEW t \in Seq(S), NEW p \in Seq(S), NEW s \in S, NEW q \in Seq(S),
         Split(t, p, s, q), Going(s)
  PROVE  /\ Len(p) + 1 \in DOMAIN t /\ Going(t[Len(p) + 1])
         /\ Count(t, Len(p) + 1) = Total(p) + 1
         /\ \A i \in DOMAIN t : (Going(t[i]) /\ Count(t, i) = Total(p) + 1) => i = Len(p) + 1
         /\ SubSeq(t, Len(p) + 1, Len(t)) = Cons(s, q)
<1>1. PICK u : u = Cons(s, q)
  OBVIOUS
<1>2. u \in Seq(S) /\ u[1] = s /\ Len(u) = Len(q) + 1
  <2>1. /\ Cons(s, q) \in Seq(S) /\ Cons(s, q)[1] = s
        /\ Len(Cons(s, q)) = Len(q) + 1
    BY Fronted
  <2>2. QED
    BY <1>1, <2>1
<1>3. Len(p) \in Nat /\ Len(q) \in Nat /\ Len(t) \in Nat /\ DOMAIN t = 1 .. Len(t)
  BY LenProperties
<1>4. /\ t = p \o u /\ Len(t) = Len(p) + Len(u)
      /\ \A i \in 1 .. Len(p) + Len(u) : t[i] = IF i <= Len(p) THEN p[i] ELSE u[i - Len(p)]
  BY <1>1, <1>2, ConcatProperties DEF Split
<1>5. PICK m \in Nat : m = Len(p) + 1
  BY <1>3
<1>6. m \in DOMAIN t /\ t[m] = s
  <2>1. m \in 1 .. Len(p) + Len(u) /\ ~ (m <= Len(p)) /\ m - Len(p) = 1
    BY <1>2, <1>3, <1>5
  <2>2. QED
    BY <1>2, <1>3, <1>4, <2>1
<1>7. Count(t, m) = Total(p) + 1
  <2>1. Count(t, Len(p)) = Total(p) /\ Total(p) \in Nat
    <3>1. Len(p) \in 0 .. Len(p)
      BY <1>3
    <3>2. Count(p \o u, Len(p)) = Count(p, Len(p)) /\ Total(p) \in Nat
      BY <1>2, <3>1, CountConcat
    <3>3. QED
      BY <1>4, <3>2 DEF Total
  <2>2. Count(t, Len(p) + 1) = IF Going(t[Len(p) + 1]) THEN Count(t, Len(p)) + 1
                               ELSE Count(t, Len(p))
    BY <1>3, CountFrom
  <2>3. QED
    BY <1>5, <1>6, <2>1, <2>2
<1>8. ASSUME NEW i \in DOMAIN t, Going(t[i]), Count(t, i) = Total(p) + 1 PROVE i = m
  <2>1. i \in Nat /\ Count(t, i) \in Nat
    BY <1>3, CountFrom
  <2>2. ~ (i < m)
    <3>1. SUFFICES ASSUME i < m PROVE FALSE
      OBVIOUS
    <3>2. Count(t, i) < Count(t, m)
      <4>1. i <= m /\ Going(t[m])
        BY <1>6, <2>1, <3>1
      <4>2. QED
        BY <2>1, <3>1, <4>1, CountRises
    <3>3. QED
      BY <1>7, <1>8, <2>1, <3>2
  <2>3. ~ (m < i)
    <3>1. SUFFICES ASSUME m < i PROVE FALSE
      OBVIOUS
    <3>2. Count(t, m) < Count(t, i)
      <4>1. m <= i
        BY <2>1, <3>1
      <4>2. QED
        BY <1>8, <2>1, <3>1, <4>1, CountRises
    <3>3. QED
      BY <1>7, <1>8, <2>1, <3>2
  <2>4. QED
    BY <2>1, <2>2, <2>3
<1>9. SubSeq(t, m, Len(t)) = u
  <2>1. u # <<>>
    BY <1>1, Fronted
  <2>2. QED
    BY <1>2, <1>4, <1>5, <2>1, SuffixIs
<1>10. QED
  BY <1>1, <1>5, <1>6, <1>7, <1>8, <1>9

\* There is one for every number up to how many there are.
LEMMA LoopThere ==
  ASSUME NEW S, NEW t \in Seq(S), NEW k \in 1 .. Total(t)
  PROVE  \E p \in Seq(S), s \in S, q \in Seq(S) :
           Split(t, p, s, q) /\ Going(s) /\ Total(p) + 1 = k
<1>1. Len(t) \in Nat /\ k \in Nat /\ k >= 1 /\ Total(t) \in Nat
  BY LenProperties, CountFrom DEF Total
<1> DEFINE P == {i \in Nat : i <= Len(t) => Count(t, i) < k}
<1>2. 0 \in P
  BY <1>1, CountFrom
<1>3. \E i \in Nat : i \in P /\ i + 1 \notin P
  <2> SUFFICES ASSUME \A i \in Nat : i \in P => i + 1 \in P PROVE FALSE
    OBVIOUS
  <2>1. Len(t) \in P
    <3> HIDE DEF P
    <3>1. QED
      BY <1>1, <1>2, AllNumbers
  <2>2. QED
    BY <1>1, <2>1 DEF Total
<1>4. PICK i \in Nat : i \in P /\ i + 1 \notin P
  BY <1>3
<1>5. i + 1 <= Len(t) /\ ~ (Count(t, i + 1) < k) /\ Count(t, i) < k
  BY <1>1, <1>4
<1>6. /\ Count(t, i) \in Nat
      /\ Count(t, i + 1) = IF Going(t[i + 1]) THEN Count(t, i) + 1 ELSE Count(t, i)
  BY CountFrom
<1>7. Going(t[i + 1]) /\ Count(t, i) + 1 = k
  BY <1>1, <1>5, <1>6
<1>8. PICK p, q : p = SubSeq(t, 1, i) /\ q = SubSeq(t, i + 1 + 1, Len(t))
  OBVIOUS
<1>9. /\ p \in Seq(S) /\ Len(p) = i /\ \A j \in 1 .. i : p[j] = t[j]
      /\ q \in Seq(S)
  <2>1. \A j \in 1 .. Len(t) : t[j] \in S
    BY LenProperties
  <2>2. /\ SubSeq(t, 1, i) \in Seq(S) /\ Len(SubSeq(t, 1, i)) = IF 1 <= i THEN i - 1 + 1 ELSE 0
        /\ \A j \in 1 .. i - 1 + 1 : SubSeq(t, 1, i)[j] = t[1 + j - 1]
    <3>1. \A j \in 1 .. i : t[j] \in S
      BY <1>1, <1>5, <2>1
    <3>2. QED
      BY <3>1, SubSeqProperties
  <2>3. SubSeq(t, i + 1 + 1, Len(t)) \in Seq(S)
    <3>1. \A j \in i + 1 + 1 .. Len(t) : t[j] \in S
      BY <1>1, <1>5, <2>1
    <3>2. QED
      BY <1>1, <3>1, SubSeqProperties
  <2>4. /\ (IF 1 <= i THEN i - 1 + 1 ELSE 0) = i /\ i - 1 + 1 = i
        /\ \A j \in 1 .. i : 1 + j - 1 = j
    BY <1>4, SMTT(30)
  <2>5. QED
    BY <1>8, <2>2, <2>3, <2>4
<1>10. t = p \o Cons(t[i + 1], q) /\ t[i + 1] \in S
  <2>1. i + 1 \in 1 .. Len(t) /\ 1 \in 1 .. Len(t) + 1 /\ i \in 0 .. Len(t) /\ Len(t) \in i .. Len(t)
    BY <1>1, <1>5
  <2>2. SubSeq(t, i + 1, Len(t)) = <<t[i + 1]>> \o q
    <3>1. Len(t) \in i + 1 .. Len(t)
      BY <1>1, <1>5
    <3>2. QED
      BY <1>8, <2>1, <3>1, SubSeqRecursiveFirst
  <2>3. SubSeq(t, 1, i) \o SubSeq(t, i + 1, Len(t)) = SubSeq(t, 1, Len(t))
    <3>1. i \in 1 - 1 .. Len(t)
      BY <2>1
    <3>2. QED
      BY <2>1, <3>1, ConcatAdjacentSubSeq
  <2>4. SubSeq(t, 1, Len(t)) = t
    BY SubSeqFull
  <2>5. t[i + 1] \in S
    BY <2>1, ElementOfSeq
  <2>6. QED
    BY <1>8, <2>2, <2>3, <2>4, <2>5 DEF Cons
<1>11. Total(p) = Count(t, i)
  <2>1. GoingUpTo(p, i) = GoingUpTo(t, i)
    BY <1>9 DEF GoingUpTo
  <2>2. QED
    BY <1>9, <2>1 DEF Total, Count
<1>12. QED
  BY <1>7, <1>9, <1>10, <1>11 DEF Split

-----------------------------------------------------------------------------
(***************************************************************************)
(* What each statement becomes.                                            *)
(***************************************************************************)
At(n) == BodiesAt(Body, n) \cup {<<>>}
Result == {"cmd"} \X Command
CasesAt(n) ==
  {s \in Seq((Plain \cup Result) \X At(n)) : \A i \in 2 .. Len(s) : s[i][1] \in Plain}

\* An expression without a command is a variable or a literal.
LEMMA PlainIs ==
  \A e \in Plain : /\ \/ \E x \in Variable : e = <<"var", x>>
                      \/ \E v \in Truth : e = <<"val", v>>
                   /\ e[1] # "cmd" /\ ~ IsCmd(e)
BY DEF Plain, IsCmd

\* The array of a range is one the program holds, and has a number of elements.
LEMMA ArrayIs ==
  \A e \in Array : ~ IsCmd(e) /\ e[1] = "val" /\ e[2] \in 0 .. MaxElements /\ e[2] \in Nat
BY ScriptAssumption DEF Array, IsCmd

\* The result of a command.
LEMMA ResultIs ==
  \A e \in Result : \E c \in Command : e = <<"cmd", c>>
BY DEF Result

\* The statements of KeptStmt, spelled out.
LEMMA StatementForms ==
  ASSUME NEW n \in Nat, NEW s \in KeptStmt(Body, n)
  PROVE  \/ \E x \in Variable, c \in Command : s = <<"set", x, <<"cmd", c>>>>
         \/ \E e \in Plain, a \in At(n), b \in At(n) : s = <<"if", e, a, b>>
         \/ \E c \in Command, a \in At(n) : s = <<"if", <<"cmd", c>>, a, <<>>>>
         \/ \E e \in Plain, a \in At(n + 1) : s = <<"while", e, a>>
         \/ \E e \in Array, a \in At(n + 1) : s = <<"each", e, a>>
         \/ \E e \in Plain, ss \in CasesAt(n), d \in At(n) :
              s = <<"switch", e, ss, d>> /\ ss # <<>>
         \/ \E k \in 1 .. n : s = <<"break", k>>
         \/ \E k \in 1 .. n : s = <<"continue", k>>
         \/ s = <<"return">>
<1> DEFINE body == BodiesAt(Body, n) \ {<<>>}
           inner == BodiesAt(Body, n + 1) \ {<<>>}
           other == body \cup {<<>>}
<1>0. body \subseteq At(n) /\ inner \subseteq At(n + 1) /\ other \subseteq At(n)
  BY DEF At
<1> HIDE DEF body, inner, other
<1>1. CASE s \in {"set"} \X Variable \X Result
  BY <1>1, ResultIs
<1>2. CASE s \in {"if"} \X Plain \X body \X other
  BY <1>0, <1>2
<1>3. CASE s \in {"if"} \X Result \X body \X {<<>>}
  BY <1>0, <1>3, ResultIs
<1>4. CASE s \in {"while"} \X Plain \X inner
  BY <1>0, <1>4
<1>5. CASE s \in {"each"} \X Array \X inner
  BY <1>0, <1>5
<1>6. CASE /\ s \in {"switch"} \X Plain \X Seq((Plain \cup Result) \X body) \X other
           /\ s[3] # <<>> /\ \A i \in 2 .. Len(s[3]) : s[3][i][1] \in Plain
  <2>1. s = <<"switch", s[2], s[3], s[4]>> /\ s[2] \in Plain /\ s[4] \in At(n)
        /\ s[3] \in Seq((Plain \cup Result) \X body)
    BY <1>0, <1>6
  <2>2. s[3] \in Seq((Plain \cup Result) \X At(n))
    <3>1. (Plain \cup Result) \X body \subseteq (Plain \cup Result) \X At(n)
      BY <1>0
    <3>2. QED
      BY <2>1, <3>1, SeqMonotonic
  <2>3. s[3] \in CasesAt(n)
    BY <1>6, <2>2 DEF CasesAt
  <2>4. QED
    BY <1>6, <2>1, <2>3
<1>7. CASE s \in {"break", "continue"} \X (1 .. n)
  BY <1>7
<1>8. CASE s = <<"return">>
  BY <1>8
<1>9. QED
  BY <1>1, <1>2, <1>3, <1>4, <1>5, <1>6, <1>7, <1>8 DEF KeptStmt, Result, body, inner, other

\* Sequences of at most two.
LEMMA Pairs ==
  /\ \A l : <<>> \o <<l>> = <<l>> /\ <<l>> \o <<>> = <<l>>
  /\ \A l, m : <<l>> \o <<m>> = <<l, m>>
  /\ <<>> \o <<>> = <<>>
<1>1. ASSUME NEW l PROVE <<>> \o <<l>> = <<l>> /\ <<l>> \o <<>> = <<l>>
  <2>1. <<l>> \in Seq({l})
    OBVIOUS
  <2>2. QED
    BY <2>1, ConcatEmptySeq
<1>2. ASSUME NEW l, NEW m PROVE <<l>> \o <<m>> = <<l, m>>
  <2>1. <<l>> \in Seq({l, m}) /\ m \in {l, m}
    OBVIOUS
  <2>2. Append(<<l>>, m) = <<l>> \o <<m>>
    BY <2>1, AppendIsConcat
  <2>3. PICK u : u = <<l>> \o <<m>>
    OBVIOUS
  <2>4. PICK w : w = <<l, m>>
    OBVIOUS
  <2>5. u \in Seq({l, m}) /\ Len(u) = 2 /\ u[1] = l /\ u[2] = m
    <3>1. /\ Len(<<l>>) = 1 /\ <<l>>[1] = l
      OBVIOUS
    <3>2. /\ Append(<<l>>, m) \in Seq({l, m})
          /\ Len(Append(<<l>>, m)) = Len(<<l>>) + 1
          /\ \A i \in 1 .. Len(<<l>>) : Append(<<l>>, m)[i] = <<l>>[i]
          /\ Append(<<l>>, m)[Len(<<l>>) + 1] = m
      BY <2>1, AppendProperties
    <3>3. QED
      BY <2>2, <2>3, <3>1, <3>2
  <2>6. w \in Seq({l, m}) /\ Len(w) = 2 /\ w[1] = l /\ w[2] = m
    BY <2>4
  <2>7. \A i \in 1 .. Len(u) : u[i] = w[i]
    BY <2>5, <2>6
  <2>8. u = w
    BY <2>5, <2>6, <2>7, SeqEqual
  <2>9. QED
    BY <2>3, <2>4, <2>8
<1>3. <<>> \o <<>> = <<>>
  BY ConcatEmptySeq
<1>4. QED
  BY <1>1, <1>2, <1>3

\* The lines of every kind of statement but the switch.
LEMMA Translations ==
  /\ \A x, c : Translation(<<"set", x, <<"cmd", c>>>>)
                 = <<<<"eval", c>>, <<"assign", x, <<"cmd", c>>>>>>
  /\ \A e, a, b : ~ IsCmd(e) => Translation(<<"if", e, a, b>>) = <<<<"test", e, a, b>>>>
  /\ \A c, a : Translation(<<"if", <<"cmd", c>>, a, <<>>>>)
                 = <<<<"eval", c>>, <<"test", <<"cmd", c>>, a, <<>>>>>>
  /\ \A e, a : ~ IsCmd(e) => Translation(<<"while", e, a>>) = <<<<"while", e, a>>>>
  /\ \A e, a : ~ IsCmd(e) => Translation(<<"each", e, a>>) = <<<<"for", e, a>>>>
  /\ \A k : Translation(<<"break", k>>) = <<<<"break", k>>>>
  /\ \A k : Translation(<<"continue", k>>) = <<<<"continue", k>>>>
  /\ Translation(<<"return">>) = <<<<"return">>>>
<1>1. /\ \A c : Before(<<"cmd", c>>) = <<<<"eval", c>>>>
      /\ \A e : ~ IsCmd(e) => Before(e) = <<>>
  BY DEF Before, IsCmd
<1>2. /\ \A l : <<>> \o <<l>> = <<l>> /\ <<l>> \o <<>> = <<l>>
      /\ \A l, m : <<l>> \o <<m>> = <<l, m>>
      /\ <<>> \o <<>> = <<>>
  BY Pairs
<1>3. ASSUME NEW x, NEW c
      PROVE  Translation(<<"set", x, <<"cmd", c>>>>)
               = <<<<"eval", c>>, <<"assign", x, <<"cmd", c>>>>>>
  <2>1. Translation(<<"set", x, <<"cmd", c>>>>)
          = Before(<<"cmd", c>>) \o <<<<"assign", x, <<"cmd", c>>>>>>
    BY DEF Translation
  <2>2. QED
    BY <1>1, <1>2, <2>1
<1>4. ASSUME NEW e, NEW a, NEW b
      PROVE  Translation(<<"if", e, a, b>>)
               = Before(e) \o (IF b = <<>> THEN <<>> ELSE Before(e)) \o <<<<"test", e, a, b>>>>
  BY DEF Translation, IfStmt
<1>5. ASSUME NEW e, NEW a, NEW b, ~ IsCmd(e)
      PROVE  Translation(<<"if", e, a, b>>) = <<<<"test", e, a, b>>>>
  <2>1. (IF b = <<>> THEN <<>> ELSE Before(e)) = <<>>
    BY <1>1, <1>5
  <2>2. Translation(<<"if", e, a, b>>) = <<>> \o <<>> \o <<<<"test", e, a, b>>>>
    BY <1>1, <1>4, <1>5, <2>1
  <2>3. QED
    BY <1>2, <2>2
<1>6. ASSUME NEW c, NEW a
      PROVE  Translation(<<"if", <<"cmd", c>>, a, <<>>>>)
               = <<<<"eval", c>>, <<"test", <<"cmd", c>>, a, <<>>>>>>
  <2>1. Translation(<<"if", <<"cmd", c>>, a, <<>>>>)
          = <<<<"eval", c>>>> \o <<>> \o <<<<"test", <<"cmd", c>>, a, <<>>>>>>
    BY <1>1, <1>4
  <2>2. QED
    BY <1>2, <2>1
<1>7. ASSUME NEW e, NEW a, ~ IsCmd(e)
      PROVE  Translation(<<"while", e, a>>) = <<<<"while", e, a>>>>
  <2>1. Translation(<<"while", e, a>>) = Before(e) \o <<<<"while", e, a>>>>
    BY DEF Translation, ForStmt
  <2>2. QED
    BY <1>1, <1>2, <1>7, <2>1
<1>8. ASSUME NEW e, NEW a, ~ IsCmd(e)
      PROVE  Translation(<<"each", e, a>>) = <<<<"for", e, a>>>>
  <2>1. Translation(<<"each", e, a>>) = Before(e) \o <<<<"for", e, a>>>>
    BY DEF Translation, ForStmt
  <2>2. QED
    BY <1>1, <1>2, <1>8, <2>1
<1>9. /\ \A k : Translation(<<"break", k>>) = <<<<"break", k>>>>
      /\ \A k : Translation(<<"continue", k>>) = <<<<"continue", k>>>>
      /\ Translation(<<"return">>) = <<<<"return">>>>
  BY DEF Translation, LoopControlStmt
<1>10. QED
  BY <1>3, <1>5, <1>6, <1>7, <1>8, <1>9

\* What every kind of line stands for.
LEMMA Meanings ==
  /\ \A c : Meant(<<"eval", c>>) = <<>>
  /\ \A x, e : Meant(<<"assign", x, e>>) = <<<<"set", x, e>>>>
  /\ \A e, a, b : Meant(<<"test", e, a, b>>) = <<<<"if", e, a, b>>>>
  /\ \A e, a : Meant(<<"while", e, a>>) = <<<<"while", e, a>>>>
  /\ \A e, a : Meant(<<"again", e, a>>) = <<<<"next", e, a>>>>
  /\ \A e, a : Meant(<<"for", e, a>>) = <<<<"each", e, a>>>>
  /\ \A k, a : Meant(<<"left", k, a>>) = <<<<"left", k, a>>>>
  /\ \A e, s, d : Meant(<<"chain", e, s, d>>) = <<<<"switch", e, s, d>>>>
  /\ \A k : Meant(<<"break", k>>) = <<<<"break", k>>>>
  /\ \A k : Meant(<<"continue", k>>) = <<<<"continue", k>>>>
  /\ Meant(<<"return">>) = <<<<"return">>>>
<1>1. \A e, a, b : [<<"test", e, a, b>> EXCEPT ![1] = "if"] = <<"if", e, a, b>>
  OBVIOUS
<1>2. \A e, a : /\ [<<"again", e, a>> EXCEPT ![1] = "next"] = <<"next", e, a>>
                /\ [<<"for", e, a>> EXCEPT ![1] = "each"] = <<"each", e, a>>
  OBVIOUS
<1>3. \A e, s, d : [<<"chain", e, s, d>> EXCEPT ![1] = "switch"] = <<"switch", e, s, d>>
  OBVIOUS
<1>4. /\ \A c : Meant(<<"eval", c>>) = <<>>
      /\ \A x, e : Meant(<<"assign", x, e>>) = <<<<"set", x, e>>>>
  BY DEF Meant
<1>5. /\ \A e, a, b : Meant(<<"test", e, a, b>>) = <<<<"if", e, a, b>>>>
      /\ \A e, a : Meant(<<"again", e, a>>) = <<<<"next", e, a>>>>
      /\ \A e, a : Meant(<<"for", e, a>>) = <<<<"each", e, a>>>>
      /\ \A e, s, d : Meant(<<"chain", e, s, d>>) = <<<<"switch", e, s, d>>>>
  BY <1>1, <1>2, <1>3 DEF Meant
<1>6. /\ \A e, a : Meant(<<"while", e, a>>) = <<<<"while", e, a>>>>
      /\ \A k, a : Meant(<<"left", k, a>>) = <<<<"left", k, a>>>>
      /\ \A k : Meant(<<"break", k>>) = <<<<"break", k>>>>
      /\ \A k : Meant(<<"continue", k>>) = <<<<"continue", k>>>>
      /\ Meant(<<"return">>) = <<<<"return">>>>
  BY DEF Meant
<1>7. QED
  BY <1>4, <1>5, <1>6

\* Joining sequences without elements gives one.
LEMMA JoinedEmpties ==
  ASSUME NEW S, NEW t \in Seq(S), NEW f, MapsInto(f, S, {<<>>})
  PROVE  Joined(f, t) = <<>>
<1>1. Mapping(f, t) \in Seq({<<>>})
  BY Mapped
<1>2. {<<>>} \subseteq Seq({})
  OBVIOUS
<1>3. Mapping(f, t) \in Seq(Seq({}))
  BY <1>1, <1>2, SeqMonotonic
<1>4. FlattenSeq(Mapping(f, t)) \in Seq({})
  BY <1>3, FlattenType
<1>5. \A u \in Seq({}) : u = <<>>
  <2>1. ASSUME NEW u \in Seq({}), u # <<>> PROVE FALSE
    <3>1. u[1] \in {}
      BY <2>1, Unfronted
    <3>2. QED
      BY <3>1
  <2>2. QED
    BY <2>1
<1>6. QED
  BY <1>4, <1>5 DEF Joined

\* The code of an item; its last line is the item's own, one before it runs
\* the command whose result the line needs.  What is left of the cases of a
\* switch may be none, which no statement has.
Code(s) ==
  IF s[1] = "next" THEN <<<<"again", s[2], s[3]>>>>
  ELSE IF s[1] = "left" THEN <<s>>
  ELSE IF s[1] = "switch" /\ s[3] = <<>> THEN <<<<"chain", s[2], s[3], s[4]>>>>
  ELSE Translation(s)

\* What stands before a chain: what the first case needs.
LEMMA SwitchTranslation ==
  ASSUME NEW n \in Nat, NEW e, NEW ss \in CasesAt(n), NEW d
  PROVE  /\ ss = <<>> \/ ~ IsCmd(ss[1][1])
              => Code(<<"switch", e, ss, d>>) = <<<<"chain", e, ss, d>>>>
         /\ ss # <<>> /\ IsCmd(ss[1][1])
              => \E c \in Command :
                   /\ ss[1][1] = <<"cmd", c>>
                   /\ Code(<<"switch", e, ss, d>>) = <<<<"eval", c>>, <<"chain", e, ss, d>>>>
         /\ ss # <<>> => /\ ss[1][1] \in Plain \cup Result /\ ss[1][2] \in At(n)
                         /\ Tail(ss) \in CasesAt(n)
                         /\ Tail(ss) = <<>> \/ ~ IsCmd(Tail(ss)[1][1])
<1> DEFINE K == (Plain \cup Result) \X At(n)
           P == Plain \X At(n)
           E == {"eval"} \X Command
           f == [k \in K |-> Before(k[1])]
           g == [k \in P |-> Before(k[1])]
<1>1. ss \in Seq(K) /\ \A i \in 2 .. Len(ss) : ss[i][1] \in Plain
  BY DEF CasesAt
<1>2. /\ \A k \in K : k[1] \in Plain \cup Result /\ k[2] \in At(n)
      /\ \A k \in K : k[1] \in Plain => k \in P
      /\ \A k \in P : k \in K /\ ~ IsCmd(k[1]) /\ Before(k[1]) = <<>>
  <2>1. \A k \in P : k[1] \in Plain /\ k \in K
    OBVIOUS
  <2>2. \A k \in K : k[1] \in Plain \cup Result /\ k[2] \in At(n) /\ k = <<k[1], k[2]>>
    OBVIOUS
  <2>3. QED
    BY <2>1, <2>2, PlainIs DEF Before
<1>3. \A k \in K : k[1] \notin Plain =>
        \E c \in Command : k[1] = <<"cmd", c>> /\ Before(k[1]) = <<<<"eval", c>>>>
  BY <1>2, ResultIs DEF Before, IsCmd
<1>4. MapsInto(f, K, Seq(E)) /\ MapsInto(g, P, {<<>>})
  <2>1. \A k \in K : Before(k[1]) \in Seq(E)
    <3>1. ASSUME NEW k \in K, k[1] \in Plain PROVE Before(k[1]) \in Seq(E)
      <4>1. Before(k[1]) = <<>>
        BY <1>2, <3>1
      <4>2. <<>> \in Seq(E)
        OBVIOUS
      <4>3. QED
        <5> HIDE DEF E
        <5>1. QED
          BY <4>1, <4>2
    <3>2. ASSUME NEW k \in K, k[1] \notin Plain PROVE Before(k[1]) \in Seq(E)
      <4>1. PICK c \in Command : Before(k[1]) = <<<<"eval", c>>>>
        BY <1>3, <3>2
      <4>2. <<"eval", c>> \in E
        OBVIOUS
      <4>3. QED
        <5> HIDE DEF E
        <5>1. <<<<"eval", c>>>> \in Seq(E)
          BY <4>2, Single
        <5>2. QED
          BY <4>1, <5>1
    <3>3. QED
      BY <3>1, <3>2
  <2>2. QED
    BY <1>2, <2>1 DEF MapsInto
<1>5. BeforeCases(ss) = Joined(f, ss)
  <2>1. \A i \in DOMAIN ss : ss[i] \in K
    BY <1>1
  <2>2. [i \in DOMAIN ss |-> Before(ss[i][1])] = [i \in DOMAIN ss |-> f[ss[i]]]
    BY <2>1
  <2>3. QED
    BY <2>2 DEF BeforeCases, Joined, Mapping
<1>6. ss # <<>> => Code(<<"switch", e, ss, d>>) = BeforeCases(ss) \o <<<<"chain", e, ss, d>>>>
  BY DEF Code, Translation, SwitchStmt
<1>7. /\ \A l : <<>> \o <<l>> = <<l>>
      /\ \A l, m : <<l>> \o <<m>> = <<l, m>>
  BY Pairs
<1>8. CASE ss = <<>>
  <2>1. Code(<<"switch", e, ss, d>>) = <<<<"chain", e, ss, d>>>>
    BY <1>8 DEF Code
  <2>2. QED
    BY <1>8, <2>1
<1>9. CASE ss # <<>>
  <2> HIDE DEF K, P, E, f, g
  <2>1. /\ ss[1] \in K /\ Tail(ss) \in Seq(K) /\ ss = Cons(ss[1], Tail(ss))
        /\ Len(Tail(ss)) = Len(ss) - 1 /\ Len(ss) \in Nat
    BY <1>1, <1>9, Unfronted
  <2>2. \A i \in 1 .. Len(Tail(ss)) : Tail(ss)[i] = ss[i + 1]
    BY <1>1, <1>9, HeadTailProperties
  <2>3. \A i \in 1 .. Len(Tail(ss)) : Tail(ss)[i] \in P
    <3>1. ASSUME NEW i \in 1 .. Len(Tail(ss)) PROVE Tail(ss)[i] \in P
      <4>1. i + 1 \in 2 .. Len(ss) /\ i + 1 \in 1 .. Len(ss)
        BY <2>1
      <4>2. ss[i + 1] \in K
        BY <1>1, <4>1, ElementOfSeq
      <4>3. QED
        BY <1>1, <1>2, <2>2, <4>1, <4>2
    <3>2. QED
      BY <3>1
  <2>4. Tail(ss) \in Seq(P)
    <3>1. PICK r : r = Tail(ss)
      OBVIOUS
    <3>2. r \in Seq(K) /\ \A i \in 1 .. Len(r) : r[i] \in P
      BY <2>1, <2>3, <3>1
    <3>3. PICK m \in Nat : m = Len(r) /\ r \in [1 .. m -> K]
      BY <3>2, LenProperties
    <3>4. r \in [1 .. m -> P]
      BY <3>2, <3>3
    <3>5. r \in Seq(P)
      BY <3>4
    <3>6. QED
      BY <3>1, <3>5
  <2>5. Joined(f, Tail(ss)) = <<>>
    <3>1. Joined(g, Tail(ss)) = <<>>
      BY <1>4, <2>4, JoinedEmpties
    <3>2. Mapping(f, Tail(ss)) = Mapping(g, Tail(ss))
      <4>1. \A i \in DOMAIN Tail(ss) : Tail(ss)[i] \in P
        BY <2>4
      <4>2. \A k \in P : f[k] = g[k]
        BY <1>2 DEF f, g
      <4>3. QED
        BY <4>1, <4>2 DEF Mapping
    <3>3. QED
      BY <3>1, <3>2 DEF Joined
  <2>6. Joined(f, ss) = Before(ss[1][1])
    <3>1. Joined(f, Cons(ss[1], Tail(ss))) = f[ss[1]] \o Joined(f, Tail(ss))
      <4>1. PICK k \in K, r \in Seq(K) : k = ss[1] /\ r = Tail(ss)
        BY <2>1
      <4>2. MapsInto(f, K, Seq(E))
        BY <1>4
      <4>3. Joined(f, Cons(k, r)) = f[k] \o Joined(f, r)
        BY <4>2, JoinedFronted
      <4>4. QED
        BY <4>1, <4>3
    <3>2. f[ss[1]] = Before(ss[1][1]) /\ f[ss[1]] \in Seq(E)
      BY <1>4, <2>1 DEF f, MapsInto
    <3>3. QED
      BY <2>1, <2>5, <3>1, <3>2, ConcatEmptySeq
  <2>7. Tail(ss) = <<>> \/ ~ IsCmd(Tail(ss)[1][1])
    <3>1. ASSUME Tail(ss) # <<>> PROVE Tail(ss)[1] \in P
      BY <2>4, <3>1, Unfronted
    <3>2. QED
      BY <1>2, <3>1
  <2>8. Tail(ss) \in CasesAt(n)
    <3>1. \A i \in 2 .. Len(Tail(ss)) : Tail(ss)[i][1] \in Plain
      BY <2>1, <2>3 DEF P
    <3>2. QED
      BY <2>1, <3>1 DEF CasesAt, K
  <2>9. ss[1][1] \in Plain \cup Result /\ ss[1][2] \in At(n)
    BY <1>2, <2>1
  <2>10. ASSUME ~ IsCmd(ss[1][1])
         PROVE  Code(<<"switch", e, ss, d>>) = <<<<"chain", e, ss, d>>>>
    <3>1. Before(ss[1][1]) = <<>>
      BY <2>10 DEF Before
    <3>2. QED
      BY <1>5, <1>6, <1>7, <1>9, <2>6, <3>1
  <2>11. ASSUME IsCmd(ss[1][1])
         PROVE  \E c \in Command :
                  /\ ss[1][1] = <<"cmd", c>>
                  /\ Code(<<"switch", e, ss, d>>) = <<<<"eval", c>>, <<"chain", e, ss, d>>>>
    <3>1. ss[1][1] \notin Plain
      BY <2>11, PlainIs
    <3>2. PICK c \in Command :
                 ss[1][1] = <<"cmd", c>> /\ Before(ss[1][1]) = <<<<"eval", c>>>>
      BY <1>3, <2>1, <3>1
    <3>3. Code(<<"switch", e, ss, d>>) = <<<<"eval", c>>, <<"chain", e, ss, d>>>>
      <4>1. BeforeCases(ss) = <<<<"eval", c>>>>
        BY <1>5, <2>6, <3>2
      <4>2. Code(<<"switch", e, ss, d>>) = <<<<"eval", c>>>> \o <<<<"chain", e, ss, d>>>>
        BY <1>6, <1>9, <4>1
      <4>3. QED
        BY <1>7, <4>2
    <3>4. QED
      BY <3>2, <3>3
  <2>12. QED
    BY <1>9, <2>7, <2>8, <2>9, <2>10, <2>11
<1>10. QED
  BY <1>8, <1>9

-----------------------------------------------------------------------------
(***************************************************************************)
(* What is to be done with n loops around it, and the lines of its code.   *)
(***************************************************************************)
Loop(n) == ({"next"} \X Plain \X At(n + 1)) \cup ({"left"} \X Nat \X At(n + 1))
Rests(n) ==
  {s \in {"switch"} \X Plain \X CasesAt(n) \X At(n) : s[3] = <<>> \/ ~ IsCmd(s[3][1][1])}
Item(n) == KeptStmt(Body, n) \cup Loop(n) \cup Rests(n)
Items == UNION {Item(n) : n \in Nat}

Line(s) == Code(s)[Len(Code(s))]
Needs(s, c) == Code(s) = <<<<"eval", c>>, Line(s)>>
NeedsNone(s) == Code(s) = <<Line(s)>>

\* The line of a statement, and the command whose result it needs.
LEMMA LineOf ==
  /\ \A s, l : Code(s) = <<l>> => Line(s) = l /\ NeedsNone(s)
  /\ \A s, c, l : Code(s) = <<<<"eval", c>>, l>> => Line(s) = l /\ Needs(s, c)
<1>1. ASSUME NEW s, NEW l, Code(s) = <<l>> PROVE Line(s) = l /\ NeedsNone(s)
  <2>1. Line(s) = l
    BY <1>1 DEF Line
  <2>2. QED
    BY <1>1, <2>1 DEF NeedsNone
<1>2. ASSUME NEW s, NEW c, NEW l, Code(s) = <<<<"eval", c>>, l>>
      PROVE  Line(s) = l /\ Needs(s, c)
  <2>1. Line(s) = l
    BY <1>2 DEF Line
  <2>2. QED
    BY <1>2, <2>1 DEF Needs
<1>3. QED
  BY <1>1, <1>2

\* The forms of an item, each with its line.
ItemForm(n, s) ==
  \/ \E x \in Variable, c \in Command :
       s = <<"set", x, <<"cmd", c>>>> /\ Needs(s, c) /\ Line(s) = <<"assign", x, <<"cmd", c>>>>
  \/ \E e \in Plain, a \in At(n), b \in At(n) :
       s = <<"if", e, a, b>> /\ NeedsNone(s) /\ Line(s) = <<"test", e, a, b>>
  \/ \E c \in Command, a \in At(n) :
       /\ s = <<"if", <<"cmd", c>>, a, <<>>>> /\ Needs(s, c)
       /\ Line(s) = <<"test", <<"cmd", c>>, a, <<>>>>
  \/ \E e \in Plain, a \in At(n + 1) :
       s = <<"while", e, a>> /\ NeedsNone(s) /\ Line(s) = <<"while", e, a>>
  \/ \E e \in Array, a \in At(n + 1) :
       s = <<"each", e, a>> /\ NeedsNone(s) /\ Line(s) = <<"for", e, a>>
  \/ \E e \in Plain, ss \in CasesAt(n), d \in At(n) :
       /\ s = <<"switch", e, ss, d>> /\ NeedsNone(s) /\ Line(s) = <<"chain", e, ss, d>>
       /\ ss = <<>> \/ ~ IsCmd(ss[1][1])
  \/ \E e \in Plain, ss \in CasesAt(n), d \in At(n), c \in Command :
       /\ s = <<"switch", e, ss, d>> /\ Needs(s, c) /\ Line(s) = <<"chain", e, ss, d>>
       /\ ss # <<>> /\ ss[1][1] = <<"cmd", c>>
  \/ \E k \in 1 .. n : s = <<"break", k>> /\ NeedsNone(s) /\ Line(s) = <<"break", k>>
  \/ \E k \in 1 .. n : s = <<"continue", k>> /\ NeedsNone(s) /\ Line(s) = <<"continue", k>>
  \/ s = <<"return">> /\ NeedsNone(s) /\ Line(s) = <<"return">>
  \/ \E e \in Plain, a \in At(n + 1) :
       s = <<"next", e, a>> /\ NeedsNone(s) /\ Line(s) = <<"again", e, a>>
  \/ \E k \in Nat, a \in At(n + 1) :
       s = <<"left", k, a>> /\ NeedsNone(s) /\ Line(s) = <<"left", k, a>>

\* The chain of a switch whose first case needs the result of a command.
FirstNeeds(e, ss, d) ==
  \E c \in Command :
    /\ ss[1][1] = <<"cmd", c>>
    /\ Code(<<"switch", e, ss, d>>) = <<<<"eval", c>>, <<"chain", e, ss, d>>>>

\* A switch needs the command of its first case.
LEMMA SwitchNeeds ==
  ASSUME NEW n \in Nat, NEW e, NEW ss \in CasesAt(n), NEW d, ss # <<>>, IsCmd(ss[1][1])
  PROVE  FirstNeeds(e, ss, d)
BY SwitchTranslation, SMTT(30) DEF FirstNeeds

\* Every item has one of the forms that the steps go through.
LEMMA ItemForms ==
  ASSUME NEW n \in Nat, NEW s \in Item(n)
  PROVE  ItemForm(n, s)
<1>1. CASE s \in {"next"} \X Plain \X At(n + 1)
  <2>1. PICK e \in Plain, a \in At(n + 1) : s = <<"next", e, a>>
    BY <1>1
  <2>2. Code(s) = <<<<"again", e, a>>>>
    BY <2>1 DEF Code
  <2>3. NeedsNone(s) /\ Line(s) = <<"again", e, a>>
    BY <2>2, LineOf
  <2>4. QED
    BY <2>1, <2>3 DEF ItemForm
<1>2. CASE s \in {"left"} \X Nat \X At(n + 1)
  <2>1. PICK k \in Nat, a \in At(n + 1) : s = <<"left", k, a>>
    BY <1>2
  <2>2. Code(s) = <<<<"left", k, a>>>>
    BY <2>1 DEF Code
  <2>3. NeedsNone(s) /\ Line(s) = <<"left", k, a>>
    BY <2>2, LineOf
  <2>4. QED
    BY <2>1, <2>3 DEF ItemForm
<1>3. CASE s \in KeptStmt(Body, n)
  <2>1. CASE \E x \in Variable, c \in Command : s = <<"set", x, <<"cmd", c>>>>
    <3>1. PICK x \in Variable, c \in Command : s = <<"set", x, <<"cmd", c>>>>
      BY <2>1
    <3>2. Code(s) = <<<<"eval", c>>, <<"assign", x, <<"cmd", c>>>>>>
      BY <3>1, Translations DEF Code
    <3>3. Needs(s, c) /\ Line(s) = <<"assign", x, <<"cmd", c>>>>
      BY <3>2, LineOf
    <3>4. QED
      BY <3>1, <3>3 DEF ItemForm
  <2>2. CASE \E e \in Plain, a \in At(n), b \in At(n) : s = <<"if", e, a, b>>
    <3>1. PICK e \in Plain, a \in At(n), b \in At(n) : s = <<"if", e, a, b>>
      BY <2>2
    <3>2. Code(s) = <<<<"test", e, a, b>>>>
      BY <3>1, Translations, PlainIs DEF Code
    <3>3. NeedsNone(s) /\ Line(s) = <<"test", e, a, b>>
      BY <3>2, LineOf
    <3>4. QED
      BY <3>1, <3>3 DEF ItemForm
  <2>3. CASE \E c \in Command, a \in At(n) : s = <<"if", <<"cmd", c>>, a, <<>>>>
    <3>1. PICK c \in Command, a \in At(n) : s = <<"if", <<"cmd", c>>, a, <<>>>>
      BY <2>3
    <3>2. Code(s) = <<<<"eval", c>>, <<"test", <<"cmd", c>>, a, <<>>>>>>
      BY <3>1, Translations DEF Code
    <3>3. Needs(s, c) /\ Line(s) = <<"test", <<"cmd", c>>, a, <<>>>>
      BY <3>2, LineOf
    <3>4. QED
      BY <3>1, <3>3 DEF ItemForm
  <2>4. CASE \E e \in Plain, a \in At(n + 1) : s = <<"while", e, a>>
    <3>1. PICK e \in Plain, a \in At(n + 1) : s = <<"while", e, a>>
      BY <2>4
    <3>2. Code(s) = <<<<"while", e, a>>>>
      BY <3>1, Translations, PlainIs DEF Code
    <3>3. NeedsNone(s) /\ Line(s) = <<"while", e, a>>
      BY <3>2, LineOf
    <3>4. QED
      BY <3>1, <3>3 DEF ItemForm
  <2>5. CASE \E e \in Array, a \in At(n + 1) : s = <<"each", e, a>>
    <3>1. PICK e \in Array, a \in At(n + 1) : s = <<"each", e, a>>
      BY <2>5
    <3>2. Code(s) = <<<<"for", e, a>>>>
      BY <3>1, Translations, ArrayIs DEF Code
    <3>3. NeedsNone(s) /\ Line(s) = <<"for", e, a>>
      BY <3>2, LineOf
    <3>4. QED
      BY <3>1, <3>3 DEF ItemForm
  <2>6. CASE \E e \in Plain, ss \in CasesAt(n), d \in At(n) :
               s = <<"switch", e, ss, d>> /\ ss # <<>>
    <3>1. PICK e \in Plain, ss \in CasesAt(n), d \in At(n) :
                 s = <<"switch", e, ss, d>> /\ ss # <<>>
      BY <2>6
    <3>2. Code(s) = Code(<<"switch", e, ss, d>>)
      BY <3>1
    <3>3. CASE ss = <<>> \/ ~ IsCmd(ss[1][1])
      <4>1. Code(s) = <<<<"chain", e, ss, d>>>>
        BY <3>2, <3>3, SwitchTranslation
      <4>2. NeedsNone(s) /\ Line(s) = <<"chain", e, ss, d>>
        BY <4>1, LineOf
      <4>3. QED
        BY <3>1, <3>3, <4>2 DEF ItemForm
    <3>4. CASE ss # <<>> /\ IsCmd(ss[1][1])
      <4>1. PICK c \in Command :
                   /\ ss[1][1] = <<"cmd", c>>
                   /\ Code(<<"switch", e, ss, d>>) = <<<<"eval", c>>, <<"chain", e, ss, d>>>>
        <5>1. FirstNeeds(e, ss, d)
          BY <3>4, SwitchNeeds
        <5>2. QED
          BY <5>1 DEF FirstNeeds
      <4>2. Needs(s, c) /\ Line(s) = <<"chain", e, ss, d>>
        BY <3>2, <4>1, LineOf
      <4>3. QED
        BY <3>1, <3>4, <4>1, <4>2 DEF ItemForm
    <3>5. QED
      BY <3>3, <3>4
  <2>7. CASE \E k \in 1 .. n : s = <<"break", k>>
    <3>1. PICK k \in 1 .. n : s = <<"break", k>>
      BY <2>7
    <3>2. Code(s) = <<<<"break", k>>>>
      BY <3>1, Translations DEF Code
    <3>3. NeedsNone(s) /\ Line(s) = <<"break", k>>
      BY <3>2, LineOf
    <3>4. QED
      BY <3>1, <3>3 DEF ItemForm
  <2>8. CASE \E k \in 1 .. n : s = <<"continue", k>>
    <3>1. PICK k \in 1 .. n : s = <<"continue", k>>
      BY <2>8
    <3>2. Code(s) = <<<<"continue", k>>>>
      BY <3>1, Translations DEF Code
    <3>3. NeedsNone(s) /\ Line(s) = <<"continue", k>>
      BY <3>2, LineOf
    <3>4. QED
      BY <3>1, <3>3 DEF ItemForm
  <2>9. CASE s = <<"return">>
    <3>1. Code(s) = <<<<"return">>>>
      BY <2>9, Translations DEF Code
    <3>2. NeedsNone(s) /\ Line(s) = <<"return">>
      BY <3>1, LineOf
    <3>3. QED
      BY <2>9, <3>2 DEF ItemForm
  <2>10. QED
    BY <1>3, <2>1, <2>2, <2>3, <2>4, <2>5, <2>6, <2>7, <2>8, <2>9, StatementForms
<1>4. CASE s \in Rests(n)
  <2>1. PICK e \in Plain, ss \in CasesAt(n), d \in At(n) :
               s = <<"switch", e, ss, d>> /\ (ss = <<>> \/ ~ IsCmd(ss[1][1]))
    BY <1>4 DEF Rests
  <2>2. Code(s) = <<<<"chain", e, ss, d>>>>
    BY <2>1, SwitchTranslation
  <2>3. NeedsNone(s) /\ Line(s) = <<"chain", e, ss, d>>
    BY <2>2, LineOf
  <2>4. QED
    BY <2>1, <2>3 DEF ItemForm
<1>5. QED
  BY <1>1, <1>2, <1>3, <1>4 DEF Item, Loop

\* What an item's line means, and whether it is a loop under way.
LEMMA LineFacts ==
  ASSUME NEW n \in Nat, NEW s \in Item(n)
  PROVE  /\ NeedsNone(s) \/ \E c \in Command : Needs(s, c)
         /\ Meant(Line(s)) = <<s>>
         /\ Going(Line(s)) <=> Going(s)
         /\ Underway(Line(s)) <=> Going(s)
         /\ Sushi!Underway(s) <=> Going(s)
         /\ Line(s)[1] = "for" => ~ IsCmd(Line(s)[2])
         /\ Going(s) => NeedsNone(s)
<1>1. ItemForm(n, s)
  BY ItemForms
<1>2. NeedsNone(s) \/ \E c \in Command : Needs(s, c)
  BY <1>1 DEF ItemForm
<1>3. Meant(Line(s)) = <<s>>
  BY <1>1, Meanings DEF ItemForm
<1>4. /\ Going(Line(s)) <=> Going(s)
      /\ Underway(Line(s)) <=> Going(s)
      /\ Sushi!Underway(s) <=> Going(s)
  BY <1>1 DEF ItemForm, Going, Underway, Sushi!Underway
<1>5. Line(s)[1] = "for" => ~ IsCmd(Line(s)[2])
  BY <1>1, ArrayIs DEF ItemForm
<1>6. Going(s) => NeedsNone(s)
  BY <1>1 DEF ItemForm, Going
<1>7. QED
  BY <1>2, <1>3, <1>4, <1>5, <1>6

Lines == {Line(s) : s \in Items} \cup ({"eval"} \X Command)

CodeOf == [s \in Items |-> Code(s)]
MeantOf == [l \in Lines |-> Meant(l)]
Gen(t) == Joined(CodeOf, t)
MeantBy(code) == Joined(MeantOf, code)

\* The code of an item is lines, and what a line means is items.
LEMMA LinesFacts ==
         /\ \A s \in Items : Line(s) \in Lines
         /\ \A c \in Command : <<"eval", c>> \in Lines
         /\ \A l \in Lines : Meant(l) \in Seq(Items)
         /\ \A s \in Items : Code(s) \in Seq(Lines)
         /\ \A l \in Lines : Underway(l) <=> Going(l)
         /\ \A l \in Lines : l[1] = "for" => ~ IsCmd(l[2])
<1>1. \A s \in Items : Line(s) \in Lines
  BY DEF Lines
<1>2. \A c \in Command : <<"eval", c>> \in Lines
  BY DEF Lines
<1>3. \A s \in Items : \E n \in Nat : s \in Item(n)
  BY DEF Items
<1>4. ASSUME NEW l \in Lines
      PROVE  /\ Meant(l) \in Seq(Items)
             /\ Underway(l) <=> Going(l)
             /\ l[1] = "for" => ~ IsCmd(l[2])
  <2>1. CASE l \in {"eval"} \X Command
    <3>1. PICK c \in Command : l = <<"eval", c>>
      BY <2>1
    <3>2. Meant(l) = <<>>
      BY <3>1, Meanings
    <3>3. QED
      BY <3>1, <3>2 DEF Underway, Going
  <2>2. CASE \E s \in Items : l = Line(s)
    <3>1. PICK s \in Items : l = Line(s)
      BY <2>2
    <3>2. PICK n \in Nat : s \in Item(n)
      BY <1>3
    <3>3. /\ Meant(Line(s)) = <<s>>
          /\ Going(Line(s)) <=> Going(s)
          /\ Underway(Line(s)) <=> Going(s)
          /\ Line(s)[1] = "for" => ~ IsCmd(Line(s)[2])
      BY <3>2, LineFacts
    <3>4. <<s>> \in Seq(Items)
      BY Single
    <3>5. QED
      BY <3>1, <3>3, <3>4
  <2>3. QED
    BY <2>1, <2>2 DEF Lines
<1>5. ASSUME NEW s \in Items PROVE Code(s) \in Seq(Lines)
  <2>1. PICK n \in Nat : s \in Item(n)
    BY <1>3
  <2>2. NeedsNone(s) \/ \E c \in Command : Needs(s, c)
    BY <2>1, LineFacts
  <2>3. \A k \in Lines, l \in Lines : <<k, l>> \in Seq(Lines)
    OBVIOUS
  <2>4. QED
    BY <1>1, <1>2, <2>2, <2>3, Single DEF NeedsNone, Needs
<1>6. QED
  BY <1>1, <1>2, <1>4, <1>5

\* The same, as functions.
LEMMA Maps ==
  MapsInto(CodeOf, Items, Seq(Lines)) /\ MapsInto(MeantOf, Lines, Seq(Items))
<1>1. \A s \in Items : Code(s) \in Seq(Lines)
  BY LinesFacts
<1>2. \A l \in Lines : Meant(l) \in Seq(Items)
  BY LinesFacts
<1>3. QED
  BY <1>1, <1>2 DEF MapsInto, CodeOf, MeantOf

\* The code of a sequence of items.
LEMMA GenFacts ==
         /\ \A t \in Seq(Items) : Gen(t) \in Seq(Lines)
         /\ \A p, q \in Seq(Items) : Gen(p \o q) = Gen(p) \o Gen(q)
         /\ Gen(<<>>) = <<>> /\ MeantBy(<<>>) = <<>>
<1>1. MapsInto(CodeOf, Items, Seq(Lines))
  BY Maps
<1>2. \A t \in Seq(Items) : Gen(t) \in Seq(Lines)
  BY <1>1, JoinedType DEF Gen
<1>3. \A p, q \in Seq(Items) : Gen(p \o q) = Gen(p) \o Gen(q)
  BY <1>1, JoinedConcat DEF Gen
<1>4. QED
  BY <1>2, <1>3, JoinedNone DEF Gen, MeantBy

\* The code of the first item comes first.
LEMMA GenFirst ==
  ASSUME NEW s \in Items, NEW r \in Seq(Items)
  PROVE  /\ Gen(Cons(s, r)) = Code(s) \o Gen(r)
         /\ NeedsNone(s) => Gen(Cons(s, r)) = Cons(Line(s), Gen(r))
         /\ \A c : Needs(s, c) => Gen(Cons(s, r)) = Cons(<<"eval", c>>, Cons(Line(s), Gen(r)))
<1>1. MapsInto(CodeOf, Items, Seq(Lines))
  BY Maps
<1>2. Joined(CodeOf, Cons(s, r)) = CodeOf[s] \o Joined(CodeOf, r)
  BY <1>1, JoinedFronted
<1>3. Gen(Cons(s, r)) = Code(s) \o Gen(r)
  BY <1>2 DEF Gen, CodeOf
<1>4. ASSUME NeedsNone(s) PROVE Gen(Cons(s, r)) = Cons(Line(s), Gen(r))
  BY <1>3, <1>4 DEF NeedsNone, Cons
<1>5. ASSUME NEW c, Needs(s, c)
      PROVE  Gen(Cons(s, r)) = Cons(<<"eval", c>>, Cons(Line(s), Gen(r)))
  <2>1. PICK e, l, g : e = <<"eval", c>> /\ l = Line(s) /\ g = Gen(r)
    OBVIOUS
  <2>2. g \in Seq(Lines) /\ l \in Lines
    BY <2>1, GenFacts, LinesFacts
  <2>3. <<e>> \in Seq(Lines \cup {e}) /\ <<l>> \in Seq(Lines \cup {e}) /\ g \in Seq(Lines \cup {e})
    <3>1. g \in Seq(Lines \cup {e})
      BY <2>2, SeqMonotonic
    <3>2. QED
      BY <2>2, <3>1, Single
  <2>4. (<<e>> \o <<l>>) \o g = <<e>> \o (<<l>> \o g)
    BY <2>3, ConcatAssociative
  <2>5. <<e>> \o <<l>> = <<e, l>>
    BY Pairs
  <2>6. Code(s) = <<e, l>>
    BY <1>5, <2>1 DEF Needs
  <2>7. Gen(Cons(s, r)) = <<e, l>> \o g
    BY <1>3, <2>1, <2>6
  <2>8. QED
    BY <2>1, <2>4, <2>5, <2>7 DEF Cons
<1>6. QED
  BY <1>3, <1>4, <1>5

\* What a line adds to what is meant.
LEMMA MeantFirst ==
  ASSUME NEW l \in Lines, NEW g \in Seq(Lines)
  PROVE  MeantBy(Cons(l, g)) = Meant(l) \o MeantBy(g) /\ MeantBy(g) \in Seq(Items)
<1>1. MapsInto(MeantOf, Lines, Seq(Items))
  BY Maps
<1>2. Joined(MeantOf, Cons(l, g)) = MeantOf[l] \o Joined(MeantOf, g)
  BY <1>1, JoinedFronted
<1>3. MeantBy(g) \in Seq(Items)
  BY <1>1, JoinedType DEF MeantBy
<1>4. QED
  BY <1>2, <1>3 DEF MeantBy, MeantOf

\* The code of a sequence means the sequence, and has as many loops under way.
LEMMA MeantGen ==
  ASSUME NEW t \in Seq(Items)
  PROVE  MeantBy(Gen(t)) = t /\ Total(Gen(t)) = Total(t)
<1> DEFINE P == {m \in Nat : \A u \in Seq(Items) :
                   Len(u) = m => MeantBy(Gen(u)) = u /\ Total(Gen(u)) = Total(u)}
<1>1. 0 \in P
  <2>1. \A u \in Seq(Items) : Len(u) = 0 => u = <<>>
    BY EmptySeq
  <2>2. QED
    BY <2>1, GenFacts
<1>2. ASSUME NEW m \in Nat, m \in P PROVE m + 1 \in P
  <2>1. SUFFICES ASSUME NEW u \in Seq(Items), Len(u) = m + 1
                 PROVE  MeantBy(Gen(u)) = u /\ Total(Gen(u)) = Total(u)
    OBVIOUS
  <2>2. u # <<>>
    BY <2>1
  <2>3. PICK s \in Items, r \in Seq(Items) : u = Cons(s, r) /\ Len(r) = m
    <3>1. /\ u[1] \in Items /\ Tail(u) \in Seq(Items) /\ u = Cons(u[1], Tail(u))
          /\ Len(Tail(u)) = Len(u) - 1
      BY <2>2, Unfronted
    <3>2. Len(Tail(u)) = m
      BY <2>1, <3>1
    <3>3. QED
      BY <3>1, <3>2
  <2>4. MeantBy(Gen(r)) = r /\ Total(Gen(r)) = Total(r)
    BY <1>2, <2>3
  <2>5. PICK n \in Nat : s \in Item(n)
    BY DEF Items
  <2>6. Gen(r) \in Seq(Lines) /\ Line(s) \in Lines
    BY GenFacts, LinesFacts
  <2>7. Cons(Line(s), Gen(r)) \in Seq(Lines)
    BY <2>6, Fronted
  <2>8. MeantBy(Cons(Line(s), Gen(r))) = Cons(s, r)
    <3>1. MeantBy(Cons(Line(s), Gen(r))) = Meant(Line(s)) \o MeantBy(Gen(r))
      BY <2>6, MeantFirst
    <3>2. Meant(Line(s)) = <<s>>
      BY <2>5, LineFacts
    <3>3. QED
      BY <2>4, <3>1, <3>2 DEF Cons
  <2>9. Total(Cons(Line(s), Gen(r))) = Total(Cons(s, r))
    <3>1. Total(Cons(Line(s), Gen(r))) = (IF Going(Line(s)) THEN 1 ELSE 0) + Total(Gen(r))
      BY <2>6, TotalFirst
    <3>2. Total(Cons(s, r)) = (IF Going(s) THEN 1 ELSE 0) + Total(r)
      BY TotalFirst
    <3>3. Going(Line(s)) <=> Going(s)
      BY <2>5, LineFacts
    <3>4. QED
      BY <2>4, <3>1, <3>2, <3>3
  <2>10. CASE NeedsNone(s)
    <3>1. Gen(u) = Cons(Line(s), Gen(r))
      BY <2>3, <2>10, GenFirst
    <3>2. QED
      BY <2>3, <2>8, <2>9, <3>1
  <2>11. CASE \E c \in Command : Needs(s, c)
    <3>1. PICK c \in Command : Needs(s, c)
      BY <2>11
    <3>2. PICK g \in Seq(Lines) : g = Cons(Line(s), Gen(r))
      BY <2>7
    <3>3. Gen(u) = Cons(<<"eval", c>>, g)
      BY <2>3, <3>1, <3>2, GenFirst
    <3>4. <<"eval", c>> \in Lines
      BY LinesFacts
    <3>5. MeantBy(Gen(u)) = u
      <4>1. MeantBy(Cons(<<"eval", c>>, g)) = Meant(<<"eval", c>>) \o MeantBy(g)
        BY <3>4, MeantFirst
      <4>2. Meant(<<"eval", c>>) = <<>>
        BY Meanings
      <4>3. <<>> \o u = u
        BY ConcatEmptySeq
      <4>4. QED
        BY <2>3, <2>8, <3>2, <3>3, <4>1, <4>2, <4>3
    <3>6. Total(Gen(u)) = Total(u)
      <4>1. /\ Total(Cons(<<"eval", c>>, g))
                 = (IF Going(<<"eval", c>>) THEN 1 ELSE 0) + Total(g)
            /\ Total(g) \in Nat
        BY <3>4, TotalFirst
      <4>2. ~ Going(<<"eval", c>>)
        BY DEF Going
      <4>3. QED
        BY <2>3, <2>9, <3>2, <3>3, <4>1, <4>2
    <3>7. QED
      BY <3>5, <3>6
  <2>12. NeedsNone(s) \/ \E c \in Command : Needs(s, c)
    BY <2>5, LineFacts
  <2>13. QED
    BY <2>10, <2>11, <2>12
<1>3. Len(t) \in P
  <2> HIDE DEF P
  <2>1. QED
    BY <1>1, <1>2, AllNumbers, LenProperties
<1>4. QED
  BY <1>3

-----------------------------------------------------------------------------
(***************************************************************************)
(* Each item where it may be: with the loops around it that come after.    *)
(***************************************************************************)
Placed(t) ==
  /\ t \in Seq(Items)
  /\ \A i \in 1 .. Len(t) : t[i] \in Item(Total(t) - Count(t, i))

\* Nothing is placed.
LEMMA PlacedNone == Placed(<<>>)
BY DEF Placed

\* Items placed for the loops behind them may be put in front of those.
LEMMA PlacedConcat ==
  ASSUME NEW p \in Seq(Items), NEW r, Placed(r),
         \A i \in 1 .. Len(p) : p[i] \in Item(Total(p) + Total(r) - Count(p, i))
  PROVE  Placed(p \o r)
<1>1. r \in Seq(Items) /\ \A i \in 1 .. Len(r) : r[i] \in Item(Total(r) - Count(r, i))
  BY DEF Placed
<1>2. PICK t : t = p \o r
  OBVIOUS
<1>3. /\ t \in Seq(Items) /\ Len(t) = Len(p) + Len(r)
      /\ \A i \in 1 .. Len(p) + Len(r) : t[i] = IF i <= Len(p) THEN p[i] ELSE r[i - Len(p)]
  BY <1>1, <1>2, ConcatProperties
<1>4. /\ Len(p) \in Nat /\ Len(r) \in Nat
      /\ \A i \in 0 .. Len(p) : Count(t, i) = Count(p, i)
      /\ \A i \in 0 .. Len(r) : Count(t, Len(p) + i) = Total(p) + Count(r, i)
      /\ Total(t) = Total(p) + Total(r) /\ Total(p) \in Nat /\ Total(r) \in Nat
  BY <1>1, <1>2, CountConcat
<1>5. ASSUME NEW i \in 1 .. Len(t) PROVE t[i] \in Item(Total(t) - Count(t, i))
  <2>1. CASE i <= Len(p)
    <3>1. i \in 1 .. Len(p) /\ i \in 0 .. Len(p) /\ i \in 1 .. Len(p) + Len(r)
      BY <1>3, <1>4, <2>1
    <3>2. t[i] = p[i] /\ Count(t, i) = Count(p, i)
      BY <1>3, <1>4, <2>1, <3>1
    <3>3. p[i] \in Item(Total(p) + Total(r) - Count(p, i))
      BY <3>1
    <3>4. Total(t) - Count(t, i) = Total(p) + Total(r) - Count(p, i)
      <4>1. Total(t) = Total(p) + Total(r)
        BY <1>4
      <4>2. Count(t, i) = Count(p, i)
        BY <3>2
      <4>3. Count(p, i) \in Nat /\ Total(p) \in Nat /\ Total(r) \in Nat
        BY <1>4, <3>1, CountFrom
      <4>4. QED
        BY <4>1, <4>2, <4>3
    <3>5. QED
      BY <3>2, <3>3, <3>4
  <2>2. CASE ~ (i <= Len(p))
    <3>1. PICK j \in 1 .. Len(r) : j = i - Len(p) /\ Len(p) + j = i
      BY <1>3, <1>4, <2>2
    <3>2. j \in 0 .. Len(r) /\ i \in 1 .. Len(p) + Len(r)
      BY <1>3, <1>4
    <3>3. t[i] = r[j] /\ Count(t, i) = Total(p) + Count(r, j)
      BY <1>3, <1>4, <2>2, <3>1, <3>2
    <3>4. r[j] \in Item(Total(r) - Count(r, j))
      BY <1>1
    <3>5. Total(t) - Count(t, i) = Total(r) - Count(r, j)
      <4>1. j \in Nat /\ Count(r, j) \in Nat
        BY <1>4, <3>2, CountFrom
      <4>2. QED
        BY <1>4, <3>3, <4>1
    <3>6. QED
      BY <3>3, <3>4, <3>5
  <2>3. QED
    BY <2>1, <2>2
<1>6. QED
  BY <1>2, <1>3, <1>5 DEF Placed

\* What is behind a prefix is placed, and so is the last item of the prefix.
LEMMA PlacedRest ==
  ASSUME NEW p \in Seq(Items), NEW r \in Seq(Items), Placed(p \o r)
  PROVE  /\ Placed(r)
         /\ Len(p) # 0 => p[Len(p)] \in Item(Total(r))
<1>1. PICK t : t = p \o r
  OBVIOUS
<1>2. /\ t \in Seq(Items) /\ Len(t) = Len(p) + Len(r)
      /\ \A i \in 1 .. Len(p) + Len(r) : t[i] = IF i <= Len(p) THEN p[i] ELSE r[i - Len(p)]
  BY <1>1, ConcatProperties
<1>3. /\ Len(p) \in Nat /\ Len(r) \in Nat
      /\ \A i \in 0 .. Len(p) : Count(t, i) = Count(p, i)
      /\ \A i \in 0 .. Len(r) : Count(t, Len(p) + i) = Total(p) + Count(r, i)
      /\ Total(t) = Total(p) + Total(r) /\ Total(p) \in Nat /\ Total(r) \in Nat
  BY <1>1, CountConcat
<1>4. \A i \in 1 .. Len(t) : t[i] \in Item(Total(t) - Count(t, i))
  BY <1>1 DEF Placed
<1>5. ASSUME NEW j \in 1 .. Len(r) PROVE r[j] \in Item(Total(r) - Count(r, j))
  <2>1. PICK i \in 1 .. Len(p) + Len(r) : i = Len(p) + j /\ ~ (i <= Len(p)) /\ i - Len(p) = j
    BY <1>3
  <2>2. j \in 0 .. Len(r) /\ j \in Nat
    BY <1>3
  <2>3. t[i] = r[j] /\ Count(t, i) = Total(p) + Count(r, j)
    BY <1>2, <1>3, <2>1, <2>2
  <2>4. Total(t) - Count(t, i) = Total(r) - Count(r, j)
    <3>1. Count(r, j) \in Nat
      BY <2>2, CountFrom
    <3>2. QED
      BY <1>3, <2>3, <3>1
  <2>5. t[i] \in Item(Total(t) - Count(t, i))
    BY <1>2, <1>4
  <2>6. QED
    BY <2>3, <2>4, <2>5
<1>6. ASSUME Len(p) # 0 PROVE p[Len(p)] \in Item(Total(r))
  <2>1. PICK i \in 1 .. Len(p) + Len(r) : i = Len(p) /\ i \in 0 .. Len(p)
    BY <1>3, <1>6
  <2>2. t[i] = p[i] /\ Count(t, i) = Total(p)
    BY <1>2, <1>3, <2>1 DEF Total
  <2>3. t[i] \in Item(Total(t) - Count(t, i))
    BY <1>2, <1>4
  <2>4. Total(t) - Count(t, i) = Total(r)
    BY <1>3, <2>2
  <2>5. QED
    BY <2>1, <2>2, <2>3, <2>4
<1>7. QED
  BY <1>5, <1>6 DEF Placed

\* One item in front.
LEMMA PlacedFirst ==
  ASSUME NEW s \in Items, NEW r \in Seq(Items), Placed(Cons(s, r))
  PROVE  Placed(r) /\ s \in Item(Total(r)) /\ Total(r) \in Nat
<1>1. PICK p \in Seq(Items) : p = <<s>>
  BY Single
<1>2. Len(p) = 1 /\ p[1] = s
  BY <1>1
<1>3. Placed(p \o r)
  BY <1>1 DEF Cons
<1>4. Placed(r) /\ (Len(p) # 0 => p[Len(p)] \in Item(Total(r)))
  BY <1>3, PlacedRest
<1>5. Total(r) \in Nat
  BY TotalFirst
<1>6. QED
  BY <1>2, <1>4, <1>5

\* An item put in front of placed ones.
LEMMA PlacedItem ==
  ASSUME NEW r, Placed(r), NEW s \in Item(Total(r))
  PROVE  Placed(Cons(s, r)) /\ s \in Items /\ r \in Seq(Items) /\ Total(r) \in Nat
<1>1. r \in Seq(Items)
  BY DEF Placed
<1>2. Total(r) \in Nat
  BY <1>1, CountFrom, LenProperties DEF Total
<1>3. s \in Items
  BY <1>2 DEF Items
<1>4. PICK p \in Seq(Items) : p = <<s>>
  BY <1>3, Single
<1>5. Len(p) = 1 /\ p[1] = s /\ Total(p) = Count(p, 1) /\ Total(p) \in Nat
  BY <1>4, CountFrom DEF Total
<1>6. \A i \in 1 .. Len(p) : p[i] \in Item(Total(p) + Total(r) - Count(p, i))
  BY <1>2, <1>5
<1>7. Placed(p \o r)
  BY <1>6, PlacedConcat
<1>8. QED
  BY <1>1, <1>2, <1>3, <1>4, <1>7 DEF Cons

\* A body has no loop under way, and goes where there are as many around.
LEMMA BodyFacts ==
  ASSUME KeptPrograms(Body), NEW n \in Nat, NEW b \in At(n)
  PROVE  /\ b \in Seq(Items) /\ Total(b) = 0
         /\ \A i \in 1 .. Len(b) : Count(b, i) = 0 /\ b[i] \in KeptStmt(Body, n)
         /\ Gen(b) = GenCode(b)
<1>1. b = <<>> \/ (n \in DOMAIN Body /\ b \in Body[n])
  BY DEF At, BodiesAt
<1>2. b \in Seq(KeptStmt(Body, n))
  <2>1. <<>> \in Seq(KeptStmt(Body, n))
    OBVIOUS
  <2>2. n \in DOMAIN Body /\ b \in Body[n] => b \in Seq(KeptStmt(Body, n))
    BY DEF KeptPrograms
  <2>3. QED
    BY <1>1, <2>1, <2>2
<1>3. KeptStmt(Body, n) \subseteq Items
  BY DEF Items, Item
<1>4. b \in Seq(Items)
  BY <1>2, <1>3, SeqMonotonic
<1>5. /\ Len(b) \in Nat /\ DOMAIN b = 1 .. Len(b)
      /\ \A i \in 1 .. Len(b) : b[i] \in KeptStmt(Body, n)
  BY <1>2, LenProperties
<1>6. \A s \in KeptStmt(Body, n) : ~ Going(s) /\ Code(s) = Translation(s) /\ s \in Items
  <2>1. ASSUME NEW s \in KeptStmt(Body, n)
        PROVE  ~ Going(s) /\ Code(s) = Translation(s)
    <3>1. s[1] \notin {"next", "left", "again"} /\ ~ (s[1] = "switch" /\ s[3] = <<>>)
      BY StatementForms
    <3>2. QED
      BY <3>1 DEF Going, Code
  <2>2. QED
    BY <1>3, <2>1
<1>7. \A i \in 1 .. Len(b) : ~ Going(b[i])
  BY <1>5, <1>6
<1>8. \A i \in 0 .. Len(b) : Count(b, i) = 0
  <2>1. \A i \in 0 .. Len(b) : GoingUpTo(b, i) = {}
    BY <1>5, <1>7 DEF GoingUpTo
  <2>2. QED
    BY <2>1, FS_EmptySet DEF Count
<1>9. Total(b) = 0
  BY <1>5, <1>8 DEF Total
<1>10. Gen(b) = GenCode(b)
  <2>1. \A i \in DOMAIN b : CodeOf[b[i]] = Translation(b[i])
    BY <1>5, <1>6 DEF CodeOf
  <2>2. [i \in DOMAIN b |-> CodeOf[b[i]]] = [i \in DOMAIN b |-> Translation(b[i])]
    BY <2>1
  <2>3. QED
    BY <2>2 DEF Gen, Joined, Mapping, GenCode
<1>11. QED
  BY <1>4, <1>5, <1>8, <1>9, <1>10

\* A body put in front of placed items, with its code.
LEMMA PlacedBody ==
  ASSUME KeptPrograms(Body), NEW r, Placed(r), NEW b \in At(Total(r))
  PROVE  Placed(b \o r) /\ Gen(b \o r) = GenCode(b) \o Gen(r)
<1>1. r \in Seq(Items) /\ Total(r) \in Nat
  BY CountFrom, LenProperties DEF Placed, Total
<1>2. /\ b \in Seq(Items) /\ Total(b) = 0
      /\ \A i \in 1 .. Len(b) : Count(b, i) = 0 /\ b[i] \in KeptStmt(Body, Total(r))
      /\ Gen(b) = GenCode(b)
  BY <1>1, BodyFacts
<1>3. \A i \in 1 .. Len(b) : b[i] \in Item(Total(b) + Total(r) - Count(b, i))
  <2>1. \A i \in 1 .. Len(b) : Total(b) + Total(r) - Count(b, i) = Total(r)
    BY <1>1, <1>2
  <2>2. QED
    BY <1>2, <2>1 DEF Item
<1>4. Placed(b \o r)
  BY <1>2, <1>3, PlacedConcat
<1>5. QED
  BY <1>1, <1>2, <1>4, GenFacts

-----------------------------------------------------------------------------
(***************************************************************************)
(* Between two lines the script is the code of what is to be done, or that *)
(* of what is to be done after a line whose command has just run.          *)
(***************************************************************************)
Pending(s, c, r) ==
  /\ s \in Item(Total(r)) /\ Needs(s, c) /\ c \in Command
  /\ script = Cons(Line(s), Gen(r))
  /\ temps[c] \in Truth

ScriptInv ==
  /\ store \in [Variable -> Truth]
  /\ temps \in [Command -> Nat]
  /\ \E t : Placed(t) /\ (script = Gen(t) \/ \E s, c : Pending(s, c, t))

\* The first line of a script and the others.
LEMMA FrontedLine ==
  \A l \in Lines, g \in Seq(Lines) :
    Cons(l, g) # <<>> /\ Cons(l, g)[1] = l /\ Tail(Cons(l, g)) = g
BY Fronted

\* What a script means that begins with the line l.
LEMMA ScriptFirst ==
  ASSUME NEW l \in Lines, NEW g \in Seq(Lines), script = Cons(l, g)
  PROVE  /\ script # <<>> /\ script[1] = l /\ Rest = g
         /\ MeantTodo = Settled(l) \o MeantBy(g)
         /\ l[1] # "assign" => MeantStore = store
         /\ l[1] = "assign" => MeantStore = [store EXCEPT ![l[2]] = ValueOf(l[3])]
<1>1. /\ Cons(l, g) # <<>> /\ Cons(l, g)[1] = l /\ Tail(Cons(l, g)) = g
  BY FrontedLine
<1>2. script # <<>> /\ script[1] = l /\ Rest = g
  BY <1>1 DEF Rest
<1>3. [i \in DOMAIN Rest |-> Meant(Rest[i])] = Mapping(MeantOf, g)
  <2>1. \A i \in DOMAIN g : g[i] \in Lines
    OBVIOUS
  <2>2. \A i \in DOMAIN g : MeantOf[g[i]] = Meant(g[i])
    BY <2>1 DEF MeantOf
  <2>3. [i \in DOMAIN g |-> Meant(g[i])] = [i \in DOMAIN g |-> MeantOf[g[i]]]
    BY <2>2
  <2>4. QED
    BY <1>2, <2>3 DEF Mapping
<1>4. MeantTodo = Settled(l) \o MeantBy(g)
  BY <1>2, <1>3 DEF MeantTodo, MeantBy, Joined
<1>5. Now("assign") <=> l[1] = "assign"
  BY <1>2 DEF Now
<1>6. QED
  BY <1>2, <1>4, <1>5 DEF MeantStore

\* What a script means once the step has left it with this first line.
LEMMA ScriptFirstNext ==
  ASSUME NEW l \in Lines, NEW g \in Seq(Lines), script' = Cons(l, g)
  PROVE  /\ MeantTodo' = Settled(l)' \o MeantBy(g)
         /\ l[1] # "assign" => MeantStore' = store'
         /\ l[1] = "assign" => MeantStore' = [store' EXCEPT ![l[2]] = ValueOf(l[3])']
<1>1. /\ Cons(l, g) # <<>> /\ Cons(l, g)[1] = l /\ Tail(Cons(l, g)) = g
  BY FrontedLine
<1>2. script' # <<>> /\ script'[1] = l /\ Rest' = g
  BY <1>1 DEF Rest
<1>3. [i \in DOMAIN g |-> Meant(g[i])] = Mapping(MeantOf, g)
  <2>1. \A i \in DOMAIN g : g[i] \in Lines
    OBVIOUS
  <2>2. \A i \in DOMAIN g : MeantOf[g[i]] = Meant(g[i])
    BY <2>1 DEF MeantOf
  <2>3. QED
    BY <2>2 DEF Mapping
<1>4. MeantTodo' = Settled(l)' \o FlattenSeq([i \in DOMAIN g |-> Meant(g[i])])
  BY <1>2 DEF MeantTodo
<1>5. MeantTodo' = Settled(l)' \o MeantBy(g)
  BY <1>3, <1>4 DEF MeantBy, Joined
<1>6. Now("assign")' <=> l[1] = "assign"
  BY <1>2 DEF Now
<1>7. QED
  BY <1>2, <1>5, <1>6 DEF MeantStore

\* A line that needs no result is not settled before it runs.
Unneeding(l) ==
  /\ l[1] # "assign"
  /\ l[1] \in {"test", "while", "for"} => ~ IsCmd(l[2])
  /\ l[1] = "chain" /\ l[3] # <<>> => ~ IsCmd(l[3][1][1])

\* A line that needs no result settles to what it means.
LEMMA SettledPlain ==
  ASSUME NEW l, Unneeding(l)
  PROVE  Settled(l) = Meant(l)
BY DEF Settled, Unneeding

\* So it does after a step.
LEMMA SettledPlainNext ==
  ASSUME NEW CONSTANT l, Unneeding(l)
  PROVE  Settled(l)' = Meant(l)
BY DEF Settled, Unneeding

\* The first line of the code of placed items needs no result that is there already.
LEMMA FirstLine ==
  ASSUME NEW t, Placed(t), t # <<>>
  PROVE  \E l \in Lines, g \in Seq(Lines) : Gen(t) = Cons(l, g) /\ Unneeding(l)
<1>1. t \in Seq(Items)
  BY DEF Placed
<1>2. PICK s \in Items, r \in Seq(Items) : t = Cons(s, r)
  BY <1>1, Unfronted
<1>3. s \in Item(Total(r)) /\ Total(r) \in Nat
  BY <1>2, PlacedFirst
<1>4. ItemForm(Total(r), s)
  BY <1>3, ItemForms
<1>5. Line(s) \in Lines /\ Gen(r) \in Seq(Lines) /\ \A c \in Command : <<"eval", c>> \in Lines
  BY GenFacts, LinesFacts
<1>6. CASE NeedsNone(s)
  <2>1. Gen(t) = Cons(Line(s), Gen(r))
    BY <1>2, <1>6, GenFirst
  <2>2. \A c : ~ Needs(s, c)
    BY <1>6 DEF NeedsNone, Needs
  <2>3. Unneeding(Line(s))
    BY <1>4, <2>2, PlainIs, ArrayIs DEF ItemForm, Unneeding
  <2>4. QED
    BY <1>5, <2>1, <2>3
<1>7. CASE \E c \in Command : Needs(s, c)
  <2>1. PICK c \in Command : Needs(s, c)
    BY <1>7
  <2>2. Gen(t) = Cons(<<"eval", c>>, Cons(Line(s), Gen(r)))
    BY <1>2, <2>1, GenFirst
  <2>3. Unneeding(<<"eval", c>>)
    BY DEF Unneeding
  <2>4. Cons(Line(s), Gen(r)) \in Seq(Lines)
    BY <1>5, Fronted
  <2>5. QED
    BY <1>5, <2>2, <2>3, <2>4
<1>8. QED
  BY <1>3, <1>6, <1>7, LineFacts

\* What a script means that is the code of t, and one after a line.
LEMMA MeantFresh ==
  ASSUME NEW t, Placed(t), script = Gen(t)
  PROVE  MeantTodo = t /\ MeantStore = store
<1>1. t \in Seq(Items) /\ MeantBy(Gen(t)) = t
  BY MeantGen DEF Placed
<1>2. CASE t = <<>>
  <2>1. script = <<>>
    BY <1>2, GenFacts
  <2>2. QED
    BY <1>2, <2>1 DEF MeantTodo, MeantStore, Now
<1>3. CASE t # <<>>
  <2>1. PICK l \in Lines, g \in Seq(Lines) :
          Gen(t) = Cons(l, g) /\ Unneeding(l)
    BY <1>3, FirstLine
  <2>2. MeantTodo = Settled(l) \o MeantBy(g) /\ MeantStore = store
    BY <2>1, ScriptFirst DEF Unneeding
  <2>3. MeantBy(Cons(l, g)) = Meant(l) \o MeantBy(g)
    BY MeantFirst
  <2>4. Settled(l) = Meant(l)
    BY <2>1, SettledPlain
  <2>5. QED
    BY <1>1, <2>1, <2>2, <2>3, <2>4
<1>4. QED
  BY <1>2, <1>3

\* A script that is the code of placed items means those items.
LEMMA MeantFreshNext ==
  ASSUME NEW t, Placed(t), script' = Gen(t)
  PROVE  MeantTodo' = t /\ MeantStore' = store'
<1>1. t \in Seq(Items) /\ MeantBy(Gen(t)) = t
  BY MeantGen DEF Placed
<1>2. CASE t = <<>>
  <2>1. script' = <<>>
    BY <1>2, GenFacts
  <2>2. QED
    BY <1>2, <2>1 DEF MeantTodo, MeantStore, Now
<1>3. CASE t # <<>>
  <2>1. PICK l \in Lines, g \in Seq(Lines) :
          Gen(t) = Cons(l, g) /\ Unneeding(l)
    BY <1>3, FirstLine
  <2>2. MeantTodo' = Settled(l)' \o MeantBy(g) /\ MeantStore' = store'
    BY <2>1, ScriptFirstNext DEF Unneeding
  <2>3. MeantBy(Cons(l, g)) = Meant(l) \o MeantBy(g)
    BY MeantFirst
  <2>4. Settled(l)' = Meant(l)
    BY <2>1, SettledPlainNext
  <2>5. QED
    BY <1>1, <2>1, <2>2, <2>3, <2>4
<1>4. QED
  BY <1>2, <1>3

-----------------------------------------------------------------------------
(***************************************************************************)
(* One line runs.                                                          *)
(***************************************************************************)
LEMMA WhichLine ==
  ASSUME Next
  PROVE  /\ script # <<>>
         /\ script[1][1] = "eval" => Eval
         /\ script[1][1] = "assign" => Assign
         /\ script[1][1] = "test" => Test
         /\ script[1][1] \in {"while", "again"} => While
         /\ script[1][1] = "for" => For
         /\ script[1][1] = "left" => Iterate
         /\ script[1][1] = "chain" => Chain
         /\ script[1][1] = "break" => Break
         /\ script[1][1] = "continue" => Continue
         /\ script[1][1] = "return" => Return
BY DEF Next, Eval, Assign, Test, While, For, Iterate, Chain, Break, Continue, Return, Now

\* The value of an expression, by its form.
LEMMA ValueIs ==
  /\ \A c : ValueOf(<<"cmd", c>>) = temps[c]
  /\ \A e \in Plain : ValueOf(e) = IF e[1] = "var" THEN store[e[2]] ELSE e[2]
  /\ store \in [Variable -> Truth] => \A e \in Plain : ValueOf(e) \in Truth
<1>1. \A c : ValueOf(<<"cmd", c>>) = temps[c]
  BY DEF ValueOf
<1>2. /\ \A x : ValueOf(<<"var", x>>) = store[x]
      /\ \A v : ValueOf(<<"val", v>>) = v
  BY DEF ValueOf
<1>3. ASSUME NEW e \in Plain
      PROVE  /\ ValueOf(e) = IF e[1] = "var" THEN store[e[2]] ELSE e[2]
             /\ store \in [Variable -> Truth] => ValueOf(e) \in Truth
  <2>1. CASE \E x \in Variable : e = <<"var", x>>
    BY <1>2, <2>1
  <2>2. CASE \E v \in Truth : e = <<"val", v>>
    BY <1>2, <2>2
  <2>3. QED
    BY <2>1, <2>2, PlainIs
<1>4. QED
  BY <1>1, <1>3

\* The value of an expression after a step.
LEMMA ValueNext ==
  /\ \A c : ValueOf(<<"cmd", c>>)' = temps'[c]
  /\ store' = store => \A e \in Plain : ValueOf(e)' = ValueOf(e)
<1>1. \A c : ValueOf(<<"cmd", c>>)' = temps'[c]
  BY DEF ValueOf
<1>2. /\ \A x : ValueOf(<<"var", x>>)' = store'[x] /\ ValueOf(<<"var", x>>) = store[x]
      /\ \A v : ValueOf(<<"val", v>>)' = v /\ ValueOf(<<"val", v>>) = v
  BY DEF ValueOf
<1>3. ASSUME store' = store, NEW CONSTANT e \in Plain PROVE ValueOf(e)' = ValueOf(e)
  <2>1. CASE \E x \in Variable : e = <<"var", x>>
    BY <1>2, <1>3, <2>1
  <2>2. CASE \E v \in Truth : e = <<"val", v>>
    BY <1>2, <2>2
  <2>3. QED
    BY <2>1, <2>2, PlainIs
<1>4. QED
  BY <1>1, <1>3

\* What a line means whose command has run.
LEMMA SettledForms ==
  /\ \A x, c : Settled(<<"assign", x, <<"cmd", c>>>>) = <<>>
  /\ \A c, a : Settled(<<"test", <<"cmd", c>>, a, <<>>>>) = IF temps[c] # 0 THEN a ELSE <<>>
  /\ \A e, ss, d, c :
       ss # <<>> /\ ss[1][1] = <<"cmd", c>> =>
         Settled(<<"chain", e, ss, d>>)
           = IF temps[c] = ValueOf(e) THEN ss[1][2] ELSE <<<<"switch", e, Tail(ss), d>>>>
<1>1. \A c : IsCmd(<<"cmd", c>>) /\ ValueOf(<<"cmd", c>>) = temps[c]
  BY ValueIs DEF IsCmd
<1>2. \A x, c : Settled(<<"assign", x, <<"cmd", c>>>>) = <<>>
  BY <1>1 DEF Settled
<1>3. \A c, a : Settled(<<"test", <<"cmd", c>>, a, <<>>>>) = IF temps[c] # 0 THEN a ELSE <<>>
  BY <1>1 DEF Settled
<1>4. ASSUME NEW e, NEW ss, NEW d, NEW c, ss # <<>>, ss[1][1] = <<"cmd", c>>
      PROVE  Settled(<<"chain", e, ss, d>>)
               = IF temps[c] = ValueOf(e) THEN ss[1][2] ELSE <<<<"switch", e, Tail(ss), d>>>>
  <2>1. [<<"chain", e, ss, d>> EXCEPT ![1] = "switch", ![3] = Tail(@)]
          = <<"switch", e, Tail(ss), d>>
    OBVIOUS
  <2>2. Settled(<<"chain", e, ss, d>>)
          = IF ValueOf(ss[1][1]) = ValueOf(e) THEN ss[1][2]
            ELSE <<[<<"chain", e, ss, d>> EXCEPT ![1] = "switch", ![3] = Tail(@)]>>
    BY <1>1, <1>4 DEF Settled
  <2>3. QED
    BY <1>1, <1>4, <2>1, <2>2
<1>5. QED
  BY <1>2, <1>3, <1>4

\* What a line settles to once the command before it has run.
LEMMA SettledFormsNext ==
  /\ \A x, c : Settled(<<"assign", x, <<"cmd", c>>>>)' = <<>>
  /\ \A c, a : Settled(<<"test", <<"cmd", c>>, a, <<>>>>)' = IF temps'[c] # 0 THEN a ELSE <<>>
  /\ \A e, ss, d, c :
       ss # <<>> /\ ss[1][1] = <<"cmd", c>> =>
         Settled(<<"chain", e, ss, d>>)'
           = IF temps'[c] = ValueOf(e)' THEN ss[1][2] ELSE <<<<"switch", e, Tail(ss), d>>>>
<1>1. \A c : IsCmd(<<"cmd", c>>) /\ ValueOf(<<"cmd", c>>)' = temps'[c]
  BY ValueNext DEF IsCmd
<1>2. \A x, c : Settled(<<"assign", x, <<"cmd", c>>>>)' = <<>>
  BY <1>1 DEF Settled
<1>3. \A c, a : Settled(<<"test", <<"cmd", c>>, a, <<>>>>)' = IF temps'[c] # 0 THEN a ELSE <<>>
  BY <1>1 DEF Settled
<1>4. ASSUME NEW CONSTANT e, NEW CONSTANT ss, NEW CONSTANT d, NEW CONSTANT c,
             ss # <<>>, ss[1][1] = <<"cmd", c>>
      PROVE  Settled(<<"chain", e, ss, d>>)'
               = IF temps'[c] = ValueOf(e)' THEN ss[1][2] ELSE <<<<"switch", e, Tail(ss), d>>>>
  <2>1. [<<"chain", e, ss, d>> EXCEPT ![1] = "switch", ![3] = Tail(@)]
          = <<"switch", e, Tail(ss), d>>
    OBVIOUS
  <2>2. Settled(<<"chain", e, ss, d>>)'
          = IF ValueOf(ss[1][1])' = ValueOf(e)' THEN ss[1][2]
            ELSE <<[<<"chain", e, ss, d>> EXCEPT ![1] = "switch", ![3] = Tail(@)]>>
    BY <1>1, <1>4 DEF Settled
  <2>3. QED
    BY <1>1, <1>4, <2>1, <2>2
<1>5. QED
  BY <1>2, <1>3, <1>4

\* The script is the code of u again, or has run the command of the line of s.
LEMMA ToFresh ==
  ASSUME KeptPrograms(Body), store' \in [Variable -> Truth], temps' \in [Command -> Nat],
         NEW CONSTANT u, Placed(u), script' = Gen(u)
  PROVE  ScriptInv' /\ MeantTodo' = u /\ MeantStore' = store'
<1>1. MeantTodo' = u /\ MeantStore' = store'
  BY MeantFreshNext
<1>2. QED
  BY <1>1 DEF ScriptInv

\* The step that runs a command leaves its line pending, and means the item done.
LEMMA ToPending ==
  ASSUME KeptPrograms(Body), store' \in [Variable -> Truth], temps' \in [Command -> Nat],
         NEW CONSTANT u, Placed(u), NEW CONSTANT s \in Item(Total(u)),
         NEW CONSTANT c \in Command, Needs(s, c),
         script' = Cons(Line(s), Gen(u)), temps'[c] \in Truth
  PROVE  /\ ScriptInv'
         /\ MeantTodo' = Settled(Line(s))' \o u
         /\ Line(s)[1] # "assign" => MeantStore' = store'
         /\ Line(s)[1] = "assign" => MeantStore' = [store' EXCEPT ![Line(s)[2]] = ValueOf(Line(s)[3])']
<1>1. u \in Seq(Items) /\ s \in Items
  BY PlacedItem
<1>2. Gen(u) \in Seq(Lines) /\ MeantBy(Gen(u)) = u /\ Line(s) \in Lines
  BY <1>1, MeantGen, GenFacts, LinesFacts
<1>3. ScriptInv'
  <2>1. Pending(s, c, u)'
    BY DEF Pending
  <2>2. QED
    BY <2>1 DEF ScriptInv
<1>4. QED
  BY <1>2, <1>3, ScriptFirstNext

\* What a script with a pending line means.
LEMMA MeantPending ==
  ASSUME KeptPrograms(Body), NEW u, Placed(u), NEW s, NEW c, Pending(s, c, u)
  PROVE  /\ MeantTodo = Settled(Line(s)) \o u
         /\ Line(s)[1] # "assign" => MeantStore = store
         /\ Line(s)[1] = "assign" => MeantStore = [store EXCEPT ![Line(s)[2]] = ValueOf(Line(s)[3])]
         /\ script # <<>> /\ script[1] = Line(s) /\ Rest = Gen(u)
         /\ s \in Item(Total(u)) /\ Total(u) \in Nat /\ Gen(u) \in Seq(Lines) /\ u \in Seq(Items)
<1>1. s \in Item(Total(u)) /\ script = Cons(Line(s), Gen(u))
  BY DEF Pending
<1>2. u \in Seq(Items) /\ s \in Items /\ Total(u) \in Nat
  BY <1>1, PlacedItem
<1>3. Gen(u) \in Seq(Lines) /\ MeantBy(Gen(u)) = u /\ Line(s) \in Lines
  BY <1>2, MeantGen, GenFacts, LinesFacts
<1>4. QED
  BY <1>1, <1>2, <1>3, ScriptFirst

-----------------------------------------------------------------------------
(***************************************************************************)
(* What Semantics does with the first of what is meant.                    *)
(***************************************************************************)
LEMMA FrontedItem ==
  \A s \in Items, r \in Seq(Items) :
    Cons(s, r) # <<>> /\ Cons(s, r)[1] = s /\ Tail(Cons(s, r)) = r
BY Fronted

\* The action of Semantics that an item asks for may be taken.
LEMMA SushiHead ==
  ASSUME NEW s \in Items, NEW r \in Seq(Items), MeantTodo = Cons(s, r)
  PROVE  /\ MeantTodo # <<>> /\ MeantTodo[1] = s /\ Sushi!Rest = r
         /\ Sushi!Now(s[1])
<1>1. Cons(s, r) # <<>> /\ Cons(s, r)[1] = s /\ Tail(Cons(s, r)) = r
  BY FrontedItem
<1>2. QED
  BY <1>1 DEF Sushi!Rest, Sushi!Now

\* It runs a command and goes where the result takes it.
LEMMA SushiRuns ==
  ASSUME NEW s \in Items, NEW r \in Seq(Items), MeantTodo = Cons(s, r), NEW c, NEW v,
         event.number < MaxEvents,
         event' = [command |-> c, value |-> v, number |-> event.number + 1]
  PROVE  /\ Sushi!Runs(c, v) /\ Sushi!Evaluates(<<"cmd", c>>, v)
         /\ \A x : /\ s = <<"set", x, <<"cmd", c>>>> /\ v \in Truth
                   /\ MeantTodo' = <<>> \o r
                   /\ MeantStore' = [MeantStore EXCEPT ![x] = v]
                   => Sushi!Set
         /\ \A a, b : /\ s = <<"if", <<"cmd", c>>, a, b>> /\ v \in Truth
                      /\ MeantTodo' = (IF v = 1 THEN a ELSE b) \o r
                      /\ MeantStore' = MeantStore
                      => Sushi!If
<1>1. MeantTodo[1] = s /\ Sushi!Rest = r /\ Sushi!Now(s[1])
  BY SushiHead
<1>2. Sushi!Runs(c, v) /\ Sushi!Evaluates(<<"cmd", c>>, v)
  BY DEF Sushi!Runs, Sushi!Evaluates
<1>3. ASSUME NEW x, s = <<"set", x, <<"cmd", c>>>>, v \in Truth, MeantTodo' = <<>> \o r,
             MeantStore' = [MeantStore EXCEPT ![x] = v]
      PROVE  Sushi!Set
  <2>1. Sushi!Go(<<>>)
    BY <1>1, <1>3 DEF Sushi!Go
  <2>2. Sushi!Now("set") /\ MeantTodo[1][3][2] = c /\ MeantTodo[1][2] = x
    BY <1>1, <1>3
  <2>3. v \in Sushi!Truth
    BY <1>3 DEF Truth, Sushi!Truth
  <2>4. QED
    BY <1>2, <1>3, <2>1, <2>2, <2>3 DEF Sushi!Set
<1>4. ASSUME NEW a, NEW b, s = <<"if", <<"cmd", c>>, a, b>>, v \in Truth,
             MeantTodo' = (IF v = 1 THEN a ELSE b) \o r, MeantStore' = MeantStore
      PROVE  Sushi!If
  <2>1. Sushi!Go(IF v = 1 THEN a ELSE b)
    BY <1>1, <1>4 DEF Sushi!Go
  <2>2. /\ Sushi!Now("if") /\ MeantTodo[1][2] = <<"cmd", c>>
        /\ MeantTodo[1][3] = a /\ MeantTodo[1][4] = b
    BY <1>1, <1>4
  <2>3. v \in Sushi!Truth
    BY <1>4 DEF Truth, Sushi!Truth
  <2>4. QED
    BY <1>2, <1>4, <2>1, <2>2, <2>3 DEF Sushi!If
<1>5. QED
  BY <1>2, <1>3, <1>4

\* It reads a variable or a value, and runs nothing.
LEMMA SushiReads ==
  ASSUME NEW e \in Plain, MeantStore = store, store \in [Variable -> Truth], event' = event
  PROVE  /\ Sushi!Evaluates(e, ValueOf(e)) /\ ValueOf(e) \in Sushi!Truth
         /\ ValueOf(e) = (IF e[1] = "var" THEN MeantStore[e[2]] ELSE e[2])
<1>1. e[1] # "cmd"
  BY PlainIs
<1>2. ValueOf(e) = (IF e[1] = "var" THEN store[e[2]] ELSE e[2]) /\ ValueOf(e) \in Truth
  BY ValueIs
<1>3. QED
  BY <1>1, <1>2 DEF Sushi!Evaluates, Sushi!Truth, Truth

\* If and While of Semantics, from the item and the value of its condition.
LEMMA SushiTests ==
  ASSUME NEW s \in Items, NEW r \in Seq(Items), MeantTodo = Cons(s, r), NEW e \in Plain,
         MeantStore = store, store \in [Variable -> Truth], event' = event,
         MeantStore' = MeantStore
  PROVE  /\ \A a, b : /\ s = <<"if", e, a, b>>
                      /\ MeantTodo' = (IF ValueOf(e) = 1 THEN a ELSE b) \o r
                      => Sushi!If
         /\ \A a : /\ s = <<"while", e, a>> \/ s = <<"next", e, a>>
                   /\ MeantTodo' =
                        (IF ValueOf(e) = 1 THEN Append(a, <<"next", e, a>>) ELSE <<>>) \o r
                   => Sushi!While
<1>1. MeantTodo[1] = s /\ Sushi!Rest = r /\ Sushi!Now(s[1])
  BY SushiHead
<1>2. PICK v : v = ValueOf(e)
  OBVIOUS
<1>3. Sushi!Evaluates(e, v) /\ v \in Sushi!Truth
  BY <1>2, SushiReads
<1>4. ASSUME NEW a, NEW b, s = <<"if", e, a, b>>,
             MeantTodo' = (IF ValueOf(e) = 1 THEN a ELSE b) \o r
      PROVE  Sushi!If
  <2>1. Sushi!Go(IF v = 1 THEN a ELSE b)
    BY <1>1, <1>2, <1>4 DEF Sushi!Go
  <2>2. /\ Sushi!Now("if") /\ MeantTodo[1][2] = e /\ MeantTodo[1][3] = a
        /\ MeantTodo[1][4] = b
    BY <1>1, <1>4
  <2>3. QED
    BY <1>3, <2>1, <2>2 DEF Sushi!If
<1>5. ASSUME NEW a, s = <<"while", e, a>> \/ s = <<"next", e, a>>,
             MeantTodo' =
               (IF ValueOf(e) = 1 THEN Append(a, <<"next", e, a>>) ELSE <<>>) \o r
      PROVE  Sushi!While
  <2>1. Sushi!Go(IF v = 1 THEN Append(a, <<"next", e, a>>) ELSE <<>>)
    BY <1>1, <1>2, <1>5 DEF Sushi!Go
  <2>2. /\ Sushi!Now("while") \/ Sushi!Now("next")
        /\ MeantTodo[1][2] = e /\ MeantTodo[1][3] = a
    BY <1>1, <1>5
  <2>3. QED
    BY <1>3, <2>1, <2>2 DEF Sushi!While
<1>6. QED
  BY <1>4, <1>5

\* Each of Semantics, over an array the program holds.
LEMMA SushiRanges ==
  ASSUME NEW s \in Items, NEW r \in Seq(Items), MeantTodo = Cons(s, r),
         NEW e \in Array, NEW a, s = <<"each", e, a>>, event' = event,
         MeantStore' = MeantStore, MeantTodo' = <<<<"left", e[2], a>>>> \o r
  PROVE  Sushi!Each
<1>1. MeantTodo[1] = s /\ Sushi!Rest = r /\ Sushi!Now(s[1])
  BY SushiHead
<1>2. PICK k : k = e[2]
  OBVIOUS
<1>3. k \in 0 .. MaxElements /\ Sushi!Evaluates(e, k)
  BY <1>2, ArrayIs DEF Sushi!Evaluates
<1>4. Sushi!Go(<<<<"left", k, a>>>>)
  BY <1>1, <1>2 DEF Sushi!Go
<1>5. Sushi!Now("each") /\ MeantTodo[1][2] = e /\ MeantTodo[1][3] = a
  BY <1>1
<1>6. QED
  BY <1>3, <1>4, <1>5 DEF Sushi!Each

\* A case, or the default.
LEMMA SushiSwitches ==
  ASSUME NEW s \in Items, NEW r \in Seq(Items), MeantTodo = Cons(s, r),
         NEW e \in Plain, NEW ss, NEW d, s = <<"switch", e, ss, d>>,
         MeantStore = store, store \in [Variable -> Truth], MeantStore' = MeantStore
  PROVE  /\ ss = <<>> /\ event' = event /\ MeantTodo' = d \o r => Sushi!Default
         /\ \A w \in Truth :
              /\ ss # <<>> /\ Sushi!Evaluates(ss[1][1], w)
              /\ MeantTodo' = (IF w = ValueOf(e) THEN ss[1][2]
                               ELSE <<<<"switch", e, Tail(ss), d>>>>) \o r
              => Sushi!Case
<1>1. MeantTodo[1] = s /\ Sushi!Rest = r /\ Sushi!Now("switch")
  BY SushiHead
<1>2. e[1] # "cmd"
  BY PlainIs
<1>3. ASSUME ss = <<>>, event' = event, MeantTodo' = d \o r PROVE Sushi!Default
  <2>1. Sushi!Go(d)
    BY <1>1, <1>3 DEF Sushi!Go
  <2>2. MeantTodo[1][2] = e /\ MeantTodo[1][3] = <<>> /\ MeantTodo[1][4] = d
    BY <1>1, <1>3, SMTT(30)
  <2>3. QED
    BY <1>1, <1>2, <1>3, <2>1, <2>2 DEF Sushi!Default
<1>4. ASSUME NEW w \in Truth, ss # <<>>, Sushi!Evaluates(ss[1][1], w),
             MeantTodo' = (IF w = ValueOf(e) THEN ss[1][2]
                           ELSE <<<<"switch", e, Tail(ss), d>>>>) \o r
      PROVE  Sushi!Case
  <2>1. ValueOf(e) = (IF e[1] = "var" THEN MeantStore[e[2]] ELSE e[2])
    BY <1>2, ValueIs
  <2>2. [<<"switch", e, ss, d>> EXCEPT ![3] = Tail(@)] = <<"switch", e, Tail(ss), d>>
    OBVIOUS
  <2>3. /\ MeantTodo[1][2] = e /\ MeantTodo[1][3] = ss
        /\ [MeantTodo[1] EXCEPT ![3] = Tail(@)] = <<"switch", e, Tail(ss), d>>
    <3>1. PICK u : u = <<"switch", e, ss, d>>
      OBVIOUS
    <3>2. MeantTodo[1] = u
      BY <1>1, <3>1
    <3>3. u[2] = e /\ u[3] = ss /\ [u EXCEPT ![3] = Tail(@)] = <<"switch", e, Tail(ss), d>>
      BY <2>2, <3>1
    <3>4. QED
      BY <3>2, <3>3
  <2>4. PICK v : v = (IF e[1] = "var" THEN MeantStore[e[2]] ELSE e[2])
    BY SMTT(30)
  <2>5. Sushi!Go(IF v = w THEN ss[1][2] ELSE <<<<"switch", e, Tail(ss), d>>>>)
    BY <1>1, <1>4, <2>1, <2>4 DEF Sushi!Go
  <2>6. w \in Sushi!Truth
    BY DEF Truth, Sushi!Truth
  <2>7. QED
    BY <1>1, <1>2, <1>4, <2>3, <2>4, <2>5, <2>6 DEF Sushi!Case
<1>5. QED
  BY <1>3, <1>4

\* Another round of a loop that is counted, and what leaves loops.
LEMMA SushiLeaves ==
  ASSUME NEW s \in Items, NEW r \in Seq(Items), MeantTodo = Cons(s, r),
         event' = event, MeantStore' = MeantStore
  PROVE  /\ \A k, a : /\ s = <<"left", k, a>>
                      /\ MeantTodo' =
                           (IF k = 0 THEN <<>> ELSE Append(a, <<"left", k - 1, a>>)) \o r
                      => Sushi!Iterate
         /\ \A k : s = <<"break", k>> /\ MeantTodo' = Tail(Sushi!FromLoop(k)) => Sushi!Break
         /\ \A k : s = <<"continue", k>> /\ MeantTodo' = Sushi!FromLoop(k) => Sushi!Continue
         /\ s = <<"return">> /\ MeantTodo' = <<>> => Sushi!Return
<1>1. MeantTodo[1] = s /\ Sushi!Rest = r /\ Sushi!Now(s[1])
  BY SushiHead
<1>2. ASSUME NEW k, NEW a, s = <<"left", k, a>>,
             MeantTodo' = (IF k = 0 THEN <<>> ELSE Append(a, <<"left", k - 1, a>>)) \o r
      PROVE  Sushi!Iterate
  <2>1. Sushi!Go(IF k = 0 THEN <<>> ELSE Append(a, <<"left", k - 1, a>>))
    BY <1>1, <1>2 DEF Sushi!Go
  <2>2. Sushi!Now("left") /\ MeantTodo[1][2] = k /\ MeantTodo[1][3] = a
    BY <1>1, <1>2
  <2>3. QED
    BY <2>1, <2>2 DEF Sushi!Iterate
<1>3. ASSUME NEW k, s = <<"break", k>>, MeantTodo' = Tail(Sushi!FromLoop(k))
      PROVE  Sushi!Break
  <2>1. Sushi!Now("break") /\ MeantTodo[1][2] = k
    BY <1>1, <1>3
  <2>2. QED
    BY <1>3, <2>1 DEF Sushi!Break
<1>4. ASSUME NEW k, s = <<"continue", k>>, MeantTodo' = Sushi!FromLoop(k)
      PROVE  Sushi!Continue
  <2>1. Sushi!Now("continue") /\ MeantTodo[1][2] = k
    BY <1>1, <1>4
  <2>2. QED
    BY <1>4, <2>1 DEF Sushi!Continue
<1>5. ASSUME s = <<"return">>, MeantTodo' = <<>> PROVE Sushi!Return
  BY <1>1, <1>5 DEF Sushi!Return
<1>6. QED
  BY <1>2, <1>3, <1>4, <1>5

-----------------------------------------------------------------------------
(***************************************************************************)
(* The command before a line runs.                                         *)
(***************************************************************************)
LEMMA NeedsWhich ==
  ASSUME NEW n \in Nat, NEW s \in Item(n), NEW c, Needs(s, c)
  PROVE  /\ \/ \E x \in Variable : s = <<"set", x, <<"cmd", c>>>> /\ Line(s) = <<"assign", x, <<"cmd", c>>>>
            \/ \E a \in At(n) : s = <<"if", <<"cmd", c>>, a, <<>>>> /\ Line(s) = <<"test", <<"cmd", c>>, a, <<>>>>
            \/ \E e \in Plain, ss \in CasesAt(n), d \in At(n) :
                 /\ s = <<"switch", e, ss, d>> /\ Line(s) = <<"chain", e, ss, d>>
                 /\ ss # <<>> /\ ss[1][1] = <<"cmd", c>>
         /\ c \in Command
<1>1. ItemForm(n, s)
  BY ItemForms
<1>2. ~ NeedsNone(s)
  <2>1. \A k, l, m : <<k, l>> # <<m>>
    <3>1. ASSUME NEW k, NEW l, NEW m, <<k, l>> = <<m>> PROVE FALSE
      <4>1. Len(<<k, l>>) = 2 /\ Len(<<m>>) = 1
        OBVIOUS
      <4>2. QED
        BY <3>1, <4>1
    <3>2. QED
      BY <3>1
  <2>2. QED
    BY <2>1 DEF Needs, NeedsNone
<1>3. \A b : Needs(s, b) => b = c
  BY DEF Needs
<1>4. \/ \E x \in Variable :
           /\ s = <<"set", x, <<"cmd", c>>>> /\ Line(s) = <<"assign", x, <<"cmd", c>>>>
           /\ c \in Command
      \/ \E a \in At(n) :
           /\ s = <<"if", <<"cmd", c>>, a, <<>>>> /\ Line(s) = <<"test", <<"cmd", c>>, a, <<>>>>
           /\ c \in Command
      \/ \E e \in Plain, ss \in CasesAt(n), d \in At(n) :
           /\ s = <<"switch", e, ss, d>> /\ Line(s) = <<"chain", e, ss, d>>
           /\ ss # <<>> /\ ss[1][1] = <<"cmd", c>>
           /\ c \in Command
  BY <1>1, <1>2, <1>3 DEF ItemForm
<1>5. QED
  BY <1>4

\* What the step does when the first item needs a command.
LEMMA EvalStep ==
  ASSUME KeptPrograms(Body), Next, temps \in [Command -> Nat],
         NEW r, Placed(r), NEW s \in Item(Total(r)), NEW c \in Command, Needs(s, c),
         script = Gen(Cons(s, r))
  PROVE  /\ event.number < MaxEvents /\ store' = store
         /\ script' = Cons(Line(s), Gen(r))
         /\ temps' \in [Command -> Nat] /\ temps'[c] \in Truth
         /\ event' = [command |-> c, value |-> temps'[c], number |-> event.number + 1]
<1>1. /\ s \in Items /\ r \in Seq(Items) /\ Total(r) \in Nat
  BY PlacedItem
<1>2. Line(s) \in Lines /\ Gen(r) \in Seq(Lines) /\ <<"eval", c>> \in Lines
  BY <1>1, GenFacts, LinesFacts
<1>3. PICK g \in Seq(Lines) : g = Cons(Line(s), Gen(r))
  BY <1>2, Fronted
<1>4. script = Cons(<<"eval", c>>, g)
  BY <1>1, <1>3, GenFirst
<1>5. script # <<>> /\ script[1] = <<"eval", c>> /\ Rest = g
  <2>1. /\ Cons(<<"eval", c>>, g) # <<>> /\ Cons(<<"eval", c>>, g)[1] = <<"eval", c>>
        /\ Tail(Cons(<<"eval", c>>, g)) = g
    BY <1>2, FrontedLine
  <2>2. QED
    BY <1>4, <2>1 DEF Rest
<1>6. Eval
  BY <1>5, WhichLine
<1>7. \A i \in DOMAIN script : script[i] \in Lines
  <2>1. Cons(<<"eval", c>>, g) \in Seq(Lines)
    BY <1>2, Fronted
  <2>2. QED
    BY <1>4, <2>1
<1>8. ~ Iterates(c)
  BY <1>7, LinesFacts DEF Iterates, IsCmd
<1>9. script[1][2] = c
  BY <1>5
<1>10. PICK v \in Truth :
         /\ temps' = [temps EXCEPT ![c] = v]
         /\ event' = [command |-> c, value |-> v, number |-> event.number + 1]
  BY <1>6, <1>8, <1>9 DEF Eval
<1>11. temps' \in [Command -> Nat] /\ temps'[c] = v
  BY <1>10 DEF Truth
<1>12. script' = Cons(Line(s), Gen(r))
  <2>1. script' = <<>> \o g
    BY <1>5, <1>6 DEF Eval, Go
  <2>2. <<>> \o g = g
    BY ConcatEmptySeq
  <2>3. QED
    BY <1>3, <2>1, <2>2
<1>13. event.number < MaxEvents /\ store' = store
  BY <1>6 DEF Eval
<1>14. QED
  BY <1>10, <1>11, <1>12, <1>13 DEF Truth

-----------------------------------------------------------------------------
(***************************************************************************)
(* Leaving loops: what is left of the script is the code of what is left   *)
(* to be done.                                                             *)
(***************************************************************************)
LoopAt(t, n) == CHOOSE j \in DOMAIN t : Going(t[j]) /\ Count(t, j) = n

\* Of a sequence split at a loop, the loop with that number is the one at the split.
LEMMA ChosenLoop ==
  ASSUME NEW S, NEW t \in Seq(S), NEW p \in Seq(S), NEW s \in S, NEW q \in Seq(S),
         Split(t, p, s, q), Going(s)
  PROVE  SubSeq(t, LoopAt(t, Total(p) + 1), Len(t)) = Cons(s, q)
<1>1. /\ Len(p) + 1 \in DOMAIN t /\ Going(t[Len(p) + 1])
      /\ Count(t, Len(p) + 1) = Total(p) + 1
      /\ \A j \in DOMAIN t : (Going(t[j]) /\ Count(t, j) = Total(p) + 1) => j = Len(p) + 1
      /\ SubSeq(t, Len(p) + 1, Len(t)) = Cons(s, q)
  BY NthLoop
<1>2. LoopAt(t, Total(p) + 1) = Len(p) + 1
  BY <1>1 DEF LoopAt
<1>3. QED
  BY <1>1, <1>2

\* The cardinality Semantics has is the cardinality.
LEMMA SameCardinality == \A S : Sushi!Cardinality(S) = Cardinality(S)
BY Zenon DEF Sushi!Cardinality, Cardinality

\* So FromLoop of Script finds the line of that loop
LEMMA ScriptFromLoop ==
  ASSUME script \in Seq(Lines),
         NEW p \in Seq(Lines), NEW l \in Lines, NEW q \in Seq(Lines),
         Split(script, p, l, q), Going(l)
  PROVE  FromLoop(Total(p) + 1) = Cons(l, q)
<1>1. \A i \in DOMAIN script : Underway(script[i]) <=> Going(script[i])
  <2>1. \A i \in DOMAIN script : script[i] \in Lines
    OBVIOUS
  <2>2. QED
    BY <2>1, LinesFacts
<1>2. DOMAIN script = 1 .. Len(script) /\ Len(script) \in Nat
  BY LenProperties
<1>3. \A i \in DOMAIN script :
        Cardinality({j \in 1 .. i : Underway(script[j])}) = Count(script, i)
  <2>1. ASSUME NEW i \in DOMAIN script
        PROVE  {j \in 1 .. i : Underway(script[j])} = GoingUpTo(script, i)
    <3>1. \A j \in 1 .. i : j \in DOMAIN script
      BY <1>2
    <3>2. QED
      BY <1>1, <3>1 DEF GoingUpTo
  <2>2. QED
    BY <2>1 DEF Count
<1>4. PICK i : i = LoopAt(script, Total(p) + 1)
  OBVIOUS
<1>5. i = CHOOSE i_1 \in DOMAIN script :
            /\ Underway(script[i_1])
            /\ Cardinality({j \in 1 .. i_1 : Underway(script[j])}) = Total(p) + 1
  BY <1>1, <1>3, <1>4 DEF LoopAt
<1>6. SubSeq(script, i, Len(script)) = Cons(l, q)
  BY <1>4, ChosenLoop
<1>7. QED
  BY <1>5, <1>6 DEF FromLoop

\* and FromLoop of Semantics the item of it.
LEMMA SushiFromLoop ==
  ASSUME MeantTodo \in Seq(Items),
         NEW p \in Seq(Items), NEW s \in Items, NEW q \in Seq(Items),
         Split(MeantTodo, p, s, q), Going(s)
  PROVE  Sushi!FromLoop(Total(p) + 1) = Cons(s, q)
<1>0. PICK t : t = MeantTodo
  OBVIOUS
<1>1. \A i \in DOMAIN t : Sushi!Underway(t[i]) <=> Going(t[i])
  <2>1. \A i \in DOMAIN t : t[i] \in Items
    BY <1>0
  <2>2. \A i \in DOMAIN t : \E n \in Nat : t[i] \in Item(n)
    BY <2>1 DEF Items
  <2>3. QED
    BY <2>2, LineFacts
<1>2. DOMAIN t = 1 .. Len(t) /\ Len(t) \in Nat
  BY <1>0, LenProperties
<1>3. \A i \in DOMAIN t :
        Sushi!Cardinality({j \in 1 .. i : Sushi!Underway(t[j])}) = Count(t, i)
  <2>1. ASSUME NEW i \in DOMAIN t
        PROVE  {j \in 1 .. i : Sushi!Underway(t[j])} = GoingUpTo(t, i)
    <3>1. \A j \in 1 .. i : j \in DOMAIN t
      BY <1>2
    <3>2. QED
      BY <1>1, <3>1 DEF GoingUpTo
  <2>2. QED
    BY <2>1, SameCardinality DEF Count
<1>4. PICK i : i = LoopAt(t, Total(p) + 1)
  OBVIOUS
<1>5. i = CHOOSE i_1 \in DOMAIN t :
            /\ Sushi!Underway(t[i_1])
            /\ Sushi!Cardinality({j \in 1 .. i_1 : Sushi!Underway(t[j])}) = Total(p) + 1
  BY <1>1, <1>3, <1>4 DEF LoopAt
<1>6. SubSeq(t, i, Len(t)) = Cons(s, q)
  BY <1>0, <1>4, ChosenLoop
<1>7. Sushi!FromLoop(Total(p) + 1) = SubSeq(t, i, Len(t))
  BY <1>0, <1>5 DEF Sushi!FromLoop
<1>8. QED
  BY <1>6, <1>7

\* The k-th loop, in both, and that what is left keeps its places.
LEMMA Leaving ==
  ASSUME NEW r, Placed(r), NEW k \in 1 .. Total(r),
         NEW s \in Item(Total(r)), ~ Going(s), NeedsNone(s),
         script = Cons(Line(s), Gen(r)), MeantTodo = Cons(s, r)
  PROVE  \E l \in Items, q \in Seq(Items) :
           /\ Placed(Cons(l, q)) /\ Placed(q)
           /\ Sushi!FromLoop(k) = Cons(l, q) /\ Tail(Sushi!FromLoop(k)) = q
           /\ FromLoop(k) = Gen(Cons(l, q)) /\ Tail(FromLoop(k)) = Gen(q)
<1>1. s \in Items /\ r \in Seq(Items) /\ Total(r) \in Nat
  BY PlacedItem
<1>2. PICK p \in Seq(Items), l \in Items, q \in Seq(Items) :
        Split(r, p, l, q) /\ Going(l) /\ Total(p) + 1 = k
  <2>1. \E p \in Seq(Items), l \in Items, q \in Seq(Items) :
          Split(r, p, l, q) /\ Going(l) /\ Total(p) + 1 = k
    BY <1>1, LoopThere
  <2>2. QED
    BY <2>1
<1>3. PICK u \in Seq(Items) : u = Cons(l, q) /\ Tail(u) = q
  BY Fronted
<1>4. Placed(u) /\ Placed(q)
  <2>1. Placed(p \o u)
    BY <1>2, <1>3 DEF Split
  <2>2. Placed(u)
    BY <2>1, PlacedRest
  <2>3. Placed(Cons(l, q))
    BY <1>3, <2>2
  <2>4. QED
    BY <2>2, <2>3, PlacedFirst
<1>5. PICK sp \in Seq(Items) : sp = Cons(s, p) /\ Total(sp) = Total(p) /\ Total(p) \in Nat
  <2>1. /\ Cons(s, p) \in Seq(Items)
        /\ Total(Cons(s, p)) = (IF Going(s) THEN 1 ELSE 0) + Total(p)
        /\ Total(p) \in Nat
    BY <1>1, Fronted, TotalFirst
  <2>2. QED
    BY <2>1
<1>6. MeantTodo = sp \o u
  <2>1. <<s>> \in Seq(Items)
    BY <1>1, Single
  <2>2. (<<s>> \o p) \o u = <<s>> \o (p \o u)
    BY <2>1, ConcatAssociative
  <2>3. QED
    BY <1>2, <1>3, <1>5, <2>2 DEF Cons, Split
<1>7. Sushi!FromLoop(k) = u
  <2>1. MeantTodo \in Seq(Items)
    BY <1>6, ConcatProperties
  <2>2. Split(MeantTodo, sp, l, q)
    BY <1>3, <1>6 DEF Split
  <2>3. Sushi!FromLoop(Total(sp) + 1) = Cons(l, q)
    BY <1>2, <2>1, <2>2, SushiFromLoop
  <2>4. Total(sp) + 1 = k
    BY <1>2, <1>5
  <2>5. QED
    BY <1>3, <2>3, <2>4
<1>8. PICK gp \in Seq(Lines), gu \in Seq(Lines), gq \in Seq(Lines), ll \in Lines :
        /\ gp = Gen(sp) /\ gu = Gen(u) /\ gq = Gen(q) /\ ll = Line(l)
        /\ gu = Cons(ll, gq) /\ Going(ll) /\ Tail(gu) = gq
        /\ Total(gp) = Total(sp)
  <2>1. Gen(sp) \in Seq(Lines) /\ Gen(u) \in Seq(Lines) /\ Gen(q) \in Seq(Lines)
        /\ Line(l) \in Lines
    BY GenFacts, LinesFacts
  <2>2. PICK n \in Nat : l \in Item(n)
    BY DEF Items
  <2>3. NeedsNone(l) /\ Going(Line(l))
    BY <1>2, <2>2, LineFacts
  <2>4. Gen(Cons(l, q)) = Cons(Line(l), Gen(q))
    BY <2>3, GenFirst
  <2>5. Tail(Cons(Line(l), Gen(q))) = Gen(q)
    BY <2>1, FrontedLine
  <2>6. Total(Gen(sp)) = Total(sp)
    BY MeantGen
  <2>7. QED
    BY <1>3, <2>1, <2>3, <2>4, <2>5, <2>6
<1>9. script = gp \o gu
  <2>1. Gen(Cons(s, r)) = Cons(Line(s), Gen(r))
    BY <1>1, GenFirst
  <2>2. Cons(s, r) = sp \o u
    BY <1>6
  <2>3. Gen(sp \o u) = Gen(sp) \o Gen(u)
    BY GenFacts
  <2>4. QED
    BY <1>8, <2>1, <2>2, <2>3
<1>10. FromLoop(k) = gu
  <2>1. script \in Seq(Lines)
    BY <1>9, ConcatProperties
  <2>2. Split(script, gp, ll, gq)
    BY <1>8, <1>9 DEF Split
  <2>3. FromLoop(Total(gp) + 1) = Cons(ll, gq)
    BY <1>8, <2>1, <2>2, ScriptFromLoop
  <2>4. Total(gp) + 1 = k
    BY <1>2, <1>5, <1>8
  <2>5. QED
    BY <1>8, <2>3, <2>4
<1>11. QED
  BY <1>3, <1>4, <1>7, <1>8, <1>10

-----------------------------------------------------------------------------
(***************************************************************************)
(* Where a line goes.                                                      *)
(***************************************************************************)
Typed == store \in [Variable -> Truth] /\ temps \in [Command -> Nat]

\* Nowhere: to what follows.
LEMMA GoNone ==
  ASSUME KeptPrograms(Body), Typed', NEW CONSTANT r, Placed(r),
         script' = <<>> \o Gen(r)
  PROVE  ScriptInv' /\ MeantTodo' = <<>> \o r /\ MeantStore' = store'
<1>1. r \in Seq(Items)
  BY DEF Placed, KeptPrograms
<1>2. Gen(r) \in Seq(Lines)
  BY <1>1, GenFacts
<1>3. <<>> \o Gen(r) = Gen(r) /\ <<>> \o r = r
  BY <1>1, <1>2, ConcatEmptySeq
<1>4. script' = Gen(r)
  BY <1>3
<1>5. QED
  BY <1>3, <1>4, ToFresh DEF Typed

\* Into a body.
LEMMA GoBody ==
  ASSUME KeptPrograms(Body), Typed', NEW CONSTANT r, Placed(r),
         NEW CONSTANT b \in At(Total(r)), script' = GenCode(b) \o Gen(r)
  PROVE  ScriptInv' /\ MeantTodo' = b \o r /\ MeantStore' = store'
<1>1. PICK u : u = b \o r
  OBVIOUS
<1>2. Placed(u) /\ Gen(u) = GenCode(b) \o Gen(r)
  BY <1>1, PlacedBody
<1>3. QED
  BY <1>1, <1>2, ToFresh DEF Typed

\* To one line that needs nothing.
LEMMA GoItem ==
  ASSUME KeptPrograms(Body), Typed', NEW CONSTANT r, Placed(r),
         NEW CONSTANT s \in Item(Total(r)), NeedsNone(s), script' = <<Line(s)>> \o Gen(r)
  PROVE  ScriptInv' /\ MeantTodo' = <<s>> \o r /\ MeantStore' = store'
<1>1. Placed(Cons(s, r)) /\ s \in Items /\ r \in Seq(Items)
  BY PlacedItem
<1>2. PICK u : u = Cons(s, r)
  OBVIOUS
<1>3. Gen(u) = Cons(Line(s), Gen(r))
  BY <1>1, <1>2, GenFirst
<1>4. script' = Gen(u)
  BY <1>3 DEF Cons
<1>5. ScriptInv' /\ MeantTodo' = u /\ MeantStore' = store'
  BY <1>1, <1>2, <1>4, ToFresh DEF Typed
<1>6. QED
  BY <1>2, <1>5 DEF Cons

\* A line appended to a body is in front of what follows.
LEMMA AppendThen ==
  ASSUME NEW S, NEW b \in Seq(S), NEW l \in S, NEW r \in Seq(S)
  PROVE  Append(b, l) \o r = b \o Cons(l, r)
<1>1. PICK m \in Seq(S) : m = <<l>>
  BY Single
<1>2. (b \o m) \o r = b \o (m \o r)
  BY ConcatAssociative
<1>3. Append(b, l) = b \o <<l>>
  BY AppendIsConcat
<1>4. QED
  BY <1>1, <1>2, <1>3 DEF Cons

\* The same for items and for lines.
LEMMA ItemsThen ==
  /\ \A b \in Seq(Items), l \in Items, r \in Seq(Items) : Append(b, l) \o r = b \o Cons(l, r)
  /\ \A b \in Seq(Lines), l \in Lines, r \in Seq(Lines) : Append(b, l) \o r = b \o Cons(l, r)
<1>1. ASSUME NEW b \in Seq(Items), NEW l \in Items, NEW r \in Seq(Items)
      PROVE  Append(b, l) \o r = b \o Cons(l, r)
  BY AppendThen, SMTT(30)
<1>2. ASSUME NEW b \in Seq(Lines), NEW l \in Lines, NEW r \in Seq(Lines)
      PROVE  Append(b, l) \o r = b \o Cons(l, r)
  BY AppendThen, SMTT(30)
<1>3. QED
  BY <1>1, <1>2

\* Into the body of a loop, which comes again after it.
LEMMA GoLoop ==
  ASSUME KeptPrograms(Body), Typed', NEW CONSTANT r, Placed(r),
         NEW CONSTANT b \in At(Total(r) + 1), NEW CONSTANT l \in Item(Total(r)),
         Going(l), NeedsNone(l), script' = Append(GenCode(b), Line(l)) \o Gen(r)
  PROVE  ScriptInv' /\ MeantTodo' = Append(b, l) \o r /\ MeantStore' = store'
<1>1. Placed(Cons(l, r)) /\ l \in Items /\ r \in Seq(Items) /\ Total(r) \in Nat
  BY PlacedItem
<1>2. PICK u : u = Cons(l, r)
  OBVIOUS
<1>3. Gen(u) = Cons(Line(l), Gen(r))
  BY <1>1, <1>2, GenFirst
<1>4. Total(u) = Total(r) + 1
  <2>1. Total(Cons(l, r)) = (IF Going(l) THEN 1 ELSE 0) + Total(r)
    BY <1>1, TotalFirst
  <2>2. QED
    BY <1>1, <1>2, <2>1
<1>5. Placed(b \o u) /\ Gen(b \o u) = GenCode(b) \o Gen(u)
  <2>1. Placed(u) /\ b \in At(Total(u))
    BY <1>1, <1>2, <1>4
  <2>2. QED
    BY <2>1, PlacedBody
<1>6. b \in Seq(Items) /\ GenCode(b) \in Seq(Lines) /\ Gen(r) \in Seq(Lines) /\ Line(l) \in Lines
  <2>1. Total(r) + 1 \in Nat
    BY <1>1
  <2>2. b \in Seq(Items) /\ Gen(b) = GenCode(b)
    BY <2>1, BodyFacts
  <2>3. QED
    BY <1>1, <2>2, GenFacts, LinesFacts
<1>7. Append(GenCode(b), Line(l)) \o Gen(r) = GenCode(b) \o Cons(Line(l), Gen(r))
  BY <1>6, ItemsThen
<1>8. Append(b, l) \o r = b \o Cons(l, r)
  BY <1>1, <1>6, ItemsThen
<1>9. PICK t : t = b \o u
  OBVIOUS
<1>10. script' = Gen(t)
  BY <1>3, <1>5, <1>7, <1>9
<1>11. ScriptInv' /\ MeantTodo' = t /\ MeantStore' = store'
  BY <1>5, <1>9, <1>10, ToFresh DEF Typed
<1>12. QED
  BY <1>2, <1>8, <1>9, <1>11

\* A loop under way, and the cases after the first, where they stand.
LEMMA LoopItems ==
  ASSUME NEW n \in Nat
  PROVE  /\ \A e \in Plain, a \in At(n + 1) :
              /\ <<"next", e, a>> \in Item(n) /\ Going(<<"next", e, a>>)
              /\ NeedsNone(<<"next", e, a>>) /\ Line(<<"next", e, a>>) = <<"again", e, a>>
         /\ \A k \in Nat, a \in At(n + 1) :
              /\ <<"left", k, a>> \in Item(n) /\ Going(<<"left", k, a>>)
              /\ NeedsNone(<<"left", k, a>>) /\ Line(<<"left", k, a>>) = <<"left", k, a>>
<1>1. ASSUME NEW e \in Plain, NEW a \in At(n + 1)
      PROVE  /\ <<"next", e, a>> \in Item(n) /\ Going(<<"next", e, a>>)
             /\ NeedsNone(<<"next", e, a>>) /\ Line(<<"next", e, a>>) = <<"again", e, a>>
  <2>1. Code(<<"next", e, a>>) = <<<<"again", e, a>>>>
    BY DEF Code
  <2>2. <<"next", e, a>> \in Item(n) /\ Going(<<"next", e, a>>)
    BY DEF Item, Loop, Going
  <2>3. QED
    BY <2>1, <2>2, LineOf
<1>2. ASSUME NEW k \in Nat, NEW a \in At(n + 1)
      PROVE  /\ <<"left", k, a>> \in Item(n) /\ Going(<<"left", k, a>>)
             /\ NeedsNone(<<"left", k, a>>) /\ Line(<<"left", k, a>>) = <<"left", k, a>>
  <2>1. Code(<<"left", k, a>>) = <<<<"left", k, a>>>>
    BY DEF Code
  <2>2. <<"left", k, a>> \in Item(n) /\ Going(<<"left", k, a>>)
    BY DEF Item, Loop, Going
  <2>3. QED
    BY <2>1, <2>2, LineOf
<1>3. QED
  BY <1>1, <1>2

\* A switch whose first case is passed is a switch again, and needs nothing.
LEMMA SwitchRest ==
  ASSUME NEW n \in Nat, NEW e \in Plain, NEW ss \in CasesAt(n), ss # <<>>, NEW d \in At(n)
  PROVE  /\ <<"switch", e, Tail(ss), d>> \in Item(n)
         /\ NeedsNone(<<"switch", e, Tail(ss), d>>)
         /\ Line(<<"switch", e, Tail(ss), d>>) = <<"chain", e, Tail(ss), d>>
         /\ ss[1][1] \in Plain \cup Result /\ ss[1][2] \in At(n)
<1>1. /\ ss[1][1] \in Plain \cup Result /\ ss[1][2] \in At(n) /\ Tail(ss) \in CasesAt(n)
      /\ Tail(ss) = <<>> \/ ~ IsCmd(Tail(ss)[1][1])
  <2>1. ss # <<>> => /\ ss[1][1] \in Plain \cup Result /\ ss[1][2] \in At(n)
                     /\ Tail(ss) \in CasesAt(n)
                     /\ Tail(ss) = <<>> \/ ~ IsCmd(Tail(ss)[1][1])
    BY SwitchTranslation
  <2>2. QED
    BY <2>1
<1>2. PICK st : st = <<"switch", e, Tail(ss), d>>
  OBVIOUS
<1>3. st \in Item(n)
  BY <1>1, <1>2 DEF Item, Rests
<1>4. Code(st) = <<<<"chain", e, Tail(ss), d>>>>
  <2>1. PICK q \in CasesAt(n) : q = Tail(ss)
    BY <1>1
  <2>2. q = <<>> \/ ~ IsCmd(q[1][1])
          => Code(<<"switch", e, q, d>>) = <<<<"chain", e, q, d>>>>
    BY SwitchTranslation
  <2>3. QED
    BY <1>1, <1>2, <2>1, <2>2
<1>5. NeedsNone(st) /\ Line(st) = <<"chain", e, Tail(ss), d>>
  BY <1>4, LineOf
<1>6. QED
  BY <1>1, <1>2, <1>3, <1>5

-----------------------------------------------------------------------------
(***************************************************************************)
(* The steps from the code of what is to be done: each is a step of        *)
(* Semantics.                                                              *)
(***************************************************************************)
LEMMA NeedingStep ==
  ASSUME KeptPrograms(Body), Typed, Next,
         NEW CONSTANT r, Placed(r), NEW CONSTANT s \in Item(Total(r)),
         NEW CONSTANT c \in Command, Needs(s, c), script = Gen(Cons(s, r))
  PROVE  Typed' /\ ScriptInv' /\ Sushi!Next
<1>1. /\ s \in Items /\ r \in Seq(Items) /\ Total(r) \in Nat /\ Placed(Cons(s, r))
     
  BY PlacedItem DEF KeptPrograms
<1>2. MeantTodo = Cons(s, r) /\ MeantStore = store
  <2>1. PICK t : t = Cons(s, r)
    OBVIOUS
  <2>2. Placed(t) /\ script = Gen(t)
    BY <1>1, <2>1
  <2>3. QED
    BY <1>1, <2>1, <2>2, MeantFresh
<1>3. /\ event.number < MaxEvents /\ store' = store
      /\ script' = Cons(Line(s), Gen(r))
      /\ temps' \in [Command -> Nat] /\ temps'[c] \in Truth
      /\ event' = [command |-> c, value |-> temps'[c], number |-> event.number + 1]
  BY EvalStep DEF Typed
<1>4. Typed'
  BY <1>3 DEF Typed
<1>5. /\ ScriptInv'
      /\ MeantTodo' = Settled(Line(s))' \o r
      /\ Line(s)[1] # "assign" => MeantStore' = store'
      /\ Line(s)[1] = "assign" => MeantStore' = [store' EXCEPT ![Line(s)[2]] = ValueOf(Line(s)[3])']
  BY <1>3, <1>4, ToPending DEF Typed
<1>6. PICK v : v = temps'[c]
  OBVIOUS
<1>7. event' = [command |-> c, value |-> v, number |-> event.number + 1]
  BY <1>3, <1>6
<1>8. /\ Sushi!Evaluates(<<"cmd", c>>, v)
      /\ \A x : /\ s = <<"set", x, <<"cmd", c>>>> /\ v \in Truth
                /\ MeantTodo' = <<>> \o r
                /\ MeantStore' = [MeantStore EXCEPT ![x] = v]
                => Sushi!Set
      /\ \A a, b : /\ s = <<"if", <<"cmd", c>>, a, b>> /\ v \in Truth
                   /\ MeantTodo' = (IF v = 1 THEN a ELSE b) \o r
                   /\ MeantStore' = MeantStore
                   => Sushi!If
  BY <1>1, <1>2, <1>3, <1>7, SushiRuns
<1>9. CASE \E x \in Variable :
             s = <<"set", x, <<"cmd", c>>>> /\ Line(s) = <<"assign", x, <<"cmd", c>>>>
  <2>1. PICK x \in Variable :
          s = <<"set", x, <<"cmd", c>>>> /\ Line(s) = <<"assign", x, <<"cmd", c>>>>
    BY <1>9
  <2>2. Settled(Line(s))' = <<>>
    BY <2>1, SettledFormsNext
  <2>3. MeantTodo' = <<>> \o r
    BY <1>5, <2>2
  <2>4. ValueOf(<<"cmd", c>>)' = v
    BY <1>6, ValueNext
  <2>5. Line(s)[1] = "assign" /\ Line(s)[2] = x /\ Line(s)[3] = <<"cmd", c>>
    BY <2>1
  <2>6. ValueOf(Line(s)[3])' = v
    BY <2>4, <2>5
  <2>7. MeantStore' = [MeantStore EXCEPT ![x] = v]
    BY <1>2, <1>3, <1>5, <2>5, <2>6
  <2>8. v \in Truth
    BY <1>3, <1>6
  <2>9. Sushi!Set
    BY <1>8, <2>1, <2>3, <2>7, <2>8
  <2>10. QED
    BY <1>4, <1>5, <2>9 DEF Sushi!Next
<1>10. CASE \E a \in At(Total(r)) :
              /\ s = <<"if", <<"cmd", c>>, a, <<>>>>
              /\ Line(s) = <<"test", <<"cmd", c>>, a, <<>>>>
  <2>1. PICK a \in At(Total(r)) :
          /\ s = <<"if", <<"cmd", c>>, a, <<>>>>
          /\ Line(s) = <<"test", <<"cmd", c>>, a, <<>>>>
    BY <1>10
  <2>2. Settled(Line(s))' = IF temps'[c] # 0 THEN a ELSE <<>>
    BY <2>1, SettledFormsNext
  <2>3. v \in Truth /\ Line(s)[1] # "assign"
    BY <1>3, <1>6, <2>1
  <2>4. Settled(Line(s))' = IF v = 1 THEN a ELSE <<>>
    BY <1>6, <2>2, <2>3 DEF Truth
  <2>5. MeantTodo' = (IF v = 1 THEN a ELSE <<>>) \o r /\ MeantStore' = MeantStore
    BY <1>2, <1>3, <1>5, <2>3, <2>4
  <2>6. Sushi!If
    BY <1>8, <2>1, <2>3, <2>5
  <2>7. QED
    BY <1>4, <1>5, <2>6 DEF Sushi!Next
<1>11. CASE \E e \in Plain, ss \in CasesAt(Total(r)), d \in At(Total(r)) :
              /\ s = <<"switch", e, ss, d>> /\ Line(s) = <<"chain", e, ss, d>>
              /\ ss # <<>> /\ ss[1][1] = <<"cmd", c>>
  <2>1. PICK e \in Plain, ss \in CasesAt(Total(r)), d \in At(Total(r)) :
          /\ s = <<"switch", e, ss, d>> /\ Line(s) = <<"chain", e, ss, d>>
          /\ ss # <<>> /\ ss[1][1] = <<"cmd", c>>
    BY <1>11
  <2>2. Settled(Line(s))'
          = IF temps'[c] = ValueOf(e)' THEN ss[1][2] ELSE <<<<"switch", e, Tail(ss), d>>>>
    <3>1. \A e1, s1, d1, c1 :
            s1 # <<>> /\ s1[1][1] = <<"cmd", c1>> =>
              Settled(<<"chain", e1, s1, d1>>)'
                = IF temps'[c1] = ValueOf(e1)' THEN s1[1][2]
                  ELSE <<<<"switch", e1, Tail(s1), d1>>>>
      BY SettledFormsNext
    <3>2. ss # <<>> /\ ss[1][1] = <<"cmd", c>>
      BY <2>1
    <3>3. Settled(<<"chain", e, ss, d>>)'
            = IF temps'[c] = ValueOf(e)' THEN ss[1][2] ELSE <<<<"switch", e, Tail(ss), d>>>>
      BY <3>1, <3>2
    <3>4. QED
      BY <2>1, <3>3
  <2>3. ValueOf(e)' = ValueOf(e)
    BY <1>3, ValueNext
  <2>4. v \in Truth /\ Line(s)[1] # "assign"
    BY <1>3, <1>6, <2>1
  <2>5. MeantTodo' = (IF v = ValueOf(e) THEN ss[1][2]
                      ELSE <<<<"switch", e, Tail(ss), d>>>>) \o r
    BY <1>5, <1>6, <2>2, <2>3
  <2>6. MeantStore' = MeantStore /\ store \in [Variable -> Truth]
    BY <1>2, <1>3, <1>5, <2>4, SMTT(30) DEF Typed
  <2>7. \A w \in Truth :
              /\ ss # <<>> /\ Sushi!Evaluates(ss[1][1], w)
              /\ MeantTodo' = (IF w = ValueOf(e) THEN ss[1][2]
                               ELSE <<<<"switch", e, Tail(ss), d>>>>) \o r
              => Sushi!Case
    BY <1>1, <1>2, <2>1, <2>6, SushiSwitches
  <2>8. Sushi!Case
    BY <1>8, <2>1, <2>4, <2>5, <2>7
  <2>9. QED
    BY <1>4, <1>5, <2>8 DEF Sushi!Next
<1>12. QED
  <2>1. \/ \E x \in Variable : s = <<"set", x, <<"cmd", c>>>> /\ Line(s) = <<"assign", x, <<"cmd", c>>>>
        \/ \E a \in At(Total(r)) : s = <<"if", <<"cmd", c>>, a, <<>>>> /\ Line(s) = <<"test", <<"cmd", c>>, a, <<>>>>
        \/ \E e \in Plain, ss \in CasesAt(Total(r)), d \in At(Total(r)) :
             /\ s = <<"switch", e, ss, d>> /\ Line(s) = <<"chain", e, ss, d>>
             /\ ss # <<>> /\ ss[1][1] = <<"cmd", c>>
    BY <1>1, NeedsWhich
  <2>2. QED
    BY <1>9, <1>10, <1>11, <2>1

\* What is meant when the first line needs nothing, and the line.
LEMMA ReadingHead ==
  ASSUME KeptPrograms(Body),
         NEW CONSTANT r, Placed(r), NEW CONSTANT s \in Item(Total(r)),
         NeedsNone(s), script = Gen(Cons(s, r))
  PROVE  /\ MeantTodo = Cons(s, r) /\ MeantStore = store
         /\ script = Cons(Line(s), Gen(r))
         /\ script # <<>> /\ script[1] = Line(s) /\ Rest = Gen(r)
         /\ s \in Items /\ r \in Seq(Items) /\ Total(r) \in Nat
<1>1. /\ s \in Items /\ r \in Seq(Items) /\ Total(r) \in Nat /\ Placed(Cons(s, r))
     
  BY PlacedItem DEF KeptPrograms
<1>2. MeantTodo = Cons(s, r) /\ MeantStore = store
  <2>1. PICK t : t = Cons(s, r)
    OBVIOUS
  <2>2. Placed(t) /\ script = Gen(t)
    BY <1>1, <2>1
  <2>3. QED
    BY <1>1, <2>1, <2>2, MeantFresh
<1>3. Gen(Cons(s, r)) = Cons(Line(s), Gen(r))
  BY <1>1, GenFirst
<1>4. Line(s) \in Lines /\ Gen(r) \in Seq(Lines)
  BY <1>1, GenFacts, LinesFacts
<1>5. Cons(Line(s), Gen(r)) # <<>> /\ Cons(Line(s), Gen(r))[1] = Line(s)
        /\ Tail(Cons(Line(s), Gen(r))) = Gen(r)
  BY <1>4, FrontedLine
<1>6. QED
  BY <1>1, <1>2, <1>3, <1>5 DEF Rest


\* One step for each of these lines.
LEMMA TestStep ==
  ASSUME KeptPrograms(Body), Typed, Next,
         NEW CONSTANT r, Placed(r), NEW CONSTANT s \in Item(Total(r)),
         NeedsNone(s), script = Gen(Cons(s, r)),
         NEW CONSTANT e \in Plain, NEW CONSTANT a \in At(Total(r)),
         NEW CONSTANT b \in At(Total(r)),
         s = <<"if", e, a, b>>, Line(s) = <<"test", e, a, b>>
  PROVE  Typed' /\ ScriptInv' /\ Sushi!If
<1>1. /\ MeantTodo = Cons(s, r) /\ MeantStore = store
      /\ script # <<>> /\ script[1] = Line(s) /\ Rest = Gen(r)
      /\ s \in Items /\ r \in Seq(Items)
  BY ReadingHead
<1>2. Test
  BY <1>1, WhichLine
<1>3. /\ script' = GenCode(IF ValueOf(e) # 0 THEN a ELSE b) \o Gen(r)
      /\ temps' = temps /\ store' = store /\ event' = event
  BY <1>1, <1>2, SMTT(30) DEF Test, Go
<1>4. Typed'
  BY <1>3 DEF Typed
<1>5. ValueOf(e) \in Truth
  BY ValueIs DEF Typed
<1>6. PICK t \in At(Total(r)) : t = IF ValueOf(e) = 1 THEN a ELSE b
  OBVIOUS
<1>7. script' = GenCode(t) \o Gen(r)
  BY <1>3, <1>5, <1>6, SMTT(30) DEF Truth
<1>8. ScriptInv' /\ MeantTodo' = t \o r /\ MeantStore' = store'
  BY <1>4, <1>7, GoBody
<1>9. Sushi!If
  <2>1. MeantStore' = MeantStore /\ store \in [Variable -> Truth]
    BY <1>1, <1>3, <1>8 DEF Typed
  <2>2. \A a1, b1 : /\ s = <<"if", e, a1, b1>>
                    /\ MeantTodo' = (IF ValueOf(e) = 1 THEN a1 ELSE b1) \o r
                    => Sushi!If
    BY <1>1, <1>3, <2>1, SushiTests
  <2>3. QED
    BY <1>6, <1>8, <2>2
<1>10. QED
  BY <1>4, <1>8, <1>9

\* The step of a while loop, at its first line or again.
LEMMA WhileStep ==
  ASSUME KeptPrograms(Body), Typed, Next,
         NEW CONSTANT r, Placed(r), NEW CONSTANT s \in Item(Total(r)),
         NeedsNone(s), script = Gen(Cons(s, r)),
         NEW CONSTANT e \in Plain, NEW CONSTANT a \in At(Total(r) + 1),
         \/ s = <<"while", e, a>> /\ Line(s) = <<"while", e, a>>
         \/ s = <<"next", e, a>> /\ Line(s) = <<"again", e, a>>
  PROVE  Typed' /\ ScriptInv' /\ Sushi!While
<1>1. /\ MeantTodo = Cons(s, r) /\ MeantStore = store
      /\ script # <<>> /\ script[1] = Line(s) /\ Rest = Gen(r)
      /\ s \in Items /\ r \in Seq(Items) /\ Total(r) \in Nat
  BY ReadingHead
<1>2. /\ script[1][1] \in {"while", "again"} /\ script[1][2] = e /\ script[1][3] = a
      /\ s = <<"while", e, a>> \/ s = <<"next", e, a>>
  BY <1>1
<1>3. While
  BY <1>1, <1>2, WhichLine
<1>4. /\ script' = (IF ValueOf(e) # 0 THEN Append(GenCode(a), <<"again", e, a>>) ELSE <<>>) \o Gen(r)
      /\ temps' = temps /\ store' = store /\ event' = event
  BY <1>1, <1>2, <1>3 DEF While, Go
<1>5. Typed'
  BY <1>4 DEF Typed
<1>6. ValueOf(e) \in Truth
  BY ValueIs DEF Typed
<1>7. /\ ScriptInv' /\ MeantStore' = store'
      /\ MeantTodo' = (IF ValueOf(e) = 1 THEN Append(a, <<"next", e, a>>) ELSE <<>>) \o r
  <2>1. CASE ValueOf(e) = 1
    <3>1. PICK l : l = <<"next", e, a>>
      OBVIOUS
    <3>2. l \in Item(Total(r)) /\ Going(l) /\ NeedsNone(l) /\ Line(l) = <<"again", e, a>>
      BY <1>1, <3>1, LoopItems
    <3>3. script' = Append(GenCode(a), Line(l)) \o Gen(r)
      BY <1>4, <2>1, <3>2
    <3>4. ScriptInv' /\ MeantTodo' = Append(a, l) \o r /\ MeantStore' = store'
      BY <1>5, <3>2, <3>3, GoLoop
    <3>5. QED
      BY <2>1, <3>1, <3>4
  <2>2. CASE ValueOf(e) = 0
    <3>1. script' = <<>> \o Gen(r)
      BY <1>4, <2>2
    <3>2. ScriptInv' /\ MeantTodo' = <<>> \o r /\ MeantStore' = store'
      BY <1>5, <3>1, GoNone
    <3>3. QED
      BY <2>2, <3>2
  <2>3. QED
    BY <1>6, <2>1, <2>2 DEF Truth
<1>8. Sushi!While
  <2>1. MeantStore' = MeantStore /\ store \in [Variable -> Truth]
    BY <1>1, <1>4, <1>7 DEF Typed
  <2>2. \A a1 : /\ s = <<"while", e, a1>> \/ s = <<"next", e, a1>>
                /\ MeantTodo' =
                     (IF ValueOf(e) = 1 THEN Append(a1, <<"next", e, a1>>) ELSE <<>>) \o r
                => Sushi!While
    BY <1>1, <1>4, <2>1, SushiTests
  <2>3. QED
    BY <1>2, <1>7, <2>2
<1>9. QED
  BY <1>5, <1>7, <1>8

\* The step that expands the array of a range: its words are its elements.
LEMMA ForStep ==
  ASSUME KeptPrograms(Body), Typed, Next,
         NEW CONSTANT r, Placed(r), NEW CONSTANT s \in Item(Total(r)),
         NeedsNone(s), script = Gen(Cons(s, r)),
         NEW CONSTANT e \in Array, NEW CONSTANT a \in At(Total(r) + 1),
         s = <<"each", e, a>>, Line(s) = <<"for", e, a>>
  PROVE  Typed' /\ ScriptInv' /\ Sushi!Each
<1>1. /\ MeantTodo = Cons(s, r) /\ MeantStore = store
      /\ script # <<>> /\ script[1] = Line(s) /\ Rest = Gen(r)
      /\ s \in Items /\ r \in Seq(Items) /\ Total(r) \in Nat
  BY ReadingHead
<1>2. script[1][1] = "for" /\ script[1][2] = e /\ script[1][3] = a
  BY <1>1
<1>3. For
  BY <1>1, <1>2, WhichLine
<1>4. PICK k \in Nat : k = e[2] /\ Words(e) = k
  BY ArrayIs DEF Words, ValueOf
<1>5. PICK l : l = <<"left", k, a>>
  OBVIOUS
<1>6. /\ script' = <<l>> \o Gen(r)
      /\ temps' = temps /\ store' = store /\ event' = event
  BY <1>1, <1>2, <1>3, <1>4, <1>5 DEF For, Go
<1>7. Typed'
  BY <1>6 DEF Typed
<1>8. l \in Item(Total(r)) /\ NeedsNone(l) /\ Line(l) = l
  BY <1>1, <1>5, LoopItems
<1>9. ScriptInv' /\ MeantTodo' = <<l>> \o r /\ MeantStore' = store'
  <2>1. script' = <<Line(l)>> \o Gen(r)
    BY <1>6, <1>8
  <2>2. QED
    BY <1>7, <1>8, <2>1, GoItem
<1>10. Sushi!Each
  <2>1. MeantStore' = MeantStore /\ MeantTodo' = <<<<"left", e[2], a>>>> \o r
    BY <1>1, <1>4, <1>5, <1>6, <1>9
  <2>2. QED
    BY <1>1, <1>6, <2>1, SushiRanges
<1>11. QED
  BY <1>7, <1>9, <1>10

\* The step of a for loop.
LEMMA IterateStep ==
  ASSUME KeptPrograms(Body), Typed, Next,
         NEW CONSTANT r, Placed(r), NEW CONSTANT s \in Item(Total(r)),
         NeedsNone(s), script = Gen(Cons(s, r)),
         NEW CONSTANT k \in Nat, NEW CONSTANT a \in At(Total(r) + 1),
         s = <<"left", k, a>>, Line(s) = <<"left", k, a>>
  PROVE  Typed' /\ ScriptInv' /\ Sushi!Iterate
<1>1. /\ MeantTodo = Cons(s, r) /\ MeantStore = store
      /\ script # <<>> /\ script[1] = Line(s) /\ Rest = Gen(r)
      /\ s \in Items /\ r \in Seq(Items) /\ Total(r) \in Nat
  BY ReadingHead
<1>2. script[1][1] = "left" /\ script[1][2] = k /\ script[1][3] = a
  BY <1>1
<1>3. Iterate
  BY <1>1, <1>2, WhichLine
<1>4. /\ script' = (IF k = 0 THEN <<>> ELSE Append(GenCode(a), <<"left", k - 1, a>>)) \o Gen(r)
      /\ temps' = temps /\ store' = store /\ event' = event
  BY <1>1, <1>2, <1>3 DEF Iterate, Go
<1>5. Typed'
  BY <1>4 DEF Typed
<1>6. /\ ScriptInv' /\ MeantStore' = store'
      /\ MeantTodo' = (IF k = 0 THEN <<>> ELSE Append(a, <<"left", k - 1, a>>)) \o r
  <2>1. CASE k # 0
    <3>1. PICK l : l = <<"left", k - 1, a>>
      OBVIOUS
    <3>2. k - 1 \in Nat
      BY <2>1
    <3>3. l \in Item(Total(r)) /\ Going(l) /\ NeedsNone(l) /\ Line(l) = <<"left", k - 1, a>>
      BY <1>1, <3>1, <3>2, LoopItems
    <3>4. script' = Append(GenCode(a), Line(l)) \o Gen(r)
      BY <1>4, <2>1, <3>3
    <3>5. ScriptInv' /\ MeantTodo' = Append(a, l) \o r /\ MeantStore' = store'
      BY <1>5, <3>3, <3>4, GoLoop
    <3>6. QED
      BY <2>1, <3>1, <3>5
  <2>2. CASE k = 0
    <3>1. script' = <<>> \o Gen(r)
      BY <1>4, <2>2
    <3>2. ScriptInv' /\ MeantTodo' = <<>> \o r /\ MeantStore' = store'
      BY <1>5, <3>1, GoNone
    <3>3. QED
      BY <2>2, <3>2
  <2>3. QED
    BY <2>1, <2>2
<1>7. Sushi!Iterate
  <2>1. MeantStore' = MeantStore
    BY <1>1, <1>4, <1>6
  <2>2. \A k1, a1 : /\ s = <<"left", k1, a1>>
                    /\ MeantTodo' =
                         (IF k1 = 0 THEN <<>> ELSE Append(a1, <<"left", k1 - 1, a1>>)) \o r
                    => Sushi!Iterate
    BY <1>1, <1>4, <2>1, SushiLeaves
  <2>3. QED
    BY <1>6, <2>2
<1>8. QED
  BY <1>5, <1>6, <1>7

\* The step of a case, or of the default when no case is left.
LEMMA ChainStep ==
  ASSUME KeptPrograms(Body), Typed, Next,
         NEW CONSTANT r, Placed(r), NEW CONSTANT s \in Item(Total(r)),
         NeedsNone(s), script = Gen(Cons(s, r)),
         NEW CONSTANT e \in Plain, NEW CONSTANT ss \in CasesAt(Total(r)),
         NEW CONSTANT d \in At(Total(r)),
         s = <<"switch", e, ss, d>>, Line(s) = <<"chain", e, ss, d>>,
         ss = <<>> \/ ~ IsCmd(ss[1][1])
  PROVE  Typed' /\ ScriptInv' /\ (Sushi!Case \/ Sushi!Default)
<1>1. /\ MeantTodo = Cons(s, r) /\ MeantStore = store
      /\ script # <<>> /\ script[1] = Line(s) /\ Rest = Gen(r)
      /\ s \in Items /\ r \in Seq(Items) /\ Total(r) \in Nat
  BY ReadingHead
<1>2. /\ script[1][1] = "chain" /\ script[1][2] = e /\ script[1][3] = ss /\ script[1][4] = d
      /\ [script[1] EXCEPT ![3] = Tail(@)] = <<"chain", e, Tail(ss), d>>
  <2>1. PICK u : u = <<"chain", e, ss, d>>
    OBVIOUS
  <2>2. script[1] = u
    BY <1>1, <2>1
  <2>3. u[1] = "chain" /\ u[2] = e /\ u[3] = ss /\ u[4] = d
        /\ [u EXCEPT ![3] = Tail(@)] = <<"chain", e, Tail(ss), d>>
    BY <2>1
  <2>4. QED
    BY <2>2, <2>3
<1>3. Chain
  <2>1. script # <<>> /\ script[1][1] = "chain"
    BY <1>1, <1>2, SMTT(30)
  <2>2. QED
    BY <2>1, WhichLine
<1>4. /\ script' = (IF ss = <<>> THEN GenCode(d)
                    ELSE IF ValueOf(ss[1][1]) = ValueOf(e) THEN GenCode(ss[1][2])
                    ELSE <<<<"chain", e, Tail(ss), d>>>>) \o Gen(r)
      /\ temps' = temps /\ store' = store /\ event' = event
  BY <1>1, <1>2, <1>3 DEF Chain, Go
<1>5. Typed'
  BY <1>4 DEF Typed
<1>6. CASE ss = <<>>
  <2>1. script' = GenCode(d) \o Gen(r)
    BY <1>4, <1>6
  <2>2. ScriptInv' /\ MeantTodo' = d \o r /\ MeantStore' = store'
    BY <1>5, <2>1, GoBody
  <2>3. MeantStore' = MeantStore /\ store \in [Variable -> Truth]
    BY <1>1, <1>4, <2>2 DEF Typed
  <2>4. ss = <<>> /\ event' = event /\ MeantTodo' = d \o r => Sushi!Default
    BY <1>1, <2>3, SushiSwitches
  <2>5. QED
    BY <1>4, <1>5, <1>6, <2>2, <2>4
<1>7. CASE ss # <<>>
  <2>1. PICK st : st = <<"switch", e, Tail(ss), d>>
    OBVIOUS
  <2>2. /\ st \in Item(Total(r)) /\ NeedsNone(st) /\ Line(st) = <<"chain", e, Tail(ss), d>>
        /\ ss[1][1] \in Plain \cup Result /\ ss[1][2] \in At(Total(r))
    BY <1>1, <1>7, <2>1, SwitchRest
  <2>3. ss[1][1] \in Plain
    BY <1>7, <2>2, ResultIs DEF IsCmd
  <2>4. PICK w : w = ValueOf(ss[1][1])
    OBVIOUS
  <2>5. w \in Truth /\ Sushi!Evaluates(ss[1][1], w)
    <3>1. store \in [Variable -> Truth]
      BY DEF Typed
    <3>2. ValueOf(ss[1][1]) \in Truth
      BY <2>3, <3>1, ValueIs
    <3>3. Sushi!Evaluates(ss[1][1], ValueOf(ss[1][1]))
      BY <1>1, <1>4, <2>3, <3>1, SushiReads
    <3>4. QED
      BY <2>4, <3>2, <3>3
  <2>6. /\ ScriptInv' /\ MeantStore' = store'
        /\ MeantTodo' = (IF w = ValueOf(e) THEN ss[1][2]
                         ELSE <<<<"switch", e, Tail(ss), d>>>>) \o r
    <3>1. CASE w = ValueOf(e)
      <4>1. script' = GenCode(ss[1][2]) \o Gen(r)
        BY <1>4, <1>7, <2>4, <3>1
      <4>2. ScriptInv' /\ MeantTodo' = ss[1][2] \o r /\ MeantStore' = store'
        BY <1>5, <2>2, <4>1, GoBody
      <4>3. QED
        BY <3>1, <4>2
    <3>2. CASE w # ValueOf(e)
      <4>1. script' = <<Line(st)>> \o Gen(r)
        BY <1>4, <1>7, <2>2, <2>4, <3>2
      <4>2. ScriptInv' /\ MeantTodo' = <<st>> \o r /\ MeantStore' = store'
        BY <1>5, <2>2, <4>1, GoItem
      <4>3. QED
        BY <2>1, <3>2, <4>2
    <3>3. QED
      BY <3>1, <3>2
  <2>7. MeantStore' = MeantStore /\ store \in [Variable -> Truth]
    BY <1>1, <1>4, <2>6 DEF Typed
  <2>8. \A w1 \in Truth :
          /\ ss # <<>> /\ Sushi!Evaluates(ss[1][1], w1)
          /\ MeantTodo' = (IF w1 = ValueOf(e) THEN ss[1][2]
                           ELSE <<<<"switch", e, Tail(ss), d>>>>) \o r
          => Sushi!Case
    BY <1>1, <2>7, SushiSwitches
  <2>9. QED
    BY <1>5, <1>7, <2>5, <2>6, <2>8
<1>8. QED
  BY <1>6, <1>7

\* The step of break and of continue: both sides find the same loop.
LEMMA LeaveStep ==
  ASSUME KeptPrograms(Body), Typed, Next,
         NEW CONSTANT r, Placed(r), NEW CONSTANT s \in Item(Total(r)),
         NeedsNone(s), script = Gen(Cons(s, r)),
         NEW CONSTANT k \in 1 .. Total(r), NEW CONSTANT op \in {"break", "continue"},
         s = <<op, k>>, Line(s) = <<op, k>>
  PROVE  Typed' /\ ScriptInv' /\ (Sushi!Break \/ Sushi!Continue)
<1>1. /\ MeantTodo = Cons(s, r) /\ MeantStore = store
      /\ script = Cons(Line(s), Gen(r))
      /\ script # <<>> /\ script[1] = Line(s)
      /\ s \in Items /\ r \in Seq(Items)
  BY ReadingHead
<1>2. script[1][1] = op /\ script[1][2] = k /\ s[1] = op /\ ~ Going(s)
  BY <1>1 DEF Going
<1>3. PICK l \in Items, q \in Seq(Items) :
        /\ Placed(Cons(l, q)) /\ Placed(q)
        /\ Sushi!FromLoop(k) = Cons(l, q) /\ Tail(Sushi!FromLoop(k)) = q
        /\ FromLoop(k) = Gen(Cons(l, q)) /\ Tail(FromLoop(k)) = Gen(q)
  BY <1>1, <1>2, Leaving
<1>4. /\ op = "break" => Break
      /\ op = "continue" => Continue
  BY <1>1, <1>2, WhichLine
<1>5. /\ op = "break" => script' = Gen(q)
      /\ op = "continue" => script' = Gen(Cons(l, q))
      /\ temps' = temps /\ store' = store /\ event' = event
  BY <1>2, <1>3, <1>4 DEF Break, Continue
<1>6. Typed'
  BY <1>5 DEF Typed
<1>7. PICK u : u = Cons(l, q)
  OBVIOUS
<1>8. /\ ScriptInv' /\ MeantStore' = store'
      /\ op = "break" => MeantTodo' = q
      /\ op = "continue" => MeantTodo' = u
  <2>1. CASE op = "break"
    <3>1. script' = Gen(q)
      BY <1>5, <2>1
    <3>2. ScriptInv' /\ MeantTodo' = q /\ MeantStore' = store'
      BY <1>3, <1>6, <3>1, ToFresh DEF Typed
    <3>3. QED
      BY <2>1, <3>2
  <2>2. CASE op = "continue"
    <3>1. script' = Gen(u) /\ Placed(u)
      BY <1>3, <1>5, <1>7, <2>2
    <3>2. ScriptInv' /\ MeantTodo' = u /\ MeantStore' = store'
      BY <1>6, <3>1, ToFresh DEF Typed
    <3>3. QED
      BY <2>2, <3>2
  <2>3. QED
    BY <2>1, <2>2
<1>9. MeantStore' = MeantStore
  BY <1>1, <1>5, <1>8
<1>10. /\ \A k1 : s = <<"break", k1>> /\ MeantTodo' = Tail(Sushi!FromLoop(k1)) => Sushi!Break
       /\ \A k1 : s = <<"continue", k1>> /\ MeantTodo' = Sushi!FromLoop(k1) => Sushi!Continue
  BY <1>1, <1>5, <1>9, SushiLeaves
<1>11. Sushi!Break \/ Sushi!Continue
  <2>1. CASE op = "break"
    BY <1>3, <1>8, <1>10, <2>1
  <2>2. CASE op = "continue"
    BY <1>3, <1>7, <1>8, <1>10, <2>2
  <2>3. QED
    BY <2>1, <2>2
<1>12. QED
  BY <1>6, <1>8, <1>11

\* The step of return: both sides are left with nothing.
LEMMA ReturnStep ==
  ASSUME KeptPrograms(Body), Typed, Next,
         NEW CONSTANT r, Placed(r), NEW CONSTANT s \in Item(Total(r)),
         NeedsNone(s), script = Gen(Cons(s, r)),
         s = <<"return">>, Line(s) = <<"return">>
  PROVE  Typed' /\ ScriptInv' /\ Sushi!Return
<1>1. /\ MeantTodo = Cons(s, r) /\ MeantStore = store
      /\ script # <<>> /\ script[1] = Line(s)
      /\ s \in Items /\ r \in Seq(Items)
  BY ReadingHead
<1>2. script[1][1] = "return"
  BY <1>1
<1>3. Return
  BY <1>1, <1>2, WhichLine
<1>4. script' = <<>> /\ temps' = temps /\ store' = store /\ event' = event
  BY <1>3 DEF Return
<1>5. Typed'
  BY <1>4 DEF Typed
<1>6. PICK u : u = <<>>
  OBVIOUS
<1>7. Placed(u) /\ script' = Gen(u)
  BY <1>1, <1>4, <1>6, PlacedNone, GenFacts
<1>8. ScriptInv' /\ MeantTodo' = u /\ MeantStore' = store'
  BY <1>5, <1>7, ToFresh DEF Typed
<1>9. MeantStore' = MeantStore
  BY <1>1, <1>4, <1>8
<1>10. s = <<"return">> /\ MeantTodo' = <<>> => Sushi!Return
  BY <1>1, <1>4, <1>9, SushiLeaves
<1>11. QED
  BY <1>5, <1>6, <1>8, <1>10


\* Any line that needs nothing.
LEMMA ReadingStep ==
  ASSUME KeptPrograms(Body), Typed, Next,
         NEW CONSTANT r, Placed(r), NEW CONSTANT s \in Item(Total(r)),
         NeedsNone(s), script = Gen(Cons(s, r))
  PROVE  Typed' /\ ScriptInv' /\ Sushi!Next
<1>1. ItemForm(Total(r), s)
  BY PlacedItem, ItemForms DEF KeptPrograms
<1>2. \A c : ~ Needs(s, c)
  <2>1. \A k, l, m : <<k, l>> # <<m>>
    <3>1. ASSUME NEW k, NEW l, NEW m, <<k, l>> = <<m>> PROVE FALSE
      <4>1. Len(<<k, l>>) = 2 /\ Len(<<m>>) = 1
        OBVIOUS
      <4>2. QED
        BY <3>1, <4>1
    <3>2. QED
      BY <3>1
  <2>2. QED
    BY <2>1 DEF Needs, NeedsNone
<1>3. CASE \E e \in Plain, a \in At(Total(r)), b \in At(Total(r)) :
             s = <<"if", e, a, b>> /\ NeedsNone(s) /\ Line(s) = <<"test", e, a, b>>
  <2>1. Typed' /\ ScriptInv' /\ Sushi!If
    BY <1>3, TestStep
  <2>2. QED
    BY <2>1 DEF Sushi!Next
<1>4. CASE \E e \in Plain, a \in At(Total(r) + 1) :
             \/ s = <<"while", e, a>> /\ NeedsNone(s) /\ Line(s) = <<"while", e, a>>
             \/ s = <<"next", e, a>> /\ NeedsNone(s) /\ Line(s) = <<"again", e, a>>
  <2>1. Typed' /\ ScriptInv' /\ Sushi!While
    BY <1>4, WhileStep
  <2>2. QED
    BY <2>1 DEF Sushi!Next
<1>5. CASE \E e \in Plain, ss \in CasesAt(Total(r)), d \in At(Total(r)) :
             /\ s = <<"switch", e, ss, d>> /\ NeedsNone(s) /\ Line(s) = <<"chain", e, ss, d>>
             /\ ss = <<>> \/ ~ IsCmd(ss[1][1])
  <2>1. Typed' /\ ScriptInv' /\ (Sushi!Case \/ Sushi!Default)
    BY <1>5, ChainStep
  <2>2. QED
    BY <2>1 DEF Sushi!Next
<1>6. CASE \E k \in 1 .. Total(r), op \in {"break", "continue"} :
             s = <<op, k>> /\ NeedsNone(s) /\ Line(s) = <<op, k>>
  <2>1. Typed' /\ ScriptInv' /\ (Sushi!Break \/ Sushi!Continue)
    BY <1>6, LeaveStep
  <2>2. QED
    BY <2>1 DEF Sushi!Next
<1>7. CASE s = <<"return">> /\ NeedsNone(s) /\ Line(s) = <<"return">>
  <2>1. Typed' /\ ScriptInv' /\ Sushi!Return
    BY <1>7, ReturnStep
  <2>2. QED
    BY <2>1 DEF Sushi!Next
<1>8. CASE \E k \in Nat, a \in At(Total(r) + 1) :
             s = <<"left", k, a>> /\ NeedsNone(s) /\ Line(s) = <<"left", k, a>>
  <2>1. Typed' /\ ScriptInv' /\ Sushi!Iterate
    BY <1>8, IterateStep
  <2>2. QED
    BY <2>1 DEF Sushi!Next
<1>9. CASE \E e \in Array, a \in At(Total(r) + 1) :
             s = <<"each", e, a>> /\ NeedsNone(s) /\ Line(s) = <<"for", e, a>>
  <2>1. Typed' /\ ScriptInv' /\ Sushi!Each
    BY <1>9, ForStep
  <2>2. QED
    BY <2>1 DEF Sushi!Next
<1>10. QED
  BY <1>1, <1>2, <1>3, <1>4, <1>5, <1>6, <1>7, <1>8, <1>9 DEF ItemForm

-----------------------------------------------------------------------------
(***************************************************************************)
(* The steps after a command: Semantics has gone there when it ran.        *)
(***************************************************************************)
LEMMA PendingStep ==
  ASSUME KeptPrograms(Body), Typed, Next,
         NEW CONSTANT u, Placed(u), NEW CONSTANT s, NEW CONSTANT c, Pending(s, c, u)
  PROVE  /\ Typed' /\ ScriptInv'
         /\ MeantTodo' = MeantTodo /\ MeantStore' = MeantStore /\ event' = event
<1>1. /\ MeantTodo = Settled(Line(s)) \o u
      /\ Line(s)[1] # "assign" => MeantStore = store
      /\ Line(s)[1] = "assign" => MeantStore = [store EXCEPT ![Line(s)[2]] = ValueOf(Line(s)[3])]
      /\ script # <<>> /\ script[1] = Line(s) /\ Rest = Gen(u)
      /\ s \in Item(Total(u)) /\ Total(u) \in Nat
  BY MeantPending
<1>2. c \in Command /\ Needs(s, c) /\ temps[c] \in Truth
  BY DEF Pending
<1>3. temps[c] \in Nat /\ store \in [Variable -> Truth] /\ temps \in [Command -> Nat]
  BY <1>2 DEF Typed
<1>4. \A b : ValueOf(<<"cmd", b>>) = temps[b]
  BY ValueIs
<1>5. CASE \E x \in Variable :
             s = <<"set", x, <<"cmd", c>>>> /\ Line(s) = <<"assign", x, <<"cmd", c>>>>
  <2>1. PICK x \in Variable :
          s = <<"set", x, <<"cmd", c>>>> /\ Line(s) = <<"assign", x, <<"cmd", c>>>>
    BY <1>5
  <2>2. Line(s)[1] = "assign" /\ Line(s)[2] = x /\ Line(s)[3] = <<"cmd", c>>
    BY <2>1
  <2>3. Assign
    BY <1>1, <2>2, WhichLine
  <2>4. /\ store' = [store EXCEPT ![x] = temps[c]]
        /\ script' = <<>> \o Gen(u) /\ temps' = temps /\ event' = event
    BY <1>1, <1>4, <2>2, <2>3 DEF Assign, Go
  <2>5. Typed'
    BY <1>2, <1>3, <2>2, <2>4 DEF Typed
  <2>6. ScriptInv' /\ MeantTodo' = <<>> \o u /\ MeantStore' = store'
    BY <2>4, <2>5, GoNone
  <2>7. Settled(Line(s)) = <<>>
    BY <2>1, SettledForms
  <2>8. MeantStore = store'
    BY <1>1, <1>4, <2>2, <2>4
  <2>9. QED
    BY <1>1, <2>4, <2>5, <2>6, <2>7, <2>8
<1>6. CASE \E a \in At(Total(u)) :
             /\ s = <<"if", <<"cmd", c>>, a, <<>>>>
             /\ Line(s) = <<"test", <<"cmd", c>>, a, <<>>>>
  <2>1. PICK a \in At(Total(u)) :
          /\ s = <<"if", <<"cmd", c>>, a, <<>>>>
          /\ Line(s) = <<"test", <<"cmd", c>>, a, <<>>>>
    BY <1>6
  <2>2. Line(s)[1] = "test" /\ Line(s)[2] = <<"cmd", c>> /\ Line(s)[3] = a /\ Line(s)[4] = <<>>
    BY <2>1
  <2>3. Test
    BY <1>1, <2>2, WhichLine
  <2>4. /\ script' = GenCode(IF temps[c] # 0 THEN a ELSE <<>>) \o Gen(u)
        /\ store' = store /\ temps' = temps /\ event' = event
    BY <1>1, <1>4, <2>2, <2>3 DEF Test, Go
  <2>5. Typed'
    BY <2>4 DEF Typed
  <2>6. Settled(Line(s)) = IF temps[c] # 0 THEN a ELSE <<>>
    BY <2>1, SettledForms
  <2>7. /\ ScriptInv' /\ MeantStore' = store'
        /\ MeantTodo' = (IF temps[c] # 0 THEN a ELSE <<>>) \o u
    <3>1. CASE temps[c] # 0
      <4>1. script' = GenCode(a) \o Gen(u)
        BY <2>4, <3>1
      <4>2. ScriptInv' /\ MeantTodo' = a \o u /\ MeantStore' = store'
        BY <2>5, <4>1, GoBody
      <4>3. QED
        BY <3>1, <4>2
    <3>2. CASE temps[c] = 0
      <4>1. GenCode(<<>>) = <<>>
        <5>1. [i \in DOMAIN <<>> |-> Translation(<<>>[i])] = <<>>
          OBVIOUS
        <5>2. QED
          BY <5>1, FlattenNone DEF GenCode
      <4>2. script' = <<>> \o Gen(u)
        BY <2>4, <3>2, <4>1
      <4>3. ScriptInv' /\ MeantTodo' = <<>> \o u /\ MeantStore' = store'
        BY <2>5, <4>2, GoNone
      <4>4. QED
        BY <3>2, <4>3
    <3>3. QED
      BY <3>1, <3>2
  <2>8. QED
    BY <1>1, <2>2, <2>4, <2>5, <2>6, <2>7
<1>7. CASE \E e \in Plain, ss \in CasesAt(Total(u)), d \in At(Total(u)) :
             /\ s = <<"switch", e, ss, d>> /\ Line(s) = <<"chain", e, ss, d>>
             /\ ss # <<>> /\ ss[1][1] = <<"cmd", c>>
  <2>1. PICK e \in Plain, ss \in CasesAt(Total(u)), d \in At(Total(u)) :
          /\ s = <<"switch", e, ss, d>> /\ Line(s) = <<"chain", e, ss, d>>
          /\ ss # <<>> /\ ss[1][1] = <<"cmd", c>>
    BY <1>7
  <2>2. /\ Line(s)[1] = "chain" /\ Line(s)[2] = e /\ Line(s)[3] = ss
        /\ [Line(s) EXCEPT ![3] = Tail(@)] = <<"chain", e, Tail(ss), d>>
    <3>1. PICK l : l = <<"chain", e, ss, d>>
      OBVIOUS
    <3>2. Line(s) = l
      BY <2>1, <3>1
    <3>3. l[1] = "chain" /\ l[2] = e /\ l[3] = ss
          /\ [l EXCEPT ![3] = Tail(@)] = <<"chain", e, Tail(ss), d>>
      BY <3>1
    <3>4. QED
      BY <3>2, <3>3
  <2>3. Chain
    BY <1>1, <2>2, WhichLine
  <2>4. /\ script' = (IF temps[c] = ValueOf(e) THEN GenCode(ss[1][2])
                      ELSE <<<<"chain", e, Tail(ss), d>>>>) \o Gen(u)
        /\ store' = store /\ temps' = temps /\ event' = event
    <3>1. ss # <<>> /\ ValueOf(ss[1][1]) = temps[c]
      BY <1>4, <2>1
    <3>2. /\ script' = (IF ss = <<>> THEN GenCode(Line(s)[4])
                        ELSE IF ValueOf(ss[1][1]) = ValueOf(e) THEN GenCode(ss[1][2])
                        ELSE <<<<"chain", e, Tail(ss), d>>>>) \o Gen(u)
          /\ store' = store /\ temps' = temps /\ event' = event
      BY <1>1, <2>2, <2>3 DEF Chain, Go
    <3>3. QED
      BY <3>1, <3>2, SMTT(30)
  <2>5. Typed'
    BY <2>4 DEF Typed
  <2>6. PICK st : st = <<"switch", e, Tail(ss), d>>
    OBVIOUS
  <2>7. /\ st \in Item(Total(u)) /\ NeedsNone(st) /\ Line(st) = <<"chain", e, Tail(ss), d>>
        /\ ss[1][2] \in At(Total(u))
    <3>1. ss # <<>>
      BY <2>1
    <3>2. /\ <<"switch", e, Tail(ss), d>> \in Item(Total(u))
          /\ NeedsNone(<<"switch", e, Tail(ss), d>>)
          /\ Line(<<"switch", e, Tail(ss), d>>) = <<"chain", e, Tail(ss), d>>
          /\ ss[1][2] \in At(Total(u))
      BY <1>1, <3>1, SwitchRest
    <3>3. QED
      BY <2>6, <3>2
  <2>8. Settled(Line(s)) = IF temps[c] = ValueOf(e) THEN ss[1][2] ELSE <<st>>
    <3>1. \A e1, s1, d1, c1 :
            s1 # <<>> /\ s1[1][1] = <<"cmd", c1>> =>
              Settled(<<"chain", e1, s1, d1>>)
                = IF temps[c1] = ValueOf(e1) THEN s1[1][2]
                  ELSE <<<<"switch", e1, Tail(s1), d1>>>>
      BY SettledForms
    <3>2. ss # <<>> /\ ss[1][1] = <<"cmd", c>>
      BY <2>1
    <3>3. Settled(<<"chain", e, ss, d>>)
            = IF temps[c] = ValueOf(e) THEN ss[1][2] ELSE <<<<"switch", e, Tail(ss), d>>>>
      BY <3>1, <3>2
    <3>4. QED
      BY <2>1, <2>6, <3>3
  <2>9. /\ ScriptInv' /\ MeantStore' = store'
        /\ MeantTodo' = (IF temps[c] = ValueOf(e) THEN ss[1][2] ELSE <<st>>) \o u
    <3>1. CASE temps[c] = ValueOf(e)
      <4>1. script' = GenCode(ss[1][2]) \o Gen(u)
        BY <2>4, <3>1
      <4>2. ScriptInv' /\ MeantTodo' = ss[1][2] \o u /\ MeantStore' = store'
        BY <2>5, <2>7, <4>1, GoBody
      <4>3. QED
        BY <3>1, <4>2
    <3>2. CASE temps[c] # ValueOf(e)
      <4>1. script' = <<Line(st)>> \o Gen(u)
        BY <2>4, <2>7, <3>2
      <4>2. ScriptInv' /\ MeantTodo' = <<st>> \o u /\ MeantStore' = store'
        BY <2>5, <2>7, <4>1, GoItem
      <4>3. QED
        BY <3>2, <4>2
    <3>3. QED
      BY <3>1, <3>2
  <2>10. QED
    BY <1>1, <2>2, <2>4, <2>5, <2>8, <2>9
<1>8. QED
  <2>1. \/ \E x \in Variable : s = <<"set", x, <<"cmd", c>>>> /\ Line(s) = <<"assign", x, <<"cmd", c>>>>
        \/ \E a \in At(Total(u)) : s = <<"if", <<"cmd", c>>, a, <<>>>> /\ Line(s) = <<"test", <<"cmd", c>>, a, <<>>>>
        \/ \E e \in Plain, ss \in CasesAt(Total(u)), d \in At(Total(u)) :
             /\ s = <<"switch", e, ss, d>> /\ Line(s) = <<"chain", e, ss, d>>
             /\ ss # <<>> /\ ss[1][1] = <<"cmd", c>>
    BY <1>1, <1>2, NeedsWhich
  <2>2. QED
    BY <1>5, <1>6, <1>7, <2>1

-----------------------------------------------------------------------------
(***************************************************************************)
(* The theorems.                                                           *)
(***************************************************************************)
LEMMA InitMeant ==
  ASSUME KeptPrograms(Body), Init
  PROVE  ScriptInv /\ Sushi!Init
<1>1. PICK b \in Program : script = GenCode(b)
  BY DEF Init
<1>2. b \in At(0)
  BY DEF KeptPrograms, At
<1>3. PICK n \in Nat : n = 0
  OBVIOUS
<1>4. b \in Seq(Items) /\ Gen(b) = GenCode(b)
  BY <1>2, <1>3, BodyFacts
<1>5. PICK r : r = <<>> /\ Placed(r) /\ Total(r) = 0
  BY PlacedNone, TotalOne
<1>6. Placed(b \o r)
  BY <1>2, <1>5, PlacedBody
<1>7. Placed(b)
  <2>1. b \o <<>> = b
    BY <1>4, ConcatEmptySeq
  <2>2. QED
    BY <1>5, <1>6, <2>1
<1>8. /\ temps = [c \in Command |-> 0] /\ store = [x \in Variable |-> 0]
      /\ event = [command |-> "", value |-> 0, number |-> 0]
  BY DEF Init
<1>9. Typed
  BY <1>8 DEF Typed, Truth
<1>10. MeantTodo = b /\ MeantStore = store
  BY <1>1, <1>2, <1>4, <1>7, MeantFresh
<1>11. QED
  BY <1>1, <1>4, <1>7, <1>8, <1>9, <1>10 DEF ScriptInv, Typed, Sushi!Init

\* Every step keeps the invariant and is a step of Semantics, or a stutter of it.
LEMMA NextMeant ==
  ASSUME KeptPrograms(Body), ScriptInv, [Next]_vars
  PROVE  ScriptInv' /\ [Sushi!Next]_(Sushi!vars)
<1>1. Typed
  BY DEF ScriptInv, Typed
<1>2. PICK t : Placed(t) /\ (script = Gen(t) \/ \E s, c : Pending(s, c, t))
  BY DEF ScriptInv
<1>3. CASE Next /\ script = Gen(t)
  <2>1. t # <<>>
    <3>1. script # <<>>
      BY <1>3, WhichLine
    <3>2. QED
      BY <1>3, <3>1, GenFacts
  <2>2. PICK s \in Items, r \in Seq(Items) : t = Cons(s, r)
    <3>1. t \in Seq(Items)
      BY <1>2 DEF Placed
    <3>2. t[1] \in Items /\ Tail(t) \in Seq(Items) /\ t = Cons(t[1], Tail(t))
      BY <2>1, <3>1, Unfronted
    <3>3. QED
      BY <3>2
  <2>3. Placed(r) /\ s \in Item(Total(r)) /\ Total(r) \in Nat /\ script = Gen(Cons(s, r))
    <3>1. Placed(Cons(s, r))
      BY <1>2, <2>2
    <3>2. QED
      BY <1>3, <2>2, <3>1, PlacedFirst
  <2>4. NeedsNone(s) \/ \E c \in Command : Needs(s, c)
    BY <2>3, LineFacts
  <2>5. ScriptInv' /\ Sushi!Next
    <3>1. CASE NeedsNone(s)
      BY <1>1, <1>3, <2>3, <3>1, ReadingStep
    <3>2. CASE \E c \in Command : Needs(s, c)
      <4>1. PICK c \in Command : Needs(s, c)
        BY <3>2
      <4>2. QED
        BY <1>1, <1>3, <2>3, <4>1, NeedingStep
    <3>3. QED
      BY <2>4, <3>1, <3>2
  <2>6. QED
    BY <2>5
<1>4. CASE Next /\ \E s, c : Pending(s, c, t)
  <2>1. PICK s, c : Pending(s, c, t)
    BY <1>4
  <2>2. /\ ScriptInv'
        /\ MeantTodo' = MeantTodo /\ MeantStore' = MeantStore /\ event' = event
    BY <1>1, <1>2, <1>4, <2>1, PendingStep
  <2>3. UNCHANGED Sushi!vars
    BY <2>2 DEF Sushi!vars
  <2>4. QED
    BY <2>2, <2>3
<1>5. CASE UNCHANGED vars
  <2>1. script' = script /\ temps' = temps /\ store' = store /\ event' = event
    BY <1>5 DEF vars
  <2>2. ScriptInv'
    BY <2>1 DEF ScriptInv, Pending
  <2>3. MeantTodo' = MeantTodo /\ MeantStore' = MeantStore
    BY <2>1 DEF MeantTodo, MeantStore, Settled, ValueOf, Rest, Now
  <2>4. QED
    BY <2>1, <2>2, <2>3 DEF Sushi!vars
<1>6. QED
  BY <1>2, <1>3, <1>4, <1>5

\* Between two lines the script is what ScriptInv says: the code of statements,
\* each with the loops around it that its break and continue name, or that code
\* after the command of its first statement, whose result is in its temporary.
THEOREM AlwaysMeant ==
  ASSUME KeptPrograms(Body) PROVE Spec => []ScriptInv
<1>1. Init => ScriptInv
  BY InitMeant
<1>2. ScriptInv /\ [Next]_vars => ScriptInv'
  BY NextMeant
<1>3. QED
  BY <1>1, <1>2, PTL DEF Spec

\* The script of a program that KeptPrograms allows does what the program means:
\* StmtVisitor's bash runs the commands of the statements in the order of the
\* language specification and goes where their results take it.  What the
\* programs leave out is where it does not: a command as the condition of a loop,
\* as a range, in an if with an else, switched over, or in a later case, a switch
\* without a case, and bodies that are empty.
THEOREM ScriptImplementsSemantics ==
  ASSUME KeptPrograms(Body) PROVE Spec => ImplementsSemantics
<1>1. Init => ScriptInv /\ Sushi!Init
  BY InitMeant
<1>2. ScriptInv /\ [Next]_vars => ScriptInv' /\ [Sushi!Next]_(Sushi!vars)
  BY NextMeant
<1>3. QED
  BY <1>1, <1>2, PTL DEF Spec, ImplementsSemantics, Sushi!Spec
=============================================================================
