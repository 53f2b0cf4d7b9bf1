------------------------ MODULE ContextNestingProofs ------------------------
(***************************************************************************)
(* Theorems about LexerContexts for sources of any length and any pieces:  *)
(* the contexts of the lexer nest like the methods of the parser, a        *)
(* literal meets only its own tokens, and, whatever the errors, there is a *)
(* context to leave for every ${ whose expression is being parsed.         *)
(***************************************************************************)
EXTENDS LexerContextsProofs, FiniteSetTheorems

-----------------------------------------------------------------------------
(***************************************************************************)
(* Frames and sequences of them.                                           *)
(***************************************************************************)
\* The frames the parser makes of the one on top, and where they are.
LEMMA FramesAt ==
  /\ \A p \in Point : Method(p) \in Frame /\ Method(p).at = p
  /\ \A f \in Frame, p \in Point :
       [f EXCEPT !.at = p] \in Frame /\ [f EXCEPT !.at = p].at = p
  /\ \A f \in Frame, b \in BOOLEAN, p \in Point :
       /\ [f EXCEPT !.fail = b] \in Frame /\ [f EXCEPT !.fail = b].at = f.at
       /\ [f EXCEPT !.at = p, !.fail = b] \in Frame
       /\ [f EXCEPT !.at = p, !.fail = b].at = p
  /\ \A f \in Frame, b \in BOOLEAN, c \in BOOLEAN, p \in Point :
       /\ [f EXCEPT !.at = p, !.fail = b, !.some = c] \in Frame
       /\ [f EXCEPT !.at = p, !.fail = b, !.some = c].at = p
BY DEF Frame, Method

\* A frame moved to another point.
LEMMA FrameAt ==
  ASSUME NEW f \in Frame, NEW p \in Point
  PROVE  [f EXCEPT !.at = p] \in Frame /\ [f EXCEPT !.at = p].at = p
BY DEF Frame

\* The frame of a method that begins.
LEMMA MethodAt ==
  ASSUME NEW p \in Point
  PROVE  Method(p) \in Frame /\ Method(p).at = p
BY DEF Frame, Method

\* What the operations on the stack return.
LEMMA Replaced ==
  ASSUME stack \in Seq(Frame), stack # <<>>, NEW m \in Frame
  PROVE  /\ GoOn(m) \in Seq(Frame) /\ Len(GoOn(m)) = Len(stack)
         /\ \A i \in 1 .. Len(stack) - 1 : GoOn(m)[i] = stack[i]
         /\ GoOn(m)[Len(stack)] = m
<1>1. Len(stack) \in Nat \ {0}
  BY EmptySeq
<1>2. QED
  BY <1>1, ExceptSeq DEF GoOn

\* What Append makes.
LEMMA Appended ==
  ASSUME NEW S, NEW s \in Seq(S), NEW m \in S
  PROVE  /\ Append(s, m) \in Seq(S) /\ Append(s, m) # <<>>
         /\ Len(s) \in Nat /\ Len(Append(s, m)) = Len(s) + 1
         /\ \A i \in 1 .. Len(s) : Append(s, m)[i] = s[i]
         /\ Append(s, m)[Len(s) + 1] = m
BY AppendProperties, LenProperties

\* Two frames pushed are pushed one after the other.
LEMMA AppendedTwice ==
  ASSUME NEW S, NEW s \in Seq(S), NEW m \in S, NEW n \in S
  PROVE  s \o <<m, n>> = Append(Append(s, m), n)
OBVIOUS

-----------------------------------------------------------------------------
(***************************************************************************)
(* How methods call each other, and the context each goes on in.           *)
(***************************************************************************)
Own(point) == IF ContextOf(point) = {} THEN 0 ELSE 1
Home(point) == IF ContextOf(point) = {} THEN {"normal"} ELSE ContextOf(point)

\* Where the first method may be, and where the caller of another one is.
Bottom == {"program", "block", "statement", "statement end", "skip end"}
Callers(point) ==
  IF point \in {"expression", "indices", "climb"} THEN {"statement end", "brace"}
  ELSE IF point = "redirections" THEN {"climb"}
  ELSE IF point \in {"arguments", "argument", "command end", "parameters", "parameter"}
       THEN {"redirections"}
  ELSE IF point \in {"interpolation", "destroy"} THEN {"indices", "argument", "parameter"}
  ELSE IF point = "brace" THEN {"destroy"}
  ELSE {}

Role(point, other) ==
  (point \in Bottom => other \in Bottom) /\ Callers(point) \subseteq Callers(other)

Chain(s) ==
  \A i \in 1 .. Len(s) :
    IF i = 1 THEN s[1].at \in Bottom ELSE s[i - 1].at \in Callers(s[i].at)

\* Every method but the one on top has the context it goes on in.
BelowHome(s, c) == \A i \in 1 .. Len(s) - 1 : c[Depth(s, i) + 1] \in Home(s[i].at)

Rests(s, c) == Chain(s) /\ BelowHome(s, c)

\* The depth of the methods below the one on top.
Below(s) == Depth(s, Len(s) - 1)

\* A method of its own context adds one to the depth.
LEMMA NextDepth ==
  ASSUME NEW s, NEW n \in Nat
  PROVE  /\ Depth(s, n) \in Nat
         /\ Depth(s, 0) = 0
         /\ Depth(s, n + 1) = Depth(s, n) + Own(s[n + 1].at)
<1> DEFINE With(k) == {i \in 1 .. k : ContextOf(s[i].at) # {}}
<1>1. \A k \in Nat : IsFiniteSet(With(k)) /\ Cardinality(With(k)) \in Nat
  <2> SUFFICES ASSUME NEW k \in Nat
               PROVE  IsFiniteSet(With(k)) /\ Cardinality(With(k)) \in Nat
    OBVIOUS
  <2>1. IsFiniteSet(1 .. k)
    BY FS_Interval
  <2>2. With(k) \in SUBSET (1 .. k)
    OBVIOUS
  <2>3. IsFiniteSet(With(k))
    BY <2>1, <2>2, FS_Subset
  <2>4. QED
    BY <2>3, FS_CardinalityType
<1>2. With(0) = {}
  OBVIOUS
<1>3. With(n + 1) = IF ContextOf(s[n + 1].at) = {} THEN With(n) ELSE With(n) \cup {n + 1}
  <2>1. 1 .. n + 1 = (1 .. n) \cup {n + 1}
    OBVIOUS
  <2>2. QED
    BY <2>1
<1>4. n + 1 \notin With(n)
  OBVIOUS
<1>5. \A k : Depth(s, k) = Cardinality(With(k))
  BY DEF Depth
<1> HIDE DEF With
<1>6. Cardinality(With(n) \cup {n + 1}) = Cardinality(With(n)) + 1
  BY <1>1, <1>4, FS_AddElement
<1>7. Depth(s, 0) = 0
  BY <1>2, <1>5, FS_EmptySet
<1>8. Cardinality(With(n + 1)) = Cardinality(With(n)) + Own(s[n + 1].at)
  <2>1. CASE ContextOf(s[n + 1].at) = {}
    BY <1>1, <1>3, <2>1 DEF Own
  <2>2. CASE ContextOf(s[n + 1].at) # {}
    BY <1>3, <1>6, <2>2 DEF Own
  <2>3. QED
    BY <2>1, <2>2
<1>9. QED
  BY <1>1, <1>5, <1>7, <1>8

\* It grows with the stack, and depends on the points alone.
LEMMA DepthGrows ==
  ASSUME NEW s, NEW n \in Nat, NEW k \in 0 .. n
  PROVE  Depth(s, k) \in Nat /\ Depth(s, k) <= Depth(s, n)
<1> DEFINE With(j) == {i \in 1 .. j : ContextOf(s[i].at) # {}}
<1>1. IsFiniteSet(With(n))
  <2>1. IsFiniteSet(1 .. n)
    BY FS_Interval
  <2>2. With(n) \in SUBSET (1 .. n)
    OBVIOUS
  <2>3. QED
    BY <2>1, <2>2, FS_Subset
<1>2. With(k) \in SUBSET With(n)
  OBVIOUS
<1>3. Cardinality(With(k)) <= Cardinality(With(n))
  BY <1>1, <1>2, FS_Subset
<1>4. Depth(s, k) <= Depth(s, n)
  BY <1>3 DEF Depth
<1>5. k \in Nat
  OBVIOUS
<1>6. QED
  BY <1>4, <1>5, NextDepth

\* The depth depends on the points of the frames only.
LEMMA SameDepth ==
  ASSUME NEW s, NEW r, NEW n \in Nat, \A i \in 1 .. n : r[i].at = s[i].at
  PROVE  \A k \in 0 .. n : Depth(r, k) = Depth(s, k)
<1> SUFFICES ASSUME NEW k \in 0 .. n PROVE Depth(r, k) = Depth(s, k)
  OBVIOUS
<1>1. \A i \in 1 .. k : r[i].at = s[i].at
  OBVIOUS
<1>2. {i \in 1 .. k : ContextOf(r[i].at) # {}} = {i \in 1 .. k : ContextOf(s[i].at) # {}}
  BY <1>1
<1>3. QED
  BY <1>2 DEF Depth

\* What holds at the top of a stack.
LEMMA TopRests ==
  ASSUME NEW s \in Seq(Frame), s # <<>>, NEW c, Rests(s, c)
  PROVE  /\ Len(s) \in Nat \ {0} /\ s[Len(s)].at \in Point
         /\ Below(s) \in Nat
         /\ Depth(s, Len(s)) = Below(s) + Own(s[Len(s)].at)
         /\ s[Len(s)].at \in Bottom => Len(s) = 1 /\ Below(s) = 0
         /\ s[Len(s)].at \notin Bottom =>
              /\ Len(s) - 1 \in 1 .. Len(s)
              /\ s[Len(s) - 1].at \in Callers(s[Len(s)].at)
              /\ c[Below(s) + 1] \in Home(s[Len(s) - 1].at)
<1> DEFINE n == Len(s) - 1
           p == s[Len(s)].at
<1>1. Len(s) \in Nat \ {0} /\ n \in Nat /\ Len(s) = n + 1 /\ s[Len(s)] \in Frame
  BY EmptySeq, LenProperties
<1>2. Below(s) \in Nat /\ Depth(s, Len(s)) = Below(s) + Own(p)
  BY <1>1, NextDepth DEF Below
<1>3. p \in Point
  BY <1>1 DEF Frame
<1>4. IF Len(s) = 1 THEN p \in Bottom ELSE s[n].at \in Callers(p)
  BY <1>1 DEF Rests, Chain
<1>5. p \in Bottom => Callers(p) = {}
  BY DEF Bottom, Callers
<1>6. p \in Bottom => Len(s) = 1
  BY <1>4, <1>5
<1>7. Len(s) = 1 => Below(s) = 0
  BY <1>1, NextDepth DEF Below
<1>8. p \notin Bottom => c[Below(s) + 1] \in Home(s[n].at) /\ n \in 1 .. Len(s)
  BY <1>1, <1>4 DEF Rests, BelowHome, Below
<1>9. QED
  BY <1>1, <1>2, <1>3, <1>4, <1>6, <1>7, <1>8

\* Replacing the method on top.
LEMMA ReplaceRests ==
  ASSUME NEW s \in Seq(Frame), s # <<>>, NEW c, Rests(s, c), NEW r \in Seq(Frame), NEW e,
         Len(r) = Len(s), \A i \in 1 .. Len(s) - 1 : r[i] = s[i],
         Role(s[Len(s)].at, r[Len(s)].at),
         \A j \in 1 .. Below(s) + 1 : e[j] = c[j]
  PROVE  Rests(r, e) /\ Below(r) = Below(s)
<1> DEFINE n == Len(s) - 1
<1>1. Len(s) \in Nat \ {0} /\ n \in Nat /\ Len(s) = n + 1 /\ Len(r) = n + 1
  BY EmptySeq
<1>2. \A k \in 0 .. n : Depth(r, k) = Depth(s, k)
  <2>1. \A i \in 1 .. n : r[i].at = s[i].at
    OBVIOUS
  <2>2. QED
    BY <1>1, <2>1, SameDepth
<1>3. \A k \in 0 .. n : Depth(s, k) \in Nat /\ Depth(s, k) <= Below(s)
  BY <1>1, DepthGrows DEF Below
<1>4. Below(r) = Below(s)
  BY <1>1, <1>2 DEF Below
<1>5. BelowHome(r, e)
  <2> SUFFICES ASSUME NEW i \in 1 .. n PROVE e[Depth(r, i) + 1] \in Home(r[i].at)
    BY <1>1 DEF BelowHome
  <2>1. i \in 0 .. n /\ r[i] = s[i]
    OBVIOUS
  <2>2. Depth(s, i) + 1 \in 1 .. Below(s) + 1
    <3>1. Depth(s, i) \in Nat /\ Depth(s, i) <= Below(s) /\ Below(s) \in Nat
      BY <1>3, <2>1, TopRests
    <3>2. QED
      BY <3>1
  <2>3. e[Depth(r, i) + 1] = c[Depth(s, i) + 1]
    BY <1>2, <2>1, <2>2
  <2>4. QED
    BY <2>1, <2>3 DEF Rests, BelowHome
<1>6. Chain(r)
  <2> SUFFICES ASSUME NEW i \in 1 .. n + 1
               PROVE  IF i = 1 THEN r[1].at \in Bottom ELSE r[i - 1].at \in Callers(r[i].at)
    BY <1>1 DEF Chain
  <2>1. IF i = 1 THEN s[1].at \in Bottom ELSE s[i - 1].at \in Callers(s[i].at)
    BY <1>1 DEF Rests, Chain
  <2>2. i # 1 => i - 1 \in 1 .. n
    BY <1>1
  <2>3. CASE i = n + 1
    BY <1>1, <2>1, <2>2, <2>3 DEF Role
  <2>4. CASE i # n + 1
    <3>1. i \in 1 .. n
      BY <1>1, <2>4
    <3>2. r[i] = s[i] /\ (i # 1 => r[i - 1] = s[i - 1])
      BY <2>2, <3>1
    <3>3. QED
      BY <2>1, <3>2
  <2>5. QED
    BY <2>3, <2>4
<1>7. QED
  BY <1>4, <1>5, <1>6 DEF Rests

\* Calling another one.
LEMMA AppendRests ==
  ASSUME NEW s \in Seq(Frame), s # <<>>, NEW c, Rests(s, c), NEW m \in Frame,
         s[Len(s)].at \in Callers(m.at),
         c[Below(s) + Own(s[Len(s)].at) + 1] \in Home(s[Len(s)].at)
  PROVE  /\ Rests(Append(s, m), c)
         /\ Below(Append(s, m)) = Below(s) + Own(s[Len(s)].at)
<1> DEFINE r == Append(s, m)
           n == Len(s)
<1>1. n \in Nat \ {0} /\ Len(r) = n + 1 /\ \A i \in 1 .. n : r[i] = s[i]
  BY Appended, EmptySeq
<1>2. r[n + 1] = m
  BY Appended
<1> HIDE DEF r
<1>3. \A k \in 0 .. n : Depth(r, k) = Depth(s, k)
  <2>1. \A i \in 1 .. n : r[i].at = s[i].at
    BY <1>1
  <2>2. QED
    BY <1>1, <2>1, SameDepth
<1>4. Depth(s, n) = Below(s) + Own(s[n].at)
  BY TopRests
<1>5. Below(r) = Depth(s, n)
  BY <1>1, <1>3 DEF Below
<1>6. BelowHome(r, c)
  <2> SUFFICES ASSUME NEW i \in 1 .. n PROVE c[Depth(s, i) + 1] \in Home(s[i].at)
    BY <1>1, <1>3 DEF BelowHome
  <2>1. CASE i = n
    BY <1>4, <2>1
  <2>2. CASE i # n
    BY <1>1, <2>2 DEF Rests, BelowHome
  <2>3. QED
    BY <2>1, <2>2
<1>7. Chain(r)
  <2> SUFFICES ASSUME NEW i \in 1 .. n + 1
               PROVE  IF i = 1 THEN r[1].at \in Bottom ELSE r[i - 1].at \in Callers(r[i].at)
    BY <1>1 DEF Chain
  <2>1. CASE i = n + 1
    BY <1>1, <1>2, <2>1
  <2>2. CASE i # n + 1
    <3>1. i \in 1 .. n /\ (i # 1 => i - 1 \in 1 .. n)
      BY <1>1, <2>2
    <3>2. r[i] = s[i] /\ (i # 1 => r[i - 1] = s[i - 1])
      BY <1>1, <3>1
    <3>3. QED
      BY <3>1, <3>2 DEF Rests, Chain
  <2>3. QED
    BY <2>1, <2>2
<1>8. Rests(r, c) /\ Below(r) = Below(s) + Own(s[n].at)
  BY <1>4, <1>5, <1>6, <1>7 DEF Rests
<1>9. QED
  BY <1>8 DEF r

\* Returning to the caller.
LEMMA ReturnRests ==
  ASSUME NEW s \in Seq(Frame), s # <<>>, NEW c, Rests(s, c), s[Len(s)].at \notin Bottom
  PROVE  LET r == Without(s)
         IN  /\ r \in Seq(Frame) /\ r # <<>> /\ Rests(r, c)
             /\ r[Len(r)].at \in Callers(s[Len(s)].at)
             /\ Depth(r, Len(r)) = Below(s)
             /\ c[Below(s) + 1] \in Home(r[Len(r)].at)
<1> DEFINE r == Without(s)
           n == Len(s) - 1
<1>1. /\ n \in Nat \ {0} /\ Len(s) = n + 1
      /\ s[n].at \in Callers(s[Len(s)].at)
      /\ c[Below(s) + 1] \in Home(s[n].at)
  BY TopRests, SMTT(30)
<1>2. r \in Seq(Frame) /\ Len(r) = n /\ \A i \in 1 .. n : r[i] = s[i]
  BY <1>1, WithoutLast
<1> HIDE DEF r
<1>3. r # <<>> /\ r[n] = s[n]
  BY <1>1, <1>2, EmptySeq
<1>4. \A k \in 0 .. n : Depth(r, k) = Depth(s, k)
  <2>1. \A i \in 1 .. n : r[i].at = s[i].at
    BY <1>2
  <2>2. QED
    BY <1>1, <2>1, SameDepth
<1>5. Depth(r, n) = Below(s)
  BY <1>1, <1>4 DEF Below
<1>6. BelowHome(r, c)
  <2> SUFFICES ASSUME NEW i \in 1 .. n - 1 PROVE c[Depth(r, i) + 1] \in Home(r[i].at)
    BY <1>2 DEF BelowHome
  <2>1. i \in 0 .. n /\ i \in 1 .. n /\ i \in 1 .. Len(s) - 1
    BY <1>1
  <2>2. QED
    BY <1>2, <1>4, <2>1 DEF Rests, BelowHome
<1>7. Chain(r)
  <2> SUFFICES ASSUME NEW i \in 1 .. n
               PROVE  IF i = 1 THEN r[1].at \in Bottom ELSE r[i - 1].at \in Callers(r[i].at)
    BY <1>2 DEF Chain
  <2>1. i \in 1 .. Len(s) /\ (i # 1 => i - 1 \in 1 .. n)
    BY <1>1
  <2>2. r[i] = s[i] /\ (i # 1 => r[i - 1] = s[i - 1])
    BY <1>2, <2>1, SMTT(30)
  <2>3. QED
    BY <2>1, <2>2 DEF Rests, Chain
<1>8. QED
  BY <1>1, <1>2, <1>3, <1>5, <1>6, <1>7 DEF r, Rests

-----------------------------------------------------------------------------
(***************************************************************************)
(* The tokens that are read ahead.  All of them are spaces but the last;   *)
(* an expression looks past a name too.                                    *)
(***************************************************************************)
Lookahead(point, q) ==
  \A i \in 1 .. Len(q) - 1 :
    q[i] \in Space \/ (point = "expression" /\ i = Len(q) - 1 /\ q[i] = "Ident")

\* The token on top, and passing over it.
LEMMA AheadOne ==
  ASSUME cache \in Seq(Token)
  PROVE  /\ Len(cache) \in Nat /\ (cache = <<>> <=> Len(cache) = 0)
         /\ Sees(FALSE, 1) <=> cache # <<>>
         /\ Ahead(FALSE) = IF cache = <<>> THEN "Eof" ELSE cache[1]
         /\ cache # <<>> => cache[1] \in Token /\ cache[Len(cache)] \in Token
         /\ Takes(FALSE) =>
              /\ cache # <<>> /\ cache' \in Seq(Token) /\ Len(cache') = Len(cache) - 1
              /\ \A i \in 1 .. Len(cache) - 1 : cache'[i] = cache[i + 1]
<1>1. /\ Len(cache) \in Nat /\ (cache = <<>> <=> Len(cache) = 0)
      /\ DOMAIN cache = 1 .. Len(cache) /\ \A i \in 1 .. Len(cache) : cache[i] \in Token
  BY EmptySeq, LenProperties
<1>2. Sees(FALSE, 1) <=> cache # <<>>
  BY <1>1 DEF Sees
<1>3. Ahead(FALSE) = IF cache = <<>> THEN "Eof" ELSE cache[1]
  BY <1>2 DEF Ahead
<1>4. ASSUME Takes(FALSE)
      PROVE  /\ cache # <<>> /\ cache' \in Seq(Token) /\ Len(cache') = Len(cache) - 1
             /\ \A i \in 1 .. Len(cache) - 1 : cache'[i] = cache[i + 1]
  <2>1. 1 \in DOMAIN cache /\ cache' = SubSeq(cache, 2, Len(cache))
    BY <1>4 DEF Takes
  <2>2. Len(cache) # 0 /\ \A i \in 2 .. Len(cache) : cache[i] \in Token
    BY <1>1, <2>1
  <2> DEFINE m == Len(cache)
  <2>3. m \in Int /\ m - 2 + 1 = m - 1
    BY <1>1
  <2> HIDE DEF m
  <2>4. /\ SubSeq(cache, 2, m) \in Seq(Token)
        /\ Len(SubSeq(cache, 2, m)) = IF 2 <= m THEN m - 2 + 1 ELSE 0
        /\ \A i \in 1 .. m - 2 + 1 : SubSeq(cache, 2, m)[i] = cache[2 + i - 1]
    BY <2>2, <2>3, SubSeqProperties DEF m
  <2>5. QED
    BY <1>1, <2>1, <2>2, <2>3, <2>4 DEF m
<1>5. cache # <<>> => cache[1] \in Token /\ cache[Len(cache)] \in Token
  BY <1>1
<1>6. QED
  BY <1>1, <1>2, <1>3, <1>4, <1>5

\* The first token that is no space, and passing over it.
LEMMA AheadSolid ==
  ASSUME cache \in Seq(Token), NEW point, Lookahead(point, cache)
  PROVE  /\ Sees(TRUE, 1) <=> Solid # {}
         /\ Ahead(TRUE) = IF Solid = {} THEN "Eof" ELSE cache[First]
         /\ Solid # {} =>
              /\ Len(cache) \in Nat \ {0} /\ First \in Solid /\ \A j \in Solid : First <= j
              /\ First = Len(cache) \/ (First = Len(cache) - 1 /\ cache[First] = "Ident")
         /\ Takes(TRUE) =>
              /\ Solid # {} /\ cache' \in Seq(Token) /\ Len(cache') = Len(cache) - First
              /\ First = Len(cache) - 1 => cache'[1] = cache[Len(cache)]
<1> DEFINE m == Len(cache)
<1>1. /\ m \in Nat /\ DOMAIN cache = 1 .. m /\ \A i \in 1 .. m : cache[i] \in Token
      /\ \A i \in Solid : i \in Int /\ 1 <= i /\ i <= m /\ cache[i] \notin Space
  BY EmptySeq, LenProperties DEF Solid
<1>2. \A i \in Solid : i = m \/ (i = m - 1 /\ cache[i] = "Ident")
  <2> SUFFICES ASSUME NEW i \in Solid, i # m PROVE i = m - 1 /\ cache[i] = "Ident"
    OBVIOUS
  <2>1. i \in 1 .. m - 1 /\ cache[i] \notin Space
    BY <1>1
  <2>2. QED
    BY <2>1 DEF Lookahead
<1> HIDE DEF m
<1>3. Solid # {} => \E i \in Solid : \A j \in Solid : i <= j
  <2>1. CASE m - 1 \in Solid
    <3>1. \A j \in Solid : m - 1 <= j
      BY <1>1, <1>2
    <3>2. QED
      BY <2>1, <3>1
  <2>2. CASE m - 1 \notin Solid
    <3>1. \A j \in Solid : j = m
      BY <1>2, <2>2
    <3>2. \A i, j \in Solid : i <= j
      BY <1>1, <3>1
    <3>3. QED
      BY <3>2
  <2>3. QED
    BY <2>1, <2>2
<1>4. Solid # {} => First \in Solid /\ \A j \in Solid : First <= j
  BY <1>3 DEF First
<1>5. ASSUME NEW i \in Solid, \A j \in Solid : i <= j PROVE i = First
  <2>1. First \in Int /\ First <= i /\ i <= First /\ i \in Int
    BY <1>1, <1>4, <1>5
  <2>2. QED
    BY <2>1
<1>6. Sees(TRUE, 1) <=> Solid # {}
  <2>1. Solid # {} => First \in Int /\ First <= Len(cache)
    BY <1>1, <1>4 DEF m
  <2>2. Solid # {} => First + 1 - 1 <= Len(cache)
    BY <2>1
  <2>3. QED
    BY <2>2 DEF Sees
<1>7. Ahead(TRUE) = IF Solid = {} THEN "Eof" ELSE cache[First]
  BY <1>6 DEF Ahead
<1>8. ASSUME Takes(TRUE)
      PROVE  /\ Solid # {} /\ cache' \in Seq(Token) /\ Len(cache') = m - First
             /\ First = m - 1 => cache'[1] = cache[m]
  <2>1. Solid # {} /\ cache' = SubSeq(cache, First + 1, m)
    BY <1>5, <1>8 DEF Takes, m
  <2>2. First \in 1 .. m
    BY <1>1, <1>4, <2>1
  <2> DEFINE k == First + 1
  <2>3. k \in Int /\ m \in Int /\ k \in 2 .. m + 1 /\ k = First + 1
    BY <1>1, <2>2
  <2> HIDE DEF k
  <2>4. \A i \in k .. m : cache[i] \in Token
    BY <1>1, <2>3
  <2>5. /\ SubSeq(cache, k, m) \in Seq(Token)
        /\ Len(SubSeq(cache, k, m)) = IF k <= m THEN m - k + 1 ELSE 0
        /\ \A i \in 1 .. m - k + 1 : SubSeq(cache, k, m)[i] = cache[k + i - 1]
    BY <2>3, <2>4, SubSeqProperties
  <2>6. cache' = SubSeq(cache, k, m)
    BY <2>1 DEF k
  <2>7. Len(SubSeq(cache, k, m)) = m - First
    BY <1>1, <2>2, <2>3, <2>5
  <2>8. First = m - 1 => SubSeq(cache, k, m)[1] = cache[m]
    BY <1>1, <2>2, <2>3, <2>5
  <2>9. QED
    BY <2>1, <2>5, <2>6, <2>7, <2>8
<1>9. Solid # {} => m # 0
  <2>1. \A i \in Solid : m # 0
    BY <1>1
  <2>2. QED
    BY <2>1
<1>10. QED
  BY <1>1, <1>2, <1>4, <1>6, <1>7, <1>8, <1>9 DEF m

\* A token that is no space and no name is the last one that was read.
LEMMA AheadLast ==
  ASSUME cache \in Seq(Token), NEW point, Lookahead(point, cache),
         Ahead(TRUE) \notin {"Ident", "Eof"}
  PROVE  /\ cache # <<>> /\ Ahead(TRUE) = cache[Len(cache)]
         /\ Takes(TRUE) => cache' = <<>>
<1>1. Solid # {} /\ First = Len(cache) /\ Ahead(TRUE) = cache[First] /\ Len(cache) \in Nat \ {0}
  BY AheadSolid
<1>2. cache # <<>>
  BY <1>1, AheadOne
<1>3. ASSUME Takes(TRUE) PROVE cache' = <<>>
  <2>1. cache' \in Seq(Token) /\ Len(cache') = Len(cache) - First
    BY <1>3, AheadSolid
  <2>2. Len(cache') = 0
    BY <1>1, <2>1
  <2>3. QED
    BY <2>1, <2>2, EmptySeq
<1>4. QED
  BY <1>1, <1>2, <1>3

\* A name is the last one, or the one before it.
LEMMA AheadName ==
  ASSUME cache \in Seq(Token), NEW point, Lookahead(point, cache), Ahead(TRUE) = "Ident"
  PROVE  /\ cache # <<>>
         /\ Takes(TRUE) =>
              \/ cache' = <<>> /\ cache[Len(cache)] = "Ident"
              \/ cache' # <<>> /\ Len(cache') = 1 /\ cache'[1] = cache[Len(cache)]
<1>1. Solid # {} /\ Ahead(TRUE) = cache[First] /\ Len(cache) \in Nat \ {0}
  BY AheadSolid
<1>2. cache # <<>>
  BY <1>1, AheadOne
<1>3. ASSUME Takes(TRUE)
      PROVE  \/ cache' = <<>> /\ cache[Len(cache)] = "Ident"
             \/ cache' # <<>> /\ Len(cache') = 1 /\ cache'[1] = cache[Len(cache)]
  <2>1. /\ cache' \in Seq(Token) /\ Len(cache') = Len(cache) - First
        /\ First = Len(cache) - 1 => cache'[1] = cache[Len(cache)]
    BY <1>3, AheadSolid
  <2>2. CASE First = Len(cache)
    <3>1. Len(cache') = 0
      BY <1>1, <2>1, <2>2
    <3>2. QED
      BY <1>1, <2>1, <2>2, <3>1, EmptySeq
  <2>3. CASE First = Len(cache) - 1
    <3>1. Len(cache') = 1
      BY <1>1, <2>1, <2>3
    <3>2. QED
      BY <2>1, <2>3, <3>1, EmptySeq
  <2>4. QED
    BY <1>1, <2>2, <2>3, AheadSolid
<1>4. QED
  BY <1>2, <1>3

\* What was read when the parser asks for another token.
LEMMA AsksForMore ==
  ASSUME cache \in Seq(Token), NEW point, Lookahead(point, cache)
  PROVE  /\ ~Sees(TRUE, 1) => \A i \in 1 .. Len(cache) : cache[i] \in Space
         /\ ~Sees(TRUE, 2) /\ Ahead(TRUE) = "Ident" =>
              \A i \in 1 .. Len(cache) : cache[i] \in Space \/ (i = Len(cache) /\ cache[i] = "Ident")
<1>1. Len(cache) \in Nat /\ DOMAIN cache = 1 .. Len(cache)
  BY LenProperties
<1>2. ~Sees(TRUE, 1) => \A i \in 1 .. Len(cache) : cache[i] \in Space
  BY <1>1, AheadSolid DEF Solid
<1>3. ASSUME ~Sees(TRUE, 2), Ahead(TRUE) = "Ident"
      PROVE  \A i \in 1 .. Len(cache) : cache[i] \in Space \/ (i = Len(cache) /\ cache[i] = "Ident")
  <2>1. /\ Solid # {} /\ cache[First] = "Ident" /\ First \in Solid /\ \A j \in Solid : First <= j
    BY <1>3, AheadSolid
  <2>2. First \in 1 .. Len(cache)
    BY <1>1, <2>1 DEF Solid
  <2>3. ~(First + 2 - 1 <= Len(cache))
    BY <1>3, <2>1 DEF Sees
  <2> DEFINE f == First
             m == Len(cache)
  <2>4. First = Len(cache)
    <3>1. f \in Int /\ m \in Int /\ f <= m /\ ~(f + 2 - 1 <= m)
      BY <1>1, <2>2, <2>3
    <3> HIDE DEF f, m
    <3>2. f = m
      BY <3>1
    <3>3. QED
      BY <3>2 DEF f, m
  <2> SUFFICES ASSUME NEW i \in 1 .. Len(cache), cache[i] \notin Space
               PROVE  i = Len(cache) /\ cache[i] = "Ident"
    OBVIOUS
  <2>5. i \in Solid
    BY <1>1 DEF Solid
  <2>6. Len(cache) <= i
    BY <2>1, <2>4, <2>5
  <2>7. i = Len(cache)
    <3>1. i \in Int /\ m \in Int /\ i <= m /\ m <= i
      BY <1>1, <2>6
    <3> HIDE DEF m
    <3>2. i = m
      BY <3>1
    <3>3. QED
      BY <3>2 DEF m
  <2>8. QED
    BY <2>1, <2>4, <2>7
<1>4. QED
  BY <1>2, <1>3

-----------------------------------------------------------------------------
(***************************************************************************)
(* The invariant.  A token that enters a context is the last one that was  *)
(* read, so the contexts above those of the methods are known from it: c is*)
(* the contexts, d of them below the normal one or the one of the method on*)
(* top, q the tokens that wait and x the next piece.                       *)
(***************************************************************************)
Opening == {"StringLit", "Exclamation"}
Opened(token) == IF token = "StringLit" THEN "string" ELSE "raw"

Normal(d, c, q, x) ==
  /\ c[d + 1] = "normal"
  /\ \/ Len(c) = d + 1 /\ (q # <<>> => q[Len(q)] \notin Opening)
     \/ Len(c) = d + 2 /\ q # <<>> /\ q[Len(q)] \in Opening /\ c[d + 2] = Opened(q[Len(q)])
     \/ Len(c) = d + 2 /\ q = <<>> /\ x = "eof" /\ c[d + 2] = "raw"

Arguments(d, c, q) ==
  \/ q = <<>> /\ Len(c) = d + 1 /\ c[d + 1] = "raw"
  \/ /\ Len(q) = 1 /\ q[1] \in {"LineBreak", "Comma", "RBrace"}
     /\ Len(c) = d
  \/ /\ Len(q) = 1 /\ q[1] \in IsInterpolatable
     /\ Len(c) = d + 2 /\ c[d + 1] = "raw"
     /\ c[d + 2] = IF q[1] = "RawString" THEN "raw token" ELSE "string"

Literal(d, c, q) ==
  \/ Len(q) = 1 /\ q[1] = "InterDone" /\ Len(c) = d
  \/ /\ c[d + 1] \in {"raw token", "string"}
     /\ \/ q = <<>> /\ Len(c) = d + 1
        \/ Len(q) = 1 /\ q[1] = "Segment" /\ Len(c) = d + 1
        \/ Len(q) = 1 /\ q[1] = "InterStart" /\ Len(c) = d + 2 /\ c[d + 2] = "normal"

\* The points at which the parser reads in the normal context.
Plain == Point \ {"arguments", "argument", "interpolation", "destroy"}

TopFits(point, d, c, q, x) ==
  /\ point = "arguments" => Arguments(d, c, q)
  /\ point = "argument" => q = <<>> /\ Len(c) = d + 1 /\ c[d + 1] = "raw"
  /\ point = "interpolation" => Literal(d, c, q)
  /\ point = "destroy" =>
       /\ q = <<>> /\ Len(c) = d + 2
       /\ c[d + 1] \in {"raw token", "string"} /\ c[d + 2] = "normal"
  /\ point \in Plain => Lookahead(point, q) /\ Normal(d, c, q, x)

Nested ==
  /\ stack = <<>> => cache = <<>> /\ Normal(0, contexts, cache, next)
  /\ stack # <<>> =>
       /\ Rests(stack, contexts)
       /\ TopFits(top.at, Below(stack) + Own(top.at), contexts, cache, next)

\* What is known in a step of the parser.
Running == TypeOK /\ stack # <<>> /\ Nested

-----------------------------------------------------------------------------
(***************************************************************************)
(* What a step may do with the stack.                                      *)
(***************************************************************************)
LEMMA RunningTop ==
  ASSUME Running
  PROVE  /\ stack \in Seq(Frame) /\ Len(stack) \in Nat \ {0}
         /\ top \in Frame /\ top = stack[Len(stack)]
         /\ Rests(stack, contexts)
         /\ TopFits(top.at, Below(stack) + Own(top.at), contexts, cache, next)
BY EmptySeq, StackOps DEF Running, TypeOK, Nested, top

\* The top frame moved to another point is a frame.
LEMMA RunningFrames ==
  ASSUME Running, NEW p \in Point
  PROVE  [top EXCEPT !.at = p] \in Frame /\ [top EXCEPT !.at = p].at = p
BY RunningTop, FrameAt

\* The method on top stays.
LEMMA StaysNested ==
  ASSUME Running, UNCHANGED stack,
         \A j \in 1 .. Below(stack) + 1 : contexts'[j] = contexts[j],
         TopFits(top.at, Below(stack) + Own(top.at), contexts', cache', next')
  PROVE  Nested'
<1>1. Role(top.at, top.at)
  BY DEF Role
<1>2. Rests(stack, contexts')
  BY <1>1, RunningTop, ReplaceRests
<1>3. stack' # <<>> /\ Rests(stack', contexts') /\ top' = top /\ Below(stack') = Below(stack)
  BY <1>2 DEF Running, top
<1>4. QED
  BY <1>3 DEF Nested

\* It goes on.
LEMMA GoesOnNested ==
  ASSUME Running, NEW m \in Frame, stack' = GoOn(m), Role(top.at, m.at),
         \A j \in 1 .. Below(stack) + 1 : contexts'[j] = contexts[j],
         TopFits(m.at, Below(stack) + Own(m.at), contexts', cache', next')
  PROVE  Nested'
<1>1. /\ GoOn(m) \in Seq(Frame) /\ Len(GoOn(m)) = Len(stack)
      /\ \A i \in 1 .. Len(stack) - 1 : GoOn(m)[i] = stack[i]
      /\ GoOn(m)[Len(stack)] = m
  BY RunningTop, Replaced DEF Running
<1>2. Rests(GoOn(m), contexts') /\ Below(GoOn(m)) = Below(stack)
  BY <1>1, RunningTop, ReplaceRests DEF Running
<1>3. stack' # <<>> /\ top' = m
  BY <1>1, RunningTop, EmptySeq DEF top
<1>4. QED
  BY <1>2, <1>3 DEF Nested

\* It goes on after a call.
LEMMA CallsNested ==
  ASSUME Running, NEW m \in Frame, NEW k \in Frame, stack' = Append(GoOn(m), k),
         Role(top.at, m.at), m.at \in Callers(k.at), UNCHANGED contexts,
         contexts[Below(stack) + Own(m.at) + 1] \in Home(m.at),
         TopFits(k.at, Below(stack) + Own(m.at) + Own(k.at), contexts, cache', next')
  PROVE  Nested'
<1> DEFINE s == GoOn(m)
           r == Append(s, k)
<1>1. /\ s \in Seq(Frame) /\ Len(s) = Len(stack)
      /\ \A i \in 1 .. Len(stack) - 1 : s[i] = stack[i]
      /\ s[Len(stack)] = m
  BY RunningTop, Replaced DEF Running
<1>2. Rests(s, contexts) /\ Below(s) = Below(stack) /\ s # <<>> /\ s[Len(s)] = m
  BY <1>1, RunningTop, ReplaceRests, EmptySeq DEF Running
<1> HIDE DEF s
<1>3. Rests(r, contexts) /\ Below(r) = Below(stack) + Own(m.at)
  BY <1>1, <1>2, AppendRests
<1>4. r # <<>> /\ r[Len(r)] = k
  BY <1>1, Appended
<1> HIDE DEF r
<1>5. stack' = r
  BY DEF r, s
<1>6. QED
  BY <1>3, <1>4, <1>5 DEF Nested, top

\* It goes on after two calls, the second one running first.
LEMMA CallsTwoNested ==
  ASSUME Running, NEW m \in Frame, NEW k \in Frame, NEW l \in Frame,
         stack' = GoOn(m) \o <<k, l>>,
         Role(top.at, m.at), m.at \in Callers(k.at), k.at \in Callers(l.at),
         UNCHANGED contexts,
         contexts[Below(stack) + Own(m.at) + 1] \in Home(m.at),
         contexts[Below(stack) + Own(m.at) + Own(k.at) + 1] \in Home(k.at),
         TopFits(l.at, Below(stack) + Own(m.at) + Own(k.at) + Own(l.at), contexts, cache', next')
  PROVE  Nested'
<1> DEFINE s == GoOn(m)
           r == Append(s, k)
           t == Append(r, l)
<1>1. /\ s \in Seq(Frame) /\ Len(s) = Len(stack)
      /\ \A i \in 1 .. Len(stack) - 1 : s[i] = stack[i]
      /\ s[Len(stack)] = m
  BY RunningTop, Replaced DEF Running
<1>2. Rests(s, contexts) /\ Below(s) = Below(stack) /\ s # <<>> /\ s[Len(s)] = m
  BY <1>1, RunningTop, ReplaceRests, EmptySeq DEF Running
<1>3. stack' = t
  BY <1>1, AppendedTwice
<1> HIDE DEF s
<1>4. Rests(r, contexts) /\ Below(r) = Below(stack) + Own(m.at)
  BY <1>1, <1>2, AppendRests
<1>5. r \in Seq(Frame) /\ r # <<>> /\ r[Len(r)] = k
  <2>1. s \in Seq(Frame)
    BY <1>1
  <2>2. r \in Seq(Frame) /\ r # <<>> /\ Len(r) = Len(s) + 1 /\ r[Len(s) + 1] = k
    BY <2>1, Appended
  <2>3. QED
    BY <2>2
<1> HIDE DEF r
<1>6. Rests(t, contexts) /\ Below(t) = Below(stack) + Own(m.at) + Own(k.at)
  BY <1>4, <1>5, AppendRests
<1>7. t # <<>> /\ t[Len(t)] = l
  BY <1>5, Appended
<1> HIDE DEF t
<1>8. QED
  BY <1>3, <1>6, <1>7 DEF Nested, top

\* It returns to its caller.
LEMMA ReturnsNested ==
  ASSUME Running, top.at \notin Bottom, stack' = Without(stack), UNCHANGED contexts,
         \A p \in Callers(top.at) :
           contexts[Below(stack) + 1] \in Home(p) => TopFits(p, Below(stack), contexts, cache', next')
  PROVE  Nested'
<1> DEFINE r == Without(stack)
<1>1. /\ r \in Seq(Frame) /\ r # <<>> /\ Rests(r, contexts)
      /\ r[Len(r)].at \in Callers(top.at)
      /\ Depth(r, Len(r)) = Below(stack)
      /\ contexts[Below(stack) + 1] \in Home(r[Len(r)].at)
  BY RunningTop, ReturnRests DEF Running
<1> HIDE DEF r
<1>2. Below(r) + Own(r[Len(r)].at) = Below(stack)
  BY <1>1, TopRests
<1>3. TopFits(r[Len(r)].at, Below(stack), contexts, cache', next')
  BY <1>1
<1>4. stack' = r
  BY DEF r
<1>5. QED
  BY <1>1, <1>2, <1>3, <1>4 DEF Nested, top

\* The same, by the points at which the methods go on.
LEMMA GoToNested ==
  ASSUME Running, NEW p \in Point, GoTo(p), Role(top.at, p), UNCHANGED contexts,
         TopFits(p, Below(stack) + Own(p), contexts, cache', next')
  PROVE  Nested'
<1> DEFINE m == [top EXCEPT !.at = p]
<1>1. m \in Frame /\ m.at = p
  BY RunningTop, FrameAt
<1>2. stack' = GoOn(m)
  BY DEF GoTo
<1> HIDE DEF m
<1>3. QED
  BY <1>1, <1>2, GoesOnNested

\* A step that calls one method keeps the nesting.
LEMMA CallNested ==
  ASSUME Running, NEW p \in Point, NEW q \in Point, Call(p, q),
         Role(top.at, p), p \in Callers(q), UNCHANGED contexts,
         contexts[Below(stack) + Own(p) + 1] \in Home(p),
         TopFits(q, Below(stack) + Own(p) + Own(q), contexts, cache', next')
  PROVE  Nested'
<1> DEFINE m == [top EXCEPT !.at = p]
           k == Method(q)
<1>1. m \in Frame /\ m.at = p /\ k \in Frame /\ k.at = q
  <2>1. m \in Frame /\ m.at = p
    BY RunningTop, FrameAt
  <2>2. k \in Frame /\ k.at = q
    BY MethodAt
  <2>3. QED
    BY <2>1, <2>2
<1>2. stack' = Append(GoOn(m), k)
  BY DEF Call
<1> HIDE DEF m, k
<1>3. QED
  BY <1>1, <1>2, CallsNested

\* So does one that calls a method and, from it, another.
LEMMA CallTwoNested ==
  ASSUME Running, NEW p \in Point, NEW q \in Point, NEW r \in Point,
         stack' = GoOn([top EXCEPT !.at = p]) \o <<Method(q), Method(r)>>,
         Role(top.at, p), p \in Callers(q), q \in Callers(r), UNCHANGED contexts,
         contexts[Below(stack) + Own(p) + 1] \in Home(p),
         contexts[Below(stack) + Own(p) + Own(q) + 1] \in Home(q),
         TopFits(r, Below(stack) + Own(p) + Own(q) + Own(r), contexts, cache', next')
  PROVE  Nested'
<1> DEFINE m == [top EXCEPT !.at = p]
           k == Method(q)
           l == Method(r)
<1>1. m \in Frame /\ m.at = p /\ k \in Frame /\ k.at = q /\ l \in Frame /\ l.at = r
  <2>1. m \in Frame /\ m.at = p
    BY RunningFrames
  <2>2. k \in Frame /\ k.at = q /\ l \in Frame /\ l.at = r
    BY FramesAt
  <2>3. QED
    BY <2>1, <2>2
<1>2. stack' = GoOn(m) \o <<k, l>>
  OBVIOUS
<1> HIDE DEF m, k, l
<1>3. QED
  BY <1>1, <1>2, CallsTwoNested

-----------------------------------------------------------------------------
(***************************************************************************)
(* The lexer.                                                              *)
(***************************************************************************)
\* Entering and leaving a context.
LEMMA EnterExit ==
  ASSUME contexts \in Seq(Context), contexts # <<>>
  PROVE  /\ Len(contexts) \in Nat \ {0}
         /\ \A ctx \in Context : Enter(ctx) =>
              /\ Len(contexts') = Len(contexts) + 1 /\ contexts'[Len(contexts) + 1] = ctx
              /\ \A j \in 1 .. Len(contexts) : contexts'[j] = contexts[j]
         /\ Exit /\ Len(contexts) # 1 =>
              /\ Len(contexts') = Len(contexts) - 1
              /\ \A j \in 1 .. Len(contexts) - 1 : contexts'[j] = contexts[j]
<1>1. Len(contexts) \in Nat \ {0}
  BY EmptySeq
<1>2. ASSUME NEW ctx \in Context, Enter(ctx)
      PROVE  /\ Len(contexts') = Len(contexts) + 1 /\ contexts'[Len(contexts) + 1] = ctx
             /\ \A j \in 1 .. Len(contexts) : contexts'[j] = contexts[j]
  BY <1>2, Appended DEF Enter
<1>3. ASSUME Exit, Len(contexts) # 1
      PROVE  /\ Len(contexts') = Len(contexts) - 1
             /\ \A j \in 1 .. Len(contexts) - 1 : contexts'[j] = contexts[j]
  BY <1>3, WithoutLast DEF Exit
<1>4. QED
  BY <1>1, <1>2, <1>3

\* The parser that reads in the normal context asks for a token: the lexer is in
\* that context, and the token goes with those that wait.
LEMMA AsksInNormal ==
  ASSUME Running, result, top.at \in Plain, ~Sighted, ~Exhausted
  PROVE  LET d == Below(stack) + Own(top.at)
         IN  /\ d \in Nat /\ Len(contexts) = d + 1 /\ context = "normal"
             /\ contexts[d + 1] = "normal"
             /\ \A t : Lookahead(top.at, Append(cache, t))
<1> DEFINE d == Below(stack) + Own(top.at)
<1>1. d \in Nat /\ Lookahead(top.at, cache) /\ Normal(d, contexts, cache, next)
  <2>1. Below(stack) \in Nat /\ Own(top.at) \in Nat
    BY RunningTop, TopRests DEF Running, Own
  <2>2. TopFits(top.at, d, contexts, cache, next)
    BY RunningTop
  <2>3. d \in Nat
    BY <2>1
  <2>4. QED
    BY <2>2, <2>3 DEF TopFits
<1>2. /\ cache \in Seq(Token) /\ Len(cache) \in Nat /\ (cache = <<>> <=> Len(cache) = 0)
      /\ \A i \in 1 .. Len(cache) : cache[i] \in Token
  BY AheadOne, LenProperties DEF Running, TypeOK
<1>3. \A i \in 1 .. Len(cache) :
        cache[i] \in Space \/ (top.at = "expression" /\ i = Len(cache) /\ cache[i] = "Ident")
  <2>1. CASE top.at = "expression"
    <3>1. ~Sees(TRUE, IF Ahead(TRUE) = "Ident" THEN 2 ELSE 1)
      BY <2>1 DEF Sighted
    <3>2. CASE Ahead(TRUE) = "Ident"
      BY <1>1, <1>2, <2>1, <3>1, <3>2, AsksForMore
    <3>3. CASE Ahead(TRUE) # "Ident"
      <4>1. ~Sees(TRUE, 1)
        BY <3>1, <3>3
      <4>2. QED
        BY <1>1, <1>2, <4>1, AsksForMore
    <3>4. QED
      BY <3>2, <3>3
  <2>2. CASE top.at # "expression"
    <3>1. ~Sees(TRUE, 1) \/ ~Sees(FALSE, 1)
      BY <2>2 DEF Sighted, Plain
    <3>2. CASE ~Sees(TRUE, 1)
      BY <1>1, <1>2, <3>2, AsksForMore
    <3>3. CASE ~Sees(FALSE, 1)
      <4>1. cache = <<>>
        BY <1>2, <3>3, AheadOne
      <4>2. QED
        BY <1>2, <4>1
    <3>4. QED
      BY <3>1, <3>2, <3>3
  <2>3. QED
    BY <2>1, <2>2
<1>4. \A t : Lookahead(top.at, Append(cache, t))
  <2> SUFFICES ASSUME NEW t, NEW i \in 1 .. Len(Append(cache, t)) - 1
               PROVE  \/ Append(cache, t)[i] \in Space
                      \/ /\ top.at = "expression" /\ i = Len(Append(cache, t)) - 1
                         /\ Append(cache, t)[i] = "Ident"
    BY DEF Lookahead
  <2>1. cache \in Seq(Token \cup {t}) /\ t \in Token \cup {t}
    BY <1>2, SeqMonotonic
  <2>2. Len(Append(cache, t)) = Len(cache) + 1 /\ \A j \in 1 .. Len(cache) : Append(cache, t)[j] = cache[j]
    BY <2>1, Appended
  <2>3. QED
    BY <1>2, <1>3, <2>2
<1>5. cache # <<>> => cache[Len(cache)] \notin Opening
  BY <1>2, <1>3 DEF Opening, Space
<1>6. Len(contexts) = d + 1 /\ contexts[d + 1] = "normal"
  <2>1. ~(Len(contexts) = d + 2 /\ next = "eof" /\ contexts[d + 2] = "raw")
    BY DEF Exhausted, context
  <2>2. QED
    BY <1>1, <1>5, <2>1 DEF Normal
<1>7. QED
  BY <1>1, <1>4, <1>6 DEF context

\* The parser asks for a token in the context of the method on top.
LEMMA AsksInItsContext ==
  ASSUME Running, result, ~Sighted, ~Exhausted
  PROVE  \/ top.at \in Plain /\ context = "normal"
         \/ /\ top.at = "arguments" /\ cache = <<>> /\ Len(contexts) = Below(stack) + 2
            /\ context = "raw" /\ Below(stack) \in Nat
         \/ /\ top.at = "interpolation" /\ cache = <<>> /\ Len(contexts) = Below(stack) + 2
            /\ context \in {"raw token", "string"} /\ Below(stack) \in Nat
<1> DEFINE d == Below(stack) + Own(top.at)
<1>1. TopFits(top.at, d, contexts, cache, next) /\ Below(stack) \in Nat /\ top.at \in Point
  BY RunningTop, TopRests DEF Running, Frame
<1>2. top.at \in {"arguments", "interpolation"} => d = Below(stack) + 1
  BY DEF Own, ContextOf
<1>3. top.at \notin {"argument", "destroy"}
  BY DEF Sighted
<1>4. top.at \in {"arguments", "interpolation"} => cache = <<>>
  <2>1. top.at \in {"arguments", "interpolation"} => ~Sees(FALSE, 1)
    BY DEF Sighted
  <2>2. QED
    BY <2>1, AheadOne DEF Running, TypeOK
<1> HIDE DEF d
<1>5. CASE top.at \in Plain
  BY <1>5, AsksInNormal
<1>6. CASE top.at = "arguments"
  <2>1. Arguments(d, contexts, <<>>) /\ d = Below(stack) + 1
    BY <1>1, <1>2, <1>4, <1>6 DEF TopFits
  <2>2. Len(contexts) = d + 1 /\ contexts[d + 1] = "raw"
    BY <2>1 DEF Arguments
  <2>3. QED
    BY <1>1, <1>4, <1>6, <2>1, <2>2 DEF context
<1>7. CASE top.at = "interpolation"
  <2>1. Literal(d, contexts, <<>>) /\ d = Below(stack) + 1
    BY <1>1, <1>2, <1>4, <1>7 DEF TopFits
  <2>2. Len(<<>>) # 1
    OBVIOUS
  <2>3. Len(contexts) = d + 1 /\ contexts[d + 1] \in {"raw token", "string"}
    BY <2>1, <2>2 DEF Literal
  <2>4. context \in {"raw token", "string"}
    BY <2>3 DEF context
  <2> DEFINE b == Below(stack)
  <2>5. d = b + 1 /\ b \in Nat /\ Len(contexts) = d + 1
    BY <1>1, <1>2, <1>7, <2>3
  <2> HIDE DEF b
  <2>6. Len(contexts) = b + 2
    BY <2>5
  <2>7. QED
    BY <1>1, <1>4, <1>7, <2>4, <2>6 DEF b
<1>8. QED
  BY <1>1, <1>3, <1>5, <1>6, <1>7 DEF Plain

\* A token of the normal context.
LEMMA EmitsInNormal ==
  ASSUME Running, result, top.at \in Plain, ~Sighted, ~Exhausted,
         NEW t \in Token, Emit(t),
         IF t \in Opening THEN Enter(Opened(t)) ELSE UNCHANGED contexts
  PROVE  Nested'
<1> DEFINE d == Below(stack) + Own(top.at)
<1>1. /\ d \in Nat /\ Len(contexts) = d + 1 /\ contexts[d + 1] = "normal"
      /\ \A u : Lookahead(top.at, Append(cache, u))
  BY AsksInNormal
<1>2. /\ cache' # <<>> /\ cache'[Len(cache')] = t /\ Lookahead(top.at, cache')
      /\ UNCHANGED stack
  <2>1. cache' = Append(cache, t) /\ UNCHANGED stack
    BY DEF Emit
  <2>2. cache \in Seq(Token)
    BY DEF Running, TypeOK
  <2>3. Append(cache, t) # <<>> /\ Append(cache, t)[Len(Append(cache, t))] = t
    BY <2>2, Appended
  <2>4. QED
    BY <1>1, <2>1, <2>3
<1>3. /\ \A j \in 1 .. d + 1 : contexts'[j] = contexts[j]
      /\ t \in Opening => Len(contexts') = d + 2 /\ contexts'[d + 2] = Opened(t)
      /\ t \notin Opening => Len(contexts') = d + 1
  <2>1. contexts \in Seq(Context) /\ contexts # <<>> /\ Opened(t) \in Context
    BY DEF Running, TypeOK, Opened, Context
  <2>2. CASE t \in Opening
    <3>1. /\ Len(contexts') = Len(contexts) + 1 /\ contexts'[Len(contexts) + 1] = Opened(t)
          /\ \A j \in 1 .. Len(contexts) : contexts'[j] = contexts[j]
      BY <2>1, <2>2, EnterExit
    <3>2. QED
      BY <1>1, <2>2, <3>1
  <2>3. CASE t \notin Opening
    BY <1>1, <2>3
  <2>4. QED
    BY <2>2, <2>3
<1>4. contexts'[d + 1] = "normal"
  BY <1>1, <1>3
<1>5. Normal(d, contexts', cache', next')
  BY <1>2, <1>3, <1>4 DEF Normal
<1>6. \A j \in 1 .. Below(stack) + 1 : contexts'[j] = contexts[j]
  <2>1. Below(stack) \in Nat /\ Own(top.at) \in {0, 1}
    BY RunningTop, TopRests DEF Running, Own
  <2>2. Below(stack) + 1 <= d + 1
    BY <2>1
  <2>3. QED
    BY <1>1, <1>3, <2>1, <2>2
<1> HIDE DEF d
<1>7. TopFits(top.at, d, contexts', cache', next')
  BY <1>2, <1>5 DEF TopFits, Plain
<1>8. QED
  BY <1>2, <1>6, <1>7, StaysNested DEF d

\* The indent, or a line break, at the start of a line.
LEMMA StartOfLineNested ==
  ASSUME Running, result, StartOfLine
  PROVE  Nested'
<1>1. top.at \in Plain /\ ~Sighted /\ ~Exhausted
  BY AsksInItsContext DEF StartOfLine, Consumes
<1>2. CASE Emit("Indent") /\ UNCHANGED contexts
  <2>1. "Indent" \in Token /\ "Indent" \notin Opening
    BY DEF Token, Opening
  <2>2. QED
    BY <1>1, <1>2, <2>1, EmitsInNormal
<1>3. CASE UNCHANGED <<line_start, contexts, cache, stack, result, failed>>
  <2> DEFINE d == Below(stack) + Own(top.at)
  <2>1. Len(contexts) = d + 1 /\ contexts[d + 1] = "normal"
    BY <1>1, AsksInNormal
  <2>2. Lookahead(top.at, cache) /\ Normal(d, contexts, cache, next)
    BY <1>1, RunningTop DEF TopFits
  <2>3. d \in Nat
    BY <1>1, AsksInNormal
  <2> HIDE DEF d
  <2>4. Normal(d, contexts', cache', next')
    BY <1>3, <2>1, <2>2, <2>3 DEF Normal
  <2>5. TopFits(top.at, d, contexts', cache', next')
    BY <1>1, <1>3, <2>2, <2>4 DEF TopFits, Plain
  <2>6. QED
    BY <1>3, <2>5, StaysNested DEF d
<1>4. QED
  BY <1>2, <1>3 DEF StartOfLine

\* A token read in the normal context.
LEMMA LexNormalNested ==
  ASSUME Running, result, LexNormal, ~failed'
  PROVE  Nested'
<1>1. top.at \in Plain /\ ~Sighted /\ ~Exhausted
  BY AsksInItsContext DEF LexNormal, Consumes
<1>2. next \in DOMAIN NormalToken /\ Emit(NormalToken[next])
  BY DEF LexNormal, LexicalError
<1> DEFINE t == NormalToken[next]
<1>3. /\ t \in Token
      /\ IF t \in Opening THEN Enter(Opened(t)) ELSE UNCHANGED contexts
  BY <1>2 DEF LexNormal, NormalToken, Token, Opening, Opened
<1>4. Emit(t)
  BY <1>2
<1> HIDE DEF t
<1>5. QED
  BY <1>1, <1>3, <1>4, EmitsInNormal

\* A character literal read without an error opens nothing.
LEMMA CharLiteralNested ==
  ASSUME Running, result, CharLiteral, ~failed'
  PROVE  Nested'
<1>1. top.at \in Plain /\ ~Sighted /\ ~Exhausted
  BY AsksInItsContext DEF CharLiteral, Consumes
<1>2. Emit("CharLit") /\ UNCHANGED contexts
  BY DEF CharLiteral, LexicalError
<1>3. "CharLit" \in Token /\ "CharLit" \notin Opening
  BY DEF Token, Opening
<1>4. QED
  BY <1>1, <1>2, <1>3, EmitsInNormal

\* A token of a method that has a context of its own, which it may leave or from
\* which it may enter another one.
LEMMA EmitsInOwn ==
  ASSUME Running, cache = <<>>, Below(stack) \in Nat, Len(contexts) = Below(stack) + 2,
         NEW t \in Token, Emit(t)
  PROVE  /\ Len(cache') = 1 /\ cache'[1] = t
         /\ Exit => /\ Len(contexts') = Below(stack) + 1
                    /\ \A j \in 1 .. Below(stack) + 1 : contexts'[j] = contexts[j]
         /\ \A ctx \in Context : Enter(ctx) =>
              /\ Len(contexts') = Below(stack) + 3 /\ contexts'[Below(stack) + 3] = ctx
              /\ \A j \in 1 .. Below(stack) + 2 : contexts'[j] = contexts[j]
<1>1. contexts \in Seq(Context) /\ contexts # <<>> /\ Len(contexts) # 1
  BY DEF Running, TypeOK
<1>2. Len(cache') = 1 /\ cache'[1] = t
  <2>1. cache' = Append(<<>>, t)
    BY DEF Emit
  <2>2. QED
    BY <2>1
<1>3. Exit => /\ Len(contexts') = Below(stack) + 1
              /\ \A j \in 1 .. Below(stack) + 1 : contexts'[j] = contexts[j]
  <2>1. Exit => /\ Len(contexts') = Len(contexts) - 1
                /\ \A j \in 1 .. Len(contexts) - 1 : contexts'[j] = contexts[j]
    BY <1>1, EnterExit
  <2>2. Len(contexts) - 1 = Below(stack) + 1
    OBVIOUS
  <2>3. QED
    BY <2>1, <2>2
<1>4. ASSUME NEW ctx \in Context, Enter(ctx)
      PROVE  /\ Len(contexts') = Below(stack) + 3 /\ contexts'[Below(stack) + 3] = ctx
             /\ \A j \in 1 .. Below(stack) + 2 : contexts'[j] = contexts[j]
  <2>1. /\ Len(contexts') = Len(contexts) + 1 /\ contexts'[Len(contexts) + 1] = ctx
        /\ \A j \in 1 .. Len(contexts) : contexts'[j] = contexts[j]
    BY <1>1, <1>4, EnterExit
  <2>2. Len(contexts) + 1 = Below(stack) + 3
    OBVIOUS
  <2>3. QED
    BY <2>1, <2>2
<1>5. QED
  BY <1>2, <1>3, <1>4

\* A token read in the context of a literal or of arguments.
LEMMA LexRawNested ==
  ASSUME Running, result, LexRaw
  PROVE  Nested'
<1> DEFINE b == Below(stack)
<1>1. /\ top.at = "arguments" /\ cache = <<>> /\ Len(contexts) = b + 2
      /\ contexts[b + 2] = "raw" /\ b \in Nat
  BY AsksInItsContext DEF LexRaw, Consumes, context
<1> SUFFICES /\ Arguments(b + 1, contexts', cache') /\ UNCHANGED stack
             /\ \A j \in 1 .. b + 1 : contexts'[j] = contexts[j]
  <2> HIDE DEF b
  <2>1. ASSUME Arguments(b + 1, contexts', cache')
        PROVE  TopFits(top.at, b + Own(top.at), contexts', cache', next')
    BY <1>1, <2>1 DEF TopFits, Plain, Own, ContextOf
  <2>2. QED
    BY <2>1, StaysNested DEF b
<1>2. CASE next \in DOMAIN RawExitSignal
  <2> DEFINE t == RawExitSignal[next]
  <2>1. Emit(t) /\ Exit
    BY <1>2 DEF LexRaw, RawExitSignal
  <2>2. t \in Token /\ t \in {"LineBreak", "Comma", "RBrace"}
    BY <1>2 DEF RawExitSignal, Token
  <2> HIDE DEF t
  <2>3. /\ Len(cache') = 1 /\ cache'[1] = t /\ Len(contexts') = b + 1
        /\ \A j \in 1 .. b + 1 : contexts'[j] = contexts[j]
    BY <1>1, <2>1, <2>2, EmitsInOwn
  <2>4. QED
    BY <2>1, <2>2, <2>3 DEF Arguments, Emit
<1>3. CASE next \notin DOMAIN RawExitSignal
  <2> DEFINE t == IF next = "quote" THEN "StringLit" ELSE "RawString"
             ctx == IF next = "quote" THEN "string" ELSE "raw token"
  <2>1. Emit(t) /\ Enter(ctx)
    BY <1>3 DEF LexRaw
  <2>2. /\ t \in Token /\ ctx \in Context /\ t \in IsInterpolatable
        /\ ctx = IF t = "RawString" THEN "raw token" ELSE "string"
    BY DEF Token, Context, IsInterpolatable
  <2> HIDE DEF t, ctx
  <2>3. /\ Len(cache') = 1 /\ cache'[1] = t /\ Len(contexts') = b + 3 /\ contexts'[b + 3] = ctx
        /\ \A j \in 1 .. b + 2 : contexts'[j] = contexts[j]
    BY <1>1, <2>1, <2>2, EmitsInOwn
  <2> HIDE DEF b
  <2>4. contexts'[b + 2] = "raw" /\ \A j \in 1 .. b + 1 : contexts'[j] = contexts[j]
    BY <1>1, <2>3
  <2>5. b + 1 + 1 = b + 2 /\ b + 1 + 2 = b + 3
    BY <1>1
  <2>6. QED
    BY <2>1, <2>2, <2>3, <2>4, <2>5 DEF Arguments, Emit
<1>4. QED
  BY <1>2, <1>3

\* A raw token and a string are read alike.
LEMMA LexLiteralNested ==
  ASSUME Running, result, ~failed', LexRawToken \/ LexString
  PROVE  Nested'
<1> DEFINE b == Below(stack)
<1>1. /\ top.at = "interpolation" /\ cache = <<>> /\ Len(contexts) = b + 2
      /\ contexts[b + 2] \in {"raw token", "string"} /\ b \in Nat
  BY AsksInItsContext DEF LexRawToken, LexString, Consumes, context
<1> SUFFICES /\ Literal(b + 1, contexts', cache') /\ UNCHANGED stack
             /\ \A j \in 1 .. b + 1 : contexts'[j] = contexts[j]
  <2> HIDE DEF b
  <2>1. ASSUME Literal(b + 1, contexts', cache')
        PROVE  TopFits(top.at, b + Own(top.at), contexts', cache', next')
    BY <1>1, <2>1 DEF TopFits, Plain, Own, ContextOf
  <2>2. QED
    BY <2>1, StaysNested DEF b
<1>2. b + 1 + 1 = b + 2 /\ b + 1 + 2 = b + 3
  <2> HIDE DEF b
  <2>1. b \in Nat
    BY <1>1
  <2>2. QED
    BY <2>1
<1>3. CASE Emit("Segment") /\ UNCHANGED contexts
  <2> DEFINE t == "Segment"
  <2>1. t \in Token /\ t = "Segment" /\ Emit(t)
    BY <1>3 DEF Token
  <2> HIDE DEF t
  <2>2. Len(cache') = 1 /\ cache'[1] = t
    BY <1>1, <2>1, EmitsInOwn
  <2>3. QED
    BY <1>1, <1>2, <1>3, <2>1, <2>2 DEF Literal, Emit
<1>4. CASE Emit("InterStart") /\ Enter("normal")
  <2> DEFINE t == "InterStart"
             ctx == "normal"
  <2>1. t \in Token /\ ctx \in Context /\ t = "InterStart" /\ ctx = "normal" /\ Emit(t) /\ Enter(ctx)
    BY <1>4 DEF Token, Context
  <2> HIDE DEF t, ctx
  <2>2. /\ Len(cache') = 1 /\ cache'[1] = t /\ Len(contexts') = b + 3 /\ contexts'[b + 3] = ctx
        /\ \A j \in 1 .. b + 2 : contexts'[j] = contexts[j]
    BY <1>1, <2>1, EmitsInOwn
  <2> HIDE DEF b
  <2>3. /\ contexts'[b + 2] = contexts[b + 2]
        /\ \A j \in 1 .. b + 1 : contexts'[j] = contexts[j]
    <3>1. b \in Nat
      BY <1>1
    <3>2. b + 2 \in 1 .. b + 2 /\ \A j \in 1 .. b + 1 : j \in 1 .. b + 2
      BY <3>1
    <3>3. QED
      BY <2>2, <3>2
  <2>4. QED
    BY <1>1, <1>2, <2>1, <2>2, <2>3 DEF Literal, Emit
<1>5. CASE Emit("InterDone") /\ Exit
  <2> DEFINE t == "InterDone"
  <2>1. t \in Token /\ t = "InterDone" /\ Emit(t) /\ Exit
    BY <1>5 DEF Token
  <2> HIDE DEF t
  <2>2. /\ Len(cache') = 1 /\ cache'[1] = t /\ Len(contexts') = b + 1
        /\ \A j \in 1 .. b + 1 : contexts'[j] = contexts[j]
    BY <1>1, <2>1, EmitsInOwn
  <2>3. QED
    BY <2>1, <2>2 DEF Literal, Emit
<1>6. QED
  BY <1>3, <1>4, <1>5 DEF LexRawToken, LexString, LexicalError

\* The lexer keeps the contexts nested.
LEMMA LexNested ==
  ASSUME Running, result, ~failed', Lex
  PROVE  Nested'
<1>1. ~LexUnclosed
  BY AsksInItsContext DEF LexUnclosed, Consumes
<1>2. QED
  BY <1>1, StartOfLineNested, LexNormalNested, CharLiteralNested, LexRawNested, LexLiteralNested
     DEF Lex

-----------------------------------------------------------------------------
(***************************************************************************)
(* The parser in the normal context.                                       *)
(***************************************************************************)
\* The points that read in the normal context and have none of their own.
Guest == Plain \ {"brace"}

\* What is known there.
LEMMA GuestHere ==
  ASSUME Running, top.at \in Guest
  PROVE  /\ Below(stack) \in Nat /\ Own(top.at) = 0
         /\ Lookahead(top.at, cache) /\ Normal(Below(stack), contexts, cache, next)
         /\ contexts[Below(stack) + 1] = "normal"
         /\ cache \in Seq(Token)
<1>1. Below(stack) \in Nat /\ cache \in Seq(Token)
  BY RunningTop, TopRests DEF Running, TypeOK
<1>2. Own(top.at) = 0 /\ top.at \in Plain
  BY DEF Guest, Plain, Point, Own, ContextOf
<1>3. TopFits(top.at, Below(stack), contexts, cache, next)
  BY <1>1, <1>2, RunningTop
<1>4. QED
  BY <1>1, <1>2, <1>3 DEF TopFits, Normal

\* Going on there.
LEMMA GuestGoesTo ==
  ASSUME Running, top.at \in Guest, NEW p \in Guest, GoTo(p), Role(top.at, p),
         UNCHANGED <<next, contexts>>,
         Lookahead(p, cache'), Normal(Below(stack), contexts, cache', next)
  PROVE  Nested'
<1>1. p \in Point /\ p \in Plain /\ Own(p) = 0
  BY DEF Guest, Plain, Point, Own, ContextOf
<1>2. Below(stack) \in Nat
  BY GuestHere
<1>3. TopFits(p, Below(stack), contexts, cache', next')
  BY <1>1 DEF TopFits, Plain
<1>4. Below(stack) + Own(p) = Below(stack)
  BY <1>1, <1>2
<1>5. QED
  BY <1>1, <1>3, <1>4, GoToNested

\* Returning from there.
LEMMA GuestReturns ==
  ASSUME Running, top.at \in Guest, top.at \notin Bottom, stack' = Without(stack),
         UNCHANGED <<next, contexts>>,
         \A p \in Guest \cup {"brace"} : p # "expression" => Lookahead(p, cache'),
         Normal(Below(stack), contexts, cache', next)
  PROVE  Nested'
<1>1. Callers(top.at) \subseteq (Guest \cup {"brace"}) \ {"expression"}
  BY DEF Callers, Guest, Plain, Point, Bottom
<1>2. ASSUME NEW p \in Callers(top.at)
      PROVE  TopFits(p, Below(stack), contexts, cache', next')
  <2>1. p \in Plain /\ Lookahead(p, cache')
    BY <1>1, <1>2 DEF Guest, Plain, Point
  <2>2. QED
    BY <2>1 DEF TopFits, Plain
<1>3. QED
  BY <1>2, ReturnsNested

\* Calling Interpolatable for a string.
LEMMA GuestReadsString ==
  ASSUME Running, top.at \in Guest, NEW p \in {"indices", "parameter"}, Call(p, "interpolation"),
         Role(top.at, p), UNCHANGED contexts,
         cache' = <<>>, Len(contexts) = Below(stack) + 2, contexts[Below(stack) + 2] = "string"
  PROVE  Nested'
<1> DEFINE b == Below(stack)
           q == "interpolation"
<1>1. b \in Nat /\ contexts[b + 1] = "normal"
  BY GuestHere
<1>2. /\ p \in Point /\ q \in Point /\ p \in Callers(q) /\ Own(p) = 0 /\ Own(q) = 1
      /\ Home(p) = {"normal"}
  BY DEF Point, Callers, Own, Home, ContextOf
<1>3. Literal(b + 1, contexts, cache')
  <2> HIDE DEF b
  <2>1. b + 1 + 1 = b + 2
    BY <1>1
  <2>2. QED
    BY <2>1 DEF Literal, b
<1>4. q = "interpolation" /\ Call(p, q)
  OBVIOUS
<1> HIDE DEF q
<1>5. TopFits(q, b + 1, contexts, cache', next')
  BY <1>3, <1>4 DEF TopFits, Plain
<1>6. /\ contexts[b + Own(p) + 1] \in Home(p)
      /\ b + Own(p) + Own(q) = b + 1
  <2> HIDE DEF b
  <2>1. b + Own(p) = b
    BY <1>1, <1>2
  <2>2. QED
    BY <1>1, <1>2, <2>1
<1>7. QED
  BY <1>2, <1>4, <1>5, <1>6, CallNested

\* Passing over a token that enters no context, and over one that does.
LEMMA PassesOne ==
  ASSUME TypeOK, NEW p, p # "expression", Lookahead(p, cache),
         NEW d \in Nat, Normal(d, contexts, cache, next), Takes(FALSE)
  PROVE  /\ cache[1] \notin Opening =>
              (\A q : Lookahead(q, cache')) /\ Normal(d, contexts, cache', next)
         /\ cache[1] \notin Space => cache' = <<>>
         /\ cache[1] \notin Opening \cup Space => Len(contexts) = d + 1
         /\ cache[1] \in Opening => Len(contexts) = d + 2 /\ contexts[d + 2] = Opened(cache[1])
<1> DEFINE m == Len(cache)
<1>1. /\ m \in Nat /\ m # 0 /\ cache # <<>> /\ cache' \in Seq(Token) /\ Len(cache') = m - 1
      /\ \A i \in 1 .. m - 1 : cache'[i] = cache[i + 1]
  BY AheadOne DEF TypeOK
<1>2. \A i \in 1 .. m - 1 : cache[i] \in Space
  BY DEF Lookahead
<1> HIDE DEF m
<1>3. \A q : Lookahead(q, cache')
  <2>1. \A i \in 1 .. m - 1 - 1 : i \in 1 .. m - 1 /\ i + 1 \in 1 .. m - 1
    BY <1>1
  <2>2. \A i \in 1 .. m - 1 - 1 : cache'[i] \in Space
    BY <1>1, <1>2, <2>1
  <2>3. QED
    BY <1>1, <2>2 DEF Lookahead
<1>4. cache[1] \notin Space => m = 1 /\ cache' = <<>>
  <2>1. cache[1] \notin Space => m = 1
    BY <1>1, <1>2
  <2>2. m = 1 => Len(cache') = 0
    BY <1>1
  <2>3. QED
    BY <1>1, <2>1, <2>2, EmptySeq
<1>5. m # 1 => cache' # <<>> /\ cache'[Len(cache')] = cache[m]
  <2>1. m # 1 => m - 1 \in 1 .. m - 1 /\ m - 1 # 0 /\ m - 1 + 1 = m
    BY <1>1
  <2>2. m # 1 => Len(cache') # 0 /\ cache'[m - 1] = cache[m]
    BY <1>1, <2>1
  <2>3. QED
    BY <1>1, <2>2, EmptySeq
<1>6. m = 1 => cache' = <<>>
  <2>1. m = 1 => Len(cache') = 0
    BY <1>1
  <2>2. QED
    BY <1>1, <2>1, EmptySeq
<1>7. cache[1] \in Opening => m = 1
  <2>1. cache[1] \in Opening => cache[1] \notin Space
    BY DEF Opening, Space
  <2>2. QED
    BY <1>4, <2>1
<1>8. cache[1] \notin Opening => Normal(d, contexts, cache', next)
  <2>1. CASE m = 1
    BY <1>1, <1>6, <2>1 DEF Normal, m
  <2>2. CASE m # 1
    BY <1>1, <1>5, <2>2 DEF Normal, m
  <2>3. QED
    BY <2>1, <2>2
<1>9. cache[1] \notin Opening \cup Space => Len(contexts) = d + 1
  BY <1>1, <1>4 DEF Normal, m
<1>10. cache[1] \in Opening => Len(contexts) = d + 2 /\ contexts[d + 2] = Opened(cache[1])
  BY <1>1, <1>7 DEF Normal, m
<1>11. QED
  BY <1>3, <1>4, <1>8, <1>9, <1>10

\* The same over spaces.
LEMMA PassesSpaces ==
  ASSUME TypeOK, NEW p, Lookahead(p, cache), Ahead(TRUE) # "Eof",
         NEW d \in Nat, Normal(d, contexts, cache, next), Takes(TRUE)
  PROVE  /\ Ahead(TRUE) \notin Opening =>
              (\A q : Lookahead(q, cache')) /\ Normal(d, contexts, cache', next)
         /\ Ahead(TRUE) \in Opening =>
              cache' = <<>> /\ Len(contexts) = d + 2 /\ contexts[d + 2] = Opened(Ahead(TRUE))
<1>1. cache \in Seq(Token)
  BY DEF TypeOK
<1>2. CASE Ahead(TRUE) = "Ident"
  <2>1. cache # <<>> /\ \/ cache' = <<>> /\ cache[Len(cache)] = "Ident"
                        \/ cache' # <<>> /\ Len(cache') = 1 /\ cache'[1] = cache[Len(cache)]
    BY <1>1, <1>2, AheadName
  <2>2. Len(cache') = 0 \/ Len(cache') = 1
    BY <2>1
  <2>3. \A q : Lookahead(q, cache')
    <3>1. CASE Len(cache') = 0
      BY <3>1 DEF Lookahead
    <3>2. CASE Len(cache') = 1
      BY <3>2 DEF Lookahead
    <3>3. QED
      BY <2>2, <3>1, <3>2
  <2>4. "Ident" \notin Opening
    BY DEF Opening
  <2>5. CASE cache' = <<>> /\ cache[Len(cache)] = "Ident"
    BY <1>2, <2>1, <2>3, <2>4, <2>5 DEF Normal
  <2>6. CASE cache' # <<>> /\ Len(cache') = 1 /\ cache'[1] = cache[Len(cache)]
    BY <1>2, <2>1, <2>3, <2>4, <2>6 DEF Normal
  <2>7. QED
    BY <2>1, <2>5, <2>6
<1>3. CASE Ahead(TRUE) # "Ident"
  <2>1. cache # <<>> /\ Ahead(TRUE) = cache[Len(cache)] /\ cache' = <<>>
    BY <1>1, <1>3, AheadLast
  <2>2. Len(cache') = 0
    BY <2>1
  <2>3. \A q : Lookahead(q, cache')
    BY <2>2 DEF Lookahead
  <2>4. QED
    BY <2>1, <2>3 DEF Normal
<1>4. QED
  BY <1>2, <1>3

\* Passing over a token that may be there, and enters no context.
LEMMA OptionalPasses ==
  ASSUME TypeOK, NEW p, p # "expression", Lookahead(p, cache),
         NEW d \in Nat, Normal(d, contexts, cache, next),
         NEW t, t \notin Opening \cup {"Eof"}, Optional(t, FALSE) \/ Optional(t, TRUE)
  PROVE  (\A q : Lookahead(q, cache')) /\ Normal(d, contexts, cache', next)
<1>1. CASE UNCHANGED cache
  BY <1>1 DEF Lookahead
<1>2. CASE Ahead(FALSE) = t /\ Takes(FALSE)
  <2>1. cache[1] = t
    BY <1>2, AheadOne DEF TypeOK
  <2>2. QED
    BY <1>2, <2>1, PassesOne
<1>3. CASE Ahead(TRUE) = t /\ Takes(TRUE)
  BY <1>3, PassesSpaces
<1>4. QED
  BY <1>1, <1>2, <1>3 DEF Optional

\* The statements of the program.
LEMMA ProgramNested ==
  ASSUME Running, ~failed', Program
  PROVE  Nested'
<1>1. /\ top.at = "program" /\ GoTo("block")
      /\ UNCHANGED <<next, contexts, cache>>
  BY DEF Program, Runs, At, lexer
<1>2. top.at \in Guest /\ "block" \in Guest /\ Role(top.at, "block") /\ top.at # "expression"
  BY <1>1 DEF Guest, Plain, Point, Role, Bottom, Callers
<1>3. Lookahead("block", cache') /\ Normal(Below(stack), contexts, cache', next)
  BY <1>1, <1>2, GuestHere DEF Lookahead
<1>4. QED
  BY <1>1, <1>2, <1>3, GuestGoesTo

\* The statements of a block.
LEMMA BlockNested ==
  ASSUME Running, Block
  PROVE  Nested'
<1>1. /\ top.at = "block" /\ Optional("Indent", FALSE)
      /\ UNCHANGED <<next, contexts>>
  BY DEF Block, Runs, At, lexer
<1>2. /\ top.at \in Guest /\ "statement" \in Guest /\ Role(top.at, "statement")
      /\ top.at # "expression" /\ top.at \in Bottom
  BY <1>1 DEF Guest, Plain, Point, Role, Bottom, Callers
<1>3. Below(stack) \in Nat /\ Lookahead("block", cache) /\ Normal(Below(stack), contexts, cache, next)
  BY <1>1, <1>2, GuestHere
<1>4. Lookahead("statement", cache') /\ Normal(Below(stack), contexts, cache', next)
  <2>1. "Indent" \notin Opening \cup {"Eof"}
    BY DEF Opening
  <2>2. QED
    BY <1>1, <1>3, <2>1, OptionalPasses DEF Running
<1>5. CASE Sees(FALSE, 1)
  <2>1. GoTo("statement")
    BY <1>5 DEF Block
  <2>2. QED
    BY <1>1, <1>2, <1>4, <2>1, GuestGoesTo
<1>6. CASE ~Sees(FALSE, 1)
  <2>1. stack' = <<>>
    BY <1>6 DEF Block
  <2>2. cache = <<>> /\ Ahead(FALSE) = "Eof"
    BY <1>6, AheadOne DEF Running, TypeOK
  <2>3. cache' = <<>>
    BY <1>1, <2>2 DEF Optional
  <2>4. Below(stack) = 0
    BY <1>2, RunningTop, TopRests DEF Running
  <2>5. QED
    BY <1>1, <1>4, <2>1, <2>3, <2>4 DEF Nested
<1>7. QED
  BY <1>5, <1>6

\* A statement is an expression, or the block ends.
LEMMA StatementNested ==
  ASSUME Running, Statement
  PROVE  Nested'
<1>1. /\ top.at = "statement" /\ UNCHANGED <<next, contexts, cache>>
  BY DEF Statement, Runs, At, lexer
<1>2. /\ top.at \in Guest /\ "block" \in Guest /\ Role(top.at, "block")
      /\ top.at # "expression"
  BY <1>1 DEF Guest, Plain, Point, Role, Bottom, Callers
<1>3. /\ Below(stack) \in Nat /\ \A q : Lookahead(q, cache')
      /\ Normal(Below(stack), contexts, cache', next)
      /\ contexts[Below(stack) + 1] = "normal"
  BY <1>1, <1>2, GuestHere DEF Lookahead
<1>4. CASE GoTo("block")
  BY <1>1, <1>2, <1>3, <1>4, GuestGoesTo
<1>5. CASE Call("statement end", "expression")
  <2> DEFINE p == "statement end"
             q == "expression"
  <2>1. /\ p \in Point /\ q \in Point /\ Call(p, q) /\ Role(top.at, p) /\ p \in Callers(q)
        /\ Own(p) = 0 /\ Own(q) = 0 /\ Home(p) = {"normal"} /\ q \in Plain
    BY <1>1, <1>5 DEF Point, Role, Bottom, Callers, Own, Home, ContextOf, Plain
  <2> HIDE DEF p, q
  <2>2. TopFits(q, Below(stack), contexts, cache', next')
    BY <1>1, <1>3, <2>1 DEF TopFits, Plain
  <2>3. Below(stack) + Own(p) = Below(stack) /\ Below(stack) + Own(p) + Own(q) = Below(stack)
    BY <1>3, <2>1
  <2>4. QED
    BY <1>1, <1>3, <2>1, <2>2, <2>3, CallNested
<1>6. QED
  BY <1>4, <1>5 DEF Statement

\* The line break that ends a statement.
LEMMA StatementEndNested ==
  ASSUME Running, ~failed', StatementEnd
  PROVE  Nested'
<1>1. /\ top.at = "statement end" /\ GoTo("skip end")
      /\ UNCHANGED <<next, contexts, cache>>
  BY DEF StatementEnd, Runs, At, lexer
<1>2. /\ top.at \in Guest /\ "skip end" \in Guest /\ Role(top.at, "skip end")
      /\ top.at # "expression"
  BY <1>1 DEF Guest, Plain, Point, Role, Bottom, Callers
<1>3. Lookahead("skip end", cache') /\ Normal(Below(stack), contexts, cache', next)
  BY <1>1, <1>2, GuestHere DEF Lookahead
<1>4. QED
  BY <1>1, <1>2, <1>3, GuestGoesTo

\* What recovery skips up to it.
LEMMA SkipStatementEndNested ==
  ASSUME Running, SkipStatementEnd
  PROVE  Nested'
<1>1. /\ top.at = "skip end" /\ GoTo("block") /\ Optional("LineBreak", FALSE)
      /\ UNCHANGED <<next, contexts>>
  BY DEF SkipStatementEnd, Runs, At, lexer
<1>2. /\ top.at \in Guest /\ "block" \in Guest /\ Role(top.at, "block")
      /\ top.at # "expression" /\ "LineBreak" \notin Opening \cup {"Eof"}
  BY <1>1 DEF Guest, Plain, Point, Role, Bottom, Callers, Opening
<1>3. Below(stack) \in Nat /\ Lookahead("skip end", cache) /\ Normal(Below(stack), contexts, cache, next)
  BY <1>1, <1>2, GuestHere
<1>4. Lookahead("block", cache') /\ Normal(Below(stack), contexts, cache', next)
  BY <1>1, <1>2, <1>3, OptionalPasses DEF Running
<1>5. QED
  BY <1>1, <1>2, <1>4, GuestGoesTo

\* A name and a character leave the lexer where it is.
LEMMA AtomNested ==
  ASSUME Running, Variable \/ CharLit
  PROVE  Nested'
<1>1. /\ top.at = "expression" /\ Takes(TRUE) /\ (Ahead(TRUE) = "Ident" \/ Ahead(TRUE) = "CharLit")
      /\ UNCHANGED <<next, contexts>>
  BY DEF Variable, CharLit, Runs, At, lexer
<1>2. PICK p \in {"climb", "indices"} : GoTo(p)
  BY DEF Variable, CharLit
<1>3. /\ top.at \in Guest /\ p \in Guest /\ Role(top.at, p)
      /\ Ahead(TRUE) # "Eof" /\ Ahead(TRUE) \notin Opening
  BY <1>1 DEF Guest, Plain, Point, Role, Bottom, Callers, Opening
<1>4. Below(stack) \in Nat /\ Lookahead("expression", cache) /\ Normal(Below(stack), contexts, cache, next)
  BY <1>1, <1>3, GuestHere
<1>5. Lookahead(p, cache') /\ Normal(Below(stack), contexts, cache', next)
  BY <1>1, <1>3, <1>4, PassesSpaces DEF Running
<1>6. QED
  BY <1>1, <1>2, <1>3, <1>5, GuestGoesTo

\* A call begins with its parameters.'s next look.
LEMMA FunctionCallNested ==
  ASSUME Running, FunctionCall
  PROVE  Nested'
<1> DEFINE b == Below(stack)
           p == "climb"
           q == "redirections"
           r == "parameters"
<1>1. /\ top.at = "expression" /\ Takes(TRUE) /\ Ahead(TRUE) = "Ident"
      /\ stack' = GoOn([top EXCEPT !.at = p]) \o <<Method(q), Method(r)>>
      /\ UNCHANGED <<next, contexts>>
  BY DEF FunctionCall, Runs, At, lexer
<1>2. /\ top.at \in Guest /\ p \in Point /\ q \in Point /\ r \in Point /\ r \in Plain
      /\ Role(top.at, p) /\ p \in Callers(q) /\ q \in Callers(r)
      /\ Own(p) = 0 /\ Own(q) = 0 /\ Own(r) = 0 /\ Home(p) = {"normal"} /\ Home(q) = {"normal"}
      /\ Ahead(TRUE) \notin Opening \cup {"Eof"}
  BY <1>1 DEF Guest, Plain, Point, Role, Bottom, Callers, Own, Home, ContextOf, Opening
<1> HIDE DEF p, q, r
<1>3. b \in Nat /\ Lookahead("expression", cache) /\ Normal(b, contexts, cache, next)
      /\ contexts[b + 1] = "normal"
  BY <1>1, <1>2, GuestHere
<1>4. Lookahead(r, cache') /\ Normal(b, contexts, cache', next)
  BY <1>1, <1>2, <1>3, PassesSpaces DEF Running
<1>5. TopFits(r, b, contexts, cache', next')
  BY <1>1, <1>2, <1>4 DEF TopFits, Plain
<1>6. b + Own(p) = b /\ b + Own(p) + Own(q) = b /\ b + Own(p) + Own(q) + Own(r) = b
  BY <1>2, <1>3
<1>7. QED
  BY <1>1, <1>2, <1>3, <1>5, <1>6, CallTwoNested

\* A command begins with its arguments, in the context its ! has opened.
LEMMA CommandNested ==
  ASSUME Running, Command
  PROVE  Nested'
<1> DEFINE b == Below(stack)
           p == "climb"
           q == "redirections"
           r == "arguments"
<1>1. /\ top.at = "expression" /\ Takes(TRUE) /\ Ahead(TRUE) = "Exclamation"
      /\ stack' = GoOn([top EXCEPT !.at = p]) \o <<Method(q), Method(r)>>
      /\ UNCHANGED <<next, contexts>>
  BY DEF Command, Runs, At, lexer
<1>2. /\ top.at \in Guest /\ p \in Point /\ q \in Point /\ r \in Point
      /\ Role(top.at, p) /\ p \in Callers(q) /\ q \in Callers(r)
      /\ Own(p) = 0 /\ Own(q) = 0 /\ Own(r) = 1 /\ Home(p) = {"normal"} /\ Home(q) = {"normal"}
      /\ Ahead(TRUE) # "Eof" /\ Ahead(TRUE) \in Opening /\ Opened(Ahead(TRUE)) = "raw"
      /\ r = "arguments"
  BY <1>1 DEF Guest, Plain, Point, Role, Bottom, Callers, Own, Home, ContextOf, Opening, Opened
<1> HIDE DEF p, q, r
<1>3. b \in Nat /\ Lookahead("expression", cache) /\ Normal(b, contexts, cache, next)
      /\ contexts[b + 1] = "normal"
  BY <1>1, <1>2, GuestHere
<1>4. cache' = <<>> /\ Len(contexts) = b + 2 /\ contexts[b + 2] = "raw"
  BY <1>1, <1>2, <1>3, PassesSpaces DEF Running
<1>5. Arguments(b + 1, contexts, cache')
  <2> HIDE DEF b
  <2>1. b + 1 + 1 = b + 2
    BY <1>3
  <2>2. QED
    BY <1>4, <2>1 DEF Arguments
<1>6. TopFits(r, b + 1, contexts, cache', next')
  BY <1>2, <1>5 DEF TopFits, Plain
<1>7. b + Own(p) = b /\ b + Own(p) + Own(q) = b /\ b + Own(p) + Own(q) + Own(r) = b + 1
  BY <1>2, <1>3
<1>8. QED
  BY <1>1, <1>2, <1>3, <1>6, <1>7, CallTwoNested

\* A string begins in the context its quote has opened.
LEMMA StringLiteralNested ==
  ASSUME Running, StringLiteral
  PROVE  Nested'
<1>1. /\ top.at = "expression" /\ Takes(TRUE) /\ Ahead(TRUE) = "StringLit"
      /\ Call("indices", "interpolation") /\ UNCHANGED <<next, contexts>>
  BY DEF StringLiteral, Runs, At, lexer
<1>2. /\ top.at \in Guest /\ Role(top.at, "indices")
      /\ Ahead(TRUE) # "Eof" /\ Ahead(TRUE) \in Opening /\ Opened(Ahead(TRUE)) = "string"
  BY <1>1 DEF Guest, Plain, Point, Role, Bottom, Callers, Opening, Opened
<1>3. Below(stack) \in Nat /\ Lookahead("expression", cache) /\ Normal(Below(stack), contexts, cache, next)
  BY <1>1, <1>2, GuestHere
<1>4. cache' = <<>> /\ Len(contexts) = Below(stack) + 2 /\ contexts[Below(stack) + 2] = "string"
  BY <1>1, <1>2, <1>3, PassesSpaces DEF Running
<1>5. QED
  BY <1>1, <1>2, <1>4, GuestReadsString

\* What follows an atom, when there is one.
LEMMA IndicesNested ==
  ASSUME Running, result, Indices
  PROVE  Nested'
<1>1. /\ top.at = "indices" /\ GoTo("climb") /\ UNCHANGED <<next, contexts, cache>>
  BY DEF Indices, Runs, At, lexer
<1>2. /\ top.at \in Guest /\ "climb" \in Guest /\ Role(top.at, "climb") /\ top.at # "expression"
  BY <1>1 DEF Guest, Plain, Point, Role, Bottom, Callers
<1>3. Lookahead("climb", cache') /\ Normal(Below(stack), contexts, cache', next)
  BY <1>1, <1>2, GuestHere DEF Lookahead
<1>4. QED
  BY <1>1, <1>2, <1>3, GuestGoesTo

\* What returns without a token of its own.
LEMMA NothingFollowsNested ==
  ASSUME Running, NothingFollows \/ EndOfParameters
  PROVE  Nested'
<1>1. /\ top.at \in {"climb", "redirections", "parameters"}
      /\ stack' = Without(stack) /\ UNCHANGED <<next, contexts, cache>>
  BY DEF NothingFollows, EndOfParameters, Return, Runs, At, lexer
<1>2. top.at \in Guest /\ top.at \notin Bottom /\ top.at # "expression"
  BY <1>1 DEF Guest, Plain, Point, Bottom
<1>3. (\A q : Lookahead(q, cache')) /\ Normal(Below(stack), contexts, cache', next)
  BY <1>1, <1>2, GuestHere DEF Lookahead
<1>4. QED
  BY <1>1, <1>2, <1>3, GuestReturns

\* The end of a command, with the comma behind it.
LEMMA CommandEndNested ==
  ASSUME Running, CommandEnd
  PROVE  Nested'
<1>1. /\ top.at = "command end" /\ Optional("Comma", TRUE)
      /\ stack' = Without(stack) /\ UNCHANGED <<next, contexts>>
  BY DEF CommandEnd, Return, Runs, At, lexer
<1>2. /\ top.at \in Guest /\ top.at \notin Bottom /\ top.at # "expression"
      /\ "Comma" \notin Opening \cup {"Eof"}
  BY <1>1 DEF Guest, Plain, Point, Bottom, Opening
<1>3. Below(stack) \in Nat /\ Lookahead(top.at, cache) /\ Normal(Below(stack), contexts, cache, next)
  BY <1>2, GuestHere
<1>4. (\A q : Lookahead(q, cache')) /\ Normal(Below(stack), contexts, cache', next)
  BY <1>1, <1>2, <1>3, OptionalPasses DEF Running
<1>5. QED
  BY <1>1, <1>2, <1>4, GuestReturns

\* A parameter, and the string it may be.
LEMMA ParameterNested ==
  ASSUME Running, Parameter
  PROVE  Nested'
<1>1. /\ top.at = "parameters" /\ Takes(FALSE) /\ Ahead(FALSE) \in IsAtomExprLookahead
      /\ UNCHANGED <<next, contexts>>
  BY DEF Parameter, Runs, At, lexer
<1>2. top.at \in Guest /\ top.at # "expression" /\ Role(top.at, "parameter")
  BY <1>1 DEF Guest, Plain, Point, Role, Bottom, Callers
<1>3. Below(stack) \in Nat /\ Lookahead(top.at, cache) /\ Normal(Below(stack), contexts, cache, next)
  BY <1>2, GuestHere
<1>4. cache[1] = Ahead(FALSE)
  BY <1>1, AheadOne DEF Running, TypeOK
<1>5. cache' = <<>>
  <2>1. cache[1] \notin Space
    BY <1>1, <1>4 DEF IsAtomExprLookahead, Space
  <2>2. QED
    BY <1>1, <1>2, <1>3, <2>1, PassesOne DEF Running
<1>6. CASE Ahead(FALSE) = "StringLit"
  <2>1. cache[1] \in Opening /\ Opened(cache[1]) = "string"
    BY <1>4, <1>6 DEF Opening, Opened
  <2>2. Len(contexts) = Below(stack) + 2 /\ contexts[Below(stack) + 2] = "string"
    BY <1>1, <1>2, <1>3, <2>1, PassesOne DEF Running
  <2>3. Call("parameter", "interpolation")
    BY <1>6 DEF Parameter
  <2>4. QED
    BY <1>1, <1>2, <1>5, <2>2, <2>3, GuestReadsString
<1>7. CASE Ahead(FALSE) # "StringLit"
  <2>1. cache[1] \notin Opening
    BY <1>1, <1>4, <1>7 DEF Opening, IsAtomExprLookahead
  <2>2. Lookahead(top.at, cache') /\ Normal(Below(stack), contexts, cache', next)
    BY <1>1, <1>2, <1>3, <2>1, PassesOne DEF Running
  <2>3. UNCHANGED stack
    BY <1>7 DEF Parameter
  <2>4. Own(top.at) = 0 /\ top.at \in Plain
    BY <1>2, GuestHere DEF Guest
  <2>5. TopFits(top.at, Below(stack), contexts', cache', next')
    BY <1>1, <2>2, <2>4 DEF TopFits, Plain
  <2>6. Below(stack) + Own(top.at) = Below(stack)
    BY <1>3, <2>4
  <2>7. QED
    BY <1>1, <2>3, <2>5, <2>6, StaysNested
<1>8. QED
  BY <1>6, <1>7

\* The parameter that was parsed, and the next one.
LEMMA AppendParameterNested ==
  ASSUME Running, AppendParameter
  PROVE  Nested'
<1>1. /\ top.at = "parameter" /\ stack' = GoOn([top EXCEPT !.at = "parameters", !.fail = @ \/ ~result])
      /\ UNCHANGED <<next, contexts, cache>>
  BY DEF AppendParameter, Runs, At, lexer
<1> DEFINE m == [top EXCEPT !.at = "parameters", !.fail = @ \/ ~result]
<1>2. m \in Frame /\ m.at = "parameters"
  BY RunningTop DEF Frame, Point
<1>3. stack' = GoOn(m)
  BY <1>1
<1> HIDE DEF m
<1>4. /\ top.at \in Guest /\ top.at # "expression" /\ m.at \in Plain /\ Own(m.at) = 0
      /\ Role(top.at, m.at)
  BY <1>1, <1>2 DEF Guest, Plain, Point, Role, Bottom, Callers, Own, ContextOf
<1>5. /\ Below(stack) \in Nat /\ Lookahead(m.at, cache')
      /\ Normal(Below(stack), contexts, cache', next)
  BY <1>1, <1>4, GuestHere DEF Lookahead
<1>6. TopFits(m.at, Below(stack), contexts', cache', next')
  BY <1>1, <1>4, <1>5 DEF TopFits, Plain
<1>7. Below(stack) + Own(m.at) = Below(stack)
  BY <1>4, <1>5
<1>8. QED
  BY <1>1, <1>2, <1>3, <1>4, <1>6, <1>7, GoesOnNested

-----------------------------------------------------------------------------
(***************************************************************************)
(* The parser in a command and in a literal.                               *)
(***************************************************************************)
\* What is known there.
LEMMA OwnHere ==
  ASSUME Running, top.at \in {"arguments", "argument", "interpolation", "destroy", "brace"}
  PROVE  /\ Below(stack) \in Nat /\ Own(top.at) = 1
         /\ TopFits(top.at, Below(stack) + 1, contexts, cache, next)
         /\ \E p \in Callers(top.at) : contexts[Below(stack) + 1] \in Home(p)
<1>1. Below(stack) \in Nat /\ top.at \notin Bottom
  BY RunningTop, TopRests DEF Running, Bottom
<1>2. Own(top.at) = 1
  BY DEF Own, ContextOf
<1>3. \E p \in Callers(top.at) : contexts[Below(stack) + 1] \in Home(p)
  BY <1>1, RunningTop, TopRests DEF Running
<1>4. QED
  BY <1>1, <1>2, <1>3, RunningTop

\* A token that waits there waits alone.
LEMMA PassesAlone ==
  ASSUME TypeOK, Len(cache) = 1, Takes(FALSE)
  PROVE  cache' = <<>>
<1>1. cache' \in Seq(Token) /\ Len(cache') = Len(cache) - 1
  BY AheadOne DEF TypeOK
<1>2. Len(cache') = 0
  BY <1>1
<1>3. QED
  BY <1>1, <1>2, EmptySeq

\* An argument of a command.
LEMMA CommandArgNested ==
  ASSUME Running, CommandArg
  PROVE  Nested'
<1> DEFINE b == Below(stack)
<1>1. /\ top.at = "arguments" /\ Ahead(FALSE) \notin IsRawExit \cup {"Eof"}
      /\ UNCHANGED <<next, contexts>>
  BY DEF CommandArg, Runs, At, lexer
<1>2. b \in Nat /\ Own(top.at) = 1 /\ TopFits(top.at, b + 1, contexts, cache, next)
  BY <1>1, OwnHere
<1> HIDE DEF b
<1>3. cache # <<>> /\ cache[1] = Ahead(FALSE)
  BY <1>1, AheadOne DEF Running, TypeOK
<1>4. Arguments(b + 1, contexts, cache)
  BY <1>1, <1>2 DEF TopFits
<1>5. CASE Ahead(FALSE) \in IsInterpolatable
  <2> DEFINE p == "argument"
             q == "interpolation"
  <2>1. /\ p \in Point /\ q \in Point /\ q = "interpolation" /\ Call(p, q) /\ Takes(FALSE)
        /\ Role(top.at, p) /\ p \in Callers(q) /\ Own(p) = 1 /\ Own(q) = 1 /\ Home(p) = {"raw"}
    BY <1>1, <1>5 DEF CommandArg, Point, Role, Bottom, Callers, Own, Home, ContextOf
  <2> HIDE DEF p, q
  <2>2. /\ Len(cache) = 1 /\ Len(contexts) = b + 1 + 2 /\ contexts[b + 1 + 1] = "raw"
        /\ contexts[b + 1 + 2] \in {"raw token", "string"}
    BY <1>3, <1>4, <1>5 DEF Arguments, IsInterpolatable
  <2>3. cache' = <<>>
    BY <2>1, <2>2, PassesAlone DEF Running
  <2>4. Literal(b + 1 + 1, contexts, cache')
    <3>1. b + 1 + 1 + 1 = b + 1 + 2
      BY <1>2
    <3>2. QED
      BY <2>2, <2>3, <3>1 DEF Literal
  <2>5. TopFits(q, b + 1 + 1, contexts, cache', next')
    BY <2>1, <2>4 DEF TopFits, Plain
  <2>6. b + Own(p) = b + 1 /\ b + Own(p) + Own(q) = b + 1 + 1
    BY <1>2, <2>1
  <2>7. contexts[b + Own(p) + 1] \in Home(p)
    BY <2>1, <2>2, <2>6
  <2>8. QED
    BY <1>1, <2>1, <2>5, <2>6, <2>7, CallNested DEF b
<1>6. CASE Ahead(FALSE) \notin IsInterpolatable
  <2> DEFINE m == [top EXCEPT !.fail = TRUE]
  <2>1. m \in Frame /\ m.at = top.at
    BY RunningTop DEF Frame
  <2>2. stack' = GoOn(m) /\ UNCHANGED cache
    BY <1>6 DEF CommandArg
  <2> HIDE DEF m
  <2>3. Role(top.at, m.at) /\ TopFits(m.at, b + Own(m.at), contexts', cache', next')
    BY <1>1, <1>2, <2>1, <2>2 DEF Role
  <2>4. QED
    BY <1>1, <2>1, <2>2, <2>3, GoesOnNested DEF b
<1>7. QED
  BY <1>5, <1>6

\* The argument that was parsed, and the next one.
LEMMA AppendArgNested ==
  ASSUME Running, AppendArg
  PROVE  Nested'
<1> DEFINE b == Below(stack)
           m == [top EXCEPT !.at = "arguments", !.fail = @ \/ ~result, !.some = @ \/ result]
<1>1. top.at = "argument" /\ stack' = GoOn(m) /\ UNCHANGED <<next, contexts, cache>>
  BY DEF AppendArg, Runs, At, lexer
<1>2. m \in Frame /\ m.at = "arguments"
  BY RunningTop DEF Frame, Point
<1> HIDE DEF m
<1>3. b \in Nat /\ TopFits(top.at, b + 1, contexts, cache, next)
  BY <1>1, OwnHere
<1> HIDE DEF b
<1>4. TopFits(m.at, b + 1, contexts', cache', next')
  BY <1>1, <1>2, <1>3 DEF TopFits, Arguments, Plain
<1>5. Own(m.at) = 1 /\ Role(top.at, m.at)
  BY <1>1, <1>2 DEF Own, ContextOf, Role, Bottom, Callers
<1>6. QED
  BY <1>1, <1>2, <1>4, <1>5, GoesOnNested DEF b

\* The lexer left the context of the command at the exit signal, and at the end
\* of the source it did not.
LEMMA EndOfArgsNested ==
  ASSUME Running, EndOfArgs
  PROVE  Nested'
<1> DEFINE b == Below(stack)
           p == "command end"
<1>1. /\ top.at = "arguments" /\ Ahead(FALSE) \in IsRawExit \cup {"Eof"} /\ GoTo(p)
      /\ Sighted \/ Exhausted
      /\ UNCHANGED <<next, contexts, cache>>
  BY DEF EndOfArgs, Runs, At, lexer
<1>2. p \in Point /\ p \in Plain /\ p # "expression" /\ Own(p) = 0 /\ Role(top.at, p)
  BY <1>1 DEF Point, Plain, Own, ContextOf, Role, Bottom, Callers
<1> HIDE DEF p
<1>3. /\ b \in Nat /\ TopFits(top.at, b + 1, contexts, cache, next)
      /\ \E q \in Callers(top.at) : contexts[b + 1] \in Home(q)
  BY <1>1, OwnHere
<1>4. contexts[b + 1] = "normal"
  BY <1>1, <1>3 DEF Callers, Home, ContextOf
<1> HIDE DEF b
<1>5. Arguments(b + 1, contexts, cache)
  BY <1>1, <1>3 DEF TopFits
<1>6. b + 1 + 1 = b + 2
  BY <1>3
<1>7. Lookahead(p, cache) /\ Normal(b, contexts, cache, next)
  <2>1. CASE cache = <<>>
    <3>1. Len(cache) = 0 /\ ~Sees(FALSE, 1)
      BY <2>1, AheadOne DEF Running, TypeOK
    <3>2. next = "eof"
      BY <1>1, <3>1 DEF Sighted, Exhausted
    <3>3. Lookahead(p, cache)
      BY <3>1 DEF Lookahead
    <3>4. Len(contexts) = b + 2 /\ contexts[b + 2] = "raw"
      BY <1>5, <1>6, <3>1 DEF Arguments
    <3>5. QED
      BY <1>4, <2>1, <3>2, <3>3, <3>4 DEF Normal
  <2>2. CASE cache # <<>>
    <3>1. cache[1] \in IsRawExit
      BY <1>1, <2>2, AheadOne DEF Running, TypeOK, Token
    <3>2. Len(cache) = 1 /\ Len(contexts) = b + 1
      BY <1>5, <2>2, <3>1 DEF Arguments, IsRawExit, IsInterpolatable
    <3>3. Lookahead(p, cache)
      BY <3>2 DEF Lookahead
    <3>4. cache[Len(cache)] \notin Opening
      BY <3>1, <3>2 DEF Opening, IsRawExit
    <3>5. QED
      BY <1>4, <3>2, <3>3, <3>4 DEF Normal
  <2>3. QED
    BY <2>1, <2>2
<1>8. TopFits(p, b, contexts, cache', next')
  BY <1>1, <1>2, <1>7 DEF TopFits, Plain
<1>9. b + Own(p) = b
  BY <1>2, <1>3
<1>10. QED
  BY <1>1, <1>2, <1>8, <1>9, GoToNested DEF b

\* InterpolateAction: the expression after ${ is read in a normal context.
LEMMA InterStartNested ==
  ASSUME Running, InterStart
  PROVE  Nested'
<1> DEFINE b == Below(stack)
           p == "destroy"
           q == "brace"
           r == "expression"
<1>1. /\ top.at = "interpolation" /\ Takes(FALSE) /\ Ahead(FALSE) = "InterStart"
      /\ stack' = GoOn([top EXCEPT !.at = p]) \o <<Method(q), Method(r)>>
      /\ UNCHANGED <<next, contexts>>
  BY DEF InterStart, Runs, At, lexer
<1>2. /\ p \in Point /\ q \in Point /\ r \in Point /\ r \in Plain
      /\ Role(top.at, p) /\ p \in Callers(q) /\ q \in Callers(r)
      /\ Own(p) = 1 /\ Own(q) = 1 /\ Own(r) = 0
      /\ Home(p) = {"raw token", "string"} /\ Home(q) = {"normal"}
  BY <1>1 DEF Plain, Point, Role, Bottom, Callers, Own, Home, ContextOf
<1> HIDE DEF p, q, r
<1>3. b \in Nat /\ TopFits(top.at, b + 1, contexts, cache, next)
  BY <1>1, OwnHere
<1> HIDE DEF b
<1>4. cache # <<>> /\ cache[1] = "InterStart"
  BY <1>1, AheadOne DEF Running, TypeOK
<1>5. Literal(b + 1, contexts, cache)
  BY <1>1, <1>3 DEF TopFits
<1>6. /\ Len(cache) = 1 /\ contexts[b + 1 + 1] \in {"raw token", "string"}
      /\ Len(contexts) = b + 1 + 2 /\ contexts[b + 1 + 2] = "normal"
  BY <1>4, <1>5 DEF Literal
<1>7. cache' = <<>>
  BY <1>1, <1>6, PassesAlone DEF Running
<1>8. /\ b + Own(p) + 1 = b + 1 + 1 /\ b + Own(p) + Own(q) + 1 = b + 1 + 2
      /\ b + Own(p) + Own(q) + Own(r) = b + 2 /\ b + 2 + 1 = b + 1 + 2
  <2>1. b \in Nat
    BY <1>3
  <2>2. Own(p) = 1 /\ Own(q) = 1 /\ Own(r) = 0
    BY <1>2
  <2>3. QED
    BY <2>1, <2>2
<1>9. Lookahead(r, cache') /\ Normal(b + 2, contexts, cache', next)
  <2>1. Len(cache') = 0
    BY <1>7
  <2>2. Lookahead(r, cache')
    BY <2>1 DEF Lookahead
  <2>3. QED
    BY <1>6, <1>7, <1>8, <2>2 DEF Normal
<1>10. TopFits(r, b + 2, contexts, cache', next')
  BY <1>1, <1>2, <1>9 DEF TopFits, Plain
<1>11. QED
  BY <1>1, <1>2, <1>6, <1>8, <1>10, CallTwoNested DEF b

\* The lexer left the context of the literal at its end.
LEMMA InterDoneNested ==
  ASSUME Running, InterDone
  PROVE  Nested'
<1> DEFINE b == Below(stack)
<1>1. /\ top.at = "interpolation" /\ stack' = Without(stack)
      /\ (Ahead(FALSE) = "InterDone" /\ Takes(FALSE)) \/ Ahead(FALSE) = "Eof"
      /\ Sighted \/ Exhausted
      /\ UNCHANGED <<next, contexts>>
  BY DEF InterDone, Runs, At, Return, lexer
<1>2. /\ b \in Nat /\ TopFits(top.at, b + 1, contexts, cache, next)
      /\ top.at \notin Bottom /\ Callers(top.at) \subseteq {"indices", "argument", "parameter"}
  BY <1>1, OwnHere DEF Bottom, Callers
<1> HIDE DEF b
<1>3. Literal(b + 1, contexts, cache)
  BY <1>1, <1>2 DEF TopFits
<1>4. cache # <<>>
  <2> SUFFICES ASSUME cache = <<>> PROVE FALSE
    OBVIOUS
  <2>1. Len(cache) = 0 /\ ~Sees(FALSE, 1)
    BY AheadOne DEF Running, TypeOK
  <2>2. Exhausted
    BY <1>1, <2>1 DEF Sighted
  <2>3. Len(contexts) = b + 1 + 1 /\ contexts[b + 1 + 1] \in {"raw token", "string"}
    <3>1. Len(cache) # 1
      BY <2>1
    <3>2. QED
      BY <1>3, <3>1 DEF Literal
  <2>4. QED
    BY <2>2, <2>3 DEF Exhausted, context
<1>5. Ahead(FALSE) = "InterDone" /\ cache[1] = "InterDone" /\ Takes(FALSE)
  BY <1>1, <1>4, AheadOne DEF Running, TypeOK, Token
<1>6. Len(cache) = 1 /\ Len(contexts) = b + 1
  BY <1>3, <1>4, <1>5 DEF Literal
<1>7. cache' = <<>>
  BY <1>5, <1>6, PassesAlone DEF Running
<1>8. ASSUME NEW p \in Callers(top.at), contexts[b + 1] \in Home(p)
      PROVE  TopFits(p, b, contexts, cache', next')
  <2>1. CASE p = "argument"
    BY <1>6, <1>7, <1>8, <2>1 DEF TopFits, Plain, Home, ContextOf
  <2>2. CASE p # "argument"
    <3>1. p \in Plain /\ contexts[b + 1] = "normal"
      BY <1>2, <1>8, <2>2 DEF Plain, Point, Home, ContextOf
    <3>2. Normal(b, contexts, cache', next')
      BY <1>6, <1>7, <3>1 DEF Normal
    <3>3. Len(cache') = 0
      BY <1>7
    <3>4. Lookahead(p, cache')
      BY <3>3 DEF Lookahead
    <3>5. QED
      BY <3>1, <3>2, <3>4 DEF TopFits, Plain
  <2>3. QED
    BY <2>1, <2>2
<1>9. QED
  BY <1>1, <1>2, <1>8, ReturnsNested DEF b

\* A segment of a literal, or an interpolation in it.
LEMMA SegmentNested ==
  ASSUME Running, Segment
  PROVE  Nested'
<1> DEFINE b == Below(stack)
<1>1. /\ top.at = "interpolation" /\ Takes(FALSE) /\ Ahead(FALSE) \notin {"InterStart", "InterDone", "Eof"}
      /\ UNCHANGED <<next, contexts, stack>>
  BY DEF Segment, Runs, At, lexer
<1>2. b \in Nat /\ Own(top.at) = 1 /\ TopFits(top.at, b + 1, contexts, cache, next)
  BY <1>1, OwnHere
<1> HIDE DEF b
<1>3. cache # <<>> /\ cache[1] \notin {"InterStart", "InterDone"} /\ Len(cache) # 0
  BY <1>1, AheadOne DEF Running, TypeOK
<1>4. Literal(b + 1, contexts, cache)
  BY <1>1, <1>2 DEF TopFits
<1>5. /\ Len(cache) = 1 /\ contexts[b + 1 + 1] \in {"raw token", "string"}
      /\ Len(contexts) = b + 1 + 1
  BY <1>3, <1>4 DEF Literal
<1>6. cache' = <<>>
  BY <1>1, <1>5, PassesAlone DEF Running
<1>7. Literal(b + 1, contexts, cache')
  BY <1>5, <1>6 DEF Literal
<1>8. TopFits(top.at, b + Own(top.at), contexts', cache', next')
  BY <1>1, <1>2, <1>7 DEF TopFits, Plain
<1>9. QED
  BY <1>1, <1>8, StaysNested DEF b

\* The } is the last token that was read, in the normal context its ${ entered.
LEMMA ClosingBraceNested ==
  ASSUME Running, ~failed', ClosingBrace
  PROVE  Nested'
<1> DEFINE b == Below(stack)
<1>1. /\ top.at = "brace" /\ Ahead(FALSE) = "RBrace" /\ Takes(FALSE) /\ stack' = Without(stack)
      /\ UNCHANGED <<next, contexts>>
  BY DEF ClosingBrace, Runs, At, Return, Optional, lexer
<1>2. /\ b \in Nat /\ TopFits(top.at, b + 1, contexts, cache, next)
      /\ top.at \notin Bottom /\ Callers(top.at) = {"destroy"} /\ top.at \in Plain
      /\ \E p \in Callers(top.at) : contexts[b + 1] \in Home(p)
  BY <1>1, OwnHere DEF Bottom, Callers, Plain, Point
<1> HIDE DEF b
<1>3. Lookahead("brace", cache) /\ Normal(b + 1, contexts, cache, next)
  BY <1>1, <1>2 DEF TopFits
<1>4. cache[1] = "RBrace" /\ cache[1] \notin Opening \cup Space
  BY <1>1, AheadOne DEF Running, TypeOK, Opening, Space
<1>5. b + 1 \in Nat /\ b + 1 + 1 = b + 2
  BY <1>2
<1>6. cache' = <<>> /\ Len(contexts) = b + 2 /\ contexts[b + 2] = "normal"
  <2>1. cache' = <<>> /\ Len(contexts) = b + 1 + 1
    BY <1>1, <1>3, <1>4, <1>5, PassesOne DEF Running
  <2>2. contexts[b + 1 + 1] = "normal"
    BY <1>3 DEF Normal
  <2>3. QED
    BY <1>5, <2>1, <2>2
<1>7. ASSUME NEW p \in Callers(top.at), contexts[b + 1] \in Home(p)
      PROVE  TopFits(p, b, contexts, cache', next')
  <2>1. p = "destroy"
    BY <1>2, <1>7
  <2>2. contexts[b + 1] \in {"raw token", "string"}
    BY <1>7, <2>1 DEF Home, ContextOf
  <2>3. QED
    BY <1>6, <2>1, <2>2 DEF TopFits, Plain
<1>8. QED
  BY <1>1, <1>2, <1>7, ReturnsNested DEF b

\* The context that is left is the one its ${ entered.
LEMMA DestoryContextNested ==
  ASSUME Running, DestoryContext
  PROVE  Nested'
<1> DEFINE b == Below(stack)
           m == [top EXCEPT !.at = "interpolation", !.fail = @ \/ ~result]
<1>1. top.at = "destroy" /\ Exit /\ stack' = GoOn(m) /\ UNCHANGED <<next, cache>>
  BY DEF DestoryContext, Runs, At
<1>2. m \in Frame /\ m.at = "interpolation"
  BY RunningTop DEF Frame, Point
<1> HIDE DEF m
<1>3. b \in Nat /\ TopFits(top.at, b + 1, contexts, cache, next)
  BY <1>1, OwnHere
<1> HIDE DEF b
<1>4. /\ cache = <<>> /\ Len(contexts) = b + 1 + 2
      /\ contexts[b + 1 + 1] \in {"raw token", "string"}
  BY <1>1, <1>3 DEF TopFits
<1>5. /\ Len(contexts') = b + 2
      /\ \A j \in 1 .. b + 2 : contexts'[j] = contexts[j]
  <2>1. Len(contexts) # 1 /\ Len(contexts) - 1 = b + 2
    <3>1. b \in Nat
      BY <1>3
    <3>2. Len(contexts) = b + 1 + 2
      BY <1>4
    <3>3. QED
      BY <3>1, <3>2
  <2>2. /\ Len(contexts') = Len(contexts) - 1
        /\ \A j \in 1 .. Len(contexts) - 1 : contexts'[j] = contexts[j]
    BY <1>1, <2>1, EnterExit DEF Running, TypeOK
  <2>3. QED
    BY <2>1, <2>2
<1>6. Literal(b + 1, contexts', cache')
  <2>1. b + 1 + 1 = b + 2 /\ b + 2 \in 1 .. b + 2
    BY <1>3
  <2>2. contexts'[b + 2] = contexts[b + 2]
    BY <1>5, <2>1
  <2>3. QED
    BY <1>1, <1>4, <1>5, <2>1, <2>2 DEF Literal
<1>7. /\ TopFits(m.at, b + Own(m.at), contexts', cache', next') /\ Role(top.at, m.at)
  BY <1>1, <1>2, <1>6 DEF TopFits, Plain, Own, ContextOf, Role, Bottom, Callers
<1>8. \A j \in 1 .. b + 1 : contexts'[j] = contexts[j]
  BY <1>3, <1>5
<1>9. QED
  BY <1>1, <1>2, <1>7, <1>8, GoesOnNested DEF b

\* The parser keeps the contexts nested.
LEMMA ParseNested ==
  ASSUME Running, result, ~failed', Parse
  PROVE  Nested'
<1>1. top.at \notin {"recover statement", "recover brace", "skip brace"}
  <2>1. \A p \in {"recover statement", "recover brace", "skip brace"} :
          p \notin Bottom /\ Callers(p) = {}
    BY DEF Bottom, Callers
  <2>2. top.at \notin Bottom => Callers(top.at) # {}
    BY RunningTop, TopRests DEF Running
  <2>3. QED
    BY <2>1, <2>2
<1>2. ~RecoverFromStatement /\ ~RecoverFromExpression /\ ~NoInterExpr /\ ~SkipBrace
  BY <1>1 DEF RecoverFromStatement, RecoverFromExpression, Recover, NoInterExpr, SkipBrace, Runs, At
<1>3. ~NoExpression
  BY DEF NoExpression
<1>4. QED
  BY <1>2, <1>3, ProgramNested, BlockNested, StatementNested, StatementEndNested,
     SkipStatementEndNested, AtomNested, FunctionCallNested, CommandNested, StringLiteralNested,
     IndicesNested, NothingFollowsNested, CommandArgNested, AppendArgNested, EndOfArgsNested,
     CommandEndNested, ParameterNested, AppendParameterNested, InterStartNested, InterDoneNested,
     SegmentNested, ClosingBraceNested, DestoryContextNested DEF Parse

\* At first there is one method and one context.
LEMMA InitNested ==
  ASSUME Init
  PROVE  Nested
<1> DEFINE s == <<Method("program")>>
           p == "program"
<1>1. stack = s /\ contexts = <<"normal">> /\ cache = <<>>
  BY DEF Init
<1>2. s \in Seq(Frame) /\ Len(s) = 1 /\ s # <<>> /\ s[1].at = p
  <2>1. p \in Point
    BY DEF Point
  <2>2. Method("program") \in Frame /\ Method("program").at = p
    BY <2>1, FramesAt
  <2>3. QED
    BY <2>2
<1>3. p \in Bottom /\ p \in Plain /\ Own(p) = 0 /\ p \notin {"arguments", "argument", "interpolation", "destroy"}
  BY DEF Bottom, Plain, Point, Own, ContextOf
<1> HIDE DEF s, p
<1>4. Rests(s, contexts)
  BY <1>2, <1>3 DEF Rests, Chain, BelowHome
<1>5. Below(s) = 0
  <2>1. Depth(s, 0) = 0
    BY NextDepth
  <2>2. Len(s) - 1 = 0
    BY <1>2
  <2>3. QED
    BY <2>1, <2>2 DEF Below
<1>6. Normal(0, contexts, cache, next)
  BY <1>1 DEF Normal
<1>7. Lookahead(p, cache)
  <2>1. Len(cache) = 0
    BY <1>1
  <2>2. QED
    BY <2>1 DEF Lookahead
<1>8. TopFits(p, 0, contexts, cache, next)
  BY <1>3, <1>6, <1>7 DEF TopFits
<1>9. top.at = p /\ stack # <<>>
  BY <1>1, <1>2 DEF top
<1>10. Below(stack) + Own(top.at) = 0
  BY <1>1, <1>3, <1>5, <1>9
<1>11. QED
  BY <1>1, <1>4, <1>8, <1>9, <1>10 DEF Nested

-----------------------------------------------------------------------------
(***************************************************************************)
(* The theorems about the nesting.                                         *)
(***************************************************************************)
\* As long as there is no error the contexts are nested.
LEMMA AlwaysNested == Spec => [](failed \/ Nested)
<1>1. Init => failed \/ Nested
  BY InitNested
<1>2. TypeOK /\ NothingWithoutError /\ (failed \/ Nested) /\ [Next]_vars => (failed \/ Nested)'
  <2> SUFFICES ASSUME TypeOK, NothingWithoutError, failed \/ Nested, [Next]_vars, ~failed'
               PROVE  Nested'
    OBVIOUS
  <2>1. CASE UNCHANGED vars
    BY <2>1 DEF vars, Nested, top
  <2>2. CASE Next
    <3>1. ~failed /\ result
      BY <2>2, ErrorsStay DEF NothingWithoutError
    <3>2. stack # <<>>
      BY <2>2
         DEF Next, Lex, StartOfLine, LexNormal, CharLiteral, LexRaw, LexRawToken, LexString,
             LexUnclosed, Consumes, Parse, Program, Block, Statement, StatementEnd,
             SkipStatementEnd, RecoverFromStatement, RecoverFromExpression, Recover,
             Variable, FunctionCall, Command, StringLiteral, CharLit, NoExpression,
             Indices, NothingFollows, CommandArg, AppendArg, EndOfArgs, CommandEnd,
             Parameter, AppendParameter, EndOfParameters, InterStart, InterDone,
             Segment, ClosingBrace, NoInterExpr, SkipBrace, DestoryContext, Runs, At
    <3>3. Running
      BY <3>1, <3>2 DEF Running
    <3>4. QED
      BY <2>2, <3>1, <3>3, LexNested, ParseNested DEF Next
  <2>3. QED
    BY <2>1, <2>2
<1>3. QED
  BY <1>1, <1>2, TypeCorrect, NothingDropped, PTL DEF Spec

\* What runs in the parser and the contexts of the lexer nest alike, as long as
\* there is no error and whenever no token waits: a literal is read in its
\* context, the expression after its ${ in a normal one above, a command in a raw
\* one, at any depth and for any source.
THEOREM ContextsNest == Spec => []ContextsFollowParser
<1>1. ASSUME TypeOK, failed \/ Nested PROVE ContextsFollowParser
  <2> SUFFICES ASSUME Nested, cache = <<>>, ~At("destroy"), ~(Exhausted /\ context = "raw")
               PROVE  /\ Len(contexts) = Depth(stack, Len(stack)) + 1
                      /\ contexts[1] = "normal"
                      /\ \A i \in DOMAIN stack : ContextOf(stack[i].at) # {} =>
                           contexts[Depth(stack, i) + 1] \in ContextOf(stack[i].at)
    BY <1>1 DEF ContextsFollowParser
  <2> DEFINE n == Len(stack)
             d == Depth(stack, n)
  <2>1. ~(next = "eof" /\ contexts[Len(contexts)] = "raw")
    BY DEF Exhausted, context
  <2>2. \A k \in Nat : Normal(k, contexts, cache, next) =>
          Len(contexts) = k + 1 /\ contexts[k + 1] = "normal"
    BY <2>1 DEF Normal
  <2>3. CASE stack = <<>>
    <3>1. Normal(0, contexts, cache, next) /\ Len(stack) = 0
      BY <2>3 DEF Nested
    <3>2. Depth(stack, 0) = 0
      BY NextDepth
    <3>3. Len(contexts) = 1 /\ contexts[1] = "normal"
      BY <2>1, <3>1 DEF Normal
    <3>4. DOMAIN stack = {}
      BY <2>3
    <3>5. QED
      BY <3>1, <3>2, <3>3, <3>4
  <2>4. CASE stack # <<>>
    <3>1. Running
      BY <1>1, <2>4 DEF Running
    <3>2. /\ n \in Nat \ {0} /\ DOMAIN stack = 1 .. n /\ top = stack[n]
          /\ Rests(stack, contexts) /\ top.at \in Point
          /\ d = Below(stack) + Own(top.at) /\ d \in Nat
          /\ TopFits(top.at, d, contexts, cache, next)
      <4>1. /\ n \in Nat \ {0} /\ DOMAIN stack = 1 .. n /\ top = stack[n]
            /\ Rests(stack, contexts) /\ top.at \in Point
        BY <3>1, RunningTop, LenProperties DEF Frame
      <4>2. d = Below(stack) + Own(top.at) /\ d \in Nat
        BY <3>1, <4>1, RunningTop, TopRests, NextDepth DEF Running
      <4>3. QED
        BY <3>1, <4>1, <4>2, RunningTop
    <3>3. top.at # "destroy"
      BY <2>4 DEF At
    <3>4. Len(cache) = 0
      OBVIOUS
    <3> HIDE DEF n, d
    <3>5. /\ Len(contexts) = d + 1
          /\ ContextOf(top.at) # {} => contexts[d + 1] \in ContextOf(top.at)
          /\ top.at \in Plain => contexts[d + 1] = "normal"
      <4>1. CASE top.at = "arguments"
        BY <3>2, <3>4, <4>1 DEF TopFits, Arguments, ContextOf, Plain
      <4>2. CASE top.at = "argument"
        BY <3>2, <4>2 DEF TopFits, ContextOf, Plain
      <4>3. CASE top.at = "interpolation"
        <5>1. Literal(d, contexts, cache) /\ Len(cache) # 1
          BY <3>2, <3>4, <4>3 DEF TopFits
        <5>2. Len(contexts) = d + 1 /\ contexts[d + 1] \in {"raw token", "string"}
          BY <5>1 DEF Literal
        <5>3. ContextOf(top.at) = {"raw token", "string"} /\ top.at \notin Plain
          BY <4>3 DEF ContextOf, Plain
        <5>4. QED
          BY <5>2, <5>3
      <4>4. CASE top.at \in Plain
        <5>1. Len(contexts) = d + 1 /\ contexts[d + 1] = "normal"
          BY <2>2, <3>2, <4>4 DEF TopFits
        <5>2. ContextOf(top.at) # {} => ContextOf(top.at) = {"normal"}
          BY <4>4 DEF Plain, ContextOf
        <5>3. QED
          BY <5>1, <5>2
      <4>5. top.at \in {"arguments", "argument", "interpolation"} \cup Plain
        BY <3>2, <3>3 DEF Plain
      <4>6. QED
        BY <4>1, <4>2, <4>3, <4>4, <4>5
    <3>6. contexts[1] = "normal"
      <4>1. stack[1].at \in Bottom
        BY <3>2 DEF Rests, Chain, n
      <4>2. Depth(stack, 1) = 0
        <5>1. Depth(stack, 0 + 1) = Depth(stack, 0) + Own(stack[0 + 1].at) /\ Depth(stack, 0) = 0
          BY NextDepth
        <5>2. Own(stack[1].at) = 0
          BY <4>1 DEF Bottom, Own, ContextOf
        <5>3. QED
          BY <5>1, <5>2
      <4>3. Home(stack[1].at) = {"normal"} /\ stack[1].at \in Plain
        BY <4>1 DEF Bottom, Home, ContextOf, Plain, Point
      <4>4. CASE n = 1
        BY <3>2, <3>5, <4>2, <4>3, <4>4 DEF d
      <4>5. CASE n # 1
        <5>1. 1 \in 1 .. n - 1
          BY <3>2, <4>5
        <5>2. contexts[Depth(stack, 1) + 1] \in Home(stack[1].at)
          BY <3>2, <5>1 DEF Rests, BelowHome, n
        <5>3. QED
          BY <4>2, <4>3, <5>2
      <4>6. QED
        BY <4>4, <4>5
    <3>7. ASSUME NEW i \in 1 .. n, ContextOf(stack[i].at) # {}
          PROVE  contexts[Depth(stack, i) + 1] \in ContextOf(stack[i].at)
      <4>1. CASE i = n
        BY <3>2, <3>5, <3>7, <4>1 DEF d
      <4>2. CASE i # n
        <5>1. i \in 1 .. n - 1
          BY <3>2, <4>2
        <5>2. contexts[Depth(stack, i) + 1] \in Home(stack[i].at)
          BY <3>2, <5>1 DEF Rests, BelowHome, n
        <5>3. QED
          BY <3>7, <5>2 DEF Home
      <4>3. QED
        BY <4>1, <4>2
    <3>8. QED
      BY <3>2, <3>5, <3>6, <3>7 DEF n, d
  <2>5. QED
    BY <2>3, <2>4
<1>2. QED
  BY <1>1, AlwaysNested, TypeCorrect, PTL

\* As long as there is no error a literal meets only the tokens of its own
\* context, and the context the parser leaves at } is the normal one that its ${
\* entered, in which nothing was read ahead.
THEOREM LiteralsNest == Spec => []LiteralsReadTheirOwn
<1>1. ASSUME TypeOK, failed \/ Nested PROVE LiteralsReadTheirOwn
  <2> SUFFICES ASSUME Nested, stack # <<>>
               PROVE  /\ top.at = "interpolation" /\ cache # <<>> =>
                           cache[1] \in {"Segment", "InterStart", "InterDone"}
                      /\ top.at = "destroy" =>
                           /\ cache = <<>> /\ context = "normal"
                           /\ Len(contexts) = Depth(stack, Len(stack)) + 2
    BY <1>1 DEF LiteralsReadTheirOwn, At
  <2>1. Running
    BY <1>1 DEF Running
  <2> DEFINE d == Depth(stack, Len(stack))
  <2>2. TopFits(top.at, d, contexts, cache, next)
    BY <2>1, RunningTop, TopRests DEF Running
  <2>3. Len(cache) # 0 \/ cache = <<>>
    BY <1>1, AheadOne DEF TypeOK
  <2> HIDE DEF d
  <2>4. CASE top.at = "interpolation"
    BY <2>2, <2>3, <2>4 DEF TopFits, Literal
  <2>5. CASE top.at = "destroy"
    BY <2>2, <2>5 DEF TopFits, context, d
  <2>6. QED
    BY <2>4, <2>5
<1>2. QED
  BY <1>1, AlwaysNested, TypeCorrect, PTL

-----------------------------------------------------------------------------
(***************************************************************************)
(* Counting: there is a normal context above the first one for every ${    *)
(* that was read, whether the parser has taken it or it still waits among  *)
(* the tokens that were read ahead.                                        *)
(***************************************************************************)
Count(f, v, n) == Cardinality({i \in 1 .. n : f[i] = v})

\* A count is a number.
LEMMA FiniteCount ==
  ASSUME NEW f, NEW v, NEW n \in Nat
  PROVE  IsFiniteSet({i \in 1 .. n : f[i] = v}) /\ Count(f, v, n) \in Nat
<1>1. IsFiniteSet(1 .. n)
  BY FS_Interval
<1>2. {i \in 1 .. n : f[i] = v} \in SUBSET (1 .. n)
  OBVIOUS
<1>3. IsFiniteSet({i \in 1 .. n : f[i] = v})
  BY <1>1, <1>2, FS_Subset
<1>4. QED
  BY <1>3, FS_CardinalityType DEF Count

\* Counting, one element at a time.
LEMMA NextCount ==
  ASSUME NEW f, NEW v, NEW n \in Nat
  PROVE  /\ Count(f, v, 0) = 0
         /\ Count(f, v, n + 1) = IF f[n + 1] = v THEN Count(f, v, n) + 1 ELSE Count(f, v, n)
<1> DEFINE A == {i \in 1 .. n : f[i] = v}
           B == {i \in 1 .. n + 1 : f[i] = v}
<1>1. Count(f, v, 0) = 0
  <2>1. {i \in 1 .. 0 : f[i] = v} = {}
    OBVIOUS
  <2>2. QED
    BY <2>1, FS_EmptySet DEF Count
<1>2. B = IF f[n + 1] = v THEN A \cup {n + 1} ELSE A
  <2>1. 1 .. n + 1 = (1 .. n) \cup {n + 1}
    OBVIOUS
  <2>2. QED
    BY <2>1
<1>3. n + 1 \notin A /\ IsFiniteSet(A)
  <2>1. n + 1 \notin A
    OBVIOUS
  <2>2. IsFiniteSet(A)
    BY FiniteCount
  <2>3. QED
    BY <2>1, <2>2
<1>4. Count(f, v, n) = Cardinality(A) /\ Count(f, v, n + 1) = Cardinality(B)
  BY DEF Count
<1> HIDE DEF A, B
<1>5. Cardinality(A \cup {n + 1}) = Cardinality(A) + 1
  BY <1>3, FS_AddElement
<1>6. QED
  BY <1>1, <1>2, <1>4, <1>5

\* The count depends on the elements only.
LEMMA SameCount ==
  ASSUME NEW f, NEW g, NEW v, NEW n \in Nat, \A i \in 1 .. n : g[i] = f[i]
  PROVE  Count(g, v, n) = Count(f, v, n)
<1>1. {i \in 1 .. n : g[i] = v} = {i \in 1 .. n : f[i] = v}
  OBVIOUS
<1>2. QED
  BY <1>1 DEF Count

\* Without the first k there are no more, and fewer if one of them counted.
LEMMA CountAfter ==
  ASSUME NEW f, NEW g, NEW v, NEW n \in Nat, NEW k \in 0 .. n,
         \A i \in 1 .. n - k : g[i] = f[i + k]
  PROVE  /\ Count(g, v, n - k) <= Count(f, v, n)
         /\ \A j \in 1 .. k : f[j] = v => Count(g, v, n - k) + 1 <= Count(f, v, n)
<1> DEFINE A == {i \in 1 .. n : f[i] = v}
           B == {i \in 1 .. n - k : g[i] = v}
           h == [i \in B |-> i + k]
<1>1. n - k \in Nat /\ k \in Nat
  OBVIOUS
<1>2. IsFiniteSet(A) /\ IsFiniteSet(B) /\ Cardinality(A) \in Nat /\ Cardinality(B) \in Nat
  BY <1>1, FiniteCount DEF Count
<1>3. Count(f, v, n) = Cardinality(A) /\ Count(g, v, n - k) = Cardinality(B)
  BY DEF Count
<1>4. \A i \in B : i \in Nat /\ i + k \in A /\ i + k > k
  BY <1>1
<1>5. \A T : (\A i \in B : i + k \in T) => h \in Injection(B, T)
  <2> SUFFICES ASSUME NEW T, \A i \in B : i + k \in T PROVE h \in Injection(B, T)
    OBVIOUS
  <2>1. h \in [B -> T]
    OBVIOUS
  <2>2. \A i, j \in B : i + k = j + k => i = j
    BY <1>1, <1>4
  <2>3. QED
    BY <2>1, <2>2 DEF Injection, IsInjective
<1>6. Count(g, v, n - k) <= Count(f, v, n)
  <2>1. h \in Injection(B, A)
    BY <1>4, <1>5
  <2> HIDE DEF A, B, h
  <2>2. QED
    BY <1>2, <1>3, <2>1, FS_Injection
<1>7. ASSUME NEW j \in 1 .. k, f[j] = v
      PROVE  Count(g, v, n - k) + 1 <= Count(f, v, n)
  <2>1. j \in A
    BY <1>1, <1>7
  <2>2. \A i \in B : i + k \in A \ {j}
    BY <1>1, <1>4
  <2>3. h \in Injection(B, A \ {j})
    BY <1>5, <2>2
  <2> HIDE DEF A, B, h
  <2>4. IsFiniteSet(A \ {j}) /\ Cardinality(A \ {j}) = Cardinality(A) - 1
    BY <1>2, <2>1, FS_RemoveElement
  <2>5. Cardinality(B) <= Cardinality(A) - 1
    BY <2>3, <2>4, FS_Injection
  <2>6. QED
    BY <1>2, <1>3, <2>5
<1>8. QED
  BY <1>6, <1>7

-----------------------------------------------------------------------------
(***************************************************************************)
(* What is counted.                                                        *)
(***************************************************************************)
Points(s) == [i \in 1 .. Len(s) |-> s[i].at]

\* The methods that leave a context when they go on.
ToDestroy(s) == Count(Points(s), "destroy", Len(s))
Is(point) == IF point = "destroy" THEN 1 ELSE 0

\* The ${ that are read ahead, and the normal contexts.
Waiting(q) == Count(q, "InterStart", Len(q))
Normals(c) == Count(c, "normal", Len(c))

Balance == ToDestroy(stack) + Waiting(cache) < Normals(contexts)

\* The three numbers that Balance compares.
LEMMA CountsAreNat ==
  /\ \A s \in Seq(Frame) : ToDestroy(s) \in Nat
  /\ \A q \in Seq(Token) : Waiting(q) \in Nat
  /\ \A c \in Seq(Context) : Normals(c) \in Nat
<1>1. \A s \in Seq(Frame) : ToDestroy(s) \in Nat
  BY FiniteCount, LenProperties DEF ToDestroy
<1>2. \A q \in Seq(Token) : Waiting(q) \in Nat
  BY FiniteCount, LenProperties DEF Waiting
<1>3. \A c \in Seq(Context) : Normals(c) \in Nat
  BY FiniteCount, LenProperties DEF Normals
<1>4. QED
  BY <1>1, <1>2, <1>3

\* One method more.
LEMMA OneMore ==
  ASSUME NEW s \in Seq(Frame), NEW t, Len(t) = Len(s) + 1,
         \A i \in 1 .. Len(s) : t[i] = s[i]
  PROVE  ToDestroy(t) = ToDestroy(s) + Is(t[Len(s) + 1].at)
<1> DEFINE n == Len(s)
           f == Points(s)
           g == Points(t)
<1>1. n \in Nat /\ ToDestroy(s) \in Nat
  BY LenProperties, CountsAreNat
<1>2. /\ \A i \in 1 .. n : g[i] = f[i]
      /\ g[n + 1] = t[n + 1].at
  BY <1>1 DEF Points
<1>3. ToDestroy(s) = Count(f, "destroy", n) /\ ToDestroy(t) = Count(g, "destroy", n + 1)
  BY DEF ToDestroy
<1> HIDE DEF n, f, g
<1>4. Count(g, "destroy", n) = Count(f, "destroy", n)
  BY <1>1, <1>2, SameCount
<1>5. Count(g, "destroy", n + 1)
        = IF g[n + 1] = "destroy" THEN Count(g, "destroy", n) + 1 ELSE Count(g, "destroy", n)
  BY <1>1, NextCount, SMTT(30)
<1>6. QED
  BY <1>1, <1>2, <1>3, <1>4, <1>5 DEF Is, n

\* The stacks the parser makes.
LEMMA StackCounts ==
  ASSUME stack \in Seq(Frame), stack # <<>>
  PROVE  \E rest \in Nat :
           /\ ToDestroy(stack) = rest + Is(top.at)
           /\ ToDestroy(Without(stack)) = rest
           /\ \A m \in Frame : ToDestroy(GoOn(m)) = rest + Is(m.at)
           /\ \A m \in Frame, k \in Frame :
                ToDestroy(Append(GoOn(m), k)) = rest + Is(m.at) + Is(k.at)
           /\ \A m \in Frame, k \in Frame, l \in Frame :
                ToDestroy(GoOn(m) \o <<k, l>>) = rest + Is(m.at) + Is(k.at) + Is(l.at)
<1> DEFINE w == Without(stack)
           n == Len(stack)
<1>1. n \in Nat \ {0} /\ n - 1 + 1 = n
  BY EmptySeq
<1>2. w \in Seq(Frame) /\ Len(w) = n - 1 /\ \A i \in 1 .. n - 1 : w[i] = stack[i]
  BY WithoutLast
<1> HIDE DEF w
<1>3. ToDestroy(stack) = ToDestroy(w) + Is(top.at)
  <2>1. Len(stack) = Len(w) + 1 /\ \A i \in 1 .. Len(w) : stack[i] = w[i]
    BY <1>1, <1>2
  <2>2. stack[Len(w) + 1] = top
    BY <1>1, <1>2 DEF top
  <2>3. QED
    BY <1>2, <2>1, <2>2, OneMore
<1>4. ASSUME NEW m \in Frame
      PROVE  GoOn(m) \in Seq(Frame) /\ ToDestroy(GoOn(m)) = ToDestroy(w) + Is(m.at)
  <2> DEFINE r == GoOn(m)
  <2>1. /\ r \in Seq(Frame) /\ Len(r) = n
        /\ \A i \in 1 .. n - 1 : r[i] = stack[i]
        /\ r[n] = m
    BY Replaced
  <2> HIDE DEF r
  <2>2. Len(r) = Len(w) + 1 /\ (\A i \in 1 .. Len(w) : r[i] = w[i]) /\ r[Len(w) + 1] = m
    BY <1>1, <1>2, <2>1
  <2>3. ToDestroy(r) = ToDestroy(w) + Is(m.at)
    BY <1>2, <2>2, OneMore
  <2>4. QED
    BY <2>1, <2>3 DEF r
<1>5. ASSUME NEW s \in Seq(Frame), NEW k \in Frame
      PROVE  Append(s, k) \in Seq(Frame) /\ ToDestroy(Append(s, k)) = ToDestroy(s) + Is(k.at)
  <2> DEFINE r == Append(s, k)
  <2>1. /\ r \in Seq(Frame) /\ Len(r) = Len(s) + 1 /\ r[Len(s) + 1] = k
        /\ \A i \in 1 .. Len(s) : r[i] = s[i]
    BY Appended
  <2> HIDE DEF r
  <2>2. ToDestroy(r) = ToDestroy(s) + Is(k.at)
    BY <2>1, OneMore
  <2>3. QED
    BY <2>1, <2>2 DEF r
<1>6. ToDestroy(w) \in Nat
  BY <1>2, CountsAreNat
<1>7. \A m \in Frame, k \in Frame :
        ToDestroy(Append(GoOn(m), k)) = ToDestroy(w) + Is(m.at) + Is(k.at)
  BY <1>4, <1>5
<1>8. \A m \in Frame, k \in Frame, l \in Frame :
        ToDestroy(GoOn(m) \o <<k, l>>) = ToDestroy(w) + Is(m.at) + Is(k.at) + Is(l.at)
  <2> SUFFICES ASSUME NEW m \in Frame, NEW k \in Frame, NEW l \in Frame
               PROVE  ToDestroy(GoOn(m) \o <<k, l>>)
                        = ToDestroy(w) + Is(m.at) + Is(k.at) + Is(l.at)
    OBVIOUS
  <2>1. GoOn(m) \o <<k, l>> = Append(Append(GoOn(m), k), l)
    BY <1>4, AppendedTwice
  <2>2. Append(GoOn(m), k) \in Seq(Frame)
    BY <1>4, <1>5
  <2>3. QED
    BY <1>5, <1>7, <2>1, <2>2
<1>9. QED
  BY <1>3, <1>4, <1>6, <1>7, <1>8 DEF w

\* Tokens that are passed over.
LEMMA TakesCounts ==
  ASSUME cache \in Seq(Token), NEW skip \in BOOLEAN, Takes(skip)
  PROVE  /\ cache' \in Seq(Token) /\ Waiting(cache') <= Waiting(cache)
         /\ ~skip /\ cache[1] = "InterStart" => Waiting(cache') + 1 <= Waiting(cache)
<1> DEFINE n == Len(cache)
<1>1. n \in Nat /\ DOMAIN cache = 1 .. n /\ \A i \in 1 .. n : cache[i] \in Token
  BY LenProperties
<1>2. PICK k \in 1 .. n : cache' = SubSeq(cache, k + 1, n) /\ (skip \/ k = 1)
  <2>1. CASE skip
    BY <1>1, <2>1 DEF Takes, Solid
  <2>2. CASE ~skip
    BY <1>1, <2>2 DEF Takes
  <2>3. QED
    BY <2>1, <2>2
<1>3. cache' \in Seq(Token) /\ Len(cache') = n - k /\ \A i \in 1 .. n - k : cache'[i] = cache[i + k]
  <2> DEFINE a == k + 1
  <2>1. k \in Nat /\ k >= 1 /\ k <= n /\ n \in Nat
    BY <1>1
  <2>2. a \in Nat /\ a >= 1 /\ n - a + 1 = n - k /\ (a <= n \/ n - k = 0)
    BY <2>1
  <2>5. \A i \in 1 .. n - k : a + i - 1 = i + k
    BY <2>1
  <2> HIDE DEF a, n
  <2>6. n \in Int /\ a \in Int /\ 1 <= a
    BY <2>1, <2>2
  <2>8. \A i \in a .. n : cache[i] \in Token
    BY <1>1, <2>6
  <2>3. /\ SubSeq(cache, a, n) \in Seq(Token)
        /\ Len(SubSeq(cache, a, n)) = IF a <= n THEN n - a + 1 ELSE 0
        /\ \A i \in 1 .. n - a + 1 : SubSeq(cache, a, n)[i] = cache[a + i - 1]
    BY <2>1, <2>2, <2>8, SubSeqProperties
  <2>4. cache' = SubSeq(cache, a, n)
    BY <1>2 DEF a
  <2>7. QED
    BY <2>1, <2>2, <2>5, <2>3, <2>4
<1>4. k \in 0 .. n
  BY <1>1
<1>5. Waiting(cache) = Count(cache, "InterStart", n)
  BY DEF Waiting
<1> HIDE DEF n
<1>6. /\ Count(cache', "InterStart", n - k) <= Count(cache, "InterStart", n)
      /\ \A j \in 1 .. k : cache[j] = "InterStart" =>
           Count(cache', "InterStart", n - k) + 1 <= Count(cache, "InterStart", n)
  BY <1>1, <1>3, <1>4, CountAfter
<1>7. Waiting(cache') = Count(cache', "InterStart", n - k)
  BY <1>3 DEF Waiting
<1>8. QED
  BY <1>2, <1>3, <1>5, <1>6, <1>7

-----------------------------------------------------------------------------
(***************************************************************************)
(* The parser.  But for InterStart and DestoryContext its steps leave the  *)
(* contexts alone, and no method goes on at DestoryContext that was not    *)
(* there before.                                                           *)
(***************************************************************************)
Calm == {m \in Frame : m.at # "destroy"}

Moves ==
  \/ UNCHANGED stack
  \/ stack' = <<>>
  \/ stack' = Without(stack)
  \/ \E m \in Calm : stack' = GoOn(m)
  \/ \E m \in Calm, k \in Calm : stack' = Append(GoOn(m), k)
  \/ \E m \in Calm, k \in Calm, l \in Calm : stack' = GoOn(m) \o <<k, l>>

Passes ==
  /\ UNCHANGED contexts
  /\ UNCHANGED cache \/ Takes(FALSE) \/ Takes(TRUE)

\* A step of the parser that begins no end of an interpolation keeps the balance.
LEMMA MovesKeepBalance ==
  ASSUME TypeOK, Balance, stack # <<>>, Moves, Passes
  PROVE  Balance'
<1>1. Waiting(cache') <= Waiting(cache) /\ Waiting(cache) \in Nat /\ Waiting(cache') \in Nat
  <2>1. CASE UNCHANGED cache
    BY <2>1, CountsAreNat DEF TypeOK
  <2>2. CASE Takes(FALSE)
    BY <2>2, TakesCounts, CountsAreNat DEF TypeOK
  <2>3. CASE Takes(TRUE)
    BY <2>3, TakesCounts, CountsAreNat DEF TypeOK
  <2>4. QED
    BY <2>1, <2>2, <2>3 DEF Passes
<1>2. Normals(contexts) \in Nat /\ UNCHANGED contexts
  BY CountsAreNat DEF TypeOK, Passes
<1>3. PICK rest \in Nat :
        /\ ToDestroy(stack) = rest + Is(top.at)
        /\ ToDestroy(Without(stack)) = rest
        /\ \A m \in Frame : ToDestroy(GoOn(m)) = rest + Is(m.at)
        /\ \A m \in Frame, k \in Frame :
             ToDestroy(Append(GoOn(m), k)) = rest + Is(m.at) + Is(k.at)
        /\ \A m \in Frame, k \in Frame, l \in Frame :
             ToDestroy(GoOn(m) \o <<k, l>>) = rest + Is(m.at) + Is(k.at) + Is(l.at)
  BY StackCounts DEF TypeOK
<1>4. Is(top.at) \in Nat
  BY DEF Is
<1>5. \A m \in Calm : m \in Frame /\ Is(m.at) = 0
  BY DEF Calm, Is
<1>6. ToDestroy(stack') \in Nat /\ ToDestroy(stack') <= ToDestroy(stack)
  <2>1. CASE UNCHANGED stack
    BY <1>3, <1>4, <2>1
  <2>2. CASE stack' = <<>>
    <3>1. <<>> \in Seq(Frame) /\ Len(<<>>) = 0
      OBVIOUS
    <3>2. ToDestroy(<<>>) = 0
      BY <3>1, NextCount DEF ToDestroy
    <3>3. QED
      BY <1>3, <1>4, <2>2, <3>2
  <2>3. CASE stack' = Without(stack)
    BY <1>3, <1>4, <2>3
  <2>4. CASE \E m \in Calm : stack' = GoOn(m)
    BY <1>3, <1>4, <1>5, <2>4
  <2>5. CASE \E m \in Calm, k \in Calm : stack' = Append(GoOn(m), k)
    BY <1>3, <1>4, <1>5, <2>5
  <2>6. CASE \E m \in Calm, k \in Calm, l \in Calm : stack' = GoOn(m) \o <<k, l>>
    BY <1>3, <1>4, <1>5, <2>6
  <2>7. QED
    BY <2>1, <2>2, <2>3, <2>4, <2>5, <2>6 DEF Moves
<1>7. ToDestroy(stack) \in Nat
  BY <1>3, <1>4
<1>8. QED
  BY <1>1, <1>2, <1>6, <1>7 DEF Balance

\* The operations on the stack that are such steps.
LEMMA CalmOps ==
  ASSUME TypeOK, stack # <<>>
  PROVE  /\ top \in Frame
         /\ \A p \in Point \ {"destroy"} :
              /\ Method(p) \in Calm /\ [top EXCEPT !.at = p] \in Calm
              /\ GoTo(p) => Moves
              /\ \A q \in Point \ {"destroy"} : Call(p, q) => Moves
         /\ \A b : Return(b) => Moves
         /\ \A b : Optional(b, FALSE) \/ Optional(b, TRUE) =>
                     UNCHANGED cache \/ Takes(FALSE) \/ Takes(TRUE)
<1>1. top \in Frame
  BY StackOps DEF TypeOK
<1>2. ASSUME NEW p \in Point \ {"destroy"}
      PROVE  Method(p) \in Calm /\ [top EXCEPT !.at = p] \in Calm
  BY <1>1, FramesAt DEF Calm
<1>3. ASSUME NEW p \in Point \ {"destroy"}, GoTo(p) PROVE Moves
  BY <1>2, <1>3 DEF GoTo, Moves
<1>4. ASSUME NEW p \in Point \ {"destroy"}, NEW q \in Point \ {"destroy"}, Call(p, q)
      PROVE  Moves
  BY <1>2, <1>4 DEF Call, Moves
<1>5. ASSUME NEW b, Return(b) PROVE Moves
  BY <1>5 DEF Return, Moves
<1>6. ASSUME NEW b, Optional(b, FALSE) \/ Optional(b, TRUE)
      PROVE  UNCHANGED cache \/ Takes(FALSE) \/ Takes(TRUE)
  BY <1>6 DEF Optional
<1>7. QED
  BY <1>1, <1>2, <1>3, <1>4, <1>5, <1>6

\* The steps of statements and of recovery are.
LEMMA StatementMoves ==
  ASSUME TypeOK, stack # <<>>,
         Program \/ Block \/ Statement \/ StatementEnd \/ SkipStatementEnd
           \/ RecoverFromStatement \/ RecoverFromExpression
  PROVE  Moves /\ Passes
<1>1. CASE Program
  BY <1>1, CalmOps DEF Program, Passes, lexer, Point, Moves
<1>2. CASE Block
  BY <1>2, CalmOps DEF Block, Passes, lexer, Point, Moves
<1>3. CASE Statement
  BY <1>3, CalmOps DEF Statement, Passes, lexer, Point
<1>4. CASE StatementEnd
  BY <1>4, CalmOps DEF StatementEnd, Passes, lexer, Point
<1>5. CASE SkipStatementEnd
  BY <1>5, CalmOps DEF SkipStatementEnd, Passes, lexer, Point
<1>6. ASSUME NEW p \in Point \ {"destroy"}, NEW stops, Recover(p, stops)
      PROVE  Moves /\ Passes
  BY <1>6, CalmOps DEF Recover, SkipToken, Passes, lexer, Point, Moves
<1>7. CASE RecoverFromStatement
  BY <1>6, <1>7 DEF RecoverFromStatement, Point
<1>8. CASE RecoverFromExpression
  BY <1>6, <1>8 DEF RecoverFromExpression, Point
<1>9. QED
  BY <1>1, <1>2, <1>3, <1>4, <1>5, <1>7, <1>8

\* So are those of expressions,
LEMMA ExpressionMoves ==
  ASSUME TypeOK, stack # <<>>,
         Variable \/ FunctionCall \/ Command \/ StringLiteral \/ CharLit \/ NoExpression
           \/ Indices \/ NothingFollows
  PROVE  Moves /\ Passes
<1>1. CASE Variable
  BY <1>1, CalmOps DEF Variable, Passes, lexer, Point
<1>2. ASSUME NEW p \in Point \ {"destroy"}, NEW q \in Point \ {"destroy"},
             NEW r \in Point \ {"destroy"},
             stack' = GoOn([top EXCEPT !.at = p]) \o <<Method(q), Method(r)>>
      PROVE  Moves
  <2>1. [top EXCEPT !.at = p] \in Calm /\ Method(q) \in Calm /\ Method(r) \in Calm
    BY CalmOps
  <2>2. QED
    BY <1>2, <2>1 DEF Moves
<1>3. CASE FunctionCall
  BY <1>2, <1>3 DEF FunctionCall, Passes, lexer, Point
<1>4. CASE Command
  BY <1>2, <1>4 DEF Command, Passes, lexer, Point
<1>5. CASE StringLiteral
  BY <1>5, CalmOps DEF StringLiteral, Passes, lexer, Point
<1>6. CASE CharLit
  BY <1>6, CalmOps DEF CharLit, Passes, lexer, Point
<1>7. CASE NoExpression
  BY <1>7, CalmOps DEF NoExpression, Passes, lexer
<1>8. CASE Indices
  BY <1>8, CalmOps DEF Indices, Passes, lexer, Point
<1>9. CASE NothingFollows
  BY <1>9, CalmOps DEF NothingFollows, Passes, lexer
<1>10. QED
  BY <1>1, <1>3, <1>4, <1>5, <1>6, <1>7, <1>8, <1>9

\* of arguments
LEMMA ArgumentMoves ==
  ASSUME TypeOK, stack # <<>>,
         CommandArg \/ AppendArg \/ EndOfArgs \/ CommandEnd
           \/ Parameter \/ AppendParameter \/ EndOfParameters
  PROVE  Moves /\ Passes
<1>1. top \in Frame /\ result \in BOOLEAN /\ top.fail \in BOOLEAN /\ top.some \in BOOLEAN
  BY CalmOps DEF TypeOK, Frame
<1>2. CASE CommandArg
  <2>1. CASE Ahead(FALSE) \in IsInterpolatable
    BY <1>2, <2>1, CalmOps DEF CommandArg, Passes, lexer, Point
  <2>2. CASE Ahead(FALSE) \notin IsInterpolatable
    <3>1. stack' = GoOn([top EXCEPT !.fail = TRUE]) /\ top.at = "arguments" /\ Passes
      BY <1>2, <2>2 DEF CommandArg, Runs, At, Passes, lexer
    <3>2. [top EXCEPT !.fail = TRUE] \in Calm
      BY <1>1, <3>1 DEF Frame, Calm
    <3>3. QED
      BY <3>1, <3>2 DEF Moves
  <2>3. QED
    BY <2>1, <2>2
<1>3. CASE AppendArg
  <2> DEFINE m == [top EXCEPT !.at = "arguments", !.fail = @ \/ ~result,
                              !.some = @ \/ result]
  <2>1. stack' = GoOn(m) /\ Passes
    BY <1>3 DEF AppendArg, Passes, lexer
  <2>2. m \in Frame /\ m.at = "arguments"
    BY <1>1 DEF Frame, Point
  <2> HIDE DEF m
  <2>3. QED
    BY <2>1, <2>2 DEF Calm, Moves
<1>4. CASE EndOfArgs
  BY <1>4, CalmOps DEF EndOfArgs, Passes, lexer, Point
<1>5. CASE CommandEnd
  BY <1>5, CalmOps DEF CommandEnd, Passes, lexer
<1>6. CASE Parameter
  BY <1>6, CalmOps DEF Parameter, Passes, lexer, Point, Moves
<1>7. CASE AppendParameter
  <2> DEFINE m == [top EXCEPT !.at = "parameters", !.fail = @ \/ ~result]
  <2>1. stack' = GoOn(m) /\ Passes
    BY <1>7 DEF AppendParameter, Passes, lexer
  <2>2. m \in Frame /\ m.at = "parameters"
    BY <1>1 DEF Frame, Point
  <2> HIDE DEF m
  <2>3. QED
    BY <2>1, <2>2 DEF Calm, Moves
<1>8. CASE EndOfParameters
  BY <1>8, CalmOps DEF EndOfParameters, Passes, lexer
<1>9. QED
  BY <1>2, <1>3, <1>4, <1>5, <1>6, <1>7, <1>8

\* and of literals, but for those that begin or end an interpolation.
LEMMA LiteralMoves ==
  ASSUME TypeOK, stack # <<>>,
         InterDone \/ Segment \/ ClosingBrace \/ NoInterExpr \/ SkipBrace
  PROVE  Moves /\ Passes
<1>1. CASE InterDone
  BY <1>1, CalmOps DEF InterDone, Passes, lexer
<1>2. CASE Segment
  BY <1>2, CalmOps DEF Segment, Passes, lexer, Moves
<1>3. CASE ClosingBrace
  BY <1>3, CalmOps DEF ClosingBrace, Passes, lexer
<1>4. CASE NoInterExpr
  BY <1>4, CalmOps DEF NoInterExpr, Passes, lexer, Point
<1>5. CASE SkipBrace
  BY <1>5, CalmOps DEF SkipBrace, Passes, lexer
<1>6. QED
  BY <1>1, <1>2, <1>3, <1>4, <1>5

\* A ${ no longer waits, and has a context to leave.
LEMMA InterStartKeepsBalance ==
  ASSUME TypeOK, Balance, stack # <<>>, InterStart
  PROVE  Balance'
<1>1. /\ top.at = "interpolation" /\ Ahead(FALSE) = "InterStart" /\ Takes(FALSE)
      /\ stack' = GoOn([top EXCEPT !.at = "destroy"])
                    \o <<Method("brace"), Method("expression")>>
      /\ UNCHANGED contexts
  BY DEF InterStart, Runs, At, lexer
<1>2. cache[1] = "InterStart"
  BY <1>1, AheadOne DEF TypeOK
<1>3. Waiting(cache') + 1 <= Waiting(cache) /\ Waiting(cache) \in Nat /\ Waiting(cache') \in Nat
  <2>1. cache' \in Seq(Token) /\ (~FALSE /\ cache[1] = "InterStart" =>
                                     Waiting(cache') + 1 <= Waiting(cache))
    BY <1>1, TakesCounts DEF TypeOK
  <2>2. QED
    BY <1>2, <2>1, CountsAreNat DEF TypeOK
<1>4. Normals(contexts) \in Nat
  BY CountsAreNat DEF TypeOK
<1> DEFINE m == [top EXCEPT !.at = "destroy"]
           k == Method("brace")
           l == Method("expression")
<1>5. /\ m \in Frame /\ k \in Frame /\ l \in Frame
      /\ m.at = "destroy" /\ k.at = "brace" /\ l.at = "expression"
  <2>1. top \in Frame /\ {"destroy", "brace", "expression"} \subseteq Point
    BY CalmOps DEF Point
  <2>2. m \in Frame /\ m.at = "destroy"
    BY <2>1, FrameAt
  <2>3. k \in Frame /\ l \in Frame /\ k.at = "brace" /\ l.at = "expression"
    BY <2>1, MethodAt
  <2>4. QED
    BY <2>2, <2>3
<1>6. stack' = GoOn(m) \o <<k, l>>
  BY <1>1
<1> HIDE DEF m, k, l
<1>7. PICK rest \in Nat :
        /\ ToDestroy(stack) = rest + Is(top.at)
        /\ ToDestroy(GoOn(m) \o <<k, l>>) = rest + Is(m.at) + Is(k.at) + Is(l.at)
  BY <1>5, StackCounts DEF TypeOK
<1>8. Is(top.at) = 0 /\ Is(m.at) = 1 /\ Is(k.at) = 0 /\ Is(l.at) = 0
  BY <1>1, <1>5 DEF Is
<1>9. ToDestroy(stack) = rest /\ ToDestroy(stack') = rest + 1
  BY <1>6, <1>7, <1>8
<1>10. Normals(contexts') = Normals(contexts)
  BY <1>1
<1>11. rest + Waiting(cache) < Normals(contexts)
  BY <1>9 DEF Balance
<1>12. rest + 1 + Waiting(cache') < Normals(contexts')
  BY <1>3, <1>4, <1>10, <1>11
<1>13. QED
  BY <1>9, <1>12 DEF Balance

\* What the operations of the lexer do to the normal contexts.
LEMMA ContextCounts ==
  ASSUME contexts \in Seq(Context), contexts # <<>>
  PROVE  /\ \A ctx \in Context : Enter(ctx) =>
              Normals(contexts') = IF ctx = "normal" THEN Normals(contexts) + 1 ELSE Normals(contexts)
         /\ Exit => Normals(contexts') + 1 >= Normals(contexts)
         /\ Exit /\ context # "normal" => Normals(contexts') = Normals(contexts)
         /\ contexts' = Append(Without(contexts), "unclosed") /\ context # "normal" =>
              Normals(contexts') = Normals(contexts)
<1> DEFINE n == Len(contexts)
           w == Without(contexts)
<1>1. n \in Nat \ {0} /\ n - 1 \in Nat /\ n - 1 + 1 = n
  BY EmptySeq
<1>2. w \in Seq(Context) /\ Len(w) = n - 1 /\ \A i \in 1 .. n - 1 : w[i] = contexts[i]
  BY WithoutLast
<1>3. context = contexts[n]
  BY DEF context
<1>4. Normals(contexts) = Count(contexts, "normal", n) /\ Normals(w) = Count(w, "normal", n - 1)
  BY <1>2 DEF Normals
<1>5. ASSUME NEW ctx \in Context, NEW s \in Seq(Context)
      PROVE  Normals(Append(s, ctx)) = Normals(s) + (IF ctx = "normal" THEN 1 ELSE 0)
  <2> DEFINE r == Append(s, ctx)
             l == Len(s)
  <2>1. l \in Nat /\ Len(r) = l + 1 /\ r[l + 1] = ctx /\ \A i \in 1 .. l : r[i] = s[i]
    BY Appended
  <2>2. Normals(r) = Count(r, "normal", l + 1) /\ Normals(s) = Count(s, "normal", l)
    BY <2>1 DEF Normals
  <2> HIDE DEF r, l
  <2>3. Count(r, "normal", l) = Count(s, "normal", l)
    BY <2>1, SameCount
  <2>4. Count(r, "normal", l + 1)
          = IF r[l + 1] = "normal" THEN Count(r, "normal", l) + 1 ELSE Count(r, "normal", l)
    BY <2>1, NextCount, SMTT(30)
  <2>5. Normals(s) \in Nat
    BY CountsAreNat
  <2>6. QED
    BY <2>1, <2>2, <2>3, <2>4, <2>5 DEF r
<1> HIDE DEF n, w
<1>6. Normals(contexts) = Normals(w) + (IF context = "normal" THEN 1 ELSE 0)
  <2>1. Count(w, "normal", n - 1) = Count(contexts, "normal", n - 1)
    BY <1>1, <1>2, SameCount
  <2> DEFINE l == n - 1
  <2>2. l \in Nat /\ l + 1 = n
    BY <1>1
  <2> HIDE DEF l
  <2>3. Count(contexts, "normal", l + 1)
          = IF contexts[l + 1] = "normal" THEN Count(contexts, "normal", l) + 1
                                          ELSE Count(contexts, "normal", l)
    BY <2>2, NextCount
  <2>4. Count(contexts, "normal", l) = Normals(w) /\ Normals(w) \in Nat
    BY <1>2, <1>4, <2>1, CountsAreNat DEF l
  <2>5. QED
    BY <1>3, <1>4, <2>2, <2>3, <2>4
<1>7. Normals(w) \in Nat /\ Normals(contexts) \in Nat
  BY <1>2, CountsAreNat
<1>8. ASSUME NEW ctx \in Context, Enter(ctx)
      PROVE  Normals(contexts') = IF ctx = "normal" THEN Normals(contexts) + 1 ELSE Normals(contexts)
  <2>1. Normals(contexts') = Normals(contexts) + (IF ctx = "normal" THEN 1 ELSE 0)
    BY <1>5, <1>8 DEF Enter
  <2>2. QED
    BY <1>7, <2>1
<1>9. ASSUME Exit
      PROVE  /\ Normals(contexts') + 1 >= Normals(contexts)
             /\ context # "normal" => Normals(contexts') = Normals(contexts)
  <2>1. contexts' = contexts \/ contexts' = w
    BY <1>9 DEF Exit, w
  <2>2. QED
    BY <1>6, <1>7, <2>1
<1>10. ASSUME contexts' = Append(Without(contexts), "unclosed"), context # "normal"
       PROVE  Normals(contexts') = Normals(contexts)
  <2>1. "unclosed" \in Context /\ "unclosed" # "normal"
    BY DEF Context
  <2>2. Normals(Append(w, "unclosed")) = Normals(w) + 0
    BY <1>2, <1>5, <2>1
  <2>3. QED
    BY <1>6, <1>7, <1>10, <2>2 DEF w
<1>11. QED
  BY <1>8, <1>9, <1>10

\* The context is left, or was the last one.
LEMMA DestoryContextKeepsBalance ==
  ASSUME TypeOK, Balance, stack # <<>>, DestoryContext
  PROVE  Balance'
<1>1. result \in BOOLEAN /\ top \in Frame /\ top.fail \in BOOLEAN
  BY CalmOps DEF TypeOK, Frame
<1> DEFINE m == [top EXCEPT !.at = "interpolation", !.fail = @ \/ ~result]
<1>2. top.at = "destroy" /\ Exit /\ UNCHANGED cache /\ stack' = GoOn(m)
  BY DEF DestoryContext, Runs, At
<1>3. m \in Frame /\ m.at = "interpolation"
  BY <1>1 DEF Frame, Point
<1> HIDE DEF m
<1>5. m \in Frame /\ Is(m.at) = 0 /\ Is(top.at) = 1
  BY <1>2, <1>3 DEF Is
<1>6. PICK rest \in Nat : ToDestroy(stack) = rest + Is(top.at)
                          /\ ToDestroy(GoOn(m)) = rest + Is(m.at)
  BY <1>5, StackCounts DEF TypeOK
<1>7. ToDestroy(stack) = rest + 1 /\ ToDestroy(stack') = rest
  BY <1>2, <1>5, <1>6
<1>8. Normals(contexts') + 1 >= Normals(contexts)
  BY <1>2, ContextCounts DEF TypeOK
<1>9. contexts' \in Seq(Context)
  BY <1>2, ContextOps DEF TypeOK
<1>10. Normals(contexts) \in Nat /\ Normals(contexts') \in Nat /\ Waiting(cache) \in Nat
  BY <1>9, CountsAreNat DEF TypeOK
<1>11. Waiting(cache') = Waiting(cache)
  BY <1>2
<1>12. rest + 1 + Waiting(cache) < Normals(contexts)
  BY <1>7 DEF Balance
<1>13. rest + Waiting(cache') < Normals(contexts')
  BY <1>8, <1>10, <1>11, <1>12
<1>14. QED
  BY <1>7, <1>13 DEF Balance

-----------------------------------------------------------------------------
(***************************************************************************)
(* The lexer.  A ${ enters a normal context, and the contexts that are left*)
(* on their own are no normal ones.                                        *)
(***************************************************************************)
LEMMA EmitCounts ==
  ASSUME cache \in Seq(Token), NEW token \in Token, cache' = Append(cache, token)
  PROVE  Waiting(cache') = Waiting(cache) + (IF token = "InterStart" THEN 1 ELSE 0)
<1> DEFINE n == Len(cache)
<1>1. /\ n \in Nat /\ Len(cache') = n + 1 /\ cache'[n + 1] = token
      /\ \A i \in 1 .. n : cache'[i] = cache[i]
  BY Appended
<1>2. Waiting(cache') = Count(cache', "InterStart", n + 1)
      /\ Waiting(cache) = Count(cache, "InterStart", n)
  BY <1>1 DEF Waiting
<1> DEFINE q == cache'
<1> HIDE DEF n
<1>3. Count(cache', "InterStart", n) = Count(cache, "InterStart", n)
  BY <1>1, SameCount, ZenonT(60)
<1> HIDE DEF q
<1>4. Count(q, "InterStart", n + 1)
        = IF q[n + 1] = "InterStart" THEN Count(q, "InterStart", n) + 1
                                     ELSE Count(q, "InterStart", n)
  BY <1>1, NextCount, SMTT(30)
<1>5. Waiting(cache) \in Nat
  BY CountsAreNat
<1>6. QED
  BY <1>1, <1>2, <1>3, <1>4, <1>5 DEF q

\* What a step of the lexer does to the tokens and the normal contexts.
Reads ==
  /\ UNCHANGED stack
  /\ \/ UNCHANGED cache /\ Normals(contexts') = Normals(contexts)
     \/ /\ \E token \in Token \ {"InterStart"} : cache' = Append(cache, token)
        /\ Normals(contexts') = Normals(contexts)
     \/ cache' = Append(cache, "InterStart") /\ Normals(contexts') = Normals(contexts) + 1

\* A token that is read and opens a context waits for it.
LEMMA ReadsKeepBalance ==
  ASSUME TypeOK, Balance, Reads
  PROVE  Balance'
<1>1. /\ ToDestroy(stack) \in Nat /\ Waiting(cache) \in Nat /\ Normals(contexts) \in Nat
      /\ cache \in Seq(Token)
  BY CountsAreNat DEF TypeOK
<1>2. ToDestroy(stack') = ToDestroy(stack)
  BY DEF Reads
<1>3. ToDestroy(stack) + Waiting(cache) < Normals(contexts)
  BY DEF Balance
<1>4. \/ Waiting(cache') = Waiting(cache) /\ Normals(contexts') = Normals(contexts)
      \/ Waiting(cache') = Waiting(cache) + 1 /\ Normals(contexts') = Normals(contexts) + 1
  <2>1. CASE UNCHANGED cache /\ Normals(contexts') = Normals(contexts)
    BY <2>1
  <2>2. CASE /\ \E token \in Token \ {"InterStart"} : cache' = Append(cache, token)
             /\ Normals(contexts') = Normals(contexts)
    BY <1>1, <2>2, EmitCounts
  <2>3. CASE cache' = Append(cache, "InterStart")
             /\ Normals(contexts') = Normals(contexts) + 1
    <3>1. "InterStart" \in Token
      BY DEF Token
    <3>2. QED
      BY <1>1, <2>3, <3>1, EmitCounts
  <2>4. QED
    BY <2>1, <2>2, <2>3 DEF Reads
<1>5. ToDestroy(stack') + Waiting(cache') < Normals(contexts')
  BY <1>1, <1>2, <1>3, <1>4
<1>6. QED
  BY <1>5 DEF Balance

\* Whatever the lexer does is such a step.
LEMMA LexReads ==
  ASSUME TypeOK, Lex
  PROVE  Reads
<1>1. contexts \in Seq(Context) /\ contexts # <<>> /\ cache \in Seq(Token)
  BY DEF TypeOK
<1>2. ASSUME UNCHANGED contexts PROVE Normals(contexts') = Normals(contexts)
  BY <1>2
<1>3. ASSUME NEW ctx \in {"raw", "raw token", "string"}, Enter(ctx)
      PROVE  Normals(contexts') = Normals(contexts)
  <2>1. ctx \in Context /\ ctx # "normal"
    BY DEF Context
  <2>2. QED
    BY <1>1, <1>3, <2>1, ContextCounts
<1>4. ASSUME Enter("normal") PROVE Normals(contexts') = Normals(contexts) + 1
  BY <1>1, <1>4, ContextCounts DEF Context
<1>5. ASSUME Exit, context # "normal" PROVE Normals(contexts') = Normals(contexts)
  BY <1>1, <1>5, ContextCounts
<1>6. ASSUME NEW token \in Token \ {"InterStart"}, Emit(token),
             Normals(contexts') = Normals(contexts)
      PROVE  Reads
  BY <1>6 DEF Emit, Reads
<1>7. ASSUME LexicalError, Normals(contexts') = Normals(contexts) PROVE Reads
  BY <1>7 DEF LexicalError, Reads
<1>8. ASSUME Emit("InterStart"), Enter("normal") PROVE Reads
  BY <1>4, <1>8 DEF Emit, Reads
<1>9. CASE StartOfLine
  <2>1. CASE UNCHANGED <<contexts, cache, stack>>
    BY <1>2, <2>1 DEF Reads
  <2>2. CASE Emit("Indent") /\ UNCHANGED contexts
    BY <1>2, <1>6, <2>2 DEF Token
  <2>3. QED
    BY <1>9, <2>1, <2>2 DEF StartOfLine
<1>10. CASE LexNormal
  <2>1. \/ Enter("string") \/ Enter("raw") \/ UNCHANGED contexts
    BY <1>10 DEF LexNormal
  <2>2. Normals(contexts') = Normals(contexts)
    BY <1>2, <1>3, <2>1
  <2>3. \/ LexicalError
        \/ \E token \in {"Ident", "RBrace", "Comma", "LineBreak", "StringLit", "Exclamation"} :
             Emit(token)
    BY <1>10 DEF LexNormal, NormalToken
  <2>4. {"Ident", "RBrace", "Comma", "LineBreak", "StringLit", "Exclamation"}
          \subseteq Token \ {"InterStart"}
    BY DEF Token
  <2>5. QED
    BY <1>6, <1>7, <2>2, <2>3, <2>4
<1>11. CASE CharLiteral
  <2>1. UNCHANGED contexts /\ (Emit("CharLit") \/ LexicalError)
    BY <1>11 DEF CharLiteral
  <2>2. "CharLit" \in Token \ {"InterStart"}
    BY DEF Token
  <2>3. QED
    BY <1>2, <1>6, <1>7, <2>1, <2>2
<1>12. CASE LexRaw
  <2>1. context = "raw"
    BY <1>12 DEF LexRaw, Consumes
  <2>2. CASE next \in DOMAIN RawExitSignal /\ Emit(RawExitSignal[next]) /\ Exit
    <3>1. RawExitSignal[next] \in Token \ {"InterStart"}
      BY <2>2 DEF RawExitSignal, Token
    <3>2. QED
      BY <1>5, <1>6, <2>1, <2>2, <3>1
  <2>3. {"StringLit", "RawString"} \subseteq Token \ {"InterStart"}
    BY DEF Token
  <2>4. CASE Emit("StringLit") /\ Enter("string")
    BY <1>3, <1>6, <2>3, <2>4
  <2>5. CASE Emit("RawString") /\ Enter("raw token")
    BY <1>3, <1>6, <2>3, <2>5
  <2>6. QED
    BY <1>12, <2>2, <2>4, <2>5 DEF LexRaw
<1>13. CASE LexRawToken
  <2>1. context = "raw token"
    BY <1>13 DEF LexRawToken, Consumes
  <2>2. \/ Emit("Segment") /\ UNCHANGED contexts
        \/ Emit("InterStart") /\ Enter("normal")
        \/ Emit("InterDone") /\ Exit
    BY <1>13 DEF LexRawToken
  <2>3. {"Segment", "InterDone"} \subseteq Token \ {"InterStart"}
    BY DEF Token
  <2>4. QED
    BY <1>2, <1>5, <1>6, <1>8, <2>1, <2>2, <2>3
<1>14. CASE LexString
  <2>1. context = "string"
    BY <1>14 DEF LexString, Consumes
  <2>2. \/ Emit("Segment") /\ UNCHANGED contexts
        \/ Emit("InterStart") /\ Enter("normal")
        \/ Emit("InterDone") /\ Exit
        \/ LexicalError /\ contexts' = Append(Without(contexts), "unclosed")
    BY <1>14 DEF LexString
  <2>3. {"Segment", "InterDone"} \subseteq Token \ {"InterStart"}
    BY DEF Token
  <2>4. CASE LexicalError /\ contexts' = Append(Without(contexts), "unclosed")
    <3>1. Normals(contexts') = Normals(contexts)
      BY <1>1, <2>1, <2>4, ContextCounts
    <3>2. QED
      BY <1>7, <2>4, <3>1
  <2>5. QED
    BY <1>2, <1>5, <1>6, <1>8, <2>1, <2>2, <2>3, <2>4
<1>15. CASE LexUnclosed
  <2>1. context = "unclosed" /\ Emit("InterDone") /\ Exit
    BY <1>15 DEF LexUnclosed, Consumes
  <2>2. "InterDone" \in Token \ {"InterStart"}
    BY DEF Token
  <2>3. QED
    BY <1>5, <1>6, <2>1, <2>2
<1>16. QED
  BY <1>9, <1>10, <1>11, <1>12, <1>13, <1>14, <1>15 DEF Lex

-----------------------------------------------------------------------------
\* Every step keeps the balance.
LEMMA StepKeepsBalance ==
  ASSUME TypeOK, Balance, [Next]_vars
  PROVE  Balance'
<1>1. CASE UNCHANGED vars
  BY <1>1 DEF vars, Balance
<1>2. CASE Lex
  BY <1>2, LexReads, ReadsKeepBalance
<1>3. CASE Parse
  <2>1. stack # <<>>
    BY <1>3 DEF Parse, Program, Block, Statement, StatementEnd, SkipStatementEnd,
         RecoverFromStatement, RecoverFromExpression, Recover,
         Variable, FunctionCall, Command, StringLiteral, CharLit, NoExpression,
         Indices, NothingFollows, CommandArg, AppendArg, EndOfArgs, CommandEnd,
         Parameter, AppendParameter, EndOfParameters, InterStart, InterDone,
         Segment, ClosingBrace, NoInterExpr, SkipBrace, DestoryContext, Runs, At
  <2>2. \/ Moves /\ Passes
        \/ InterStart
        \/ DestoryContext
    BY <1>3, <2>1, StatementMoves, ExpressionMoves, ArgumentMoves, LiteralMoves DEF Parse
  <2>3. QED
    BY <2>1, <2>2, MovesKeepBalance, InterStartKeepsBalance, DestoryContextKeepsBalance
<1>4. QED
  BY <1>1, <1>2, <1>3 DEF Next

\* DestoryContext always has a context to leave: whatever the source, whatever
\* errors there are and whatever is skipped, there is a normal context above the
\* first one for every ${ whose expression is being parsed.
THEOREM AlwaysContextToDestroy == Spec => []ContextToDestroy
<1>1. Init => Balance
  <2> SUFFICES ASSUME Init PROVE Balance
    OBVIOUS
  <2> DEFINE m == Method("program")
  <2>1. contexts = <<"normal">> /\ cache = <<>> /\ stack = <<m>>
    BY DEF Init
  <2>2. m \in Frame /\ m.at = "program"
    BY DEF Method, Frame, Point
  <2> HIDE DEF m
  <2>3. ToDestroy(stack) = 0
    <3>1. <<>> \in Seq(Frame) /\ Len(<<>>) = 0 /\ Len(stack) = 0 + 1 /\ stack[0 + 1] = m
      BY <2>1, <2>2
    <3>2. ToDestroy(<<>>) = 0
      BY <3>1, NextCount DEF ToDestroy
    <3> DEFINE s == <<>>
    <3>3. s \in Seq(Frame) /\ Len(s) = 0 /\ ToDestroy(s) = 0
      BY <3>1, <3>2
    <3> HIDE DEF s
    <3>4. Len(stack) = Len(s) + 1 /\ (\A i \in 1 .. Len(s) : stack[i] = s[i])
          /\ stack[Len(s) + 1] = m
      BY <3>1, <3>3
    <3>5. ToDestroy(stack) = ToDestroy(s) + Is(m.at)
      BY <3>3, <3>4, OneMore
    <3>6. QED
      BY <2>2, <3>3, <3>5 DEF Is
  <2>4. Waiting(cache) = 0
    <3>1. Len(cache) = 0
      BY <2>1
    <3>2. QED
      BY <3>1, NextCount DEF Waiting
  <2>5. Normals(contexts) = 1
    <3>1. Len(contexts) = 0 + 1 /\ contexts[0 + 1] = "normal"
      BY <2>1
    <3>2. Count(contexts, "normal", 0) = 0 /\ Count(contexts, "normal", 0 + 1) = 0 + 1
      BY <3>1, NextCount
    <3>3. QED
      BY <3>1, <3>2 DEF Normals
  <2>6. QED
    BY <2>3, <2>4, <2>5 DEF Balance
<1>2. TypeOK /\ Balance /\ [Next]_vars => Balance'
  BY StepKeepsBalance
<1>3. TypeOK /\ Balance => ContextToDestroy
  <2> SUFFICES ASSUME TypeOK, Balance PROVE ContextToDestroy
    OBVIOUS
  <2>1. /\ ToDestroy(stack) \in Nat /\ Waiting(cache) \in Nat /\ Normals(contexts) \in Nat
        /\ ToDestroy(stack) + Waiting(cache) < Normals(contexts)
    BY CountsAreNat DEF TypeOK, Balance
  <2>2. {i \in DOMAIN stack : stack[i].at = "destroy"}
          = {i \in 1 .. Len(stack) : Points(stack)[i] = "destroy"}
    <3>1. DOMAIN stack = 1 .. Len(stack)
      BY LenProperties DEF TypeOK
    <3>2. QED
      BY <3>1 DEF Points
  <2>3. {i \in DOMAIN contexts : contexts[i] = "normal"}
          = {i \in 1 .. Len(contexts) : contexts[i] = "normal"}
    BY LenProperties DEF TypeOK
  <2>4. /\ ToDestroy(stack) = Cardinality({i \in DOMAIN stack : stack[i].at = "destroy"})
        /\ Normals(contexts) = Cardinality({i \in DOMAIN contexts : contexts[i] = "normal"})
    BY <2>2, <2>3 DEF ToDestroy, Normals, Count
  <2>5. ToDestroy(stack) < Normals(contexts)
    BY <2>1
  <2>6. QED
    BY <2>4, <2>5 DEF ContextToDestroy
<1>4. QED
  BY <1>1, <1>2, <1>3, TypeCorrect, PTL DEF Spec
=============================================================================
