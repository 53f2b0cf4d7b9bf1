--------------------------- MODULE GenCodeProofs ---------------------------
(***************************************************************************)
(* Theorems about GenCode for every set of identifiers and every bound:    *)
(* its type invariant, and that temporaries never collide.                 *)
(***************************************************************************)
EXTENDS GenCode, SequenceTheorems, TLAPS

(***************************************************************************)
(* What the operations of the manager return.                              *)
(***************************************************************************)
\* GetNewName hands out a name and leaves the counter of temporaries alone.
LEMMA NameTypes ==
  ASSUME NEW m \in Manager, NEW x \in Ident
  PROVE  /\ NewName(m, x) \in Name
         /\ AfterName(m, x) \in Manager
         /\ AfterName(m, x).temp = m.temp
  BY DEF Manager, Name, NewName, AfterName, Plain

\* GetNewTemp adds one to the counter of temporaries.
LEMMA TempTypes ==
  ASSUME NEW m \in Manager
  PROVE  /\ NewTemp(m) \in TempId /\ NewTemp(m) = m.temp
         /\ AfterTemp(m) \in Manager
         /\ AfterTemp(m).temp = m.temp + 1
  BY DEF Manager, NewTemp, AfterTemp, TempId

\* Unset lowers the counter of temporaries by one, and only for "_sushi_t_".
LEMMA UnsetTypes ==
  ASSUME NEW m \in Manager, NEW temps \in SUBSET TempId, NEW names \in SUBSET Name
  PROVE  /\ Unset(m, temps, names) \in Manager
         /\ Unset(m, temps, names).temp =
              IF Plain \in temps THEN m.temp - 1 ELSE m.temp
<1> DEFINE plain == {n.id : n \in {n \in names : n.num = Plain}}
<1>1. plain \in SUBSET Ident
  BY DEF Name
<1>2. [x \in Ident |-> IF x \in plain THEN m.count[x] - 1 ELSE m.count[x]]
        \in [Ident -> Int]
  BY DEF Manager
<1> HIDE DEF plain
<1>3. Unset(m, temps, names) =
        [temp  |-> IF Plain \in temps THEN m.temp - 1 ELSE m.temp,
         known |-> m.known \cup plain,
         count |-> [x \in Ident |->
                      IF x \in plain THEN m.count[x] - 1 ELSE m.count[x]]]
  BY DEF Unset, plain
<1>4. QED
  BY <1>1, <1>2, <1>3 DEF Manager

(***************************************************************************)
(* The stack of activations.                                               *)
(***************************************************************************)
\* A frame stays well formed when more temporaries are live.
LEMMA FrameMonotone ==
  ASSUME NEW n \in Nat, NEW k \in Nat, n <= k
  PROVE  FrameType(n) \subseteq FrameType(k)
  BY DEF FrameType

\* Replacing the top frame changes nothing else.
LEMMA SetTopStack ==
  ASSUME NEW n \in Nat, NEW k \in Nat, n <= k,
         NEW fs \in Seq(FrameType(n)), fs # <<>>, NEW g \in FrameType(k)
  PROVE  /\ [fs EXCEPT ![Len(fs)] = g] \in Seq(FrameType(k))
         /\ Len([fs EXCEPT ![Len(fs)] = g]) = Len(fs)
         /\ \A d \in 1 .. Len(fs) :
              [fs EXCEPT ![Len(fs)] = g][d] = IF d = Len(fs) THEN g ELSE fs[d]
<1>1. fs \in Seq(FrameType(k)) /\ Len(fs) \in Nat
  BY FrameMonotone, SeqMonotonic, LenProperties
<1>2. Len(fs) \in 1 .. Len(fs)
  BY <1>1, EmptySeq, LenProperties
<1>3. QED
  BY <1>1, <1>2, ExceptSeq

\* The first n entries of a sequence.
LEMMA TakeProperties ==
  ASSUME NEW S, NEW s \in Seq(S), NEW n \in 0 .. Len(s)
  PROVE  /\ SubSeq(s, 1, n) \in Seq(S)
         /\ Len(SubSeq(s, 1, n)) = n
         /\ \A i \in 1 .. n : SubSeq(s, 1, n)[i] = s[i]
<1>1. \A i \in 1 .. n : s[i] \in S
  BY ElementOfSeq, LenProperties
<1>2. n \in Int /\ 1 \in Int /\ n = (n - 1) + 1
  BY LenProperties
<1>3. QED
  BY <1>1, <1>2, SubSeqProperties

\* A sequence whose elements are in T is a sequence over T.
LEMMA Retype ==
  ASSUME NEW S, NEW T, NEW s \in Seq(S), \A i \in 1 .. Len(s) : s[i] \in T
  PROVE  s \in Seq(T)
<1>1. Len(s) \in Nat /\ s \in [1 .. Len(s) -> S]
  BY LenProperties
<1>2. s \in [1 .. Len(s) -> T]
  BY <1>1
<1> DEFINE n == Len(s)
<1>3. n \in Nat /\ s \in [1 .. n -> T]
  BY <1>1, <1>2
<1> HIDE DEF n
<1>4. s \in UNION {[1 .. m -> T] : m \in Nat}
  BY <1>3, Zenon
<1>5. QED
  BY <1>4, SeqDef, Zenon

(***************************************************************************)
(* The inductive invariant.  TypeOK and TempDiscipline need each other: a  *)
(* frame left by CloseBlock has its type because the spans are nested.     *)
(***************************************************************************)
IInv == TypeOK /\ TempDiscipline

\* The top activation has its type.
LEMMA TopType ==
  ASSUME IInv, frames # <<>>
  PROVE  /\ Len(live) \in Nat
         /\ Len(frames) \in Nat \ {0}
         /\ Len(frames) \in 1 .. Len(frames)
         /\ Top \in FrameType(Len(live))
<1>1. live \in Seq(TempId) /\ frames \in Seq(FrameType(Len(live)))
  BY DEF IInv, TypeOK
<1>2. Len(live) \in Nat /\ Len(frames) \in Nat \ {0}
  BY <1>1, EmptySeq, LenProperties
<1>3. Len(frames) \in 1 .. Len(frames)
  BY <1>2
<1>4. Top \in FrameType(Len(live))
  BY <1>1, <1>3, ElementOfSeq DEF Top
<1>5. QED
  BY <1>2, <1>3, <1>4

\* The top frame after a definition.
LEMMA DefineType ==
  ASSUME IInv, frames # <<>>, NEW m \in Name, NEW export \in BOOLEAN
  PROVE  /\ Define(m, export) \in FrameType(Len(live))
         /\ Define(m, export).base = Top.base
         /\ Define(m, export).temps = Top.temps
         /\ Define(m, export).stmt = Len(live)
<1> DEFINE names == Top.names \cup {m}
           ids == IF export THEN Top.ids ELSE Top.ids \cup {m}
           g == [Top EXCEPT !.stmt = Len(live), !.names = names, !.ids = ids]
<1>1. Top \in FrameType(Len(live)) /\ Len(live) \in Nat
  BY TopType
<1>2. names \in SUBSET Name /\ ids \in SUBSET Name
  BY <1>1 DEF FrameType
<1>3. Define(m, export) = g
  BY DEF Define
<1> DEFINE n == Len(live)
<1>4. n \in 0 .. n
  BY <1>1
<1> HIDE DEF names, ids, n
<1>5. Top \in FrameType(n) /\ g = [Top EXCEPT !.stmt = n, !.names = names, !.ids = ids]
  BY <1>1 DEF n
<1> HIDE DEF g
<1>6. g \in FrameType(n) /\ g.base = Top.base /\ g.temps = Top.temps /\ g.stmt = n
  BY <1>2, <1>4, <1>5 DEF FrameType
<1>7. QED
  BY <1>3, <1>6 DEF n

\* A step that only rewrites names, ids, assigned or callees of the top frame,
\* or ends its statement, keeps the invariant.
LEMMA NodeStep ==
  ASSUME IInv, frames # <<>>,
         NEW g \in FrameType(Len(live)),
         g.base = Top.base, g.temps = Top.temps, g.stmt \in {Top.stmt, Len(live)},
         frames' = SetTop(g), live' = live, opened' \in Nat,
         manager' \in Manager, manager'.temp = manager.temp
  PROVE  IInv'
<1>1. /\ live \in Seq(TempId) /\ Len(live) \in Nat
      /\ frames \in Seq(FrameType(Len(live))) /\ Len(frames) \in Nat \ {0}
      /\ Top \in FrameType(Len(live))
  BY TopType DEF IInv, TypeOK
<1>2. /\ frames' \in Seq(FrameType(Len(live)))
      /\ Len(frames') = Len(frames)
      /\ \A d \in 1 .. Len(frames) :
           frames'[d] = IF d = Len(frames) THEN g ELSE frames[d]
  BY <1>1, SetTopStack DEF SetTop
<1>3. TypeOK'
  BY <1>1, <1>2 DEF TypeOK
<1>4. (TempNamesWellFormed /\ LiveSorted /\ LiveBelowCounter)'
  BY DEF IInv, TempDiscipline, TempNamesWellFormed, LiveSorted, LiveBelowCounter
<1>5. \A d \in 1 .. Len(frames) :
        /\ frames'[d].base = frames[d].base
        /\ frames'[d].temps = frames[d].temps
        /\ \/ frames'[d].stmt = frames[d].stmt
           \/ d = Len(frames) /\ frames'[d].stmt = Len(live)
        /\ frames[d].base <= Len(live)
  <2>1. \A d \in 1 .. Len(frames) : frames[d] \in FrameType(Len(live))
    BY <1>1, ElementOfSeq
  <2>2. \A d \in 1 .. Len(frames) : frames[d].base <= Len(live)
    BY <2>1 DEF FrameType
  <2>3. frames[Len(frames)] = Top
    BY DEF Top
  <2>4. QED
    BY <1>1, <1>2, <2>2, <2>3
<1>6. SpansNested'
  BY <1>1, <1>2, <1>5, SMTT(30) DEF SpansNested, IInv, TempDiscipline
<1>7. PlainOwnedByFirst'
  BY <1>1, <1>2, <1>5 DEF PlainOwnedByFirst, IInv, TempDiscipline
<1>8. QED
  BY <1>3, <1>4, <1>6, <1>7 DEF IInv, TempDiscipline

\* A step that pushes an activation, whose span begins at the end of live.
LEMMA PushStep ==
  ASSUME IInv, frames # <<>>,
         NEW g \in FrameType(Len(live)),
         g.base = Top.base, g.temps = Top.temps, g.stmt \in {Top.stmt, Len(live)},
         NEW func \in BOOLEAN, NEW names \in SUBSET Name,
         frames' = Append(SetTop(g), Open(func, names)),
         live' = live, opened' \in Nat,
         manager' \in Manager, manager'.temp = manager.temp
  PROVE  IInv'
<1> DEFINE h == Open(func, names)
<1>1. /\ live \in Seq(TempId) /\ Len(live) \in Nat
      /\ frames \in Seq(FrameType(Len(live))) /\ Len(frames) \in Nat \ {0}
      /\ Top \in FrameType(Len(live))
  BY TopType DEF IInv, TypeOK
<1>2. /\ h \in FrameType(Len(live))
      /\ h.base = Len(live) /\ h.stmt = Len(live) /\ h.temps = {}
  BY <1>1 DEF Open, FrameType
<1> HIDE DEF h
<1>3. /\ SetTop(g) \in Seq(FrameType(Len(live)))
      /\ Len(SetTop(g)) = Len(frames)
      /\ \A d \in 1 .. Len(frames) :
           SetTop(g)[d] = IF d = Len(frames) THEN g ELSE frames[d]
  BY <1>1, SetTopStack DEF SetTop
<1>4. /\ frames' \in Seq(FrameType(Len(live)))
      /\ Len(frames') = Len(frames) + 1
      /\ \A d \in 1 .. Len(frames) : frames'[d] = SetTop(g)[d]
      /\ frames'[Len(frames) + 1] = h
  BY <1>2, <1>3, AppendProperties DEF h
<1>5. TypeOK'
  BY <1>1, <1>4 DEF TypeOK
<1>6. (TempNamesWellFormed /\ LiveSorted /\ LiveBelowCounter)'
  BY DEF IInv, TempDiscipline, TempNamesWellFormed, LiveSorted, LiveBelowCounter
<1>7. \A d \in 1 .. Len(frames) : frames[d] \in FrameType(Len(live))
  BY <1>1, ElementOfSeq
<1>8. \A d \in 1 .. Len(frames) :
        /\ frames'[d].base = frames[d].base
        /\ frames'[d].temps = frames[d].temps
        /\ \/ frames'[d].stmt = frames[d].stmt
           \/ d = Len(frames) /\ frames'[d].stmt = Len(live)
        /\ frames'[d].base <= Len(live) /\ frames'[d].stmt <= Len(live)
        /\ frames'[d].base <= frames'[d].stmt
  <2>1. frames[Len(frames)] = Top
    BY DEF Top
  <2>2. \A d \in 1 .. Len(frames) : frames[d].base <= frames[d].stmt
    BY DEF IInv, TempDiscipline, SpansNested
  <2>3. \A d \in 1 .. Len(frames) :
          /\ frames[d].base \in 0 .. Len(live) /\ frames[d].stmt \in 0 .. Len(live)
    BY <1>7 DEF FrameType
  <2>4. QED
    BY <1>1, <1>3, <1>4, <2>1, <2>2, <2>3
<1>9. SpansNested'
  <2> DEFINE n == Len(frames)
  <2>1. \A d \in 1 .. n + 1 : frames'[d].base <= frames'[d].stmt
    BY <1>1, <1>2, <1>4, <1>8, SMTT(30)
  <2>2. ASSUME NEW d \in 1 .. n + 1, NEW e \in 1 .. n + 1, d < e
        PROVE  frames'[d].stmt <= frames'[e].base
    <3>1. CASE e = n + 1
      BY <1>1, <1>2, <1>4, <1>8, <2>2, <3>1
    <3>2. CASE e # n + 1
      <4>1. d \in 1 .. n /\ e \in 1 .. n /\ d # n
        <5>1. n \in Int /\ d \in Int /\ e \in Int
          BY <1>1
        <5> HIDE DEF n
        <5>2. QED
          BY <2>2, <3>2, <5>1
      <4>2. frames[d].stmt <= frames[e].base
        BY <2>2, <4>1 DEF IInv, TempDiscipline, SpansNested
      <4>3. QED
        BY <1>8, <4>1, <4>2
    <3>3. QED
      BY <3>1, <3>2
  <2>3. QED
    BY <1>4, <2>1, <2>2 DEF SpansNested
<1>10. PlainOwnedByFirst'
  <2> DEFINE n == Len(frames)
  <2>1. live # <<>> => Len(live) >= 1
    BY <1>1, EmptySeq
  <2>2. SUFFICES ASSUME NEW d \in 1 .. n + 1, Plain \in frames'[d].temps
                 PROVE  /\ live # <<>> /\ frames'[d].base = 0
                        /\ \A e \in d + 1 .. n + 1 : frames'[e].base >= 1
    BY <1>4 DEF PlainOwnedByFirst
  <2>3. d \in 1 .. n
    BY <1>1, <1>2, <1>4, <2>2
  <2>4. Plain \in frames[d].temps
    BY <1>8, <2>2, <2>3
  <2>5. /\ live # <<>> /\ frames[d].base = 0
        /\ \A e \in d + 1 .. n : frames[e].base >= 1
    BY <2>3, <2>4 DEF PlainOwnedByFirst, IInv, TempDiscipline
  <2>6. \A e \in d + 1 .. n + 1 : frames'[e].base >= 1
    <3> TAKE e \in d + 1 .. n + 1
    <3>1. CASE e = n + 1
      BY <1>2, <1>4, <2>1, <2>5, <3>1
    <3>2. CASE e # n + 1
      <4>1. e \in d + 1 .. n /\ e \in 1 .. n
        <5>1. n \in Int /\ d \in Int /\ d >= 1 /\ e \in Int
          BY <1>1, <2>3
        <5> HIDE DEF n
        <5>2. QED
          BY <3>2, <5>1
      <4>2. QED
        BY <1>8, <2>5, <4>1
    <3>3. QED
      BY <3>1, <3>2
  <2>7. QED
    BY <1>8, <2>3, <2>5, <2>6
<1>11. QED
  BY <1>5, <1>6, <1>9, <1>10 DEF IInv, TempDiscipline

\* Handing out a temporary: it is above every live one, and "_sushi_t_" can
\* only be handed out when none is live.
LEMMA TempStep ==
  ASSUME IInv, NEW keep \in BOOLEAN, NEW bare \in BOOLEAN, GetNewTemp(keep, bare)
  PROVE  IInv'
<1> DEFINE n == Len(live)
           t == NewTemp(manager)
           g == [Top EXCEPT !.temps = IF keep THEN @ \cup {t} ELSE @,
                            !.assigned = IF bare /\ InFunction
                                         THEN @ \cup {t} ELSE @]
<1>1. /\ manager \in Manager
      /\ live \in Seq(TempId) /\ n \in Nat
      /\ frames \in Seq(FrameType(n)) /\ Len(frames) \in Nat \ {0}
      /\ Top \in FrameType(n) /\ frames # <<>>
  BY TopType DEF IInv, TypeOK, GetNewTemp
<1>2. t \in TempId /\ t = manager.temp /\ t \in Int
  BY <1>1, TempTypes DEF TempId
<1>3. /\ live' = Append(live, t)
      /\ frames' = SetTop(g)
      /\ manager' = AfterTemp(manager) /\ opened' = opened
  BY DEF GetNewTemp
<1>4. /\ manager' \in Manager
      /\ manager'.temp = t + 1
  BY <1>1, <1>2, <1>3, TempTypes
<1> HIDE DEF t
<1>5. /\ live' \in Seq(TempId) /\ Len(live') = n + 1
      /\ \A i \in 1 .. n : live'[i] = live[i]
      /\ live'[n + 1] = t
  BY <1>1, <1>2, <1>3, AppendProperties
<1>6. /\ g \in FrameType(n)
      /\ g.base = Top.base /\ g.stmt = Top.stmt
      /\ g.temps \subseteq Top.temps \cup {t}
  BY <1>1, <1>2 DEF FrameType
<1> HIDE DEF g, n
<1>7. g \in FrameType(n + 1)
  BY <1>1, <1>6, FrameMonotone
<1>8. /\ frames' \in Seq(FrameType(n + 1))
      /\ Len(frames') = Len(frames)
      /\ \A d \in 1 .. Len(frames) :
           frames'[d] = IF d = Len(frames) THEN g ELSE frames[d]
  BY <1>1, <1>3, <1>7, SetTopStack DEF SetTop
<1>9. TypeOK'
  BY <1>3, <1>4, <1>5, <1>8 DEF TypeOK, IInv
<1>10. \A i \in 1 .. n : live[i] \in Int /\ Plain <= live[i] /\ live[i] < t
  <2>1. \A i \in 1 .. n : live[i] \in Int
    BY <1>1, ElementOfSeq DEF TempId, n
  <2>2. QED
    BY <1>2, <2>1 DEF IInv, TempDiscipline, LiveBelowCounter, n
<1>11. Plain <= t
  BY <1>2 DEF IInv, TempDiscipline, TempNamesWellFormed, Plain
<1>12. TempNamesWellFormed'
  BY <1>2, <1>4, <1>11 DEF TempNamesWellFormed, Plain
<1>13. LiveSorted'
  <2>1. ASSUME NEW i \in 1 .. n + 1, NEW j \in 1 .. n + 1, i < j
        PROVE  live'[i] < live'[j]
    <3>1. i \in 1 .. n
      BY <1>1, <2>1
    <3>2. CASE j = n + 1
      BY <1>5, <1>10, <3>1, <3>2
    <3>3. CASE j # n + 1
      <4>1. j \in 1 .. n
        BY <1>1, <3>3
      <4>2. live[i] < live[j]
        BY <2>1, <3>1, <4>1 DEF IInv, TempDiscipline, LiveSorted, n
      <4>3. QED
        BY <1>5, <3>1, <4>1, <4>2
    <3>4. QED
      BY <3>2, <3>3
  <2>2. QED
    BY <1>5, <2>1 DEF LiveSorted
<1>14. LiveBelowCounter'
  <2>1. ASSUME NEW i \in 1 .. n + 1
        PROVE  Plain <= live'[i] /\ live'[i] < t + 1
    <3>1. CASE i = n + 1
      BY <1>2, <1>5, <1>11, <3>1
    <3>2. CASE i # n + 1
      <4>1. i \in 1 .. n
        BY <1>1, <3>2
      <4>2. QED
        BY <1>2, <1>5, <1>10, <4>1
    <3>3. QED
      BY <3>1, <3>2
  <2>2. QED
    BY <1>4, <1>5, <2>1 DEF LiveBelowCounter
<1>15. frames[Len(frames)] = Top
  BY DEF Top
<1>16. \A d \in 1 .. Len(frames) :
         /\ frames'[d].base = frames[d].base /\ frames'[d].stmt = frames[d].stmt
         /\ frames'[d].temps \subseteq frames[d].temps \cup {t}
         /\ frames'[d].temps # frames[d].temps => d = Len(frames)
  BY <1>1, <1>6, <1>8, <1>15
<1>17. SpansNested'
  BY <1>8, <1>16 DEF IInv, TempDiscipline, SpansNested
<1>18. PlainOwnedByFirst'
  <2>1. live' # <<>>
    BY <1>1, <1>5, EmptySeq
  <2>2. SUFFICES ASSUME NEW d \in 1 .. Len(frames), Plain \in frames'[d].temps
                 PROVE  /\ frames[d].base = 0
                        /\ \A e \in d + 1 .. Len(frames) : frames[e].base >= 1
    <3>1. \A d \in 1 .. Len(frames) : \A e \in d + 1 .. Len(frames) :
            e \in 1 .. Len(frames)
      BY <1>1
    <3>2. QED
      BY <1>8, <1>16, <2>1, <3>1 DEF PlainOwnedByFirst
  <2>3. CASE Plain \in frames[d].temps
    BY <2>3 DEF IInv, TempDiscipline, PlainOwnedByFirst
  <2>4. CASE Plain \notin frames[d].temps
    <3>1. t = Plain /\ d = Len(frames)
      BY <1>16, <2>2, <2>4
    <3>2. n = 0
      BY <1>1, <1>10, <3>1 DEF Plain
    <3>3. Top.base = 0
      BY <1>1, <3>2 DEF FrameType
    <3>4. QED
      BY <1>1, <1>15, <3>1, <3>3
  <2>5. QED
    BY <2>3, <2>4
<1>19. QED
  BY <1>9, <1>12, <1>13, <1>14, <1>17, <1>18 DEF IInv, TempDiscipline

\* The end of a block: the frames below it ended their spans before its own
\* began, and if it gives "_sushi_t_" back then nothing stays live.
LEMMA CloseStep ==
  ASSUME IInv, CloseBlock
  PROVE  IInv'
<1> DEFINE k == Top.base
           n == Len(frames) - 1
           rest == SubSeq(frames, 1, n)
           plain == Plain \in Top.temps
<1>1. /\ manager \in Manager
      /\ live \in Seq(TempId) /\ Len(live) \in Nat
      /\ frames \in Seq(FrameType(Len(live))) /\ n \in Nat /\ Len(frames) = n + 1
      /\ Top \in FrameType(Len(live)) /\ frames # <<>>
      /\ k \in 0 .. Len(live)
  BY TopType DEF IInv, TypeOK, CloseBlock, FrameType
<1>2. /\ manager' = Unset(manager, Top.temps, Top.ids)
      /\ live' = SubSeq(live, 1, k)
      /\ frames' = IF rest = <<>> THEN rest
                   ELSE [rest EXCEPT ![Len(rest)] = Leave(rest[Len(rest)], Top)]
      /\ opened' = opened
  BY DEF CloseBlock
<1>3. /\ manager' \in Manager
      /\ manager'.temp = IF plain THEN manager.temp - 1 ELSE manager.temp
      /\ manager.temp \in Int
  <2>1. Top.temps \in SUBSET TempId /\ Top.ids \in SUBSET Name
    BY <1>1 DEF FrameType
  <2>2. manager.temp \in Int
    BY <1>1 DEF Manager
  <2>3. QED
    BY <1>1, <1>2, <2>1, <2>2, UnsetTypes, ZenonT(60)
<1>4. /\ live' \in Seq(TempId) /\ Len(live') = k
      /\ \A i \in 1 .. k : live'[i] = live[i]
  BY <1>1, <1>2, TakeProperties
<1>5. /\ rest \in Seq(FrameType(Len(live))) /\ Len(rest) = n
      /\ \A d \in 1 .. n : rest[d] = frames[d]
  BY <1>1, TakeProperties
<1>6. frames[n + 1] = Top
  BY <1>1 DEF Top
<1>7. plain => live # <<>> /\ k = 0
  BY <1>1, <1>6 DEF IInv, TempDiscipline, PlainOwnedByFirst
<1>8. \A d \in 1 .. n : /\ frames[d] \in FrameType(Len(live))
                        /\ frames[d].base <= frames[d].stmt /\ frames[d].stmt <= k
  <2>1. \A d \in 1 .. n : d \in 1 .. n + 1 /\ d < n + 1 /\ n + 1 \in 1 .. n + 1
    BY <1>1
  <2>2. QED
    BY <1>1, <1>6, <2>1, ElementOfSeq DEF IInv, TempDiscipline, SpansNested
<1> HIDE DEF k, n, rest, plain
<1>9. \A d \in 1 .. n : frames[d] \in FrameType(k)
  BY <1>1, <1>8, SMTT(30) DEF FrameType
<1>10. rest \in Seq(FrameType(k))
  BY <1>5, <1>9, Retype
<1>11. /\ frames' \in Seq(FrameType(k)) /\ Len(frames') = n
       /\ \A d \in 1 .. n : /\ frames'[d].base = frames[d].base
                            /\ frames'[d].stmt = frames[d].stmt
                            /\ frames'[d].temps = frames[d].temps
  <2>1. CASE n = 0
    BY <1>1, <1>2, <1>5, <1>10, <2>1, EmptySeq
  <2>2. CASE n # 0
    <3> DEFINE f == Leave(rest[n], Top)
    <3>1. rest # <<>> /\ n \in 1 .. n
      BY <1>1, <1>5, <2>2, EmptySeq
    <3>2. /\ f \in FrameType(k) /\ f.base = rest[n].base
          /\ f.stmt = rest[n].stmt /\ f.temps = rest[n].temps
      <4>1. rest[n] \in FrameType(k)
        BY <1>5, <1>9, <3>1
      <4>2. Top.assigned \in SUBSET TempId
        BY <1>1 DEF FrameType
      <4>3. QED
        BY <4>1, <4>2 DEF FrameType, Leave
    <3>3. frames' = [rest EXCEPT ![n] = f]
      BY <1>2, <1>5, <3>1
    <3> HIDE DEF f
    <3>4. /\ frames' \in Seq(FrameType(k)) /\ Len(frames') = n
          /\ \A d \in 1 .. n : frames'[d] = IF d = n THEN f ELSE rest[d]
      BY <1>5, <1>10, <3>1, <3>2, <3>3, ExceptSeq
    <3>5. QED
      BY <1>5, <3>2, <3>4
  <2>3. QED
    BY <2>1, <2>2
<1>12. TypeOK'
  BY <1>2, <1>3, <1>4, <1>11 DEF TypeOK, IInv
<1>13. \A i \in 1 .. k : /\ i \in 1 .. Len(live)
                         /\ Plain <= live[i] /\ live[i] < manager.temp
  BY <1>1 DEF IInv, TempDiscipline, LiveBelowCounter
<1>14. TempNamesWellFormed'
  <2>1. CASE plain
    <3>1. 1 \in 1 .. Len(live)
      BY <1>1, <1>7, <2>1, EmptySeq
    <3>2. live[1] \in Int
      BY <1>1, <3>1, ElementOfSeq DEF TempId
    <3>3. Plain <= live[1] /\ live[1] < manager.temp
      BY <3>1 DEF IInv, TempDiscipline, LiveBelowCounter
    <3>4. QED
      BY <1>3, <2>1, <3>2, <3>3 DEF TempNamesWellFormed, Plain
  <2>2. CASE ~plain
    BY <1>3, <2>2 DEF IInv, TempDiscipline, TempNamesWellFormed
  <2>3. QED
    BY <2>1, <2>2
<1>15. LiveSorted'
  BY <1>1, <1>4, <1>13 DEF IInv, TempDiscipline, LiveSorted
<1>16. LiveBelowCounter'
  BY <1>1, <1>3, <1>4, <1>7, <1>13, SMTT(30) DEF LiveBelowCounter
<1>17. \A d \in 1 .. n : d \in 1 .. n + 1
  BY <1>1
<1>18. SpansNested'
  BY <1>1, <1>11, <1>17 DEF IInv, TempDiscipline, SpansNested
<1>19. PlainOwnedByFirst'
  <2>1. SUFFICES ASSUME NEW d \in 1 .. n, Plain \in frames[d].temps
                 PROVE  /\ live' # <<>> /\ frames[d].base = 0
                        /\ \A e \in d + 1 .. n : frames[e].base >= 1
    <3>1. \A d \in 1 .. n : \A e \in d + 1 .. n : e \in 1 .. n
      BY <1>1
    <3>2. QED
      BY <1>11, <3>1 DEF PlainOwnedByFirst
  <2>2. /\ frames[d].base = 0
        /\ \A e \in d + 1 .. n + 1 : frames[e].base >= 1
    BY <1>1, <1>17, <2>1 DEF IInv, TempDiscipline, PlainOwnedByFirst
  <2>3. n + 1 \in d + 1 .. n + 1 /\ \A e \in d + 1 .. n : e \in d + 1 .. n + 1
    BY <1>1
  <2>4. k >= 1
    BY <1>6, <2>2, <2>3 DEF k
  <2>5. live' # <<>>
    BY <1>1, <1>4, <2>4, EmptySeq
  <2>6. QED
    BY <2>2, <2>3, <2>5
<1>20. QED
  BY <1>12, <1>14, <1>15, <1>16, <1>18, <1>19 DEF IInv, TempDiscipline

(***************************************************************************)
(* The theorems.                                                           *)
(***************************************************************************)
\* The walk begins in the invariant.
LEMMA InitInv == Init => IInv
<1> SUFFICES ASSUME Init PROVE IInv
  OBVIOUS
<1>1. manager \in Manager /\ manager.temp = -1
  BY DEF Init, NewManager, Manager
<1>2. live = <<>> /\ Len(live) = 0 /\ live \in Seq(TempId)
  BY EmptySeq DEF Init
<1> DEFINE f == Open(FALSE, {})
<1>3. f \in FrameType(0) /\ f.base = 0 /\ f.stmt = 0 /\ f.temps = {}
  BY <1>2 DEF Open, FrameType
<1>4. frames = <<f>>
  BY DEF Init
<1> HIDE DEF f
<1>5. /\ frames \in Seq(FrameType(0)) /\ Len(frames) = 1 /\ frames[1] = f
  BY <1>3, <1>4
<1>6. TypeOK
  BY <1>1, <1>2, <1>5 DEF TypeOK, Init
<1>7. TempDiscipline
  BY <1>1, <1>2, <1>3, <1>5
     DEF TempDiscipline, TempNamesWellFormed, LiveSorted, LiveBelowCounter,
         SpansNested, PlainOwnedByFirst
<1>8. QED
  BY <1>6, <1>7 DEF IInv

\* Every node of the program keeps the invariant.
LEMMA NextInv == IInv /\ [Next]_vars => IInv'
<1> SUFFICES ASSUME IInv, [Next]_vars PROVE IInv'
  OBVIOUS
<1>1. manager \in Manager /\ opened \in Nat
  BY DEF IInv, TypeOK
<1>2. CASE LocalTemp \/ BareTemp \/ DroppedTemp
  BY <1>2, TempStep DEF LocalTemp, BareTemp, DroppedTemp
<1>3. CASE Statement
  <2> DEFINE g == [Top EXCEPT !.stmt = Len(live)]
  <2>1. /\ frames # <<>> /\ frames' = SetTop(g)
        /\ live' = live /\ opened' \in Nat
        /\ manager' \in Manager /\ manager'.temp = manager.temp
    BY <1>1, <1>3 DEF Statement
  <2>2. Top \in FrameType(Len(live)) /\ Len(live) \in Nat
    BY <2>1, TopType
  <2>3. /\ g \in FrameType(Len(live)) /\ g.base = Top.base
        /\ g.temps = Top.temps /\ g.stmt \in {Top.stmt, Len(live)}
    BY <2>2 DEF FrameType
  <2> HIDE DEF g
  <2>4. QED
    BY <2>1, <2>3, NodeStep
<1>4. ASSUME NEW x \in Ident, NEW export \in BOOLEAN, VariableDef(x, export)
      PROVE  IInv'
  <2> DEFINE m == NewName(manager, x)
             g == Define(m, export)
  <2>1. /\ frames # <<>> /\ frames' = SetTop(g)
        /\ live' = live /\ opened' \in Nat
        /\ manager' = AfterName(manager, x)
    BY <1>1, <1>4 DEF VariableDef
  <2>2. Top \in FrameType(Len(live)) /\ Len(live) \in Nat
    BY <2>1, TopType
  <2>3. m \in Name /\ manager' \in Manager /\ manager'.temp = manager.temp
    BY <1>1, <2>1, NameTypes
  <2> HIDE DEF m
  <2>4. /\ g \in FrameType(Len(live)) /\ g.base = Top.base
        /\ g.temps = Top.temps /\ g.stmt \in {Top.stmt, Len(live)}
    BY <2>1, <2>2, <2>3, DefineType
  <2> HIDE DEF g
  <2>5. QED
    BY <2>1, <2>3, <2>4, NodeStep
<1>5. ASSUME NEW f \in Ident, NEW params \in SUBSET Ident, NEW export \in BOOLEAN,
             FunctionDef(f, params, export)
      PROVE  IInv'
  <2> DEFINE n == NewName(manager, f)
             m == AfterName(manager, f)
             g == Define(n, export)
             names == {NewName(m, p) : p \in params}
             count == [p \in Ident |-> IF p \in params
                                       THEN AfterName(m, p).count[p]
                                       ELSE m.count[p]]
  <2>1. /\ frames # <<>> /\ frames' = Append(SetTop(g), Open(TRUE, names))
        /\ live' = live /\ opened' \in Nat
        /\ manager' = [m EXCEPT !.count = count]
    BY <1>1, <1>5 DEF FunctionDef, CanOpen
  <2>2. Top \in FrameType(Len(live)) /\ Len(live) \in Nat
    BY <2>1, TopType
  <2>3. n \in Name /\ m \in Manager /\ m.temp = manager.temp
    BY <1>1, NameTypes
  <2> HIDE DEF n, m
  <2>4. /\ g \in FrameType(Len(live)) /\ g.base = Top.base
        /\ g.temps = Top.temps /\ g.stmt \in {Top.stmt, Len(live)}
    BY <2>1, <2>2, <2>3, DefineType
  <2>5. names \in SUBSET Name
    BY <2>3, NameTypes
  <2>6. count \in [Ident -> Int]
    <3>1. \A p \in params : AfterName(m, p).count \in [Ident -> Int]
      BY <2>3, NameTypes DEF Manager
    <3>2. m.count \in [Ident -> Int]
      BY <2>3 DEF Manager
    <3>3. QED
      BY <3>1, <3>2
  <2> HIDE DEF g, names, count
  <2>7. manager' \in Manager /\ manager'.temp = manager.temp
    BY <2>1, <2>3, <2>6 DEF Manager
  <2>8. QED
    BY <2>1, <2>4, <2>5, <2>7, PushStep
<1>6. CASE OpenBlock
  <2>1. /\ frames # <<>> /\ frames' = Append(frames, Open(FALSE, {}))
        /\ live' = live /\ opened' \in Nat
        /\ manager' \in Manager /\ manager'.temp = manager.temp
    BY <1>1, <1>6 DEF OpenBlock, CanOpen
  <2>2. Top \in FrameType(Len(live))
    BY <2>1, TopType
  <2>3. SetTop(Top) = frames
    <3>1. frames \in [1 .. Len(frames) -> FrameType(Len(live))]
      BY LenProperties DEF IInv, TypeOK
    <3>2. QED
      BY <3>1 DEF SetTop, Top
  <2> DEFINE g == Top
             names == {}
  <2>4. /\ g \in FrameType(Len(live)) /\ g.base = Top.base
        /\ g.temps = Top.temps /\ g.stmt \in {Top.stmt, Len(live)}
        /\ names \in SUBSET Name /\ FALSE \in BOOLEAN
        /\ frames' = Append(SetTop(g), Open(FALSE, names))
    BY <2>1, <2>2, <2>3
  <2> HIDE DEF g, names
  <2>5. QED
    BY <2>1, <2>4, PushStep
<1>7. ASSUME NEW x \in Ident, OpenRangeLoop(x)
      PROVE  IInv'
  <2> DEFINE n == NewName(manager, x)
             g == [Top EXCEPT !.ids = @ \cup {n}]
  <2>1. /\ frames # <<>> /\ frames' = Append(SetTop(g), Open(FALSE, {n}))
        /\ live' = live /\ opened' \in Nat
        /\ manager' = AfterName(manager, x)
    BY <1>1, <1>7 DEF OpenRangeLoop, CanOpen
  <2>2. Top \in FrameType(Len(live)) /\ Len(live) \in Nat
    BY <2>1, TopType
  <2>3. n \in Name /\ manager' \in Manager /\ manager'.temp = manager.temp
    BY <1>1, <2>1, NameTypes
  <2> HIDE DEF n
  <2>4. /\ g \in FrameType(Len(live)) /\ g.base = Top.base
        /\ g.temps = Top.temps /\ g.stmt = Top.stmt
    BY <2>2, <2>3 DEF FrameType
  <2> HIDE DEF g
  <2>5. QED
    BY <2>1, <2>3, <2>4, PushStep
<1>8. CASE CloseBlock
  BY <1>8, CloseStep
<1>9. CASE UNCHANGED vars
  BY <1>9 DEF vars, IInv, TypeOK, TempDiscipline, TempNamesWellFormed, LiveSorted,
              LiveBelowCounter, SpansNested, PlainOwnedByFirst
<1>10. QED
  BY <1>2, <1>3, <1>4, <1>5, <1>6, <1>7, <1>8, <1>9 DEF Next

\* The walk never leaves the invariant.
LEMMA Invariance == Spec => []IInv
<1>1. QED
  BY InitInv, NextInv, PTL DEF Spec

\* In a sorted sequence no two entries are the same.
LEMMA SortedDistinct == IInv => LiveTempsDistinct
<1> SUFFICES ASSUME IInv, NEW i \in DOMAIN live, NEW j \in DOMAIN live, i # j
             PROVE  live[i] # live[j]
  BY DEF LiveTempsDistinct
<1>1. live \in Seq(TempId)
  BY DEF IInv, TypeOK
<1>2. i \in 1 .. Len(live) /\ j \in 1 .. Len(live)
  BY <1>1, LenProperties
<1>3. live[i] \in Int /\ live[j] \in Int
  BY <1>1, <1>2, ElementOfSeq DEF TempId
<1>4. \/ i < j /\ live[i] < live[j]
      \/ j < i /\ live[j] < live[i]
  BY <1>2 DEF IInv, TempDiscipline, LiveSorted
<1>5. QED
  BY <1>3, <1>4

\* Type correctness of the walk, for every set of identifiers and every bound.
THEOREM TypeCorrect == Spec => []TypeOK
<1>1. IInv => TypeOK
  BY DEF IInv
<1>2. QED
  BY <1>1, Invariance, PTL

\* GenCode and Unset keep temporaries numbered in order and below the counter,
\* and "_sushi_t_" is given back only when nothing stays live.
THEOREM TempsDisciplined == Spec => []TempDiscipline
<1>1. IInv => TempDiscipline
  BY DEF IInv
<1>2. QED
  BY <1>1, Invariance, PTL

\* Two temporaries that are live together never share a bash name.
THEOREM TempsDistinct == Spec => []LiveTempsDistinct
<1>1. QED
  BY SortedDistinct, Invariance, PTL

\* GetNewTemp never writes a name with a minus sign in it.
THEOREM TempsWellFormed == Spec => []TempNamesWellFormed
<1>1. IInv => TempNamesWellFormed
  BY DEF IInv, TempDiscipline
<1>2. QED
  BY <1>1, Invariance, PTL
=============================================================================
