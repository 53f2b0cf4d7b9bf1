---------------------------- MODULE BlocksProofs ----------------------------
(***************************************************************************)
(* Theorems about Blocks for sources of any lines and any length, on every *)
(* path of the parser, the paths of recovery included: the loop level is   *)
(* the number of loops around, and the indents are those of the blocks     *)
(* that are open.  While there is no error, each statement is parsed in    *)
(* the block of its indent, and nothing that is missing was passed over.   *)
(***************************************************************************)
EXTENDS Blocks, SequenceTheorems, FiniteSetTheorems, WellFoundedInduction, TLAPS

-----------------------------------------------------------------------------
(***************************************************************************)
(* The invariant.  A function that begins keeps the level of the methods   *)
(* below it in old, so the levels of all the methods are needed: Level(s,k)*)
(* counts the loops around the k-th.  Which guards a method may have built *)
(* depends on the point where it is; none has built both.                  *)
(***************************************************************************)
Loops(s, k) ==
  {i \in 1..k : "loop" \in s[i].guards /\ \A j \in i..k : "function" \notin s[j].guards}
Level(s, k) == Cardinality(Loops(s, k))

LoopPoints == {"for body", "for end"}
FunctionPoints == {"type?", "typed", "equals", "function end"}

Frame(m) == DOMAIN m = {"at", "ok", "some", "use", "guards", "old", "line"}
Disciplined(m) ==
  /\ Frame(m)
  /\ "loop" \in m.guards => m.at \in LoopPoints
  /\ "function" \in m.guards => m.at \in FunctionPoints

Stacks(s) == \E S : s \in Seq(S)

Guarded(s, level) ==
  /\ Stacks(s)
  /\ \A i \in 1..Len(s) : Disciplined(s[i])
  /\ \A i \in 1..Len(s) : "function" \in s[i].guards => s[i].old = Level(s, i - 1)
  /\ level = Level(s, Len(s))

IInv == Guarded(stack, loop_level)

-----------------------------------------------------------------------------
(***************************************************************************)
(* Levels.                                                                 *)
(***************************************************************************)
\* A level depends on the guards of the methods below only.
LEMMA SameLevel ==
  ASSUME NEW s, NEW r, NEW k \in Nat, \A i \in 1..k : s[i].guards = r[i].guards
  PROVE  Level(s, k) = Level(r, k)
<1>1. \A i \in 1..k : \A j \in i..k : j \in 1..k
  OBVIOUS
<1>2. Loops(s, k) = Loops(r, k)
  BY <1>1 DEF Loops
<1>3. QED
  BY <1>2 DEF Level

\* The levels are finite, and grow by one with a loop.
LEMMA NextLevel ==
  ASSUME NEW s, NEW k \in Nat
  PROVE  /\ Level(s, k) \in Nat
         /\ "function" \in s[k + 1].guards => Level(s, k + 1) = 0
         /\ "function" \notin s[k + 1].guards =>
              Level(s, k + 1) = IF "loop" \in s[k + 1].guards THEN Level(s, k) + 1 ELSE Level(s, k)
<1>1. IsFiniteSet(Loops(s, k)) /\ Level(s, k) \in Nat
  <2>1. IsFiniteSet(1..k)
    BY FS_Interval
  <2>2. Loops(s, k) \in SUBSET (1..k)
    BY DEF Loops
  <2>3. IsFiniteSet(Loops(s, k))
    BY <2>1, <2>2, FS_Subset
  <2>4. QED
    BY <2>3, FS_CardinalityType DEF Level
<1>2. CASE "function" \in s[k + 1].guards
  <2>1. \A i \in 1..(k + 1) : k + 1 \in i..(k + 1)
    OBVIOUS
  <2>2. Loops(s, k + 1) = {}
    BY <1>2, <2>1 DEF Loops
  <2>3. QED
    BY <1>1, <1>2, <2>2, FS_EmptySet DEF Level
<1>3. CASE "function" \notin s[k + 1].guards
  <2>1. \A i \in 1..k : i..(k + 1) = (i..k) \cup {k + 1}
    OBVIOUS
  <2>2. 1..(k + 1) = (1..k) \cup {k + 1} /\ (k + 1)..(k + 1) = {k + 1} /\ k + 1 \notin 1..k
    OBVIOUS
  <2>3. Loops(s, k + 1) =
          IF "loop" \in s[k + 1].guards THEN Loops(s, k) \cup {k + 1} ELSE Loops(s, k)
    <3>1. \A i \in 1..k : i \in Loops(s, k + 1) <=> i \in Loops(s, k)
      BY <1>3, <2>1, <2>2 DEF Loops
    <3>2. k + 1 \in Loops(s, k + 1) <=> "loop" \in s[k + 1].guards
      BY <1>3, <2>2 DEF Loops
    <3>3. Loops(s, k + 1) \subseteq (1..k) \cup {k + 1} /\ Loops(s, k) \subseteq 1..k
      BY <2>2 DEF Loops
    <3>4. CASE "loop" \in s[k + 1].guards
      BY <2>2, <3>1, <3>2, <3>3, <3>4
    <3>5. CASE "loop" \notin s[k + 1].guards
      <4>1. Loops(s, k + 1) = Loops(s, k)
        BY <2>2, <3>1, <3>2, <3>3, <3>5
      <4>2. QED
        BY <3>5, <4>1
    <3>6. QED
      BY <3>4, <3>5
  <2>4. k + 1 \notin Loops(s, k)
    BY <2>2 DEF Loops
  <2>5. QED
    BY <1>1, <1>3, <2>3, <2>4, FS_AddElement DEF Level
<1>4. QED
  BY <1>1, <1>2, <1>3

-----------------------------------------------------------------------------
(***************************************************************************)
(* The stack.                                                              *)
(***************************************************************************)
\* Replacing the top.
LEMMA GoOnStack ==
  ASSUME Stacks(stack), stack # <<>>, NEW m
  PROVE  /\ Len(stack) \in Nat /\ Len(stack) >= 1 /\ top = stack[Len(stack)]
         /\ Stacks(GoOn(m)) /\ Len(GoOn(m)) = Len(stack)
         /\ \A i \in 1..Len(stack) : GoOn(m)[i] = IF i = Len(stack) THEN m ELSE stack[i]
<1>1. PICK S : stack \in Seq(S)
  BY DEF Stacks
<1>2. stack \in Seq(S \cup {m})
  BY <1>1, SeqMonotonic
<1>3. Len(stack) \in Nat /\ Len(stack) # 0
  BY <1>2, EmptySeq, LenProperties
<1>4. Len(stack) \in 1..Len(stack)
  BY <1>3
<1>5. /\ GoOn(m) \in Seq(S \cup {m}) /\ Len(GoOn(m)) = Len(stack)
      /\ \A i \in 1..Len(stack) : GoOn(m)[i] = IF i = Len(stack) THEN m ELSE stack[i]
  BY <1>2, <1>4, ExceptSeq DEF GoOn
<1>6. QED
  BY <1>3, <1>4, <1>5 DEF Stacks, top

\* Calling.
LEMMA AppendStack ==
  ASSUME NEW s, Stacks(s), NEW c
  PROVE  /\ Len(s) \in Nat
         /\ Stacks(Append(s, c)) /\ Len(Append(s, c)) = Len(s) + 1
         /\ \A i \in 1..Len(s) : Append(s, c)[i] = s[i]
         /\ Append(s, c)[Len(s) + 1] = c
         /\ s \o <<c>> = Append(s, c) /\ s \o <<>> = s
<1>1. PICK S : s \in Seq(S)
  BY DEF Stacks
<1>2. s \in Seq(S \cup {c}) /\ c \in S \cup {c}
  BY <1>1, SeqMonotonic
<1>3. Append(s, c) \in Seq(S \cup {c})
  BY <1>2
<1>4. Stacks(Append(s, c))
  BY <1>3 DEF Stacks
<1>5. QED
  BY <1>2, <1>4, LenProperties

\* Two methods are called at once, the second on top.
LEMMA AppendTwice ==
  ASSUME NEW s, Stacks(s), NEW c, NEW d
  PROVE  s \o <<c, d>> = Append(Append(s, c), d)
<1>1. PICK S : s \in Seq(S)
  BY DEF Stacks
<1>2. s \in Seq(S \cup {c, d})
  BY <1>1, SeqMonotonic
<1>3. QED
  BY <1>2

\* Returning.
LEMMA ReturnStack ==
  ASSUME Stacks(stack), stack # <<>>
  PROVE  /\ Stacks(Without(stack)) /\ Len(Without(stack)) = Len(stack) - 1
         /\ \A i \in 1..(Len(stack) - 1) : Without(stack)[i] = stack[i]
<1>1. PICK S : stack \in Seq(S)
  BY DEF Stacks
<1>2. Len(stack) \in Nat /\ Len(stack) # 0
  BY <1>1, EmptySeq, LenProperties
<1> DEFINE n == Len(stack) - 1
<1>3. n \in 0..Len(stack)
  BY <1>2
<1>4. Without(stack) = SubSeq(stack, 1, n)
  BY DEF Without
<1> HIDE DEF n
<1>5. /\ SubSeq(stack, 1, n) \in Seq(S) /\ Len(SubSeq(stack, 1, n)) = n
      /\ \A i \in 1..n : SubSeq(stack, 1, n)[i] = stack[i]
  <2>1. \A i \in 1..n : stack[i] \in S
    BY <1>1, <1>3, ElementOfSeq, LenProperties
  <2>2. n \in Int /\ 1 \in Int /\ n = (n - 1) + 1
    BY <1>3
  <2>3. QED
    BY <1>1, <1>3, <2>1, <2>2, SubSeqProperties
<1>6. Stacks(Without(stack)) /\ Len(Without(stack)) = n
      /\ \A i \in 1..n : Without(stack)[i] = stack[i]
  BY <1>4, <1>5 DEF Stacks
<1>7. QED
  BY <1>6 DEF n

-----------------------------------------------------------------------------
(***************************************************************************)
(* What the actions do with the stack.                                     *)
(***************************************************************************)
\* A method goes on with the guards it has.
Kept(m) == Frame(m) /\ m.guards = top.guards /\ m.old = top.old
Fresh(c) == Frame(c) /\ c.guards \subseteq {"block"}

\* Replacing the top by a method with the same guards keeps the levels.
LEMMA KeptGuarded ==
  ASSUME IInv, stack # <<>>, NEW m, Kept(m), Disciplined(m)
  PROVE  Guarded(GoOn(m), loop_level)
<1> DEFINE s == GoOn(m)
           n == Len(stack)
<1>1. /\ n \in Nat /\ n >= 1 /\ top = stack[n] /\ Stacks(s) /\ Len(s) = n
      /\ \A i \in 1..n : s[i] = IF i = n THEN m ELSE stack[i]
  BY GoOnStack DEF IInv, Guarded
<1> HIDE DEF s, n
<1>2. \A i \in 1..n : s[i].guards = stack[i].guards /\ s[i].old = stack[i].old
  BY <1>1 DEF Kept
<1>3. \A i \in 0..n : Level(s, i) = Level(stack, i)
  <2> SUFFICES ASSUME NEW i \in 0..n PROVE Level(s, i) = Level(stack, i)
    OBVIOUS
  <2>1. i \in Nat /\ \A j \in 1..i : j \in 1..n
    BY <1>1
  <2>2. QED
    BY <1>2, <2>1, SameLevel
<1>4. \A i \in 1..n : i - 1 \in 0..n
  BY <1>1
<1>5. \A i \in 1..n : Disciplined(s[i])
  BY <1>1 DEF IInv, Guarded, n
<1>6. \A i \in 1..n : "function" \in s[i].guards => s[i].old = Level(s, i - 1)
  BY <1>2, <1>3, <1>4 DEF IInv, Guarded, n
<1>7. loop_level = Level(s, n)
  BY <1>1, <1>3 DEF IInv, Guarded, n
<1>8. QED
  BY <1>1, <1>5, <1>6, <1>7 DEF Guarded, s

\* A method that is called has no guard of a loop or a function.
LEMMA FreshGuarded ==
  ASSUME NEW s, NEW level, Guarded(s, level), NEW c, Fresh(c)
  PROVE  Guarded(Append(s, c), level)
<1> DEFINE r == Append(s, c)
           n == Len(s)
<1>1. /\ n \in Nat /\ Stacks(r) /\ Len(r) = n + 1
      /\ \A i \in 1..n : r[i] = s[i]
      /\ r[n + 1] = c
  BY AppendStack DEF Guarded
<1> HIDE DEF r
<1>2. "loop" \notin c.guards /\ "function" \notin c.guards
  BY DEF Fresh
<1>3. \A i \in 0..n : Level(r, i) = Level(s, i)
  <2> SUFFICES ASSUME NEW i \in 0..n PROVE Level(r, i) = Level(s, i)
    OBVIOUS
  <2>1. i \in Nat /\ \A j \in 1..i : j \in 1..n
    BY <1>1
  <2>2. QED
    BY <1>1, <2>1, SameLevel
<1>4. Level(r, n + 1) = Level(s, n)
  <2>1. n \in 0..n
    BY <1>1
  <2>2. Level(r, n + 1) = Level(r, n)
    BY <1>1, <1>2, NextLevel
  <2>3. QED
    BY <1>3, <2>1, <2>2
<1>5. \A i \in 1..(n + 1) : i \in 1..n \/ i = n + 1
  BY <1>1
<1>6. \A i \in 1..(n + 1) : Disciplined(r[i])
  BY <1>1, <1>2, <1>5 DEF Guarded, Disciplined, Fresh
<1>7. \A i \in 1..(n + 1) : "function" \in r[i].guards => r[i].old = Level(r, i - 1)
  <2>1. \A i \in 1..n : i - 1 \in 0..n
    BY <1>1
  <2>2. QED
    BY <1>1, <1>2, <1>3, <1>5, <2>1 DEF Guarded
<1>8. QED
  BY <1>1, <1>4, <1>6, <1>7 DEF Guarded, r

\* Every method that returns takes its guard back.
Returned ==
  /\ stack' = Without(stack)
  /\ loop_level' = IF "function" \in top.guards THEN top.old
                   ELSE IF "loop" \in top.guards THEN loop_level - 1
                   ELSE loop_level

\* A return keeps the invariant: the level becomes the one below the method.
LEMMA ReturnPreserves ==
  ASSUME IInv, stack # <<>>, Returned
  PROVE  IInv'
<1> DEFINE r == stack'
           n == Len(stack) - 1
<1>1. /\ n \in Nat /\ Len(stack) = n + 1 /\ top = stack[n + 1]
      /\ Stacks(r) /\ Len(r) = n
      /\ \A i \in 1..n : r[i] = stack[i]
  BY GoOnStack, ReturnStack DEF Returned, IInv, Guarded
<1>2. loop_level' = IF "function" \in top.guards THEN top.old
                    ELSE IF "loop" \in top.guards THEN loop_level - 1
                    ELSE loop_level
  BY DEF Returned
<1> HIDE DEF r, n
<1>3. \A i \in 0..n : Level(r, i) = Level(stack, i)
  <2> SUFFICES ASSUME NEW i \in 0..n PROVE Level(r, i) = Level(stack, i)
    OBVIOUS
  <2>1. i \in Nat /\ \A j \in 1..i : j \in 1..n
    BY <1>1
  <2>2. QED
    BY <1>1, <2>1, SameLevel
<1>4. n + 1 \in 1..Len(stack) /\ n \in 0..n
  BY <1>1
<1>5. loop_level' = Level(stack, n)
  <2>1. loop_level = Level(stack, n + 1) /\ Level(stack, n) \in Nat
    BY <1>1, NextLevel DEF IInv, Guarded
  <2>2. CASE "function" \in top.guards
    <3>1. top.old = Level(stack, n + 1 - 1) /\ n + 1 - 1 = n
      BY <1>1, <1>4, <2>2 DEF IInv, Guarded
    <3>2. QED
      BY <1>2, <2>2, <3>1
  <2>3. CASE "function" \notin top.guards
    <3>1. loop_level = IF "loop" \in top.guards THEN Level(stack, n) + 1 ELSE Level(stack, n)
      BY <1>1, <2>1, <2>3, NextLevel
    <3>2. QED
      BY <1>2, <2>1, <2>3, <3>1
  <2>4. QED
    BY <2>2, <2>3
<1>6. \A i \in 1..n : i \in 1..Len(stack) /\ i - 1 \in 0..n
  BY <1>1
<1>7. \A i \in 1..n : Disciplined(r[i])
  BY <1>1, <1>6 DEF IInv, Guarded
<1>8. \A i \in 1..n : "function" \in r[i].guards => r[i].old = Level(r, i - 1)
  BY <1>1, <1>3, <1>6 DEF IInv, Guarded
<1>9. Guarded(r, loop_level')
  BY <1>1, <1>3, <1>4, <1>5, <1>7, <1>8 DEF Guarded
<1>10. QED
  BY <1>9 DEF IInv, r

\* A method goes on, and calls one, two or none, at a point where its guards may be.
Follows(point) ==
  /\ top.at \in LoopPoints => point \in LoopPoints
  /\ top.at \in FunctionPoints /\ "function" \in top.guards => point \in FunctionPoints

\* Going on, with none, one or two callees, keeps the invariant.
LEMMA GoOnPreserves ==
  ASSUME IInv, stack # <<>>, loop_level' = loop_level, NEW m, Kept(m), Follows(m.at)
  PROVE  /\ stack' = GoOn(m) => IInv'
         /\ \A c : Fresh(c) /\ stack' = Append(GoOn(m), c) => IInv'
         /\ \A c, d : Fresh(c) /\ Fresh(d) /\ stack' = GoOn(m) \o <<c, d>> => IInv'
<1>1. Len(stack) \in 1..Len(stack) /\ top = stack[Len(stack)]
  BY GoOnStack DEF IInv, Guarded
<1>2. Disciplined(top)
  BY <1>1 DEF IInv, Guarded
<1>3. Disciplined(m)
  BY <1>2 DEF Kept, Disciplined, Follows
<1>4. Guarded(GoOn(m), loop_level)
  BY <1>3, KeptGuarded
<1> DEFINE s == GoOn(m)
<1>5. Guarded(s, loop_level)
  BY <1>4
<1> HIDE DEF s
<1>6. stack' = s => IInv'
  BY <1>5 DEF IInv
<1>7. ASSUME NEW c, Fresh(c), stack' = Append(s, c) PROVE IInv'
  <2>1. Guarded(Append(s, c), loop_level)
    BY <1>5, <1>7, FreshGuarded
  <2>2. QED
    BY <1>7, <2>1 DEF IInv
<1>8. ASSUME NEW c, NEW d, Fresh(c), Fresh(d), stack' = s \o <<c, d>> PROVE IInv'
  <2>1. Guarded(Append(s, c), loop_level)
    BY <1>5, <1>8, FreshGuarded
  <2>2. Guarded(Append(Append(s, c), d), loop_level)
    BY <1>8, <2>1, FreshGuarded
  <2>3. s \o <<c, d>> = Append(Append(s, c), d)
    BY <1>5, AppendTwice DEF Guarded
  <2>4. QED
    BY <1>8, <2>2, <2>3 DEF IInv
<1>9. QED
  BY <1>6, <1>7, <1>8 DEF s

\* The method on top has its guards at the points where it may.
LEMMA TopFrame ==
  ASSUME IInv, stack # <<>>
  PROVE  Disciplined(top) /\ Frame(top)
<1>1. Len(stack) \in 1..Len(stack) /\ top = stack[Len(stack)]
  BY GoOnStack DEF IInv, Guarded
<1>2. QED
  BY <1>1 DEF IInv, Guarded, Disciplined

\* GoTo and Call change the point of the top only.
LEMMA GoToPreserves ==
  ASSUME IInv, stack # <<>>, loop_level' = loop_level, NEW point, Follows(point)
  PROVE  /\ GoTo(point) => IInv'
         /\ \A c : Fresh(c) /\ Call(point, c) => IInv'
<1> DEFINE m == [top EXCEPT !.at = point]
<1>1. Kept(m) /\ m.at = point
  BY TopFrame DEF Kept, Frame
<1>2. GoTo(point) => stack' = GoOn(m)
  BY DEF GoTo
<1>3. \A c : Call(point, c) => stack' = Append(GoOn(m), c)
  BY DEF Call
<1> HIDE DEF m
<1>4. QED
  BY <1>1, <1>2, <1>3, GoOnPreserves

-----------------------------------------------------------------------------
(***************************************************************************)
(* The actions, by the part of the parser they belong to.                  *)
(***************************************************************************)
Special == LoopPoints \cup FunctionPoints

\* At a point where no loop or function is open any point may follow.
LEMMA PlainFollows ==
  ASSUME NEW p, At(p), p \notin Special
  PROVE  /\ stack # <<>> /\ top.at = p
         /\ \A point : Follows(point)
BY DEF At, Special, Follows

\* The methods that the actions call have at most the guard of a block.
LEMMA FreshMethods ==
  /\ \A point : Fresh(Method(point))
  /\ Fresh(Body) /\ Fresh([Body EXCEPT !.use = "emptyable"])
  /\ \A c : Fresh(c) => /\ Fresh([c EXCEPT !.guards = @ \cup {"block"}])
                        /\ Fresh([c EXCEPT !.guards = {"block"}])
                        /\ \A n : Fresh([c EXCEPT !.line = n])
                        /\ \A use : Fresh([c EXCEPT !.use = use])
<1>1. \A point : Fresh(Method(point))
  BY DEF Method, Fresh, Frame
<1>2. \A c : Fresh(c) => /\ Fresh([c EXCEPT !.guards = @ \cup {"block"}])
                        /\ Fresh([c EXCEPT !.guards = {"block"}])
                        /\ \A n : Fresh([c EXCEPT !.line = n])
                        /\ \A use : Fresh([c EXCEPT !.use = use])
  BY DEF Fresh, Frame
<1>3. Fresh(Body)
  BY <1>1, <1>2 DEF Body
<1>4. QED
  BY <1>1, <1>2, <1>3

\* WithBlock calls a method with the guard of a block.
LEMMA WithBlockPreserves ==
  ASSUME IInv, stack # <<>>, NEW point, Follows(point), NEW indent, NEW c, Fresh(c),
         WithBlock(point, indent, c)
  PROVE  IInv'
<1> DEFINE d == [c EXCEPT !.guards = @ \cup {"block"}]
<1>1. Fresh(d)
  BY FreshMethods
<1>2. Call(point, d) /\ loop_level' = loop_level
  BY DEF WithBlock
<1> HIDE DEF d
<1>3. QED
  BY <1>1, <1>2, GoToPreserves

\* Return, whatever is returned.
LEMMA ReturnReturns ==
  ASSUME IInv, stack # <<>>
  PROVE  \A something : Return(something) => IInv'
<1>1. SUFFICES ASSUME NEW something, Return(something) PROVE IInv'
  OBVIOUS
<1>2. Returned
  BY <1>1 DEF Return, Returned
<1>3. QED
  BY <1>2, ReturnPreserves

\* A step that touches neither the stack nor the level.
LEMMA StayPreserves ==
  ASSUME IInv, stack' = stack, loop_level' = loop_level
  PROVE  IInv'
BY DEF IInv

\* The lexer touches neither.
LEMMA LexPreserves ==
  ASSUME IInv, Lex PROVE IInv'
BY StayPreserves DEF Lex, ReadLine, EndOfSource, state

\* Assert takes a token or records an error, and goes on.
LEMMA AssertPreserves ==
  ASSUME IInv, stack # <<>>, NEW kind, NEW point, Follows(point), Assert(kind, point)
  PROVE  IInv'
<1> DEFINE m == [top EXCEPT !.at = point, !.ok = @ /\ Ahead(TRUE).is = kind]
<1>1. Kept(m) /\ m.at = point
  BY TopFrame DEF Kept, Frame
<1>2. stack' = GoOn(m) /\ loop_level' = loop_level
  BY DEF Assert, state
<1> HIDE DEF m
<1>3. QED
  BY <1>1, <1>2, GoOnPreserves

\* An expression without an operand returns or goes on.
LEMMA NoOperandPreserves ==
  ASSUME IInv, stack # <<>>, Follows("climb"), NoOperand
  PROVE  IInv'
<1> DEFINE m == [top EXCEPT !.at = "climb", !.ok = FALSE]
<1>1. Kept(m) /\ m.at = "climb"
  BY TopFrame DEF Kept, Frame
<1>2. \/ stack' = GoOn(m) /\ loop_level' = loop_level
      \/ \E something : Return(something)
  BY DEF NoOperand, state
<1> HIDE DEF m
<1>3. QED
  BY <1>1, <1>2, GoOnPreserves, ReturnReturns

\* What the level becomes with a guard.
LEMMA GuardedTop ==
  ASSUME IInv, stack # <<>>, "loop" \notin top.guards, "function" \notin top.guards,
         NEW m, Disciplined(m)
  PROVE  /\ ("loop" \in m.guards /\ "function" \notin m.guards)
              => Guarded(GoOn(m), loop_level + 1)
         /\ ("function" \in m.guards /\ m.old = loop_level) => Guarded(GoOn(m), 0)
<1> DEFINE s == GoOn(m)
           n == Len(stack) - 1
<1>1. /\ n \in Nat /\ Len(stack) = n + 1 /\ top = stack[n + 1] /\ Stacks(s) /\ Len(s) = n + 1
      /\ \A i \in 1..(n + 1) : s[i] = IF i = n + 1 THEN m ELSE stack[i]
  BY GoOnStack DEF IInv, Guarded
<1> HIDE DEF s, n
<1>2. \A i \in 1..(n + 1) : i \in 1..n \/ i = n + 1
  BY <1>1
<1>3. \A i \in 1..n : i \in 1..(n + 1) /\ i # n + 1 /\ i - 1 \in 0..n
  BY <1>1
<1>4. s[n + 1] = m /\ \A i \in 1..n : s[i] = stack[i]
  BY <1>1, <1>3
<1>5. \A i \in 0..n : Level(s, i) = Level(stack, i)
  <2> SUFFICES ASSUME NEW i \in 0..n PROVE Level(s, i) = Level(stack, i)
    OBVIOUS
  <2>1. i \in Nat /\ \A j \in 1..i : j \in 1..n
    BY <1>1
  <2>2. QED
    BY <1>4, <2>1, SameLevel
<1>6. n \in 0..n /\ n + 1 - 1 = n
  BY <1>1
<1>7. loop_level = Level(stack, n) /\ Level(s, n) = Level(stack, n)
  <2>1. loop_level = Level(stack, n + 1)
    BY <1>1 DEF IInv, Guarded
  <2>2. Level(stack, n + 1) = Level(stack, n)
    BY <1>1, NextLevel
  <2>3. QED
    BY <1>5, <1>6, <2>1, <2>2
<1>8. \A i \in 1..(n + 1) : Disciplined(s[i])
  BY <1>1, <1>2, <1>3, <1>4 DEF IInv, Guarded
<1>9. \A i \in 1..n : "function" \in s[i].guards => s[i].old = Level(s, i - 1)
  BY <1>1, <1>3, <1>4, <1>5 DEF IInv, Guarded
<1>10. "loop" \in m.guards /\ "function" \notin m.guards => Guarded(s, loop_level + 1)
  <2> SUFFICES ASSUME "loop" \in m.guards, "function" \notin m.guards
               PROVE  Guarded(s, loop_level + 1)
    OBVIOUS
  <2>1. Level(s, n + 1) = Level(s, n) + 1
    BY <1>1, <1>4, NextLevel
  <2>2. QED
    BY <1>1, <1>2, <1>4, <1>7, <1>8, <1>9, <2>1 DEF Guarded
<1>11. "function" \in m.guards /\ m.old = loop_level => Guarded(s, 0)
  <2> SUFFICES ASSUME "function" \in m.guards, m.old = loop_level PROVE Guarded(s, 0)
    OBVIOUS
  <2>1. Level(s, n + 1) = 0
    BY <1>1, <1>4, NextLevel
  <2>2. QED
    BY <1>1, <1>2, <1>4, <1>6, <1>7, <1>8, <1>9, <2>1 DEF Guarded
<1>12. QED
  BY <1>10, <1>11 DEF s

\* A loop begins one level up.
LEMMA LoopBegins ==
  ASSUME IInv, stack # <<>>, top.at = "for", loop_level' = loop_level + 1,
         stack' = Append(GoOn([top EXCEPT !.at = "for body", !.guards = @ \cup {"loop"}]),
                         Method("condition"))
  PROVE  IInv'
<1> DEFINE m == [top EXCEPT !.at = "for body", !.guards = @ \cup {"loop"}]
           c == Method("condition")
<1>1. "loop" \notin top.guards /\ "function" \notin top.guards
  BY TopFrame DEF Disciplined, LoopPoints, FunctionPoints
<1>2. Disciplined(m) /\ "loop" \in m.guards /\ "function" \notin m.guards
  BY <1>1, TopFrame DEF Disciplined, Frame, LoopPoints, FunctionPoints
<1>3. Fresh(c)
  BY FreshMethods
<1>4. stack' = Append(GoOn(m), c)
  OBVIOUS
<1> HIDE DEF m, c
<1>5. Guarded(GoOn(m), loop_level')
  BY <1>1, <1>2, GuardedTop
<1>6. Guarded(stack', loop_level')
  BY <1>3, <1>4, <1>5, FreshGuarded
<1>7. QED
  BY <1>6 DEF IInv

\* A function begins at level 0 and keeps the level around in old.
LEMMA FunctionBegins ==
  ASSUME IInv, stack # <<>>, top.at = "signature", loop_level' = 0,
         stack' = GoOn([top EXCEPT !.at = "type?", !.guards = @ \cup {"function"},
                                   !.old = loop_level])
  PROVE  IInv'
<1> DEFINE m == [top EXCEPT !.at = "type?", !.guards = @ \cup {"function"}, !.old = loop_level]
<1>1. "loop" \notin top.guards /\ "function" \notin top.guards
  BY TopFrame DEF Disciplined, LoopPoints, FunctionPoints
<1>2. Disciplined(m) /\ "function" \in m.guards /\ m.old = loop_level
  BY <1>1, TopFrame DEF Disciplined, Frame, LoopPoints, FunctionPoints
<1>3. stack' = GoOn(m)
  OBVIOUS
<1> HIDE DEF m
<1>4. Guarded(stack', loop_level')
  BY <1>1, <1>2, <1>3, GuardedTop
<1>5. QED
  BY <1>4 DEF IInv

\* Programs, blocks, the ends of statements and recovery.
LEMMA BlocksPreserve ==
  ASSUME IInv, Blocks PROVE IInv'
<1>1. ASSUME Program PROVE IInv'
  <2>1. stack # <<>> /\ \A point : Follows(point)
    BY <1>1, PlainFollows DEF Program, Runs, Special, LoopPoints, FunctionPoints
  <2> DEFINE c == [Method("block") EXCEPT
                     !.line = IF AfterBreak[1].is = "Indent" THEN top.line ELSE -1]
  <2>2. Fresh(c)
    BY FreshMethods
  <2>3. WithBlock("program end", StatementIndent, c) \/ \E something : Return(something)
    BY <1>1 DEF Program
  <2> HIDE DEF c
  <2>4. QED
    BY <2>1, <2>2, <2>3, WithBlockPreserves, ReturnReturns
<1>2. ASSUME ProgramEnd PROVE IInv'
  <2>1. stack # <<>> /\ Return(result)
    BY <1>2 DEF ProgramEnd, Runs, At
  <2>2. QED
    BY <2>1, ReturnReturns
<1>3. ASSUME BlockEnd PROVE IInv'
  <2>1. stack # <<>> /\ Return(top.some)
    BY <1>3 DEF BlockEnd, Runs, At
  <2>2. QED
    BY <2>1, ReturnReturns
<1>4. ASSUME CurrentBlockStatement PROVE IInv'
  <2>1. stack # <<>> /\ Follows("append")
    BY <1>4, PlainFollows DEF CurrentBlockStatement, Runs, Special, LoopPoints, FunctionPoints
  <2>2. Call("append", Method("statement")) /\ loop_level' = loop_level
    BY <1>4 DEF CurrentBlockStatement, state
  <2>3. QED
    BY <2>1, <2>2, FreshMethods, GoToPreserves
<1>5. ASSUME UnexpectIndent PROVE IInv'
  <2>1. stack # <<>> /\ Follows("block")
    BY <1>5, PlainFollows DEF UnexpectIndent, Runs, Special, LoopPoints, FunctionPoints
  <2>2. WithBlock("block", Ahead(FALSE).at, Method("statement"))
    BY <1>5 DEF UnexpectIndent
  <2>3. QED
    BY <2>1, <2>2, FreshMethods, WithBlockPreserves
<1>6. ASSUME AppendStatement PROVE IInv'
  <2> DEFINE m == [top EXCEPT !.at = "block", !.some = @ \/ result]
  <2>1. stack # <<>> /\ Follows("block")
    BY <1>6, PlainFollows DEF AppendStatement, Runs, Special, LoopPoints, FunctionPoints
  <2>2. Kept(m) /\ m.at = "block"
    BY <2>1, TopFrame DEF Kept, Frame
  <2>3. stack' = GoOn(m) /\ loop_level' = loop_level
    BY <1>6 DEF AppendStatement, state
  <2> HIDE DEF m
  <2>4. QED
    BY <2>1, <2>2, <2>3, FreshMethods, GoOnPreserves
<1>7. ASSUME Statement PROVE IInv'
  <2>1. stack # <<>> /\ \A point : Follows(point)
    BY <1>7, PlainFollows DEF Statement, Runs, Special, LoopPoints, FunctionPoints
  <2> DEFINE m == [top EXCEPT !.at = Dispatch[Ahead(TRUE).is], !.line = Ahead(TRUE).line]
             d == [top EXCEPT !.at = "assign?"]
  <2>2. Kept(m) /\ Kept(d)
    BY <2>1, TopFrame DEF Kept, Frame
  <2>3. \/ \E something : Return(something)
        \/ stack' = GoOn(m) /\ loop_level' = loop_level
        \/ stack' = Append(GoOn(d), Method("expression")) /\ loop_level' = loop_level
    BY <1>7 DEF Statement, state
  <2> HIDE DEF m, d
  <2>4. QED
    BY <2>1, <2>2, <2>3, FreshMethods, GoOnPreserves, ReturnReturns
<1>8. ASSUME AssertStatementEnd PROVE IInv'
  <2>1. stack # <<>> /\ Follows("recover")
    BY <1>8, PlainFollows DEF AssertStatementEnd, Runs, Special, LoopPoints, FunctionPoints
  <2>2. Return(top.ok) \/ (GoTo("recover") /\ loop_level' = loop_level)
    BY <1>8 DEF AssertStatementEnd, state
  <2>3. QED
    BY <2>1, <2>2, GoToPreserves, ReturnReturns
<1>9. ASSUME RecoverFromStatement PROVE IInv'
  <2>1. stack # <<>>
    BY <1>9 DEF RecoverFromStatement, Runs, At
  <2>2. (\E something : Return(something)) \/ (stack' = stack /\ loop_level' = loop_level)
    BY <1>9 DEF RecoverFromStatement, state
  <2>3. QED
    BY <2>1, <2>2, StayPreserves, ReturnReturns
<1>10. ASSUME CheckNext PROVE IInv'
  <2>1. stack # <<>> /\ Follows("stop")
    BY <1>10, PlainFollows DEF CheckNext, Runs, Special, LoopPoints, FunctionPoints
  <2>2. (\E something : Return(something)) \/ (GoTo("stop") /\ loop_level' = loop_level)
    BY <1>10 DEF CheckNext, state
  <2>3. QED
    BY <2>1, <2>2, GoToPreserves, ReturnReturns
<1>11. ASSUME Recover PROVE IInv'
  <2>1. stack # <<>>
    BY <1>11 DEF Recover, Runs, At
  <2>2. (\E something : Return(something)) \/ (stack' = stack /\ loop_level' = loop_level)
    BY <1>11 DEF Recover, state
  <2>3. QED
    BY <2>1, <2>2, StayPreserves, ReturnReturns
<1>12. QED
  BY <1>1, <1>2, <1>3, <1>4, <1>5, <1>6, <1>7, <1>8, <1>9, <1>10,
     <1>11
  DEF Blocks

\* Expressions and assignments.
LEMMA ExpressionsPreserve ==
  ASSUME IInv, Expressions PROVE IInv'
<1>1. ASSUME PrimaryExpr PROVE IInv'
  <2>1. stack # <<>> /\ \A point : Follows(point)
    BY <1>1, PlainFollows DEF PrimaryExpr, Runs, Special, LoopPoints, FunctionPoints
  <2>2. NoOperand \/ ((\E point : GoTo(point)) /\ loop_level' = loop_level)
    BY <1>1 DEF PrimaryExpr, state
  <2>3. QED
    BY <2>1, <2>2, NoOperandPreserves, GoToPreserves
<1>2. ASSUME Parameter PROVE IInv'
  <2>1. stack # <<>> /\ Follows("climb")
    BY <1>2, PlainFollows DEF Parameter, Runs, Special, LoopPoints, FunctionPoints
  <2>2. loop_level' = loop_level /\ (stack' = stack \/ GoTo("climb"))
    BY <1>2 DEF Parameter, state
  <2>3. QED
    BY <2>1, <2>2, StayPreserves, GoToPreserves
<1>3. ASSUME UnaryOperation PROVE IInv'
  <2>1. stack # <<>> /\ \A point : Follows(point)
    BY <1>3, PlainFollows DEF UnaryOperation, Runs, Special, LoopPoints, FunctionPoints
  <2>2. NoOperand \/ (loop_level' = loop_level /\ (stack' = stack \/ \E point : GoTo(point)))
    BY <1>3 DEF UnaryOperation, state
  <2>3. QED
    BY <2>1, <2>2, NoOperandPreserves, StayPreserves, GoToPreserves
<1>4. ASSUME PrecedenceClimb PROVE IInv'
  <2> DEFINE m == [top EXCEPT !.at = "expression", !.some = TRUE]
  <2>1. stack # <<>> /\ \A point : Follows(point)
    BY <1>4, PlainFollows DEF PrecedenceClimb, Runs, Special, LoopPoints, FunctionPoints
  <2>2. Kept(m)
    BY <2>1, TopFrame DEF Kept, Frame
  <2>3. Return(top.ok) \/ (stack' = GoOn(m) /\ loop_level' = loop_level)
    BY <1>4 DEF PrecedenceClimb, state
  <2> HIDE DEF m
  <2>4. QED
    BY <2>1, <2>2, <2>3, GoOnPreserves, ReturnReturns
<1>5. ASSUME Assignment PROVE IInv'
  <2> DEFINE m == [top EXCEPT !.at = IF cache' # cache THEN "assigned" ELSE "end", !.ok = result]
  <2>1. stack # <<>> /\ \A point : Follows(point)
    BY <1>5, PlainFollows DEF Assignment, Runs, Special, LoopPoints, FunctionPoints
  <2>2. Kept(m)
    BY <2>1, TopFrame DEF Kept, Frame
  <2>3. /\ stack' = IF cache' # cache THEN Append(GoOn(m), Method("expression")) ELSE GoOn(m)
        /\ loop_level' = loop_level
    BY <1>5 DEF Assignment, state
  <2> HIDE DEF m
  <2>4. QED
    BY <2>1, <2>2, <2>3, FreshMethods, GoOnPreserves
<1>6. ASSUME Assigned PROVE IInv'
  <2> DEFINE m == [top EXCEPT !.at = "end", !.ok = @ /\ result]
  <2>1. stack # <<>> /\ Follows("end")
    BY <1>6, PlainFollows DEF Assigned, Runs, Special, LoopPoints, FunctionPoints
  <2>2. Kept(m) /\ m.at = "end"
    BY <2>1, TopFrame DEF Kept, Frame
  <2>3. stack' = GoOn(m) /\ loop_level' = loop_level
    BY <1>6 DEF Assigned, state
  <2> HIDE DEF m
  <2>4. QED
    BY <2>1, <2>2, <2>3, FreshMethods, GoOnPreserves
<1>7. QED
  BY <1>1, <1>2, <1>3, <1>4, <1>5, <1>6 DEF Expressions

\* Definitions, signatures, function bodies and return.
LEMMA DefinitionsPreserve ==
  ASSUME IInv, Definitions PROVE IInv'
<1>1. ASSUME Definition PROVE IInv'
  <2>1. stack # <<>> /\ Follows("define")
    BY <1>1, PlainFollows DEF Definition, Runs, Special, LoopPoints, FunctionPoints
  <2>2. GoTo("define") /\ loop_level' = loop_level
    BY <1>1 DEF Definition, state
  <2>3. QED
    BY <2>1, <2>2, GoToPreserves
<1>2. ASSUME Define PROVE IInv'
  <2>1. stack # <<>> /\ Follows("name")
    BY <1>2, PlainFollows DEF Define, Runs, Special, LoopPoints, FunctionPoints
  <2>2. QED
    BY <1>2, <2>1, AssertPreserves DEF Define
<1>3. ASSUME Name PROVE IInv'
  <2>1. stack # <<>> /\ Follows("signature")
    BY <1>3, PlainFollows DEF Name, Runs, Special, LoopPoints, FunctionPoints
  <2>2. QED
    BY <1>3, <2>1, AssertPreserves DEF Name
<1>4. ASSUME Signature PROVE IInv'
  <2>1. stack # <<>> /\ \A point : Follows(point)
    BY <1>4, PlainFollows DEF Signature, Runs, Special, LoopPoints, FunctionPoints
  <2>2. top.at = "signature"
    BY <1>4 DEF Signature, Runs, At
  <2>3. CASE Ahead(TRUE).is = "Unit"
    <3>1. /\ stack' = GoOn([top EXCEPT !.at = "type?", !.guards = @ \cup {"function"},
                                       !.old = loop_level])
          /\ loop_level' = 0
      BY <1>4, <2>3 DEF Signature
    <3>2. QED
      BY <2>1, <2>2, <3>1, FunctionBegins
  <2>4. CASE Ahead(TRUE).is # "Unit"
    BY <1>4, <2>1, <2>4, GoToPreserves DEF Signature
  <2>5. QED
    BY <2>3, <2>4
<1>5. ASSUME OptionalTypeInDef PROVE IInv'
  <2> DEFINE m == [top EXCEPT !.at = "typed"]
             c == [Method("check") EXCEPT !.use = "type"]
             d == Method("type")
  <2>1. stack # <<>> /\ Follows("typed") /\ Follows("equals")
    BY <1>5 DEF OptionalTypeInDef, Runs, At, Follows, LoopPoints, FunctionPoints
  <2>2. Kept(m) /\ m.at = "typed" /\ Fresh(c) /\ Fresh(d)
    BY <2>1, TopFrame, FreshMethods DEF Kept, Frame
  <2>3. (stack' = GoOn(m) \o <<c, d>> \/ GoTo("equals")) /\ loop_level' = loop_level
    BY <1>5 DEF OptionalTypeInDef, WithRecovery, state
  <2> HIDE DEF m, c, d
  <2>4. QED
    BY <2>1, <2>2, <2>3, GoOnPreserves, GoToPreserves
<1>6. ASSUME TypeExpression PROVE IInv'
  <2>1. stack # <<>> /\ Return(Ahead(TRUE).is = "Unit")
    BY <1>6 DEF TypeExpression, Runs, At
  <2>2. QED
    BY <2>1, ReturnReturns
<1>7. ASSUME Typed PROVE IInv'
  <2> DEFINE m == [top EXCEPT !.at = "equals", !.ok = @ /\ result]
  <2>1. stack # <<>> /\ Follows("equals")
    BY <1>7 DEF Typed, Runs, At, Follows, LoopPoints, FunctionPoints
  <2>2. Kept(m) /\ m.at = "equals"
    BY <2>1, TopFrame DEF Kept, Frame
  <2>3. stack' = GoOn(m) \o <<>> /\ loop_level' = loop_level
    BY <1>7 DEF Typed, Then, state
  <2> HIDE DEF m
  <2>4. stack' = GoOn(m)
    BY <2>1, <2>3, GoOnStack, AppendStack DEF IInv, Guarded
  <2>5. QED
    BY <2>1, <2>2, <2>3, <2>4, GoOnPreserves
<1>8. ASSUME FunctionDef PROVE IInv'
  <2>1. stack # <<>> /\ Follows("function end")
    BY <1>8 DEF FunctionDef, Runs, At, Follows, LoopPoints, FunctionPoints
  <2>2. QED
    BY <1>8, <2>1, AssertPreserves DEF FunctionDef
<1>9. ASSUME FunctionBody PROVE IInv'
  <2> DEFINE m == [top EXCEPT !.some = TRUE]
  <2>1. stack # <<>> /\ top.at = "function end" /\ Follows("function end")
    BY <1>9 DEF FunctionBody, Runs, At, Follows, LoopPoints, FunctionPoints
  <2>2. Kept(m) /\ m.at = "function end"
    BY <2>1, TopFrame DEF Kept, Frame
  <2>3. stack' = Append(GoOn(m), Body) /\ loop_level' = loop_level
    BY <1>9 DEF FunctionBody, state
  <2> HIDE DEF m
  <2>4. QED
    BY <2>1, <2>2, <2>3, FreshMethods, GoOnPreserves
<1>10. ASSUME FunctionEnd PROVE IInv'
  <2>1. stack # <<>> /\ Return(top.ok)
    BY <1>10 DEF FunctionEnd, Runs, At
  <2>2. QED
    BY <2>1, ReturnReturns
<1>11. ASSUME VariableDef PROVE IInv'
  <2>1. stack # <<>> /\ \A point : Follows(point)
    BY <1>11 DEF VariableDef, Runs, At, Follows, LoopPoints
  <2>2. /\ Call("variable end", Method("expression")) \/ GoTo("recover")
        /\ loop_level' = loop_level
    BY <1>11 DEF VariableDef, state
  <2>3. QED
    BY <2>1, <2>2, FreshMethods, GoToPreserves
<1>12. ASSUME ValueEnd PROVE IInv'
  <2>1. stack # <<>> /\ \A point : Follows(point)
    BY <1>12, PlainFollows DEF ValueEnd, Runs, Special, LoopPoints, FunctionPoints
  <2>2. (\E point : GoTo(point)) /\ loop_level' = loop_level
    BY <1>12 DEF ValueEnd, state
  <2>3. QED
    BY <2>1, <2>2, GoToPreserves
<1>13. ASSUME ReturnStmt PROVE IInv'
  <2>1. stack # <<>> /\ Follows("after return")
    BY <1>13, PlainFollows DEF ReturnStmt, Runs, Special, LoopPoints, FunctionPoints
  <2>2. GoTo("after return") /\ loop_level' = loop_level
    BY <1>13 DEF ReturnStmt, state
  <2>3. QED
    BY <2>1, <2>2, GoToPreserves
<1>14. ASSUME ReturnValue PROVE IInv'
  <2>1. stack # <<>> /\ Follows("return value")
    BY <1>14, PlainFollows DEF ReturnValue, Runs, Special, LoopPoints, FunctionPoints
  <2>2. \/ \E something : Return(something)
        \/ Call("return value", Method("expression")) /\ loop_level' = loop_level
    BY <1>14 DEF ReturnValue, state
  <2>3. QED
    BY <2>1, <2>2, FreshMethods, GoToPreserves, ReturnReturns
<1>15. QED
  BY <1>1, <1>2, <1>3, <1>4, <1>5, <1>6, <1>7, <1>8, <1>9, <1>10,
     <1>11, <1>12, <1>13, <1>14
  DEF Definitions

\* If, for, switch, break and continue.
LEMMA ControlPreserves ==
  ASSUME IInv, Control PROVE IInv'
<1>1. ASSUME Condition PROVE IInv'
  <2> DEFINE m == [top EXCEPT !.at = "line break or"]
             c == [Method("check") EXCEPT !.use = "condition"]
             d == Method("expression")
  <2>1. stack # <<>> /\ \A point : Follows(point)
    BY <1>1, PlainFollows DEF Condition, Runs, Special, LoopPoints, FunctionPoints
  <2>2. Kept(m) /\ Fresh(c) /\ Fresh(d)
    BY <2>1, TopFrame, FreshMethods DEF Kept, Frame
  <2>3. stack' = GoOn(m) \o <<c, d>> /\ loop_level' = loop_level
    BY <1>1 DEF Condition, WithRecovery, state
  <2> HIDE DEF m, c, d
  <2>4. QED
    BY <2>1, <2>2, <2>3, GoOnPreserves
<1>2. ASSUME LineBreakOr PROVE IInv'
  <2> DEFINE m == [top EXCEPT !.at = "line break", !.ok = result]
  <2>1. stack # <<>> /\ \A point : Follows(point)
    BY <1>2, PlainFollows DEF LineBreakOr, Runs, Special, LoopPoints, FunctionPoints
  <2>2. Kept(m)
    BY <2>1, TopFrame DEF Kept, Frame
  <2>3. Return(result) \/ (stack' = GoOn(m) /\ loop_level' = loop_level)
    BY <1>2 DEF LineBreakOr, state
  <2> HIDE DEF m
  <2>4. QED
    BY <2>1, <2>2, <2>3, GoOnPreserves, ReturnReturns
<1>3. ASSUME LineBreak PROVE IInv'
  <2>1. stack # <<>> /\ Return(top.ok)
    BY <1>3 DEF LineBreak, Runs, At
  <2>2. QED
    BY <2>1, ReturnReturns
<1>4. ASSUME If PROVE IInv'
  <2>1. stack # <<>> /\ Follows("then")
    BY <1>4, PlainFollows DEF If, Runs, Special, LoopPoints, FunctionPoints
  <2>2. Call("then", Method("condition")) /\ loop_level' = loop_level
    BY <1>4 DEF If, state
  <2>3. QED
    BY <2>1, <2>2, FreshMethods, GoToPreserves
<1>5. ASSUME TrueBody PROVE IInv'
  <2> DEFINE m == [top EXCEPT !.at = "else?", !.ok = @ /\ result]
  <2>1. stack # <<>> /\ Follows("else?")
    BY <1>5 DEF TrueBody, Runs, At, Follows, LoopPoints, FunctionPoints
  <2>2. Kept(m) /\ m.at = "else?"
    BY <2>1, TopFrame DEF Kept, Frame
  <2>3. stack' = GoOn(m) \o <<Body>> /\ loop_level' = loop_level
    BY <1>5 DEF TrueBody, Then, state
  <2> HIDE DEF m
  <2>4. stack' = Append(GoOn(m), Body)
    BY <2>1, <2>3, GoOnStack, AppendStack DEF IInv, Guarded
  <2>5. QED
    BY <2>1, <2>2, <2>3, <2>4, FreshMethods, GoOnPreserves
<1>6. ASSUME OptionalElse PROVE IInv'
  <2> DEFINE m == [top EXCEPT !.at = "if end", !.ok = @ /\ result]
             c == [Method("else") EXCEPT !.line = Ahead(TRUE).line]
             d == IF StatementIndent > CurrentIndent THEN [c EXCEPT !.guards = {"block"}] ELSE c
  <2>1. stack # <<>> /\ \A point : Follows(point)
    BY <1>6, PlainFollows DEF OptionalElse, Runs, Special, LoopPoints, FunctionPoints
  <2>2. Kept(m)
    BY <2>1, TopFrame DEF Kept, Frame
  <2>3. Fresh(c)
    BY FreshMethods
  <2>4. \/ \E something : Return(something)
        \/ stack' = Append(GoOn(m), d) /\ loop_level' = loop_level
    BY <1>6 DEF OptionalElse
  <2> HIDE DEF m, c
  <2>5. Fresh(d)
    BY <2>3, FreshMethods
  <2> HIDE DEF d
  <2>6. QED
    BY <2>1, <2>2, <2>4, <2>5, GoOnPreserves, ReturnReturns
<1>7. ASSUME Else PROVE IInv'
  <2>1. stack # <<>> /\ \A point : Follows(point)
    BY <1>7, PlainFollows DEF Else, Runs, Special, LoopPoints, FunctionPoints
  <2>2. (\E point : GoTo(point)) /\ loop_level' = loop_level
    BY <1>7 DEF Else, state
  <2>3. QED
    BY <2>1, <2>2, GoToPreserves
<1>8. ASSUME OptionalColon PROVE IInv'
  <2>1. stack # <<>> /\ Follows("program")
    BY <1>8, PlainFollows DEF OptionalColon, Runs, Special, LoopPoints, FunctionPoints
  <2>2. GoTo("program") /\ loop_level' = loop_level
    BY <1>8 DEF OptionalColon, state
  <2>3. QED
    BY <2>1, <2>2, GoToPreserves
<1>9. ASSUME IfEnd PROVE IInv'
  <2>1. stack # <<>> /\ Return(top.ok)
    BY <1>9 DEF IfEnd, Runs, At
  <2>2. QED
    BY <2>1, ReturnReturns
<1>10. ASSUME For PROVE IInv'
  <2>1. stack # <<>> /\ top.at = "for"
    BY <1>10 DEF For, Runs, At
  <2>2. /\ loop_level' = loop_level + 1
        /\ stack' = Append(GoOn([top EXCEPT !.at = "for body", !.guards = @ \cup {"loop"}]),
                           Method("condition"))
    BY <1>10 DEF For
  <2>3. QED
    BY <2>1, <2>2, LoopBegins
<1>11. ASSUME ForBody PROVE IInv'
  <2> DEFINE m == [top EXCEPT !.at = "for end", !.ok = @ /\ result]
  <2>1. stack # <<>> /\ Follows("for end")
    BY <1>11 DEF ForBody, Runs, At, Follows, LoopPoints, FunctionPoints
  <2>2. Kept(m) /\ m.at = "for end"
    BY <2>1, TopFrame DEF Kept, Frame
  <2>3. stack' = GoOn(m) \o <<Body>> /\ loop_level' = loop_level
    BY <1>11 DEF ForBody, Then, state
  <2> HIDE DEF m
  <2>4. stack' = Append(GoOn(m), Body)
    BY <2>1, <2>3, GoOnStack, AppendStack DEF IInv, Guarded
  <2>5. QED
    BY <2>1, <2>2, <2>3, <2>4, FreshMethods, GoOnPreserves
<1>12. ASSUME BodyEnd PROVE IInv'
  <2>1. stack # <<>> /\ Return(top.ok /\ result)
    BY <1>12 DEF BodyEnd, Runs, At
  <2>2. QED
    BY <2>1, ReturnReturns
<1>13. ASSUME Switch PROVE IInv'
  <2> DEFINE m == [top EXCEPT !.at = "cases?"]
             c == [Method("check") EXCEPT !.use = "switched"]
             d == Method("expression")
  <2>1. stack # <<>> /\ \A point : Follows(point)
    BY <1>13, PlainFollows DEF Switch, Runs, Special, LoopPoints, FunctionPoints
  <2>2. Kept(m) /\ Fresh(c) /\ Fresh(d)
    BY <2>1, TopFrame, FreshMethods DEF Kept, Frame
  <2>3. stack' = GoOn(m) \o <<c, d>> /\ loop_level' = loop_level
    BY <1>13 DEF Switch, WithRecovery, state
  <2> HIDE DEF m, c, d
  <2>4. QED
    BY <2>1, <2>2, <2>3, GoOnPreserves
<1>14. ASSUME SwitchCases PROVE IInv'
  <2> DEFINE m == [top EXCEPT !.at = "switch end", !.ok = result]
             c == [Method("cases") EXCEPT !.guards = {"block"}]
  <2>1. stack # <<>> /\ \A point : Follows(point)
    BY <1>14, PlainFollows DEF SwitchCases, Runs, Special, LoopPoints, FunctionPoints
  <2>2. Kept(m) /\ Fresh(c)
    BY <2>1, TopFrame, FreshMethods DEF Kept, Frame
  <2>3. \/ \E something : Return(something)
        \/ stack' = Append(GoOn(m), c) /\ loop_level' = loop_level
    BY <1>14 DEF SwitchCases
  <2> HIDE DEF m, c
  <2>4. QED
    BY <2>1, <2>2, <2>3, GoOnPreserves, ReturnReturns
<1>15. ASSUME Cases PROVE IInv'
  <2>1. stack # <<>> /\ \A point : Follows(point)
    BY <1>15, PlainFollows DEF Cases, Runs, Special, LoopPoints, FunctionPoints
  <2>2. \/ \E something : Return(something)
        \/ \E indent : WithBlock("cases", indent, Method("case"))
        \/ Call("append case", Method("case")) /\ loop_level' = loop_level
    BY <1>15 DEF Cases, state
  <2>3. QED
    BY <2>1, <2>2, FreshMethods, WithBlockPreserves, GoToPreserves, ReturnReturns
<1>16. ASSUME AppendCase PROVE IInv'
  <2> DEFINE m == [top EXCEPT !.at = "cases", !.some = @ \/ result]
  <2>1. stack # <<>> /\ Follows("cases")
    BY <1>16, PlainFollows DEF AppendCase, Runs, Special, LoopPoints, FunctionPoints
  <2>2. Kept(m) /\ m.at = "cases"
    BY <2>1, TopFrame DEF Kept, Frame
  <2>3. stack' = GoOn(m) /\ loop_level' = loop_level
    BY <1>16 DEF AppendCase, state
  <2> HIDE DEF m
  <2>4. QED
    BY <2>1, <2>2, <2>3, FreshMethods, GoOnPreserves
<1>17. ASSUME Case PROVE IInv'
  <2> DEFINE m == [top EXCEPT !.at = IF Ahead(TRUE).is = "Default" THEN "colon" ELSE "case body",
                              !.line = Ahead(TRUE).line]
  <2>1. stack # <<>> /\ \A point : Follows(point)
    BY <1>17, PlainFollows DEF Case, Runs, Special, LoopPoints, FunctionPoints
  <2>2. Kept(m)
    BY <2>1, TopFrame DEF Kept, Frame
  <2>3. /\ stack' = GoOn(m) \/ stack' = Append(GoOn(m), Method("condition"))
        /\ loop_level' = loop_level
    BY <1>17 DEF Case, state
  <2> HIDE DEF m
  <2>4. QED
    BY <2>1, <2>2, <2>3, FreshMethods, GoOnPreserves
<1>18. ASSUME CaseBody PROVE IInv'
  <2> DEFINE m == [top EXCEPT !.at = "case end", !.ok = @ /\ result]
             c == [Body EXCEPT !.use = "emptyable"]
  <2>1. stack # <<>> /\ Follows("case end")
    BY <1>18, PlainFollows DEF CaseBody, Runs, Special, LoopPoints, FunctionPoints
  <2>2. Kept(m) /\ m.at = "case end" /\ Fresh(c)
    BY <2>1, TopFrame, FreshMethods DEF Kept, Frame
  <2>3. \/ \E something : Return(something)
        \/ stack' = GoOn(m) \o <<c>> /\ loop_level' = loop_level
    BY <1>18 DEF CaseBody, Then, state
  <2> HIDE DEF m, c
  <2>4. GoOn(m) \o <<c>> = Append(GoOn(m), c)
    BY <2>1, GoOnStack, AppendStack DEF IInv, Guarded
  <2>5. QED
    BY <2>1, <2>2, <2>3, <2>4, GoOnPreserves, ReturnReturns
<1>19. ASSUME CaseEnd PROVE IInv'
  <2>1. stack # <<>> /\ \E something : Return(something)
    BY <1>19 DEF CaseEnd, Runs, At
  <2>2. QED
    BY <2>1, ReturnReturns
<1>20. ASSUME LoopControl PROVE IInv'
  <2>1. stack # <<>> /\ Follows("level?")
    BY <1>20, PlainFollows DEF LoopControl, Runs, Special, LoopPoints, FunctionPoints
  <2>2. GoTo("level?") /\ loop_level' = loop_level
    BY <1>20 DEF LoopControl, state
  <2>3. QED
    BY <2>1, <2>2, GoToPreserves
<1>21. ASSUME LoopLevel PROVE IInv'
  <2> DEFINE m == [top EXCEPT !.at = "end", !.ok = Ahead(FALSE).number <= loop_level]
  <2>1. stack # <<>> /\ \A point : Follows(point)
    BY <1>21, PlainFollows DEF LoopLevel, Runs, Special, LoopPoints, FunctionPoints
  <2>2. Kept(m)
    BY <2>1, TopFrame DEF Kept, Frame
  <2>3. \/ \E something : Return(something)
        \/ stack' = GoOn(m) /\ loop_level' = loop_level
        \/ GoTo("recover") /\ loop_level' = loop_level
    BY <1>21 DEF LoopLevel, state
  <2> HIDE DEF m
  <2>4. QED
    BY <2>1, <2>2, <2>3, GoOnPreserves, GoToPreserves, ReturnReturns
<1>22. QED
  BY <1>1, <1>2, <1>3, <1>4, <1>5, <1>6, <1>7, <1>8, <1>9, <1>10,
     <1>11, <1>12, <1>13, <1>14, <1>15, <1>16, <1>17, <1>18, <1>19, <1>20, <1>21
  DEF Control

-----------------------------------------------------------------------------
\* The parser begins with one method and no loop.
LEMMA InitInv == Init => IInv
<1> SUFFICES ASSUME Init PROVE IInv
  OBVIOUS
<1> DEFINE m == Method("program")
<1>1. Frame(m) /\ m.guards = {}
  BY DEF Method, Frame
<1>2. stack = <<m>> /\ loop_level = 0
  BY DEF Init
<1> HIDE DEF m
<1>3. stack \in Seq({m}) /\ Len(stack) = 1 /\ stack[1] = m
  BY <1>2
<1>4. 1..1 = {1} /\ 1 \in 1..1
  OBVIOUS
<1>5. Disciplined(m)
  BY <1>1 DEF Disciplined
<1>6. Loops(stack, 1) = {}
  BY <1>1, <1>3, <1>4 DEF Loops
<1>7. Level(stack, 1) = 0
  BY <1>6, FS_EmptySet DEF Level
<1>8. QED
  BY <1>1, <1>2, <1>3, <1>4, <1>5, <1>7 DEF IInv, Guarded, Stacks

\* Every step keeps the invariant.
LEMMA NextInv == IInv /\ [Next]_vars => IInv'
<1> SUFFICES ASSUME IInv, [Next]_vars PROVE IInv'
  OBVIOUS
<1>1. CASE Next
  BY <1>1, LexPreserves, BlocksPreserve, ExpressionsPreserve, ControlPreserves,
     DefinitionsPreserve DEF Next
<1>2. CASE UNCHANGED vars
  BY <1>2, StayPreserves DEF vars
<1>3. QED
  BY <1>1, <1>2

\* The invariant says of the method on top what the property says.
LEMMA LevelCounts == IInv => LoopLevelCounts
<1> SUFFICES ASSUME IInv PROVE LoopLevelCounts
  OBVIOUS
<1>1. DOMAIN stack = 1..Len(stack)
  BY LenProperties DEF IInv, Guarded, Stacks
<1>2. {i \in DOMAIN stack : /\ "loop" \in stack[i].guards
                            /\ \A j \in i .. Len(stack) : "function" \notin stack[j].guards}
        = Loops(stack, Len(stack))
  BY <1>1 DEF Loops
<1>3. QED
  BY <1>2 DEF IInv, Guarded, Level, LoopLevelCounts

\* The loop level is the number of loops around in the function that is parsed, for
\* every source: For counts up, FunctionDef begins at 0, and the guards of both undo
\* it on every return, of a method that found an error and of one that did not.
THEOREM LoopLevels == Spec => []LoopLevelCounts
<1>1. Spec => []IInv
  BY InitInv, NextInv, PTL DEF Spec
<1>2. QED
  BY <1>1, LevelCounts, PTL

-----------------------------------------------------------------------------
(***************************************************************************)
(* The second invariant.  In every state: the types, the indents that the  *)
(* methods have pushed (Nested), and that the parser is at a keyword       *)
(* only when it has seen it.  Methods that wait for another are at none.   *)
(***************************************************************************)
Methods ==
  [at : Point, ok : BOOLEAN, some : BOOLEAN,
   use : {"", "emptyable"} \cup DOMAIN Nexts,
   guards : SUBSET {"block", "loop", "function"},
   old : Nat, line : Nat \cup {-1}]

CasePoints == {"cases", "append case"}

\* The n-th indent is not larger than the one pushed on it.
Rises(d, n, point) == d[n] <= d[n + 1] /\ (d[n] = d[n + 1] => point \in CasePoints)

Nested(s, d) ==
  /\ s \in Seq(Methods) /\ d \in Seq(Nat \cup {-1})
  /\ Len(d) = Opened(s, Len(s)) + 1
  /\ \A i \in 1 .. Len(s) : "block" \in s[i].guards => Rises(d, Opened(s, i), s[i].at)

Keywords == {"if", "for", "switch", "case", "loop control"}
Waits(s) == \A i \in 1 .. Len(s) - 1 : s[i].at \notin Keywords

IsSpace(t) == t.is \in Space
HasSolid(q) == \E i \in 1 .. Len(q) : ~IsSpace(q[i])

Formed ==
  /\ left \in Nat /\ ended \in BOOLEAN /\ result \in BOOLEAN /\ failed \in BOOLEAN
  /\ cache \in Seq(Token)
  /\ Nested(stack, indents) /\ Waits(stack)
  /\ stack # <<>> /\ top.at \in Keywords => HasSolid(cache)

(***************************************************************************)
(* While there is no error: the cache holds whole lines but for the        *)
(* beginning (Lines), each method was called where that happens (Called),  *)
(* has all of its parts, and finds the cache where it expects it (Placed). *)
(***************************************************************************)
\* A token that is the first one of its line.
Begins(t) == t.at = t.line

Lines(q, e) ==
  /\ q # <<>> /\ ~e => q[Len(q)].is = "LineBreak"
  /\ \A i \in 1 .. Len(q) :
       /\ q[i].is = "Indent" => i < Len(q) /\ ~IsSpace(q[i + 1]) /\ q[i].at = q[i + 1].at
       /\ q[i].is = "LineBreak" /\ i < Len(q) => q[i + 1].is = "Indent"
       /\ ~IsSpace(q[i]) /\ i < Len(q) /\ ~IsSpace(q[i + 1]) => ~Begins(q[i + 1])

\* The points at which a method may be that has called m.
Called(p, m) ==
  /\ m.at \in {"program", "program end"} =>
       IF m.use = "emptyable" THEN p = "case end"
       ELSE p \in {"parse", "else?", "for end", "case end", "function end", "if end", "append case"}
  /\ m.at = "colon" => p \in {"if end", "append case"} /\ m.use = ""
  /\ m.at = "else" => p = "if end" /\ m.use = ""
  /\ m.at \in {"if", "then", "else?", "if end"} => p \in {"append", "if end"} /\ m.use = ""
  /\ m.at \in {"statement", "for", "for body", "for end", "switch", "cases?", "switch end",
               "loop control", "level?", "export", "define", "name", "signature", "type?",
               "typed", "equals", "function end", "variable end", "return", "after return",
               "return value", "assign?", "assigned", "end"} => p = "append" /\ m.use = ""
  /\ m.at \in {"statement", "export", "define", "name", "signature", "type?", "typed", "equals"} =>
       ~m.some
  /\ m.at \in {"block", "append"} => p = "program end"
  /\ m.at \in {"expression", "parameters", "unary", "climb", "crashed"} =>
       p \in {"assign?", "assigned", "variable end", "return value", "check"}
  /\ m.at = "type" => p = "check"
  /\ m.at \in {"check", "stop"} =>
       /\ m.use = "condition" => p = "line break or"
       /\ m.use = "switched" => p = "cases?"
       /\ m.use = "type" => p = "typed"
       /\ m.use \in DOMAIN Nexts
  /\ m.at \in {"condition", "line break or", "line break"} =>
       p \in {"then", "for body", "case body"}
  /\ m.at \in CasePoints => p = "switch end"
  /\ m.at \in {"case", "case body", "case end"} => p = "append case" /\ m.use = ""

\* The points at which nothing of the statement was taken yet.
Starting ==
  {"statement", "export", "define", "return", "if", "for", "switch", "loop control", "expression"}

Midline(q) == q # <<>> /\ ~IsSpace(q[1]) => ~Begins(q[1])
NoBreak(q) == q # <<>> => q[1].is # "LineBreak"

\* The points after the end of a line, or of a part of one.
AfterLine(m) ==
  \/ m.at \in {"block", "append", "program end", "else?", "if end", "for end", "switch end",
               "cases", "append case", "case end", "case"}
  \/ m.at = "function end" /\ m.some

CaseAhead(q) ==
  \E i \in 1 .. Len(q) : /\ q[i].is \in {"Case", "Default"}
                         /\ \A j \in 1 .. i - 1 : IsSpace(q[j])

\* What a method that begins with a line finds, or the first case of a switch.
Placed(m, q, n) ==
  /\ m.at \notin {"recover", "stop"}
  /\ m.at \notin Starting => Midline(q)
  /\ AfterLine(m) => NoBreak(q)
  /\ m.at \in {"statement", "return"} => q # <<>> /\ ~IsSpace(q[1])
  /\ m.at = "statement" => (Begins(q[1]) => q[1].at = n)
  /\ m.at = "block" /\ ~m.some => q # <<>> /\ (q[1].is = "Indent" => q[1].at = n)
  /\ (m.at = "case" \/ (m.at = "cases" /\ ~m.some)) =>
       q # <<>> /\ q[1].at = n /\ CaseAhead(q)
  /\ m.at = "cases?" => CaseAhead(q)

\* The points at which a method reads what the one it has called returned.
Reading ==
  {"append", "then", "else?", "for body", "for end", "switch end", "case body", "append case",
   "check", "line break or", "variable end", "return value", "assign?", "assigned",
   "program end", "typed", "cases?"}

\* Parse has called the first.
Complete(s) ==
  /\ s # <<>> => Called("parse", s[1])
  /\ \A i \in 1 .. Len(s) - 1 : s[i].ok /\ Called(s[i].at, s[i + 1])

Clean ==
  /\ Lines(cache, ended) /\ Complete(stack)
  /\ stack # <<>> => /\ Placed(top, cache, CurrentIndent)
                     /\ top.ok \/ TypeAtEnd
                     /\ top.at \in Reading => result \/ TypeAtEnd

Inv == IInv /\ Formed /\ (failed \/ Clean)

-----------------------------------------------------------------------------
(***************************************************************************)
(* The indents that are pushed.                                            *)
(***************************************************************************)
LEMMA NextOpened ==
  ASSUME NEW s, NEW k \in Nat
  PROVE  /\ Opened(s, k) \in Nat /\ Opened(s, 0) = 0
         /\ Opened(s, k + 1) = IF "block" \in s[k + 1].guards THEN Opened(s, k) + 1 ELSE Opened(s, k)
<1> DEFINE A == {i \in 1 .. k : "block" \in s[i].guards}
           B == {i \in 1 .. k + 1 : "block" \in s[i].guards}
<1>1. Opened(s, 0) = 0
  <2>1. {i \in 1 .. 0 : "block" \in s[i].guards} = {}
    OBVIOUS
  <2>2. QED
    BY <2>1, FS_EmptySet DEF Opened
<1>2. B = IF "block" \in s[k + 1].guards THEN A \cup {k + 1} ELSE A
  <2>1. 1 .. k + 1 = (1 .. k) \cup {k + 1}
    OBVIOUS
  <2>2. QED
    BY <2>1
<1>3. k + 1 \notin A /\ A \in SUBSET (1 .. k)
  OBVIOUS
<1>4. Opened(s, k) = Cardinality(A) /\ Opened(s, k + 1) = Cardinality(B)
  BY DEF Opened
<1> HIDE DEF A, B
<1>5. IsFiniteSet(1 .. k)
  BY FS_Interval
<1>6. IsFiniteSet(A)
  BY <1>3, <1>5, FS_Subset
<1>7. Cardinality(A) \in Nat /\ Cardinality(A \cup {k + 1}) = Cardinality(A) + 1
  BY <1>3, <1>6, FS_AddElement, FS_CardinalityType
<1>8. QED
  BY <1>1, <1>2, <1>4, <1>7

\* A method below has no larger number of blocks.
LEMMA OpenedBelow ==
  ASSUME NEW s, NEW k \in Nat, NEW i \in 0 .. k
  PROVE  /\ Opened(s, i) \in Nat /\ Opened(s, i) <= Opened(s, k)
         /\ "block" \in s[i].guards /\ i # 0 => Opened(s, i) >= 1
<1> DEFINE A == {j \in 1 .. i : "block" \in s[j].guards}
           B == {j \in 1 .. k : "block" \in s[j].guards}
<1>1. A \in SUBSET B /\ B \in SUBSET (1 .. k)
  OBVIOUS
<1>2. Opened(s, i) = Cardinality(A) /\ Opened(s, k) = Cardinality(B)
  BY DEF Opened
<1> HIDE DEF A, B
<1>3. IsFiniteSet(B)
  <2>1. IsFiniteSet(1 .. k)
    BY FS_Interval
  <2>2. QED
    BY <1>1, <2>1, FS_Subset
<1>4. Cardinality(A) <= Cardinality(B)
  BY <1>1, <1>3, FS_Subset
<1>5. i \in Nat
  OBVIOUS
<1>6. Opened(s, i) \in Nat
  BY <1>5, NextOpened
<1>7. ASSUME "block" \in s[i].guards, i # 0 PROVE Opened(s, i) >= 1
  <2>1. PICK j \in Nat : i = j + 1
    <3>1. i - 1 \in Nat /\ i = (i - 1) + 1
      BY <1>7
    <3>2. QED
      BY <3>1
  <2>2. Opened(s, j) \in Nat /\ Opened(s, j + 1) = Opened(s, j) + 1
    BY <1>7, <2>1, NextOpened
  <2>3. QED
    BY <2>1, <2>2
<1>8. QED
  BY <1>2, <1>4, <1>6, <1>7

\* The number depends on the guards of the methods below only.
LEMMA SameOpened ==
  ASSUME NEW s, NEW r, NEW k \in Nat,
         \A i \in 1 .. k : "block" \in s[i].guards <=> "block" \in r[i].guards
  PROVE  Opened(s, k) = Opened(r, k)
<1>1. {i \in 1 .. k : "block" \in s[i].guards} = {i \in 1 .. k : "block" \in r[i].guards}
  OBVIOUS
<1>2. QED
  BY <1>1 DEF Opened

\* What is there of a stack that is not empty.
LEMMA NestedStack ==
  ASSUME Nested(stack, indents), stack # <<>>
  PROVE  /\ Len(stack) \in Nat \ {0} /\ top = stack[Len(stack)] /\ top \in Methods
         /\ \A i \in 1 .. Len(stack) : stack[i] \in Methods
         /\ Len(indents) \in Nat \ {0} /\ indents # <<>>
         /\ CurrentIndent \in Nat \cup {-1} /\ CurrentIndent = indents[Len(indents)]
         /\ \A i \in 1 .. Len(indents) : indents[i] \in Nat \cup {-1}
<1>1. /\ Len(stack) \in Nat \ {0} /\ \A i \in 1 .. Len(stack) : stack[i] \in Methods
  BY EmptySeq, LenProperties DEF Nested
<1>2. Opened(stack, Len(stack)) \in Nat /\ Len(indents) = Opened(stack, Len(stack)) + 1
  BY <1>1, NextOpened DEF Nested
<1>3. \A i \in 1 .. Len(indents) : indents[i] \in Nat \cup {-1}
  BY LenProperties DEF Nested
<1>4. QED
  BY <1>1, <1>2, <1>3, EmptySeq DEF Nested, top, CurrentIndent

\* The method on top goes on.
SameBlock(m) ==
  /\ "block" \in m.guards <=> "block" \in top.guards
  /\ top.at \in CasePoints => m.at \in CasePoints

\* The top is replaced by a method of the same block.
LEMMA Replaced ==
  ASSUME Nested(stack, indents), stack # <<>>, NEW m \in Methods
  PROVE  /\ GoOn(m) \in Seq(Methods) /\ Len(GoOn(m)) = Len(stack)
         /\ \A i \in 1 .. Len(stack) : GoOn(m)[i] = IF i = Len(stack) THEN m ELSE stack[i]
         /\ SameBlock(m) => Nested(GoOn(m), indents)
<1> DEFINE n == Len(stack)
           s == GoOn(m)
<1>1. /\ n \in Nat \ {0} /\ n \in 1 .. n /\ stack \in Seq(Methods) /\ top = stack[n]
      /\ \A i \in 1 .. n : stack[i] \in Methods
  BY NestedStack DEF Nested
<1>2. /\ s \in Seq(Methods) /\ Len(s) = n
      /\ \A i \in 1 .. n : s[i] = IF i = n THEN m ELSE stack[i]
  BY <1>1, ExceptSeq DEF GoOn
<1> HIDE DEF n, s
<1>3. ASSUME SameBlock(m) PROVE Nested(s, indents)
  <2>1. \A i \in 1 .. n : "block" \in s[i].guards <=> "block" \in stack[i].guards
    BY <1>1, <1>2, <1>3 DEF SameBlock
  <2>2. ASSUME NEW i \in 0 .. n PROVE Opened(s, i) = Opened(stack, i)
    <3>1. i \in Nat /\ \A j \in 1 .. i : j \in 1 .. n
      BY <1>1
    <3>2. QED
      BY <2>1, <3>1, SameOpened
  <2>3. n \in 0 .. n /\ \A i \in 1 .. n : i \in 0 .. n
    BY <1>1
  <2>4. ASSUME NEW i \in 1 .. n, "block" \in s[i].guards
        PROVE  Rises(indents, Opened(s, i), s[i].at)
    <3>1. Opened(s, i) = Opened(stack, i) /\ "block" \in stack[i].guards
      BY <2>1, <2>2, <2>3, <2>4
    <3>2. Rises(indents, Opened(stack, i), stack[i].at)
      BY <3>1 DEF Nested, n
    <3>3. stack[i].at \in CasePoints => s[i].at \in CasePoints
      BY <1>1, <1>2, <1>3 DEF SameBlock
    <3>4. QED
      BY <3>1, <3>2, <3>3 DEF Rises
  <2>5. Len(indents) = Opened(s, n) + 1
    BY <2>2, <2>3 DEF Nested, n
  <2>6. QED
    BY <1>2, <2>4, <2>5 DEF Nested
<1>4. QED
  BY <1>2, <1>3 DEF n, s

\* A method is called, with a block or without one.
LEMMA Pushed ==
  ASSUME NEW s, NEW d, Nested(s, d), NEW c \in Methods
  PROVE  /\ Append(s, c) \in Seq(Methods) /\ Len(Append(s, c)) = Len(s) + 1 /\ Len(s) \in Nat
         /\ \A i \in 1 .. Len(s) : Append(s, c)[i] = s[i]
         /\ Append(s, c)[Len(s) + 1] = c
         /\ "block" \notin c.guards => Nested(Append(s, c), d)
         /\ \A k \in Nat \cup {-1} :
              /\ "block" \in c.guards /\ k >= d[Len(d)]
              /\ k = d[Len(d)] => c.at \in CasePoints
              => Nested(Append(s, c), Append(d, k))
<1> DEFINE n == Len(s)
           r == Append(s, c)
<1>1. /\ n \in Nat /\ s \in Seq(Methods) /\ d \in Seq(Nat \cup {-1})
      /\ r \in Seq(Methods) /\ Len(r) = n + 1
      /\ \A i \in 1 .. n : r[i] = s[i]
      /\ r[n + 1] = c
  BY AppendProperties, LenProperties DEF Nested
<1>2. Len(d) = Opened(s, n) + 1 /\ \A i \in 1 .. n : "block" \in s[i].guards => Rises(d, Opened(s, i), s[i].at)
  BY DEF Nested
<1> HIDE DEF n, r
<1>3. ASSUME NEW i \in 0 .. n PROVE Opened(r, i) = Opened(s, i)
  <2>1. i \in Nat /\ \A j \in 1 .. i : j \in 1 .. n
    BY <1>1
  <2>2. QED
    BY <1>1, <2>1, SameOpened
<1>4. n \in 0 .. n /\ \A i \in 1 .. n : i \in 0 .. n
  BY <1>1
<1>5. /\ Opened(s, n) \in Nat /\ Opened(r, n) = Opened(s, n)
      /\ Opened(r, n + 1) = IF "block" \in c.guards THEN Opened(s, n) + 1 ELSE Opened(s, n)
  BY <1>1, <1>3, <1>4, NextOpened
<1>6. \A i \in 1 .. n + 1 : i \in 1 .. n \/ i = n + 1
  BY <1>1
<1>7. ASSUME "block" \notin c.guards PROVE Nested(r, d)
  <2>1. \A i \in 1 .. n + 1 : "block" \in r[i].guards => Rises(d, Opened(r, i), r[i].at)
    BY <1>1, <1>2, <1>3, <1>4, <1>6, <1>7
  <2>2. QED
    BY <1>1, <1>2, <1>5, <1>7, <2>1 DEF Nested
<1>8. ASSUME NEW k \in Nat \cup {-1}, "block" \in c.guards, k >= d[Len(d)],
             k = d[Len(d)] => c.at \in CasePoints
      PROVE  Nested(r, Append(d, k))
  <2> DEFINE e == Append(d, k)
             l == Len(d)
  <2>1. /\ e \in Seq(Nat \cup {-1}) /\ Len(e) = l + 1 /\ e[l + 1] = k
        /\ \A i \in 1 .. l : e[i] = d[i]
    BY <1>1, AppendProperties
  <2>2. l = Opened(s, n) + 1 /\ l \in Nat
    BY <1>2, <1>5
  <2>3. k >= d[l] /\ (k = d[l] => c.at \in CasePoints) /\ d[l] \in Int /\ k \in Int
    BY <1>1, <1>5, <1>8, <2>2, LenProperties
  <2> HIDE DEF e, l
  <2>4. ASSUME NEW i \in 1 .. n, "block" \in r[i].guards PROVE Rises(e, Opened(r, i), r[i].at)
    <3>1. Opened(r, i) = Opened(s, i) /\ r[i] = s[i] /\ Rises(d, Opened(s, i), s[i].at)
      BY <1>1, <1>2, <1>3, <1>4, <2>4
    <3>2. Opened(s, i) \in Nat /\ Opened(s, i) <= Opened(s, n) /\ Opened(s, i) >= 1
      <4>1. i \in 0 .. n /\ i # 0
        BY <1>1
      <4>2. QED
        BY <1>1, <2>4, <3>1, <4>1, OpenedBelow
    <3>3. Opened(s, i) \in 1 .. l /\ Opened(s, i) + 1 \in 1 .. l
      BY <1>5, <2>2, <3>2
    <3>4. QED
      BY <2>1, <3>1, <3>3 DEF Rises
  <2>5. Rises(e, Opened(r, n + 1), c.at)
    <3>1. Opened(r, n + 1) = l
      BY <1>5, <1>8, <2>2
    <3>2. e[l] = d[l] /\ e[l + 1] = k
      BY <1>5, <2>1, <2>2
    <3>3. QED
      BY <2>3, <3>1, <3>2 DEF Rises
  <2>6. Len(e) = Opened(r, n + 1) + 1
    BY <1>5, <1>8, <2>1, <2>2
  <2>7. Nested(r, e)
    BY <1>1, <1>6, <2>1, <2>4, <2>5, <2>6 DEF Nested
  <2>8. QED
    BY <2>7 DEF e
<1>9. QED
  BY <1>1, <1>7, <1>8 DEF n, r

\* A method returns.
LEMMA Popped ==
  ASSUME Nested(stack, indents), stack # <<>>,
         stack' = Without(stack),
         indents' = IF "block" \in top.guards THEN Without(indents) ELSE indents
  PROVE  /\ stack' \in Seq(Methods) /\ Len(stack') = Len(stack) - 1
         /\ \A i \in 1 .. Len(stack) - 1 : stack'[i] = stack[i]
         /\ Nested(stack', indents')
         /\ stack' # <<>> => /\ Len(stack) - 1 \in 1 .. Len(stack) - 1
                             /\ top' = stack[Len(stack) - 1]
<1> DEFINE n == Len(stack) - 1
           l == Len(indents) - 1
           r == stack'
           e == indents'
<1>1. /\ n \in Nat /\ Len(stack) = n + 1 /\ top = stack[n + 1] /\ stack \in Seq(Methods)
      /\ l \in Nat /\ Len(indents) = l + 1 /\ indents \in Seq(Nat \cup {-1})
      /\ \A i \in 1 .. n + 1 : stack[i] \in Methods
      /\ \A i \in 1 .. l + 1 : indents[i] \in Nat \cup {-1}
  BY NestedStack DEF Nested
<1>2. Without(stack) = SubSeq(stack, 1, n) /\ Without(indents) = SubSeq(indents, 1, l)
  BY <1>1 DEF Without
<1>3. r = SubSeq(stack, 1, n) /\ e = IF "block" \in top.guards THEN SubSeq(indents, 1, l) ELSE indents
  BY <1>2
<1>4. /\ Opened(stack, n) \in Nat
      /\ l = Opened(stack, n + 1)
      /\ Opened(stack, n + 1) = IF "block" \in top.guards THEN Opened(stack, n) + 1 ELSE Opened(stack, n)
  <2>1. Len(indents) = Opened(stack, Len(stack)) + 1
    BY DEF Nested
  <2> HIDE DEF n, l
  <2>2. /\ Opened(stack, n) \in Nat
        /\ Opened(stack, n + 1) =
             IF "block" \in stack[n + 1].guards THEN Opened(stack, n) + 1 ELSE Opened(stack, n)
    BY <1>1, NextOpened
  <2>3. QED
    BY <1>1, <2>1, <2>2
<1>5. \A i \in 1 .. n + 1 : "block" \in stack[i].guards => Rises(indents, Opened(stack, i), stack[i].at)
  BY <1>1 DEF Nested
<1> HIDE DEF n, l, r, e
<1>6. r \in Seq(Methods) /\ Len(r) = n /\ \A i \in 1 .. n : r[i] = stack[i]
  <2>1. /\ SubSeq(stack, 1, n) \in Seq(Methods) /\ Len(SubSeq(stack, 1, n)) = n
        /\ \A i \in 1 .. n : SubSeq(stack, 1, n)[i] = stack[i]
    BY <1>1, SubSeqProperties
  <2>2. QED
    BY <1>3, <2>1
<1>7. /\ SubSeq(indents, 1, l) \in Seq(Nat \cup {-1}) /\ Len(SubSeq(indents, 1, l)) = l
      /\ \A i \in 1 .. l : SubSeq(indents, 1, l)[i] = indents[i]
  BY <1>1, SubSeqProperties
<1>8. e \in Seq(Nat \cup {-1}) /\ Len(e) = Opened(stack, n) + 1 /\ \A i \in 1 .. Len(e) : e[i] = indents[i]
  BY <1>1, <1>3, <1>4, <1>7
<1>9. ASSUME NEW i \in 0 .. n PROVE Opened(r, i) = Opened(stack, i)
  <2>1. i \in Nat /\ \A j \in 1 .. i : j \in 1 .. n
    BY <1>1
  <2>2. QED
    BY <1>6, <2>1, SameOpened
<1>10. n \in 0 .. n /\ \A i \in 1 .. n : i \in 0 .. n /\ i \in 1 .. n + 1 /\ i # 0
  BY <1>1
<1>11. ASSUME NEW i \in 1 .. n, "block" \in r[i].guards PROVE Rises(e, Opened(r, i), r[i].at)
  <2>1. /\ Opened(r, i) = Opened(stack, i) /\ r[i] = stack[i]
        /\ Rises(indents, Opened(stack, i), stack[i].at)
    BY <1>5, <1>6, <1>9, <1>10, <1>11
  <2>2. Opened(stack, i) \in Nat /\ Opened(stack, i) <= Opened(stack, n) /\ Opened(stack, i) >= 1
    BY <1>1, <1>10, <1>11, <2>1, OpenedBelow
  <2>3. Opened(stack, i) \in 1 .. Len(e) /\ Opened(stack, i) + 1 \in 1 .. Len(e)
    BY <1>4, <1>8, <2>2
  <2>4. QED
    BY <1>8, <2>1, <2>3 DEF Rises
<1>12. Nested(r, e)
  BY <1>6, <1>8, <1>9, <1>10, <1>11 DEF Nested
<1>13. r # <<>> => n \in 1 .. n /\ r[Len(r)] = stack[n]
  <2>1. r # <<>> => Len(r) # 0
    BY <1>6, EmptySeq
  <2>2. QED
    BY <1>1, <1>6, <2>1
<1>14. QED
  BY <1>1, <1>6, <1>12, <1>13 DEF n, r, e, top

-----------------------------------------------------------------------------
(***************************************************************************)
(* The cache.  Each method leaves a rest of it: q is r without the first k.*)
(***************************************************************************)
Cut(q, r, k) ==
  /\ k \in 0 .. Len(r) /\ q \in Seq(Token) /\ Len(q) = Len(r) - k
  /\ \A i \in 1 .. Len(q) : q[i] = r[i + k]

\* A subsequence to the end is a rest.
LEMMA Tail0 ==
  ASSUME NEW r \in Seq(Token), NEW n \in 1 .. Len(r) + 1
  PROVE  Cut(SubSeq(r, n, Len(r)), r, n - 1)
<1> DEFINE l == Len(r)
           q == SubSeq(r, n, l)
<1>1. l \in Nat /\ n \in Int /\ l \in Int /\ \A i \in n .. l : r[i] \in Token
  <2>1. l \in Nat
    BY LenProperties
  <2>2. \A i \in n .. l : i \in 1 .. l
    BY <2>1
  <2>3. QED
    BY <2>1, <2>2, ElementOfSeq
<1>2. q \in Seq(Token) /\ Len(q) = (IF n <= l THEN l - n + 1 ELSE 0)
      /\ \A i \in 1 .. l - n + 1 : q[i] = r[n + i - 1]
  BY <1>1, SubSeqProperties
<1> HIDE DEF l, q
<1>3. Len(q) = l - (n - 1) /\ n - 1 \in 0 .. l
  BY <1>1, <1>2 DEF l
<1>4. \A i \in 1 .. Len(q) : i \in 1 .. l - n + 1 /\ n + i - 1 = i + (n - 1)
  BY <1>1, <1>3
<1>5. \A i \in 1 .. Len(q) : q[i] = r[i + (n - 1)]
  BY <1>2, <1>4
<1>6. Cut(q, r, n - 1)
  BY <1>2, <1>3, <1>5 DEF Cut, l
<1>7. QED
  BY <1>6 DEF l, q

\* The whole is a rest.
LEMMA WholeCut == ASSUME NEW r \in Seq(Token) PROVE Cut(r, r, 0)
<1>1. Len(r) \in Nat
  BY LenProperties
<1>2. QED
  BY <1>1 DEF Cut

\* A rest of a rest is one.
LEMMA CutTwice ==
  ASSUME NEW r, NEW k, NEW q, NEW p, NEW l, Len(r) \in Nat, Cut(q, r, k), Cut(p, q, l)
  PROVE  Cut(p, r, k + l)
<1>1. /\ k \in 0 .. Len(r) /\ Len(q) = Len(r) - k /\ l \in 0 .. Len(q) /\ Len(p) = Len(q) - l
      /\ p \in Seq(Token)
      /\ \A i \in 1 .. Len(q) : q[i] = r[i + k]
      /\ \A i \in 1 .. Len(p) : p[i] = q[i + l]
  BY DEF Cut
<1>2. k + l \in 0 .. Len(r) /\ Len(p) = Len(r) - (k + l)
  BY <1>1
<1>3. \A i \in 1 .. Len(p) : i + l \in 1 .. Len(q) /\ (i + l) + k = i + (k + l)
  BY <1>1
<1>4. \A i \in 1 .. Len(p) : p[i] = r[i + (k + l)]
  BY <1>1, <1>3
<1>5. QED
  BY <1>1, <1>2, <1>4 DEF Cut

\* A token of a kind is dropped at the beginning.
LEMMA DroppedCut ==
  ASSUME NEW q \in Seq(Token), NEW kind
  PROVE  IF q # <<>> /\ q[1].is = kind
         THEN Len(q) >= 1 /\ Cut(Dropped(q, kind), q, 1)
         ELSE Dropped(q, kind) = q
<1>1. CASE q # <<>> /\ q[1].is = kind
  <2>1. Dropped(q, kind) = Tail(q)
    BY <1>1 DEF Dropped
  <2>2. Len(q) \in Nat /\ Len(q) >= 1
    BY <1>1, EmptySeq, LenProperties
  <2>3. Tail(q) \in Seq(Token) /\ Len(Tail(q)) = Len(q) - 1
        /\ \A i \in 1 .. Len(q) - 1 : Tail(q)[i] = q[i + 1]
    BY <1>1, HeadTailProperties
  <2>4. Cut(Tail(q), q, 1)
    BY <2>2, <2>3 DEF Cut
  <2>5. QED
    BY <1>1, <2>1, <2>2, <2>4
<1>2. CASE ~(q # <<>> /\ q[1].is = kind)
  BY <1>2 DEF Dropped
<1>3. QED
  BY <1>1, <1>2

\* The least of some numbers.
LEMMA LeastOf ==
  ASSUME NEW T \in SUBSET Nat, T # {}
  PROVE  \E n \in T : \A j \in T : n <= j
<1> DEFINE R == OpToRel(<, Nat)
<1>1. IsWellFoundedOn(R, Nat)
  BY NatLessThanWellFounded
<1>2. \A x, y \in Nat : <<x, y>> \in R <=> x < y
  BY DEF OpToRel
<1> HIDE DEF R
<1>3. PICK n \in T : \A y \in T : ~ (<<y, n>> \in R)
  BY <1>1, WFMin
<1>4. ASSUME NEW j \in T PROVE n <= j
  <2>1. j \in Nat /\ n \in Nat
    OBVIOUS
  <2>2. ~ (j < n)
    BY <1>2, <1>3, <2>1
  <2>3. QED
    BY <2>1, <2>2
<1>5. QED
  BY <1>4

\* The first token that is no space.
LEMMA FirstSolid ==
  ASSUME cache \in Seq(Token)
  PROVE  /\ Solid # {} <=> HasSolid(cache)
         /\ HasSolid(cache) =>
              /\ First \in 1 .. Len(cache) /\ ~IsSpace(cache[First])
              /\ \A j \in 1 .. First - 1 : IsSpace(cache[j])
<1>1. DOMAIN cache = 1 .. Len(cache) /\ Len(cache) \in Nat
  BY LenProperties
<1>2. Solid = {i \in 1 .. Len(cache) : ~IsSpace(cache[i])}
  BY <1>1 DEF Solid, IsSpace
<1>3. Solid # {} <=> HasSolid(cache)
  BY <1>2 DEF HasSolid
<1>4. ASSUME Solid # {}
      PROVE  First \in Solid /\ \A j \in Solid : First <= j
  <2>1. Solid \in SUBSET Nat
    BY <1>1, <1>2
  <2>2. \E n \in Solid : \A j \in Solid : n <= j
    BY <1>4, <2>1, LeastOf
  <2>3. QED
    BY <2>2 DEF First
<1>5. ASSUME HasSolid(cache)
      PROVE  /\ First \in 1 .. Len(cache) /\ ~IsSpace(cache[First])
             /\ \A j \in 1 .. First - 1 : IsSpace(cache[j])
  <2>1. First \in Solid /\ \A j \in Solid : First <= j
    BY <1>3, <1>4, <1>5
  <2>2. First \in 1 .. Len(cache) /\ ~IsSpace(cache[First])
    BY <1>2, <2>1
  <2>3. ASSUME NEW j \in 1 .. First - 1 PROVE IsSpace(cache[j])
    <3>1. j \in 1 .. Len(cache) /\ ~(First <= j)
      BY <1>1, <2>2, <2>3
    <3>2. j \notin Solid
      BY <2>1, <3>1
    <3>3. QED
      BY <1>2, <3>1, <3>2
  <2>4. QED
    BY <2>2, <2>3
<1>6. QED
  BY <1>3, <1>5

\* What the parser sees, over spaces or not.
LEMMA AheadIs ==
  ASSUME cache \in Seq(Token)
  PROVE  /\ Ahead(TRUE) = IF HasSolid(cache) THEN cache[First] ELSE Eof
         /\ Ahead(FALSE) = IF cache # <<>> THEN cache[1] ELSE Eof
         /\ HasSolid(cache) => cache # <<>> /\ Ahead(TRUE) \in Token /\ ~IsSpace(Ahead(TRUE))
         /\ ~HasSolid(cache) => Ahead(TRUE) = Eof
         /\ cache # <<>> => Ahead(FALSE) \in Token
         /\ cache = <<>> => Ahead(FALSE) = Eof
<1>1. Len(cache) \in Nat /\ (cache # <<>> => Len(cache) >= 1 /\ cache[1] \in Token)
  <2>1. Len(cache) \in Nat /\ (cache # <<>> => Len(cache) >= 1)
    BY EmptySeq, LenProperties
  <2>2. cache # <<>> => 1 \in 1 .. Len(cache)
    BY <2>1
  <2>3. QED
    BY <2>1, <2>2, ElementOfSeq
<1>2. Ahead(FALSE) = IF cache # <<>> THEN cache[1] ELSE Eof
  BY <1>1, EmptySeq DEF Ahead, Sees
<1>3. Ahead(TRUE) = IF HasSolid(cache) THEN cache[First] ELSE Eof
  BY <1>1, FirstSolid DEF Ahead, Sees
<1>4. HasSolid(cache) => cache # <<>> /\ cache[First] \in Token /\ ~IsSpace(cache[First])
  BY <1>1, FirstSolid, ElementOfSeq
<1>5. QED
  BY <1>1, <1>2, <1>3, <1>4

\* Eof is told from the tokens by its kind.
LEMMA EofIs ==
  /\ Eof.is = "Eof" /\ Eof.line = -1 /\ Eof.at = -1 /\ Eof.number = 0
  /\ \A t \in Token : /\ t.is # "Eof" /\ t # Eof
                       /\ t.at \in Nat /\ t.line \in Nat /\ t.number \in Nat
BY DEF Eof, Token, Kind

\* The methods of the lookahead stream.
LEMMA TakesSolid ==
  ASSUME cache \in Seq(Token), HasSolid(cache), Takes(TRUE)
  PROVE  First \in 1 .. Len(cache) /\ Cut(cache', cache, First)
<1>1. First \in 1 .. Len(cache) /\ Len(cache) \in Nat
  BY FirstSolid, LenProperties
<1>2. cache' = SubSeq(cache, First + 1, Len(cache)) /\ First + 1 \in 1 .. Len(cache) + 1
      /\ First + 1 - 1 = First
  BY <1>1 DEF Takes, From
<1>3. PICK n : n = First + 1
  OBVIOUS
<1>4. cache' = SubSeq(cache, n, Len(cache)) /\ n \in 1 .. Len(cache) + 1 /\ n - 1 = First
  BY <1>1, <1>2, <1>3
<1>5. Cut(cache', cache, n - 1)
  BY <1>4, Tail0
<1>6. QED
  BY <1>1, <1>4, <1>5

\* Next, without skipping.
LEMMA TakesFirst ==
  ASSUME cache \in Seq(Token), Takes(FALSE)
  PROVE  IF cache = <<>> THEN cache' = <<>> ELSE Cut(cache', cache, 1)
<1>1. cache' = SubSeq(cache, 2, Len(cache))
  BY DEF Takes, From
<1>2. CASE cache = <<>>
  BY <1>1, <1>2, SubSeqProperties, EmptySeq
<1>3. CASE cache # <<>>
  <2>1. 2 \in 1 .. Len(cache) + 1 /\ 2 - 1 = 1
    BY <1>3, EmptySeq, LenProperties
  <2>2. QED
    BY <1>1, <1>3, <2>1, Tail0
<1>4. QED
  BY <1>2, <1>3

-----------------------------------------------------------------------------
(***************************************************************************)
(* The lines.                                                              *)
(***************************************************************************)
Known(line) == {i \in DOMAIN line : line[i] # "Unknown"}
KnownTo(line, n) == {j \in Known(line) : j <= n}

\* A line is not empty, and its characters are numbered.
LEMMA LineIs ==
  ASSUME NEW line \in Line
  PROVE  /\ Len(line) \in Nat \ {0} /\ DOMAIN line = 1 .. Len(line)
         /\ \A i \in 1 .. Len(line) : line[i] \in Kind \cup DOMAIN IntLit \cup {"Unknown"}
         /\ IsFiniteSet(Known(line)) /\ Known(line) = KnownTo(line, Len(line))
<1>1. line \in Seq(Kind \cup DOMAIN IntLit \cup {"Unknown"}) /\ line # <<>>
  BY SourceAssumption
<1>2. /\ Len(line) \in Nat \ {0} /\ DOMAIN line = 1 .. Len(line)
      /\ \A i \in 1 .. Len(line) : line[i] \in Kind \cup DOMAIN IntLit \cup {"Unknown"}
  BY <1>1, EmptySeq, LenProperties, ElementOfSeq
<1>3. Known(line) \in SUBSET (1 .. Len(line)) /\ Known(line) = KnownTo(line, Len(line))
  BY <1>2 DEF Known, KnownTo
<1>4. IsFiniteSet(1 .. Len(line))
  BY <1>2, FS_Interval
<1>5. IsFiniteSet(Known(line))
  BY <1>3, <1>4, FS_Subset
<1>6. QED
  BY <1>2, <1>3, <1>5

\* How many begin a token among the first.
LEMMA NextKnown ==
  ASSUME NEW line \in Line, NEW n \in Nat
  PROVE  /\ Cardinality(KnownTo(line, n)) \in Nat /\ Cardinality(KnownTo(line, 0)) = 0
         /\ Cardinality(KnownTo(line, n + 1)) =
              Cardinality(KnownTo(line, n)) + IF n + 1 \in Known(line) THEN 1 ELSE 0
<1>1. Known(line) \in SUBSET (1 .. Len(line)) /\ IsFiniteSet(Known(line)) /\ Len(line) \in Nat
  BY LineIs DEF Known
<1>2. KnownTo(line, n) \in SUBSET Known(line) /\ n + 1 \notin KnownTo(line, n)
  BY DEF KnownTo
<1>3. IsFiniteSet(KnownTo(line, n)) /\ Cardinality(KnownTo(line, n)) \in Nat
  BY <1>1, <1>2, FS_Subset, FS_CardinalityType
<1>4. KnownTo(line, 0) = {}
  BY <1>1 DEF KnownTo
<1>5. KnownTo(line, n + 1) =
        IF n + 1 \in Known(line) THEN KnownTo(line, n) \cup {n + 1} ELSE KnownTo(line, n)
  <2>1. \A j \in Known(line) : j <= n + 1 <=> j <= n \/ j = n + 1
    BY <1>1
  <2>2. QED
    BY <2>1 DEF KnownTo
<1>6. Cardinality(KnownTo(line, n) \cup {n + 1}) = Cardinality(KnownTo(line, n)) + 1
  BY <1>2, <1>3, FS_AddElement
<1>7. QED
  BY <1>3, <1>4, <1>5, <1>6, FS_EmptySet

\* There is a k-th character that begins a token, for as many as there are.
LEMMA PlaceIs ==
  ASSUME NEW line \in Line, NEW k \in 1 .. Cardinality(Known(line))
  PROVE  Place(line, k) \in Known(line) /\ Cardinality(KnownTo(line, Place(line, k))) = k
<1> DEFINE T == {n \in Nat : Cardinality(KnownTo(line, n)) >= k}
<1>1. Len(line) \in Nat /\ Known(line) = KnownTo(line, Len(line)) /\ k \in Nat \ {0}
  <2>1. Cardinality(Known(line)) \in Nat
    BY LineIs, FS_CardinalityType
  <2>2. QED
    BY <2>1, LineIs
<1>2. Cardinality(KnownTo(line, Len(line))) \in Nat /\ k <= Cardinality(KnownTo(line, Len(line)))
  BY <1>1, NextKnown
<1>3. T \in SUBSET Nat /\ T # {}
  BY <1>1, <1>2
<1>4. PICK n \in T : \A j \in T : n <= j
  BY <1>3, LeastOf
<1>5. n \in Nat /\ Cardinality(KnownTo(line, n)) >= k
  BY <1>4
<1>6. n # 0
  BY <1>1, <1>5, NextKnown
<1>7. PICK m \in Nat : n = m + 1
  BY <1>5, <1>6
<1>8. m \notin T
  BY <1>4, <1>7
<1>9. Cardinality(KnownTo(line, m)) \in Nat /\ Cardinality(KnownTo(line, m)) < k
  BY <1>1, <1>7, <1>8, NextKnown
<1>10. Cardinality(KnownTo(line, m + 1)) =
         Cardinality(KnownTo(line, m)) + IF m + 1 \in Known(line) THEN 1 ELSE 0
  BY <1>7, NextKnown
<1>11. n \in Known(line) /\ Cardinality(KnownTo(line, n)) = k
  BY <1>1, <1>5, <1>7, <1>9, <1>10
<1>12. Place(line, k) = CHOOSE i \in Known(line) : Cardinality(KnownTo(line, i)) = k
  BY DEF Place, Known, KnownTo
<1>13. QED
  BY <1>11, <1>12

TokenAt(line, i, n) ==
  [is |-> IF line[i] \in DOMAIN IntLit THEN "IntLit" ELSE line[i], at |-> n + i - 1, line |-> n,
   number |-> IF line[i] \in DOMAIN IntLit THEN IntLit[line[i]] ELSE 0]

\* The tokens of a line.
LEMMA TokensAre ==
  ASSUME NEW line \in Line, NEW n \in Nat
  PROVE  /\ Tokens(line, n) \in Seq(Token) /\ Len(Tokens(line, n)) = Cardinality(Known(line))
         /\ \A k \in 1 .. Len(Tokens(line, n)) :
              Tokens(line, n)[k] = TokenAt(line, Place(line, k), n)
<1> DEFINE c == Cardinality(Known(line))
           f == [k \in 1 .. c |-> TokenAt(line, Place(line, k), n)]
<1>1. Tokens(line, n) = f
  BY DEF Tokens, TokenAt, Known
<1>2. c \in Nat
  BY LineIs, FS_CardinalityType
<1>3. ASSUME NEW k \in 1 .. c PROVE TokenAt(line, Place(line, k), n) \in Token
  <2> DEFINE i == Place(line, k)
  <2>1. i \in 1 .. Len(line) /\ line[i] # "Unknown" /\ Len(line) \in Nat
    BY PlaceIs, LineIs DEF Known
  <2> HIDE DEF i
  <2>2. line[i] \in Kind \cup DOMAIN IntLit
    BY <2>1, LineIs
  <2>3. line[i] \in DOMAIN IntLit => IntLit[line[i]] \in Nat
    BY DEF IntLit
  <2>4. n + i - 1 \in Nat
    BY <2>1
  <2>5. TokenAt(line, i, n) \in Token
    BY <2>2, <2>3, <2>4 DEF TokenAt, Token
  <2>6. QED
    BY <2>5 DEF i
<1>4. f \in Seq(Token) /\ Len(f) = c /\ \A k \in 1 .. c : f[k] = TokenAt(line, Place(line, k), n)
  BY <1>2, <1>3
<1>5. QED
  BY <1>1, <1>4

\* Without a lexical error there is one for each character.
LEMMA AllKnown ==
  ASSUME NEW line \in Line, NEW n \in Nat, \A i \in DOMAIN line : line[i] # "Unknown"
  PROVE  /\ Len(Tokens(line, n)) = Len(line)
         /\ \A k \in 1 .. Len(line) :
              Tokens(line, n)[k] = TokenAt(line, k, n)
<1>1. Known(line) = 1 .. Len(line) /\ Len(line) \in Nat
  BY LineIs DEF Known
<1>2. Cardinality(1 .. Len(line)) = Len(line)
  BY <1>1, FS_Interval
<1>3. ASSUME NEW k \in 1 .. Len(line) PROVE Place(line, k) = k
  <2> DEFINE p == Place(line, k)
  <2>1. p \in 1 .. Len(line) /\ Cardinality(KnownTo(line, p)) = k
    BY <1>1, <1>2, PlaceIs
  <2> HIDE DEF p
  <2>2. KnownTo(line, p) = 1 .. p
    BY <1>1, <2>1 DEF KnownTo
  <2>3. Cardinality(1 .. p) = p
    BY <1>1, <2>1, FS_Interval
  <2>4. QED
    BY <2>1, <2>2, <2>3 DEF p
<1>4. QED
  BY <1>1, <1>2, <1>3, TokensAre

-----------------------------------------------------------------------------
(***************************************************************************)
(* What the actions do with the stack and the indents.                     *)
(***************************************************************************)
Shaped == Nested(stack, indents) /\ Waits(stack)

\* The method that has called the one on top may have called m.
Caller(m) == Called(IF Len(stack) > 1 THEN stack[Len(stack) - 1].at ELSE "parse", m)

\* The method on top goes on as m.
LEMMA GoOnPlain ==
  ASSUME Shaped, stack # <<>>, NEW m \in Methods, SameBlock(m)
  PROVE  /\ Nested(GoOn(m), indents) /\ Waits(GoOn(m)) /\ GoOn(m) # <<>>
         /\ GoOn(m)[Len(GoOn(m))] = m
         /\ Complete(stack) /\ Caller(m) => Complete(GoOn(m))
<1> DEFINE n == Len(stack)
           s == GoOn(m)
<1>1. /\ n \in Nat \ {0} /\ Nested(s, indents) /\ Len(s) = n
      /\ \A i \in 1 .. n : s[i] = IF i = n THEN m ELSE stack[i]
  BY NestedStack, Replaced DEF Shaped
<1> HIDE DEF n, s
<1>2. n \in 1 .. n /\ \A i \in 1 .. n - 1 : i \in 1 .. n /\ i # n
  BY <1>1
<1>3. s[n] = m /\ \A i \in 1 .. n - 1 : s[i] = stack[i]
  BY <1>1, <1>2
<1>4. Waits(s)
  BY <1>1, <1>3 DEF Shaped, Waits, n
<1>5. s # <<>>
  BY <1>1, EmptySeq DEF Nested
<1>6. ASSUME Complete(stack), Caller(m) PROVE Complete(s)
  <2>0. s # <<>> => Called("parse", s[1])
    <3>1. CASE n > 1
      BY <1>1, <1>3, <1>6, <3>1 DEF Complete
    <3>2. CASE n = 1
      BY <1>3, <1>6, <3>2 DEF Caller, n
    <3>3. QED
      BY <1>1, <3>1, <3>2
  <2> SUFFICES ASSUME NEW i \in 1 .. n - 1 PROVE s[i].ok /\ Called(s[i].at, s[i + 1])
    BY <1>1, <2>0 DEF Complete
  <2>1. stack[i].ok /\ Called(stack[i].at, stack[i + 1]) /\ s[i] = stack[i]
    BY <1>3, <1>6 DEF Complete, n
  <2>2. CASE i = n - 1
    <3>1. i + 1 = n /\ n > 1
      BY <1>1, <2>2
    <3>2. Called(stack[i].at, m)
      BY <1>6, <2>2, <3>1 DEF Caller, n
    <3>3. QED
      BY <1>3, <2>1, <3>1, <3>2
  <2>3. CASE i # n - 1
    <3>1. i + 1 \in 1 .. n - 1
      BY <1>1, <2>3
    <3>2. QED
      BY <1>3, <2>1, <3>1
  <2>4. QED
    BY <2>2, <2>3
<1>7. QED
  BY <1>1, <1>3, <1>4, <1>5, <1>6 DEF s

\* So is the next state.
LEMMA GoesOn ==
  ASSUME Shaped, stack # <<>>, NEW m \in Methods, SameBlock(m),
         stack' = GoOn(m), indents' = indents
  PROVE  /\ Shaped' /\ stack' # <<>> /\ top' = m /\ CurrentIndent' = CurrentIndent
         /\ Complete(stack) /\ Caller(m) => Complete(stack')
BY GoOnPlain DEF Shaped, top, CurrentIndent

\* A stack with one more method.
LEMMA OneMore ==
  ASSUME NEW s, NEW d, Nested(s, d), Waits(s), s # <<>>, NEW c \in Methods,
         s[Len(s)].at \notin Keywords
  PROVE  /\ Waits(Append(s, c)) /\ Append(s, c) # <<>>
         /\ Append(s, c)[Len(Append(s, c))] = c
         /\ Complete(s) /\ s[Len(s)].ok /\ Called(s[Len(s)].at, c) => Complete(Append(s, c))
<1> DEFINE n == Len(s)
           r == Append(s, c)
<1>1. /\ n \in Nat /\ Len(r) = n + 1 /\ r[n + 1] = c /\ r \in Seq(Methods)
      /\ \A i \in 1 .. n : r[i] = s[i]
  BY Pushed
<1>2. n # 0
  BY EmptySeq DEF Nested
<1> HIDE DEF n, r
<1>3. \A i \in 1 .. n : i \in 1 .. n - 1 \/ i = n
  BY <1>1
<1>4. n + 1 - 1 = n
  BY <1>1
<1>5. Waits(r)
  <2>1. \A i \in 1 .. n : s[i].at \notin Keywords
    BY <1>3 DEF Waits, n
  <2>2. QED
    BY <1>1, <1>4, <2>1 DEF Waits
<1>6. ASSUME Complete(s), s[n].ok, Called(s[n].at, c) PROVE Complete(r)
  <2>0. Called("parse", r[1])
    <3>1. 1 \in 1 .. n
      BY <1>1, <1>2
    <3>2. QED
      BY <1>1, <1>6, <3>1 DEF Complete
  <2> SUFFICES ASSUME NEW i \in 1 .. n PROVE r[i].ok /\ Called(r[i].at, r[i + 1])
    BY <1>1, <1>4, <2>0 DEF Complete
  <2>1. CASE i = n
    BY <1>1, <1>6, <2>1
  <2>2. CASE i # n
    <3>1. i \in 1 .. n - 1 /\ i + 1 \in 1 .. n
      BY <1>1, <2>2
    <3>2. s[i].ok /\ Called(s[i].at, s[i + 1])
      BY <1>6, <3>1 DEF Complete, n
    <3>3. QED
      BY <1>1, <3>1, <3>2
  <2>3. QED
    BY <2>1, <2>2
<1>7. r # <<>>
  BY <1>1, EmptySeq
<1>8. QED
  BY <1>1, <1>5, <1>6, <1>7 DEF n, r

\* The method on top goes on as m and calls c.
LEMMA Calls ==
  ASSUME Shaped, stack # <<>>, NEW m \in Methods, SameBlock(m), m.at \notin Keywords,
         NEW c \in Methods, "block" \notin c.guards,
         stack' = Append(GoOn(m), c), indents' = indents
  PROVE  /\ Shaped' /\ stack' # <<>> /\ top' = c /\ CurrentIndent' = CurrentIndent
         /\ Complete(stack) /\ Caller(m) /\ m.ok /\ Called(m.at, c) => Complete(stack')
<1> DEFINE s == GoOn(m)
<1>1. /\ Nested(s, indents) /\ Waits(s) /\ s # <<>> /\ s[Len(s)] = m
      /\ Complete(stack) /\ Caller(m) => Complete(s)
  BY GoOnPlain
<1>2. stack' = Append(s, c)
  OBVIOUS
<1> HIDE DEF s
<1>3. Nested(stack', indents)
  BY <1>1, <1>2, Pushed
<1>4. /\ Waits(stack') /\ stack' # <<>> /\ stack'[Len(stack')] = c
      /\ Complete(s) /\ m.ok /\ Called(m.at, c) => Complete(stack')
  BY <1>1, <1>2, OneMore
<1>5. QED
  BY <1>1, <1>3, <1>4 DEF Shaped, top, CurrentIndent

\* It builds a block for c.
LEMMA CallsInBlock ==
  ASSUME Shaped, stack # <<>>, NEW m \in Methods, SameBlock(m), m.at \notin Keywords,
         NEW c \in Methods, "block" \in c.guards, NEW k \in Nat \cup {-1},
         k >= CurrentIndent, k = CurrentIndent => c.at \in CasePoints,
         stack' = Append(GoOn(m), c), indents' = Append(indents, k)
  PROVE  /\ Shaped' /\ stack' # <<>> /\ top' = c /\ CurrentIndent' = k
         /\ Complete(stack) /\ Caller(m) /\ m.ok /\ Called(m.at, c) => Complete(stack')
<1> DEFINE s == GoOn(m)
<1>1. /\ Nested(s, indents) /\ Waits(s) /\ s # <<>> /\ s[Len(s)] = m
      /\ Complete(stack) /\ Caller(m) => Complete(s)
  BY GoOnPlain
<1>2. stack' = Append(s, c)
  OBVIOUS
<1> HIDE DEF s
<1>3. k >= indents[Len(indents)] /\ (k = indents[Len(indents)] => c.at \in CasePoints)
  BY DEF CurrentIndent
<1>4. Nested(Append(s, c), Append(indents, k))
  BY <1>1, <1>3, Pushed
<1>5. /\ Waits(stack') /\ stack' # <<>> /\ stack'[Len(stack')] = c
      /\ Complete(s) /\ m.ok /\ Called(m.at, c) => Complete(stack')
  BY <1>1, <1>2, OneMore
<1>6. indents'[Len(indents')] = k
  <2>1. indents \in Seq(Nat \cup {-1})
    BY DEF Shaped, Nested
  <2>2. QED
    BY <2>1, AppendProperties, LenProperties
<1>7. QED
  BY <1>1, <1>2, <1>4, <1>5, <1>6 DEF Shaped, top, CurrentIndent

\* It calls c, which has called d.
LEMMA CallsTwo ==
  ASSUME Shaped, stack # <<>>, NEW m \in Methods, SameBlock(m), m.at \notin Keywords,
         NEW c \in Methods, "block" \notin c.guards, c.at \notin Keywords,
         NEW d \in Methods, "block" \notin d.guards,
         stack' = GoOn(m) \o <<c, d>>, indents' = indents
  PROVE  /\ Shaped' /\ stack' # <<>> /\ top' = d /\ CurrentIndent' = CurrentIndent
         /\ Complete(stack) /\ Caller(m) /\ m.ok /\ Called(m.at, c) /\ c.ok /\ Called(c.at, d)
              => Complete(stack')
<1> DEFINE s == GoOn(m)
           r == Append(s, c)
<1>1. /\ Nested(s, indents) /\ Waits(s) /\ s # <<>> /\ s[Len(s)] = m
      /\ Complete(stack) /\ Caller(m) => Complete(s)
  BY GoOnPlain
<1>2. stack' = s \o <<c, d>>
  OBVIOUS
<1> HIDE DEF s
<1>3. stack' = Append(r, d)
  <2>1. s \in Seq(Methods)
    BY <1>1 DEF Nested
  <2>2. Stacks(s)
    BY <2>1 DEF Stacks
  <2>3. QED
    BY <1>2, <2>2, AppendTwice
<1>4. /\ Nested(r, indents) /\ Waits(r) /\ r # <<>> /\ r[Len(r)] = c
      /\ Complete(s) /\ m.ok /\ Called(m.at, c) => Complete(r)
  BY <1>1, OneMore, Pushed
<1> HIDE DEF r
<1>5. Nested(stack', indents)
  <2>1. Nested(r, indents)
    BY <1>4
  <2>2. Nested(Append(r, d), indents)
    BY <2>1, Pushed
  <2>3. QED
    BY <1>3, <2>2
<1>6. /\ Waits(stack') /\ stack' # <<>> /\ stack'[Len(stack')] = d
      /\ Complete(r) /\ c.ok /\ Called(c.at, d) => Complete(stack')
  BY <1>3, <1>4, OneMore
<1>7. QED
  BY <1>1, <1>4, <1>5, <1>6 DEF Shaped, top, CurrentIndent

\* The method on top returns, to one that waits.
LEMMA Returning ==
  ASSUME Shaped, stack # <<>>, NEW something, Return(something)
  PROVE  /\ Shaped' /\ result' = something
         /\ Complete(stack) => Complete(stack')
         /\ stack' # <<>> => /\ top' \in Methods /\ top'.at \notin Keywords
                             /\ Complete(stack) => top'.ok /\ Called(top'.at, top)
<1> DEFINE n == Len(stack) - 1
           s == stack'
<1>1. /\ n \in Nat /\ Len(stack) = n + 1 /\ top = stack[n + 1]
      /\ \A i \in 1 .. n + 1 : stack[i] \in Methods
  BY NestedStack DEF Shaped
<1>2. /\ Nested(s, indents') /\ Len(s) = n /\ \A i \in 1 .. n : s[i] = stack[i]
      /\ s # <<>> => n \in 1 .. n /\ top' = stack[n]
  BY Popped DEF Shaped, Return
<1> HIDE DEF n, s
<1>3. \A i \in 1 .. n - 1 : i \in 1 .. n /\ i + 1 \in 1 .. n
  BY <1>1
<1>4. \A i \in 1 .. n : stack[i].at \notin Keywords
  BY <1>1 DEF Shaped, Waits, n
<1>5. Waits(s)
  BY <1>2, <1>3, <1>4 DEF Waits
<1>6. ASSUME Complete(stack)
      PROVE  /\ Complete(s)
             /\ \A i \in 1 .. n : stack[i].ok /\ Called(stack[i].at, stack[i + 1])
  <2>1. \A i \in 1 .. n : stack[i].ok /\ Called(stack[i].at, stack[i + 1])
    BY <1>6 DEF Complete, n
  <2>2. s # <<>> => Called("parse", s[1])
    <3>1. SUFFICES ASSUME s # <<>> PROVE Called("parse", s[1])
      OBVIOUS
    <3>2. 1 \in 1 .. n /\ stack # <<>>
      BY <1>1, <1>2, <3>1
    <3>3. QED
      BY <1>2, <1>6, <3>2 DEF Complete
  <2>3. Complete(s)
    BY <1>2, <1>3, <2>1, <2>2 DEF Complete
  <2>4. QED
    BY <2>1, <2>3
<1>7. result' = something
  BY DEF Return
<1>8. ASSUME s # <<>>
      PROVE  /\ top' \in Methods /\ top'.at \notin Keywords
             /\ Complete(stack) => top'.ok /\ Called(top'.at, top)
  <2>1. n \in 1 .. n /\ n \in 1 .. n + 1 /\ top' = stack[n]
    BY <1>1, <1>2, <1>8
  <2>2. QED
    BY <1>1, <1>4, <1>6, <2>1
<1>9. QED
  BY <1>2, <1>5, <1>6, <1>7, <1>8 DEF Shaped, s

-----------------------------------------------------------------------------
(***************************************************************************)
(* What the rest of the cache keeps.                                       *)
(***************************************************************************)
LEMMA LinesCut ==
  ASSUME NEW r \in Seq(Token), NEW q, NEW k, Cut(q, r, k), NEW e, Lines(r, e)
  PROVE  /\ Lines(q, e)
         /\ k >= 1 /\ ~IsSpace(r[k]) => Midline(q)
         /\ k >= 1 /\ r[k].is = "LineBreak" => NoBreak(q) /\ Midline(q)
         /\ k >= 1 /\ r[k].is = "Indent" => /\ q # <<>> /\ ~IsSpace(q[1]) /\ q[1].at = r[k].at
<1>1. /\ k \in 0 .. Len(r) /\ q \in Seq(Token) /\ Len(q) = Len(r) - k /\ Len(r) \in Nat
      /\ \A i \in 1 .. Len(q) : q[i] = r[i + k]
  BY LenProperties DEF Cut
<1> DEFINE l == Len(q)
           n == Len(r)
<1>2. /\ k \in 0 .. n /\ l = n - k /\ n \in Nat /\ l \in Nat
      /\ \A i \in 1 .. l : q[i] = r[i + k]
      /\ q = <<>> <=> l = 0
      /\ r = <<>> <=> n = 0
  BY <1>1, EmptySeq
<1>3. /\ n # 0 /\ ~e => r[n].is = "LineBreak"
      /\ \A i \in 1 .. n :
           /\ r[i].is = "Indent" => i < n /\ ~IsSpace(r[i + 1]) /\ r[i].at = r[i + 1].at
           /\ r[i].is = "LineBreak" /\ i < n => r[i + 1].is = "Indent"
           /\ ~IsSpace(r[i]) /\ i < n /\ ~IsSpace(r[i + 1]) => ~Begins(r[i + 1])
  BY <1>2 DEF Lines
<1> HIDE DEF l, n
<1>4. l # 0 /\ ~e => q[l].is = "LineBreak"
  <2> SUFFICES ASSUME l # 0, ~e PROVE q[l].is = "LineBreak"
    OBVIOUS
  <2>1. l \in 1 .. l /\ l + k = n /\ n # 0
    BY <1>2
  <2>2. QED
    BY <1>2, <1>3, <2>1
<1>5. ASSUME NEW i \in 1 .. l
      PROVE  /\ q[i].is = "Indent" => i < l /\ ~IsSpace(q[i + 1]) /\ q[i].at = q[i + 1].at
             /\ q[i].is = "LineBreak" /\ i < l => q[i + 1].is = "Indent"
             /\ ~IsSpace(q[i]) /\ i < l /\ ~IsSpace(q[i + 1]) => ~Begins(q[i + 1])
  <2>1. PICK j : j = i + k
    OBVIOUS
  <2>2. j \in 1 .. n /\ (i < l <=> j < n) /\ (i + 1) + k = j + 1 /\ (i < l => i + 1 \in 1 .. l)
    BY <1>2, <2>1
  <2>3. q[i] = r[j] /\ (i < l => q[i + 1] = r[j + 1])
    BY <1>2, <2>1, <2>2
  <2>4. QED
    BY <1>3, <2>2, <2>3
<1>6. Lines(q, e)
  BY <1>2, <1>4, <1>5 DEF Lines, l
<1>7. ASSUME k >= 1
      PROVE  /\ ~IsSpace(r[k]) => Midline(q)
             /\ r[k].is = "LineBreak" => NoBreak(q) /\ Midline(q)
             /\ r[k].is = "Indent" => q # <<>> /\ ~IsSpace(q[1]) /\ q[1].at = r[k].at
  <2>1. k \in 1 .. n /\ (k < n <=> q # <<>>) /\ (k < n => 1 \in 1 .. l) /\ 1 + k = k + 1
    BY <1>2, <1>7
  <2>2. k < n => q[1] = r[k + 1]
    BY <1>2, <2>1
  <2>3. ASSUME ~IsSpace(r[k]) PROVE Midline(q)
    BY <1>3, <2>1, <2>2, <2>3 DEF Midline
  <2>4. ASSUME r[k].is = "LineBreak" PROVE NoBreak(q) /\ Midline(q)
    BY <1>3, <2>1, <2>2, <2>4 DEF Midline, NoBreak, IsSpace, Space
  <2>5. ASSUME r[k].is = "Indent" PROVE q # <<>> /\ ~IsSpace(q[1]) /\ q[1].at = r[k].at
    BY <1>3, <2>1, <2>2, <2>5
  <2>6. QED
    BY <2>3, <2>4, <2>5
<1>8. QED
  BY <1>6, <1>7

\* A token over spaces is taken: what is left is in the middle of a line.
LEMMA TakesSolidKeeps ==
  ASSUME cache \in Seq(Token), HasSolid(cache), Takes(TRUE)
  PROVE  /\ cache' \in Seq(Token)
         /\ Lines(cache, ended) => Lines(cache', ended) /\ Midline(cache')
<1>1. First \in 1 .. Len(cache) /\ ~IsSpace(cache[First])
  BY FirstSolid
<1>2. Cut(cache', cache, First) /\ Len(cache) \in Nat
  BY TakesSolid, LenProperties
<1>3. First >= 1 /\ cache' \in Seq(Token)
  BY <1>1, <1>2 DEF Cut
<1>4. QED
  BY <1>1, <1>2, <1>3, LinesCut

\* The next token is taken, whatever it is.
LEMMA TakesFirstKeeps ==
  ASSUME cache \in Seq(Token), Takes(FALSE)
  PROVE  /\ cache' \in Seq(Token)
         /\ Lines(cache, ended) /\ cache # <<>> /\ ~IsSpace(cache[1])
              => Lines(cache', ended) /\ Midline(cache')
<1>1. IF cache = <<>> THEN cache' = <<>> ELSE Cut(cache', cache, 1)
  BY TakesFirst
<1>2. cache' \in Seq(Token)
  BY <1>1 DEF Cut
<1>3. QED
  BY <1>1, <1>2, LinesCut

\* A line break is dropped, or none.
LEMMA BreakKeeps ==
  ASSUME NEW q \in Seq(Token)
  PROVE  /\ Dropped(q, "LineBreak") \in Seq(Token)
         /\ NoBreak(q) => Dropped(q, "LineBreak") = q
         /\ \A e : Lines(q, e) =>
              /\ Lines(Dropped(q, "LineBreak"), e) /\ NoBreak(Dropped(q, "LineBreak"))
              /\ Midline(q) => Midline(Dropped(q, "LineBreak"))
<1> DEFINE p == Dropped(q, "LineBreak")
<1>1. IF q # <<>> /\ q[1].is = "LineBreak" THEN Len(q) >= 1 /\ Cut(p, q, 1) ELSE p = q
  BY DroppedCut
<1> HIDE DEF p
<1>2. p \in Seq(Token)
  BY <1>1 DEF Cut
<1>3. NoBreak(q) => p = q
  BY <1>1 DEF NoBreak
<1>4. ASSUME NEW e, Lines(q, e) PROVE Lines(p, e) /\ NoBreak(p) /\ (Midline(q) => Midline(p))
  <2>1. CASE q # <<>> /\ q[1].is = "LineBreak"
    BY <1>1, <1>4, <2>1, LinesCut
  <2>2. CASE ~(q # <<>> /\ q[1].is = "LineBreak")
    BY <1>1, <1>4, <2>2 DEF NoBreak
  <2>3. QED
    BY <2>1, <2>2
<1>5. QED
  BY <1>2, <1>3, <1>4 DEF p

\* What is left after a line break, as StatementIndent finds it.
LEMMA AfterBreakIs ==
  ASSUME cache \in Seq(Token)
  PROVE  /\ AfterBreak \in Seq(Token) /\ StatementIndent \in Nat \cup {-1}
         /\ StatementIndent # -1 => AfterBreak # <<>> /\ StatementIndent = AfterBreak[1].at
         /\ AfterBreak # <<>> => StatementIndent = AfterBreak[1].at /\ AfterBreak[1] \in Token
         /\ NoBreak(cache) => AfterBreak = cache
         /\ Lines(cache, ended) => /\ Lines(AfterBreak, ended) /\ NoBreak(AfterBreak)
                                   /\ Midline(cache) => Midline(AfterBreak)
<1>1. AfterBreak \in Seq(Token) /\ AfterBreak = Dropped(cache, "LineBreak")
  BY BreakKeeps DEF AfterBreak
<1>2. AfterBreak # <<>> => AfterBreak[1] \in Token
  <2>1. AfterBreak # <<>> => 1 \in 1 .. Len(AfterBreak)
    BY <1>1, EmptySeq, LenProperties
  <2>2. QED
    BY <1>1, <2>1, ElementOfSeq
<1>3. AfterBreak # <<>> => AfterBreak[1].at \in Nat
  BY <1>2, EofIs
<1>4. StatementIndent = IF AfterBreak = <<>> THEN -1 ELSE AfterBreak[1].at
  BY DEF StatementIndent
<1>5. NoBreak(cache) => AfterBreak = cache
  BY <1>1, BreakKeeps
<1>6. Lines(cache, ended) => /\ Lines(AfterBreak, ended) /\ NoBreak(AfterBreak)
                             /\ Midline(cache) => Midline(AfterBreak)
  BY <1>1, BreakKeeps
<1>7. QED
  BY <1>1, <1>2, <1>3, <1>4, <1>5, <1>6

\* The end of a statement is skipped: what is left begins a line, or follows a semicolon.
LEMMA SkipKeeps ==
  ASSUME cache \in Seq(Token), SkipStatementEnd
  PROVE  /\ cache' \in Seq(Token)
         /\ Lines(cache, ended) /\ Midline(cache)
              => Lines(cache', ended) /\ NoBreak(cache') /\ Midline(cache')
<1> DEFINE q == Dropped(cache, "Semicolon")
<1>1. IF cache # <<>> /\ cache[1].is = "Semicolon" THEN Len(cache) >= 1 /\ Cut(q, cache, 1) ELSE q = cache
  BY DroppedCut
<1>2. cache' = Dropped(q, "LineBreak")
  BY DEF SkipStatementEnd
<1> HIDE DEF q
<1>3. q \in Seq(Token)
  BY <1>1 DEF Cut
<1>4. ASSUME Lines(cache, ended), Midline(cache) PROVE Lines(q, ended) /\ Midline(q)
  <2>1. CASE cache # <<>> /\ cache[1].is = "Semicolon"
    <3>1. ~IsSpace(cache[1])
      BY <2>1 DEF IsSpace, Space
    <3>2. QED
      BY <1>1, <1>4, <2>1, <3>1, LinesCut
  <2>2. CASE ~(cache # <<>> /\ cache[1].is = "Semicolon")
    BY <1>1, <1>4, <2>2
  <2>3. QED
    BY <2>1, <2>2
<1>5. QED
  BY <1>2, <1>3, <1>4, BreakKeeps

\* An equals sign is taken, if it is next.
LEMMA EqualsKeeps ==
  ASSUME cache \in Seq(Token), cache' = Dropped(cache, "SingleEq")
  PROVE  /\ cache' \in Seq(Token)
         /\ Lines(cache, ended) /\ Midline(cache) => Lines(cache', ended) /\ Midline(cache')
<1> DEFINE q == Dropped(cache, "SingleEq")
<1>1. IF cache # <<>> /\ cache[1].is = "SingleEq" THEN Len(cache) >= 1 /\ Cut(q, cache, 1) ELSE q = cache
  BY DroppedCut
<1>2. cache' = q
  OBVIOUS
<1> HIDE DEF q
<1>3. q \in Seq(Token)
  BY <1>1 DEF Cut
<1>4. ASSUME Lines(cache, ended), Midline(cache) PROVE Lines(q, ended) /\ Midline(q)
  <2>1. CASE cache # <<>> /\ cache[1].is = "SingleEq"
    <3>1. ~IsSpace(cache[1])
      BY <2>1 DEF IsSpace, Space
    <3>2. QED
      BY <1>1, <1>4, <2>1, <3>1, LinesCut
  <2>2. CASE ~(cache # <<>> /\ cache[1].is = "SingleEq")
    BY <1>1, <1>4, <2>2
  <2>3. QED
    BY <2>1, <2>2
<1>5. QED
  BY <1>2, <1>3, <1>4

\* The indent of a line is taken, if it is next.
LEMMA IndentKeeps ==
  ASSUME cache \in Seq(Token), cache # <<>>, cache' = Dropped(cache, "Indent")
  PROVE  /\ cache' \in Seq(Token)
         /\ Lines(cache, ended) /\ Midline(cache) /\ NoBreak(cache) =>
              /\ Lines(cache', ended) /\ cache' # <<>> /\ ~IsSpace(cache'[1])
              /\ IF cache[1].is = "Indent" THEN cache'[1].at = cache[1].at ELSE ~Begins(cache'[1])
<1> DEFINE q == Dropped(cache, "Indent")
<1>1. IF cache[1].is = "Indent" THEN Len(cache) >= 1 /\ Cut(q, cache, 1) ELSE q = cache
  BY DroppedCut
<1>2. cache' = q
  OBVIOUS
<1> HIDE DEF q
<1>3. q \in Seq(Token)
  BY <1>1 DEF Cut
<1>4. ASSUME Lines(cache, ended), Midline(cache), NoBreak(cache)
      PROVE  /\ Lines(q, ended) /\ q # <<>> /\ ~IsSpace(q[1])
             /\ IF cache[1].is = "Indent" THEN q[1].at = cache[1].at ELSE ~Begins(q[1])
  <2>1. CASE cache[1].is = "Indent"
    BY <1>1, <1>4, <2>1, LinesCut
  <2>2. CASE cache[1].is # "Indent"
    BY <1>1, <1>4, <2>2 DEF Midline, NoBreak, IsSpace, Space
  <2>3. QED
    BY <2>1, <2>2
<1>5. QED
  BY <1>2, <1>3, <1>4

\* The next token that is no space is a case.
LEMMA CaseSeen ==
  ASSUME cache \in Seq(Token)
  PROVE  /\ IsCase <=> CaseAhead(cache)
         /\ IsCase => HasSolid(cache)
<1>1. \A i \in 1 .. Len(cache) : cache[i].is \in {"Case", "Default"} => ~IsSpace(cache[i])
  BY DEF IsSpace, Space
<1>2. IsCase => HasSolid(cache)
  BY AheadIs, EofIs DEF IsCase
<1>3. ASSUME IsCase PROVE CaseAhead(cache)
  <2>1. /\ First \in 1 .. Len(cache) /\ \A j \in 1 .. First - 1 : IsSpace(cache[j])
        /\ cache[First].is \in {"Case", "Default"}
    BY <1>2, <1>3, FirstSolid, AheadIs DEF IsCase
  <2>2. QED
    BY <2>1 DEF CaseAhead
<1>4. ASSUME CaseAhead(cache) PROVE IsCase
  <2>1. PICK i \in 1 .. Len(cache) : /\ cache[i].is \in {"Case", "Default"}
                                     /\ \A j \in 1 .. i - 1 : IsSpace(cache[j])
    BY <1>4 DEF CaseAhead
  <2>2. HasSolid(cache)
    BY <1>1, <2>1 DEF HasSolid
  <2>3. /\ First \in 1 .. Len(cache) /\ ~IsSpace(cache[First]) /\ Len(cache) \in Nat
        /\ \A j \in 1 .. First - 1 : IsSpace(cache[j])
    BY <2>2, FirstSolid, LenProperties
  <2>4. i \notin 1 .. First - 1 /\ First \notin 1 .. i - 1
    BY <1>1, <2>1, <2>3
  <2>5. First = i
    BY <2>3, <2>4
  <2>6. QED
    BY <2>1, <2>2, <2>5, AheadIs DEF IsCase
<1>5. QED
  BY <1>2, <1>3, <1>4

\* A line break is not taken for one.
LEMMA CaseAfterBreak ==
  ASSUME cache \in Seq(Token), CaseAhead(cache)
  PROVE  AfterBreak # <<>> /\ CaseAhead(AfterBreak)
<1> DEFINE q == Dropped(cache, "LineBreak")
<1>1. IF cache # <<>> /\ cache[1].is = "LineBreak" THEN Len(cache) >= 1 /\ Cut(q, cache, 1) ELSE q = cache
  BY DroppedCut
<1>2. AfterBreak = q
  BY DEF AfterBreak
<1> HIDE DEF q
<1>3. PICK i \in 1 .. Len(cache) : /\ cache[i].is \in {"Case", "Default"}
                                   /\ \A j \in 1 .. i - 1 : IsSpace(cache[j])
  BY DEF CaseAhead
<1>4. Len(cache) \in Nat
  BY LenProperties
<1>5. CASE cache # <<>> /\ cache[1].is = "LineBreak"
  <2>1. /\ q \in Seq(Token) /\ Len(q) = Len(cache) - 1
        /\ \A j \in 1 .. Len(q) : q[j] = cache[j + 1]
    BY <1>1, <1>5 DEF Cut
  <2>2. i # 1
    BY <1>3, <1>5
  <2>3. PICK k : k = i - 1
    OBVIOUS
  <2>4. k \in 1 .. Len(q) /\ k + 1 = i
    BY <1>3, <1>4, <2>1, <2>2, <2>3
  <2>5. \A j \in 1 .. k - 1 : j \in 1 .. Len(q) /\ j + 1 \in 1 .. i - 1
    BY <1>4, <2>1, <2>3, <2>4
  <2>6. q[k].is \in {"Case", "Default"} /\ \A j \in 1 .. k - 1 : IsSpace(q[j])
    BY <1>3, <2>1, <2>4, <2>5
  <2>7. q # <<>>
    BY <2>1, <2>4, EmptySeq
  <2>8. QED
    BY <1>2, <2>4, <2>6, <2>7 DEF CaseAhead
<1>6. CASE ~(cache # <<>> /\ cache[1].is = "LineBreak")
  <2>1. q = cache
    BY <1>1, <1>6
  <2>2. cache # <<>>
    BY <1>3, <1>4, EmptySeq
  <2>3. QED
    BY <1>2, <2>1, <2>2
<1>7. QED
  BY <1>5, <1>6

-----------------------------------------------------------------------------
(***************************************************************************)
(* A step keeps the invariant when the method that is then on top finds    *)
(* what it expects.                                                        *)
(***************************************************************************)
Stands == Formed /\ (failed \/ Clean)

\* Errors are not forgotten, and the lexer waits.
Steady ==
  /\ left' = left /\ ended' = ended /\ cache' \in Seq(Token)
  /\ failed' \in BOOLEAN /\ (failed => failed')

\* The points, one by one.
LEMMA PointNames ==
  /\ "program" \in Point /\ "program end" \in Point /\ "block" \in Point /\ "append" \in Point
  /\ "statement" \in Point /\ "end" \in Point /\ "recover" \in Point /\ "expression" \in Point
  /\ "parameters" \in Point /\ "unary" \in Point /\ "climb" \in Point /\ "crashed" \in Point
  /\ "check" \in Point /\ "stop" \in Point /\ "condition" \in Point /\ "line break or" \in Point
  /\ "line break" \in Point /\ "if" \in Point /\ "then" \in Point /\ "if end" \in Point
  /\ "else?" \in Point /\ "else" \in Point /\ "colon" \in Point /\ "for" \in Point
  /\ "for body" \in Point /\ "for end" \in Point /\ "switch" \in Point /\ "cases?" \in Point
  /\ "switch end" \in Point /\ "cases" \in Point /\ "append case" \in Point /\ "case" \in Point
  /\ "case body" \in Point /\ "case end" \in Point /\ "loop control" \in Point
  /\ "level?" \in Point /\ "export" \in Point /\ "define" \in Point /\ "name" \in Point
  /\ "signature" \in Point /\ "type?" \in Point /\ "type" \in Point /\ "typed" \in Point
  /\ "equals" \in Point /\ "function end" \in Point /\ "variable end" \in Point
  /\ "return" \in Point /\ "after return" \in Point /\ "return value" \in Point
  /\ "assign?" \in Point /\ "assigned" \in Point
BY DEF Point

\* A method before it runs.
LEMMA NewMethod ==
  ASSUME NEW point \in Point
  PROVE  /\ Method(point) \in Methods /\ Method(point).at = point /\ Method(point).ok
         /\ ~Method(point).some /\ Method(point).use = "" /\ Method(point).guards = {}
BY DEF Method, Methods

\* What is there when a method goes on.
LEMMA Running ==
  ASSUME Stands, stack # <<>>
  PROVE  /\ top \in Methods /\ cache \in Seq(Token)
         /\ result \in BOOLEAN /\ failed \in BOOLEAN /\ ended \in BOOLEAN
         /\ CurrentIndent \in Nat \cup {-1}
         /\ top.at \in Keywords => HasSolid(cache)
         /\ ~failed =>
              /\ Lines(cache, ended) /\ Placed(top, cache, CurrentIndent) /\ Caller(top)
              /\ top.at \notin {"typed", "equals"} => top.ok /\ (top.at \in Reading => result)
<1>1. /\ top \in Methods /\ CurrentIndent \in Nat \cup {-1} /\ Len(stack) \in Nat \ {0}
      /\ top = stack[Len(stack)]
  BY NestedStack DEF Stands, Formed
<1>2. ASSUME ~failed
      PROVE  /\ Lines(cache, ended) /\ Placed(top, cache, CurrentIndent) /\ Caller(top)
             /\ top.at \notin {"typed", "equals"} => top.ok /\ (top.at \in Reading => result)
  <2>1. /\ Lines(cache, ended) /\ Complete(stack) /\ Placed(top, cache, CurrentIndent)
        /\ top.ok \/ TypeAtEnd
        /\ top.at \in Reading => result \/ TypeAtEnd
    BY <1>2 DEF Stands, Clean
  <2>2. Caller(top)
    <3>1. CASE Len(stack) > 1
      <4>1. Len(stack) - 1 \in 1 .. Len(stack) - 1 /\ (Len(stack) - 1) + 1 = Len(stack)
        BY <1>1, <3>1
      <4>2. QED
        BY <1>1, <2>1, <3>1, <4>1 DEF Complete, Caller
    <3>2. CASE ~(Len(stack) > 1)
      <4>1. Len(stack) = 1
        <5>1. PICK n \in Nat \ {0} : n = Len(stack)
          BY <1>1
        <5>2. ~(n > 1)
          BY <3>2, <5>1
        <5>3. n = 1
          BY <5>2
        <5>4. QED
          BY <5>1, <5>3
      <4>2. QED
        BY <1>1, <2>1, <4>1 DEF Complete, Caller
    <3>3. QED
      BY <3>1, <3>2
  <2>3. TypeAtEnd => top.at \in {"typed", "equals"}
    BY DEF TypeAtEnd, At
  <2>4. QED
    BY <2>1, <2>2, <2>3
<1>3. QED
  BY <1>1, <1>2 DEF Stands, Formed

\* The method on top goes on as m.
LEMMA GoStands ==
  ASSUME Stands, Steady, stack # <<>>, indents' = indents, result' = result,
         NEW m \in Methods, SameBlock(m), stack' = GoOn(m),
         m.at \in Keywords => HasSolid(cache'),
         ~failed' => /\ Lines(cache', ended) /\ Caller(m) /\ Placed(m, cache', CurrentIndent)
                     /\ m.ok \/ TypeAtEnd'
                     /\ m.at \in Reading => result \/ TypeAtEnd'
  PROVE  Stands'
<1>1. Shaped
  BY DEF Stands, Formed, Shaped
<1>2. /\ Shaped' /\ stack' # <<>> /\ top' = m /\ CurrentIndent' = CurrentIndent
      /\ Complete(stack) /\ Caller(m) => Complete(stack')
  BY <1>1, GoesOn
<1>3. Formed'
  BY <1>2 DEF Stands, Formed, Shaped, Steady
<1>4. ASSUME ~failed' PROVE Clean'
  <2>1. Complete(stack)
    BY <1>4 DEF Stands, Clean, Steady
  <2>2. QED
    BY <1>2, <1>4, <2>1 DEF Clean, Steady
<1>5. QED
  BY <1>3, <1>4 DEF Stands

\* It calls c.
LEMMA CallStands ==
  ASSUME Stands, Steady, stack # <<>>, indents' = indents, result' = result,
         NEW m \in Methods, SameBlock(m), m.at \notin Keywords,
         NEW c \in Methods, "block" \notin c.guards, stack' = Append(GoOn(m), c),
         c.at \notin Reading, c.at \in Keywords => HasSolid(cache'),
         ~failed' => /\ Lines(cache', ended) /\ Caller(m) /\ m.ok
                     /\ Called(m.at, c) /\ c.ok /\ Placed(c, cache', CurrentIndent)
  PROVE  Stands'
<1>1. Shaped
  BY DEF Stands, Formed, Shaped
<1>2. /\ Shaped' /\ stack' # <<>> /\ top' = c /\ CurrentIndent' = CurrentIndent
      /\ Complete(stack) /\ Caller(m) /\ m.ok /\ Called(m.at, c) => Complete(stack')
  BY <1>1, Calls
<1>3. Formed'
  BY <1>2 DEF Stands, Formed, Shaped, Steady
<1>4. ASSUME ~failed' PROVE Clean'
  <2>1. Complete(stack)
    BY <1>4 DEF Stands, Clean, Steady
  <2>2. QED
    BY <1>2, <1>4, <2>1 DEF Clean, Steady
<1>5. QED
  BY <1>3, <1>4 DEF Stands

\* It calls c in a block.
LEMMA BlockStands ==
  ASSUME Stands, Steady, stack # <<>>, result' = result,
         NEW m \in Methods, SameBlock(m), m.at \notin Keywords,
         NEW c \in Methods, "block" \in c.guards, stack' = Append(GoOn(m), c),
         c.at \notin Reading, c.at \in Keywords => HasSolid(cache'),
         NEW k \in Nat \cup {-1}, indents' = Append(indents, k),
         k >= CurrentIndent, k = CurrentIndent => c.at \in CasePoints,
         ~failed' => /\ Lines(cache', ended) /\ Caller(m) /\ m.ok
                     /\ Called(m.at, c) /\ c.ok /\ Placed(c, cache', k)
  PROVE  Stands'
<1>1. Shaped
  BY DEF Stands, Formed, Shaped
<1>2. /\ Shaped' /\ stack' # <<>> /\ top' = c /\ CurrentIndent' = k
      /\ Complete(stack) /\ Caller(m) /\ m.ok /\ Called(m.at, c) => Complete(stack')
  BY <1>1, CallsInBlock
<1>3. Formed'
  BY <1>2 DEF Stands, Formed, Shaped, Steady
<1>4. ASSUME ~failed' PROVE Clean'
  <2>1. Complete(stack)
    BY <1>4 DEF Stands, Clean, Steady
  <2>2. QED
    BY <1>2, <1>4, <2>1 DEF Clean, Steady
<1>5. QED
  BY <1>3, <1>4 DEF Stands

\* WithRecovery: it calls c, which has called d.
LEMMA CallTwoStands ==
  ASSUME Stands, Steady, stack # <<>>, indents' = indents, result' = result,
         NEW m \in Methods, SameBlock(m), m.at \notin Keywords,
         NEW c \in Methods, "block" \notin c.guards, c.at \notin Keywords,
         NEW d \in Methods, "block" \notin d.guards, stack' = GoOn(m) \o <<c, d>>,
         d.at \notin Keywords \cup Reading,
         ~failed' => /\ Lines(cache', ended) /\ Caller(m) /\ m.ok /\ Called(m.at, c) /\ c.ok
                     /\ Called(c.at, d) /\ d.ok /\ Placed(d, cache', CurrentIndent)
  PROVE  Stands'
<1>1. Shaped
  BY DEF Stands, Formed, Shaped
<1>2. /\ Shaped' /\ stack' # <<>> /\ top' = d /\ CurrentIndent' = CurrentIndent
      /\ Complete(stack) /\ Caller(m) /\ m.ok /\ Called(m.at, c) /\ c.ok /\ Called(c.at, d)
           => Complete(stack')
  BY <1>1, CallsTwo
<1>3. Formed'
  BY <1>2 DEF Stands, Formed, Shaped, Steady
<1>4. ASSUME ~failed' PROVE Clean'
  <2>1. Complete(stack)
    BY <1>4 DEF Stands, Clean, Steady
  <2>2. QED
    BY <1>2, <1>4, <2>1 DEF Clean, Steady
<1>5. QED
  BY <1>3, <1>4 DEF Stands

\* It returns, to any method that may have called it.
LEMMA ReturnStands ==
  ASSUME Stands, Steady, stack # <<>>, NEW v \in BOOLEAN, Return(v),
         ~failed' => /\ Lines(cache', ended)
                     /\ \A p \in Methods, n \in Nat \cup {-1} :
                          p.ok /\ Called(p.at, top) =>
                            /\ Placed(p, cache', n)
                            /\ p.at \in Reading => v \/ (p.at = "typed" /\ ended /\ ~HasSolid(cache'))
  PROVE  Stands'
<1>1. Shaped
  BY DEF Stands, Formed, Shaped
<1>2. /\ Shaped' /\ result' = v
      /\ Complete(stack) => Complete(stack')
      /\ stack' # <<>> => /\ top' \in Methods /\ top'.at \notin Keywords
                          /\ Complete(stack) => top'.ok /\ Called(top'.at, top)
  BY <1>1, Returning
<1>3. Formed'
  BY <1>2 DEF Stands, Formed, Shaped, Steady
<1>4. ASSUME stack' # <<>> PROVE CurrentIndent' \in Nat \cup {-1}
  <2>1. Nested(stack', indents')
    BY <1>2 DEF Shaped
  <2>2. Opened(stack', Len(stack')) \in Nat
    BY <2>1, NextOpened, LenProperties DEF Nested
  <2>3. Len(indents') \in 1 .. Len(indents') /\ indents' \in Seq(Nat \cup {-1})
    BY <2>1, <2>2, LenProperties DEF Nested
  <2>4. QED
    BY <2>3, ElementOfSeq DEF CurrentIndent
<1>5. ASSUME ~failed' PROVE Clean'
  <2>1. Complete(stack)
    BY <1>5 DEF Stands, Clean, Steady
  <2>2. Lines(cache', ended') /\ Complete(stack')
    BY <1>2, <1>5, <2>1 DEF Steady
  <2>3. ASSUME stack' # <<>>
        PROVE  /\ Placed(top', cache', CurrentIndent')
               /\ top'.ok
               /\ top'.at \in Reading => v \/ (top'.at = "typed" /\ ended /\ ~HasSolid(cache'))
    BY <1>2, <1>4, <1>5, <2>1, <2>3
  <2>4. ASSUME stack' # <<>>, top'.at = "typed", ended, ~HasSolid(cache') PROVE TypeAtEnd'
    <3>1. DOMAIN cache' = 1 .. Len(cache')
      BY LenProperties DEF Steady
    <3>2. Solid' = {}
      BY <2>4, <3>1 DEF Solid, HasSolid, IsSpace
    <3>3. Ahead(TRUE)' = Eof
      BY <3>2 DEF Ahead, Sees
    <3>4. QED
      BY <2>4, <3>3 DEF TypeAtEnd, At, Steady
  <2>5. QED
    BY <1>2, <2>2, <2>3, <2>4 DEF Clean
<1>6. QED
  BY <1>3, <1>5 DEF Stands

\* The method on top goes on as it is.
LEMMA StayStands ==
  ASSUME Stands, Steady, stack # <<>>, stack' = stack, indents' = indents, result' = result,
         top.at \in Keywords => HasSolid(cache'),
         ~failed' => /\ Lines(cache', ended) /\ Placed(top, cache', CurrentIndent) /\ top.ok
                     /\ top.at \in Reading => result
  PROVE  Stands'
<1>1. Formed'
  BY DEF Stands, Formed, Steady, top
<1>2. ASSUME ~failed' PROVE Clean'
  <2>1. Complete(stack)
    BY <1>2 DEF Stands, Clean, Steady
  <2>2. top' = top /\ CurrentIndent' = CurrentIndent
    BY DEF top, CurrentIndent
  <2>3. QED
    BY <1>2, <2>1, <2>2 DEF Clean, Steady
<1>3. QED
  BY <1>1, <1>2 DEF Stands

\* What WithRecovery looks for after an expression or a type.
LEMMA UseSkips ==
  /\ Skips["switched"] = TRUE /\ Skips["type"] = TRUE
  /\ Nexts["switched"] = {"Case", "Default"}
BY DEF Skips, Nexts

\* WithRecovery, before it runs.
LEMMA CheckMethod ==
  ASSUME NEW use \in {"condition", "switched", "type"}
  PROVE  LET c == [Method("check") EXCEPT !.use = use] IN
         c \in Methods /\ c.at = "check" /\ c.use = use /\ c.ok /\ c.guards = {}
<1>1. PICK z \in Methods : z = Method("check") /\ z.at = "check" /\ z.ok /\ z.guards = {}
  <2>1. "check" \in Point
    BY PointNames
  <2>2. QED
    BY <2>1, NewMethod
<1>2. use \in DOMAIN Nexts
  BY DEF Nexts
<1>3. QED
  BY <1>1, <1>2 DEF Methods

\* Where nothing but the end of a line matters.
LEMMA PlacedPlain ==
  ASSUME NEW p, NEW q, NEW n, Midline(q), AfterLine(p) => NoBreak(q),
         p.at \notin {"recover", "stop", "statement", "return", "block", "case", "cases", "cases?"}
  PROVE  Placed(p, q, n)
BY DEF Placed

\* At the beginning of a statement it may be anywhere.
LEMMA PlacedStarting ==
  ASSUME NEW p, NEW q, NEW n, p.at \in Starting \ {"statement", "return"}
  PROVE  Placed(p, q, n)
BY DEF Placed, Starting, AfterLine

-----------------------------------------------------------------------------
(***************************************************************************)
(* The actions keep the second invariant.                                  *)
(***************************************************************************)
\* Programs, blocks, the ends of statements and recovery.
LEMMA BlocksStand ==
  ASSUME Stands, Blocks PROVE Stands'
<1>1. ASSUME Program PROVE Stands'
  <2> DEFINE k == StatementIndent
             m == [top EXCEPT !.at = "program end"]
             line == IF AfterBreak[1].is = "Indent" THEN top.line ELSE -1
             b == [Method("block") EXCEPT !.line = line]
             c == [b EXCEPT !.guards = @ \cup {"block"}]
  <2>1. Runs("program")
    BY <1>1 DEF Program
  <2>2. /\ stack # <<>> /\ top.at = "program" /\ top \in Methods /\ cache \in Seq(Token)
        /\ CurrentIndent \in Nat \cup {-1} /\ failed \in BOOLEAN
        /\ ~failed => /\ Lines(cache, ended) /\ Placed(top, cache, CurrentIndent) /\ Caller(top)
                      /\ top.ok
    BY <2>1, Running DEF Runs, At
  <2>3. cache' = AfterBreak
    BY <1>1 DEF Program
  <2>4. ~failed => /\ Lines(cache', ended) /\ NoBreak(cache') /\ Midline(cache')
    BY <2>2, <2>3, AfterBreakIs DEF Placed, Starting
  <2>5. CASE k > CurrentIndent
    <3>1. /\ m \in Methods /\ SameBlock(m) /\ m.at = "program end" /\ m.ok = top.ok
          /\ Caller(top) => Caller(m)
      <4>1. "program end" \in Point
        BY PointNames
      <4>2. m \in Methods /\ m.at = "program end" /\ m.ok = top.ok /\ m.use = top.use
            /\ m.guards = top.guards /\ m.some = top.some
        BY <2>2, <4>1 DEF Methods
      <4>3. QED
        BY <2>2, <4>2 DEF SameBlock, CasePoints, Caller, Called
    <3>2. line \in Nat \cup {-1}
      BY <2>2 DEF Methods
    <3>3. c \in Methods /\ c.guards = {"block"} /\ c.at = "block" /\ c.ok /\ ~c.some
      <4>1. PICK z \in Methods : z = Method("block") /\ z.guards = {} /\ z.at = "block" /\ z.ok /\ ~z.some
        BY PointNames, NewMethod
      <4> HIDE DEF line
      <4>2. b = [z EXCEPT !.line = line]
        BY <4>1
      <4>3. b \in Methods /\ b.guards = {} /\ b.at = "block" /\ b.ok /\ ~b.some
        BY <3>2, <4>1, <4>2 DEF Methods
      <4> HIDE DEF b
      <4>4. QED
        BY <4>3 DEF Methods
    <3>4. /\ stack' = Append(GoOn(m), c) /\ indents' = Append(indents, k)
          /\ result' = result /\ failed' = failed /\ UNCHANGED lexer
      BY <1>1, <2>5 DEF Program, WithBlock, Call
    <3>5. k \in Nat \cup {-1} /\ k # -1 /\ k >= CurrentIndent /\ k # CurrentIndent
      BY <2>2, <2>5, AfterBreakIs
    <3>6. cache' \in Seq(Token) /\ cache' # <<>> /\ k = cache'[1].at
      BY <2>2, <2>3, <3>5, AfterBreakIs
    <3>7. Steady
      BY <2>2, <3>4, <3>6 DEF Steady, lexer
    <3> HIDE DEF m, b, c, k
    <3>8. Called(m.at, c)
      BY <3>1, <3>3 DEF Called, CasePoints
    <3>9. ~failed => Placed(c, cache', k)
      BY <2>4, <3>3, <3>6 DEF Placed
    <3>10. QED
      BY <2>2, <2>4, <3>1, <3>3, <3>4, <3>5, <3>7, <3>8, <3>9, BlockStands
      DEF Keywords, Reading, CasePoints
  <2>6. CASE ~(k > CurrentIndent)
    <3>1. Return(FALSE) /\ failed' = (failed \/ top.use # "emptyable") /\ UNCHANGED lexer
      BY <1>1, <2>6 DEF Program
    <3>2. Steady
      BY <2>2, <2>3, <3>1, AfterBreakIs DEF Steady, lexer
    <3>3. ASSUME ~failed', NEW p \in Methods, NEW n, Called(p.at, top)
          PROVE  Placed(p, cache', n) /\ p.at \notin Reading
      <4>1. p.at = "case end"
        BY <2>2, <3>1, <3>3 DEF Called
      <4>2. QED
        BY <2>4, <3>1, <3>3, <4>1, PlacedPlain DEF Reading
    <3>4. QED
      BY <2>2, <2>4, <3>1, <3>2, <3>3, ReturnStands
  <2>7. QED
    BY <2>5, <2>6
<1>2. ASSUME ProgramEnd PROVE Stands'
  <2>1. /\ Runs("program end") /\ Return(result) /\ cache' = cache /\ UNCHANGED lexer
        /\ failed' = (failed \/ (~result /\ top.use # "emptyable"))
    BY <1>2 DEF ProgramEnd
  <2>2. /\ stack # <<>> /\ top.at = "program end" /\ cache \in Seq(Token)
        /\ result \in BOOLEAN /\ failed \in BOOLEAN
        /\ ~failed => Lines(cache, ended) /\ Placed(top, cache, CurrentIndent)
    BY <2>1, Running DEF Runs, At
  <2>3. ~failed => Midline(cache) /\ NoBreak(cache)
    BY <2>2 DEF Placed, Starting, AfterLine
  <2>4. Steady
    BY <2>1, <2>2 DEF Steady, lexer
  <2>5. ASSUME ~failed', NEW p \in Methods, NEW n, Called(p.at, top)
        PROVE  Placed(p, cache', n) /\ (p.at \in Reading => result)
    <3>1. /\ p.at \in {"parse", "else?", "for end", "case end", "function end", "if end", "append case"}
          /\ ~result => p.at = "case end"
      BY <2>1, <2>2, <2>5 DEF Called
    <3>2. QED
      BY <2>1, <2>3, <2>5, <3>1, PlacedPlain DEF Reading
  <2>6. QED
    BY <2>1, <2>2, <2>4, <2>5, ReturnStands
<1>3. ASSUME BlockEnd PROVE Stands'
  <2>1. /\ Runs("block") /\ Return(top.some) /\ cache' = cache /\ failed' = failed /\ UNCHANGED lexer
        /\ \/ Ahead(FALSE) = Eof
           \/ Ahead(FALSE).is = "Indent" /\ Ahead(FALSE).at < CurrentIndent
    BY <1>3 DEF BlockEnd
  <2>2. /\ stack # <<>> /\ top.at = "block" /\ top \in Methods /\ cache \in Seq(Token)
        /\ failed \in BOOLEAN /\ CurrentIndent \in Nat \cup {-1}
        /\ ~failed => Lines(cache, ended) /\ Placed(top, cache, CurrentIndent)
    BY <2>1, Running DEF Runs, At
  <2>3. top.some \in BOOLEAN
    BY <2>2 DEF Methods
  <2>4. ~failed => Midline(cache) /\ NoBreak(cache) /\ top.some
    <3>1. SUFFICES ASSUME ~failed PROVE Midline(cache) /\ NoBreak(cache) /\ top.some
      OBVIOUS
    <3>2. Midline(cache) /\ NoBreak(cache)
      BY <2>2, <3>1 DEF Placed, Starting, AfterLine
    <3>3. ASSUME ~top.some PROVE FALSE
      <4>1. cache # <<>> /\ (cache[1].is = "Indent" => cache[1].at = CurrentIndent)
        BY <2>2, <3>1, <3>3 DEF Placed
      <4>2. Ahead(FALSE) = cache[1] /\ Ahead(FALSE) # Eof
        BY <2>2, <4>1, AheadIs, EofIs
      <4>3. cache[1].at < CurrentIndent /\ cache[1].at = CurrentIndent
        BY <2>1, <4>1, <4>2
      <4>4. QED
        BY <2>2, <4>3
    <3>4. QED
      BY <3>2, <3>3
  <2>5. Steady
    BY <2>1, <2>2 DEF Steady, lexer
  <2>6. ASSUME ~failed, NEW p \in Methods, NEW n, Called(p.at, top)
        PROVE  Placed(p, cache, n)
    <3>1. p.at = "program end"
      BY <2>2, <2>6 DEF Called
    <3>2. QED
      BY <2>4, <2>6, <3>1, PlacedPlain
  <2>7. QED
    BY <2>1, <2>2, <2>3, <2>4, <2>5, <2>6, ReturnStands
<1>4. ASSUME CurrentBlockStatement PROVE Stands'
  <2> DEFINE m == [top EXCEPT !.at = "append"]
             c == Method("statement")
  <2>1. /\ Runs("block") /\ Ahead(FALSE) # Eof
        /\ Ahead(FALSE).is = "Indent" => Ahead(FALSE).at = CurrentIndent
        /\ cache' = Dropped(cache, "Indent") /\ stack' = Append(GoOn(m), c)
        /\ indents' = indents /\ result' = result /\ failed' = failed /\ UNCHANGED lexer
    BY <1>4 DEF CurrentBlockStatement, Call, state
  <2>2. /\ stack # <<>> /\ top.at = "block" /\ top \in Methods /\ cache \in Seq(Token)
        /\ failed \in BOOLEAN
        /\ ~failed => /\ Lines(cache, ended) /\ Placed(top, cache, CurrentIndent) /\ Caller(top)
                      /\ top.ok
    BY <2>1, Running DEF Runs, At
  <2>3. /\ m \in Methods /\ SameBlock(m) /\ m.at = "append" /\ m.ok = top.ok
        /\ Caller(top) => Caller(m)
    BY <2>2, PointNames DEF Methods, SameBlock, CasePoints, Caller, Called
  <2>4. /\ c \in Methods /\ c.at = "statement" /\ c.ok /\ ~c.some /\ c.use = "" /\ c.guards = {}
    BY PointNames, NewMethod
  <2> HIDE DEF m, c
  <2>5. cache # <<>> /\ Ahead(FALSE) = cache[1]
    BY <2>1, <2>2, AheadIs
  <2>6. cache' \in Seq(Token)
    BY <2>1, <2>2, <2>5, IndentKeeps
  <2>7. ASSUME ~failed PROVE Lines(cache', ended) /\ Placed(c, cache', CurrentIndent)
    <3>1. Midline(cache) /\ NoBreak(cache)
      BY <2>2, <2>7 DEF Placed, Starting, AfterLine
    <3>2. /\ Lines(cache', ended) /\ cache' # <<>> /\ ~IsSpace(cache'[1])
          /\ IF cache[1].is = "Indent" THEN cache'[1].at = cache[1].at ELSE ~Begins(cache'[1])
      BY <2>1, <2>2, <2>5, <2>7, <3>1, IndentKeeps
    <3>3. Begins(cache'[1]) => cache'[1].at = CurrentIndent
      BY <2>1, <2>5, <3>2
    <3>4. QED
      BY <2>4, <3>2, <3>3 DEF Placed, Starting, AfterLine
  <2>8. Steady
    BY <2>1, <2>2, <2>6 DEF Steady, lexer
  <2>9. Called(m.at, c)
    BY <2>3, <2>4 DEF Called, CasePoints
  <2>10. QED
    BY <2>1, <2>2, <2>3, <2>4, <2>7, <2>8, <2>9, CallStands DEF Keywords, Reading
<1>5. ASSUME UnexpectIndent PROVE Stands'
  <2> DEFINE m == [top EXCEPT !.at = "block"]
             c == [Method("statement") EXCEPT !.guards = @ \cup {"block"}]
             k == Ahead(FALSE).at
  <2>1. /\ Runs("block") /\ Ahead(FALSE).is = "Indent" /\ k > CurrentIndent /\ Takes(FALSE)
        /\ stack' = Append(GoOn(m), c) /\ indents' = Append(indents, k)
        /\ result' = result /\ failed' = TRUE /\ UNCHANGED lexer
    BY <1>5 DEF UnexpectIndent, WithBlock, Call
  <2>2. /\ stack # <<>> /\ top.at = "block" /\ top \in Methods /\ cache \in Seq(Token)
        /\ CurrentIndent \in Nat \cup {-1}
    BY <2>1, Running DEF Runs, At
  <2>3. m \in Methods /\ SameBlock(m) /\ m.at = "block"
    BY <2>2, PointNames DEF Methods, SameBlock, CasePoints
  <2>4. c \in Methods /\ c.at = "statement" /\ c.guards = {"block"}
    <3>1. PICK z \in Methods : z = Method("statement") /\ z.guards = {} /\ z.at = "statement"
      BY PointNames, NewMethod
    <3>2. c = [z EXCEPT !.guards = @ \cup {"block"}]
      BY <3>1
    <3>3. QED
      BY <3>1, <3>2 DEF Methods
  <2>5. k \in Nat
    BY <2>1, <2>2, AheadIs, EofIs
  <2>6. Steady
    BY <2>1, <2>2, TakesFirstKeeps DEF Steady, lexer
  <2> HIDE DEF m, c, k
  <2>7. k >= CurrentIndent /\ k # CurrentIndent
    BY <2>1, <2>2, <2>5
  <2>8. QED
    BY <2>1, <2>2, <2>3, <2>4, <2>5, <2>6, <2>7, BlockStands DEF Keywords, Reading
<1>6. ASSUME AppendStatement PROVE Stands'
  <2> DEFINE m == [top EXCEPT !.at = "block", !.some = @ \/ result]
  <2>1. /\ Runs("append") /\ stack' = GoOn(m) /\ cache' = cache
        /\ indents' = indents /\ result' = result /\ failed' = failed /\ UNCHANGED lexer
    BY <1>6 DEF AppendStatement, state
  <2>2. /\ stack # <<>> /\ top.at = "append" /\ top \in Methods /\ cache \in Seq(Token)
        /\ failed \in BOOLEAN /\ result \in BOOLEAN
        /\ ~failed => /\ Lines(cache, ended) /\ Placed(top, cache, CurrentIndent) /\ Caller(top)
                      /\ top.ok /\ result
    <3>1. "append" \in Reading
      BY DEF Reading
    <3>2. QED
      BY <2>1, <3>1, Running DEF Runs, At
  <2>3. /\ m \in Methods /\ SameBlock(m) /\ m.at = "block" /\ m.ok = top.ok
        /\ Caller(top) => Caller(m)
        /\ result => m.some
    BY <2>2, PointNames DEF Methods, SameBlock, CasePoints, Caller, Called
  <2> HIDE DEF m
  <2>4. Steady
    BY <2>1, <2>2 DEF Steady, lexer
  <2>5. ~failed => Placed(m, cache, CurrentIndent)
    BY <2>2, <2>3 DEF Placed, Starting, AfterLine
  <2>6. QED
    BY <2>1, <2>2, <2>3, <2>4, <2>5, GoStands DEF Keywords, Reading
<1>7. ASSUME Statement PROVE Stands'
  <2> DEFINE m == [top EXCEPT !.at = Dispatch[Ahead(TRUE).is], !.line = Ahead(TRUE).line]
             d == [top EXCEPT !.at = "assign?"]
             c == Method("expression")
  <2>1. Runs("statement") /\ cache' = cache /\ failed' = failed /\ UNCHANGED lexer
    BY <1>7 DEF Statement
  <2>2. /\ stack # <<>> /\ top.at = "statement" /\ top \in Methods /\ cache \in Seq(Token)
        /\ failed \in BOOLEAN
        /\ ~failed => /\ Lines(cache, ended) /\ Placed(top, cache, CurrentIndent) /\ Caller(top)
                      /\ top.ok
    BY <2>1, Running DEF Runs, At
  <2>3. Steady
    BY <2>1, <2>2 DEF Steady, lexer
  <2>4. ~failed => cache # <<>> /\ ~IsSpace(cache[1]) /\ HasSolid(cache)
    <3>1. SUFFICES ASSUME ~failed PROVE cache # <<>> /\ ~IsSpace(cache[1]) /\ HasSolid(cache)
      OBVIOUS
    <3>2. cache # <<>> /\ ~IsSpace(cache[1])
      BY <2>2, <3>1 DEF Placed
    <3>3. 1 \in 1 .. Len(cache)
      BY <2>2, <3>2, EmptySeq, LenProperties
    <3>4. QED
      BY <3>2, <3>3 DEF HasSolid
  <2>5. CASE Ahead(TRUE) = Eof
    <3>1. Return(FALSE)
      BY <1>7, <2>5 DEF Statement
    <3>2. failed
      BY <2>2, <2>4, <2>5, AheadIs, EofIs
    <3>3. QED
      BY <2>1, <2>2, <2>3, <3>1, <3>2, ReturnStands
  <2>6. CASE Ahead(TRUE) # Eof /\ Ahead(TRUE).is \in DOMAIN Dispatch
    <3>1. stack' = GoOn(m) /\ indents' = indents /\ result' = result
      BY <1>7, <2>6 DEF Statement, state
    <3>2. HasSolid(cache) /\ Ahead(TRUE).line \in Nat
      BY <2>2, <2>6, AheadIs, EofIs
    <3>3. Dispatch[Ahead(TRUE).is] \in
            {"export", "return", "if", "for", "switch", "loop control"}
      <4>1. \A t \in DOMAIN Dispatch :
              Dispatch[t] \in {"export", "return", "if", "for", "switch", "loop control"}
        <5>1. DOMAIN Dispatch = {"Export", "Define", "Return", "If", "For", "Switch", "Break"}
          BY DEF Dispatch
        <5>2. /\ Dispatch["Export"] = "export" /\ Dispatch["Define"] = "export"
              /\ Dispatch["Return"] = "return" /\ Dispatch["If"] = "if" /\ Dispatch["For"] = "for"
              /\ Dispatch["Switch"] = "switch" /\ Dispatch["Break"] = "loop control"
          BY DEF Dispatch
        <5>3. QED
          BY <5>1, <5>2
      <4>2. QED
        BY <2>6, <4>1
    <3>4. PICK point : point = Dispatch[Ahead(TRUE).is]
      OBVIOUS
    <3>5. point \in {"export", "return", "if", "for", "switch", "loop control"} /\ point \in Point
      BY <3>3, <3>4, PointNames
    <3>6. m = [top EXCEPT !.at = point, !.line = Ahead(TRUE).line]
      BY <3>4
    <3>7. /\ m \in Methods /\ SameBlock(m) /\ m.at = point /\ m.ok = top.ok
          /\ Caller(top) => Caller(m)
      <4>1. /\ m \in Methods /\ m.at = point /\ m.ok = top.ok /\ m.use = top.use
            /\ m.some = top.some /\ m.guards = top.guards
        BY <2>2, <3>2, <3>5, <3>6 DEF Methods
      <4> HIDE DEF m
      <4>2. SameBlock(m)
        BY <2>2, <4>1 DEF SameBlock, CasePoints
      <4>3. Caller(top) => Caller(m)
        BY <2>2, <3>5, <4>1 DEF Caller, Called, CasePoints
      <4>4. QED
        BY <4>1, <4>2, <4>3
    <3> HIDE DEF m
    <3>8. ~failed => Placed(m, cache, CurrentIndent)
      BY <2>4, <3>5, <3>7 DEF Placed, Starting, AfterLine
    <3>9. m.at \notin Reading
      BY <3>5, <3>7 DEF Reading
    <3>10. QED
      BY <2>1, <2>2, <2>3, <3>1, <3>2, <3>7, <3>8, <3>9, GoStands
  <2>7. CASE Ahead(TRUE) # Eof /\ Ahead(TRUE).is \notin DOMAIN Dispatch
    <3>1. stack' = Append(GoOn(d), c) /\ indents' = indents /\ result' = result
      BY <1>7, <2>7 DEF Statement, state
    <3>2. /\ d \in Methods /\ SameBlock(d) /\ d.at = "assign?" /\ d.ok = top.ok
          /\ Caller(top) => Caller(d)
      BY <2>2, PointNames DEF Methods, SameBlock, CasePoints, Caller, Called
    <3>3. c \in Methods /\ c.at = "expression" /\ c.ok /\ c.guards = {}
      BY PointNames, NewMethod
    <3> HIDE DEF d, c
    <3>4. Called(d.at, c) /\ Placed(c, cache, CurrentIndent)
      BY <3>2, <3>3, PlacedStarting DEF Called, CasePoints, Starting
    <3>5. QED
      BY <2>1, <2>2, <2>3, <3>1, <3>2, <3>3, <3>4, CallStands DEF Keywords, Reading
  <2>8. QED
    BY <2>5, <2>6, <2>7

<1>8. ASSUME AssertStatementEnd PROVE Stands'
  <2> DEFINE m == [top EXCEPT !.at = "recover"]
  <2>1. Runs("end") /\ UNCHANGED lexer
    BY <1>8 DEF AssertStatementEnd
  <2>2. /\ stack # <<>> /\ top.at = "end" /\ top \in Methods /\ cache \in Seq(Token)
        /\ failed \in BOOLEAN
        /\ ~failed => /\ Lines(cache, ended) /\ Placed(top, cache, CurrentIndent) /\ top.ok
    BY <2>1, Running DEF Runs, At
  <2>3. top.ok \in BOOLEAN
    BY <2>2 DEF Methods
  <2>4. \/ SkipStatementEnd /\ Return(top.ok) /\ failed' = failed
        \/ /\ stack' = GoOn(m) /\ failed' = TRUE /\ cache' = cache
           /\ indents' = indents /\ result' = result
    BY <1>8 DEF AssertStatementEnd, GoTo, state
  <2>5. CASE SkipStatementEnd /\ Return(top.ok) /\ failed' = failed
    <3>1. cache' \in Seq(Token)
      BY <2>2, <2>5, SkipKeeps
    <3>2. Steady
      BY <2>1, <2>2, <2>5, <3>1 DEF Steady, lexer
    <3>3. ~failed => Lines(cache', ended) /\ NoBreak(cache') /\ Midline(cache')
      BY <2>2, <2>5, SkipKeeps DEF Placed, Starting
    <3>4. ASSUME ~failed, NEW p \in Methods, NEW n, Called(p.at, top)
          PROVE  Placed(p, cache', n)
      <4>1. p.at = "append"
        BY <2>2, <3>4 DEF Called
      <4>2. QED
        BY <3>3, <3>4, <4>1, PlacedPlain
    <3>5. QED
      BY <2>2, <2>3, <2>5, <3>2, <3>3, <3>4, ReturnStands
  <2>6. CASE /\ stack' = GoOn(m) /\ failed' = TRUE /\ cache' = cache
             /\ indents' = indents /\ result' = result
    <3>1. m \in Methods /\ SameBlock(m) /\ m.at = "recover"
      BY <2>2, PointNames DEF Methods, SameBlock, CasePoints
    <3> HIDE DEF m
    <3>2. Steady
      BY <2>1, <2>2, <2>6 DEF Steady, lexer
    <3>3. QED
      BY <2>2, <2>6, <3>1, <3>2, GoStands DEF Keywords
  <2>7. QED
    BY <2>4, <2>5, <2>6
<1>9. ASSUME RecoverFromStatement PROVE Stands'
  <2>1. Runs("recover") /\ failed' = failed /\ UNCHANGED lexer
    BY <1>9 DEF RecoverFromStatement
  <2>2. /\ stack # <<>> /\ top.at = "recover" /\ cache \in Seq(Token) /\ failed \in BOOLEAN
        /\ ~failed => Placed(top, cache, CurrentIndent)
    BY <2>1, Running DEF Runs, At
  <2>3. failed
    BY <2>2 DEF Placed
  <2>4. \/ SkipStatementEnd /\ Return(FALSE)
        \/ Takes(FALSE) /\ stack' = stack /\ indents' = indents /\ result' = result
    BY <1>9 DEF RecoverFromStatement, state
  <2>5. cache' \in Seq(Token)
    BY <2>2, <2>4, SkipKeeps, TakesFirstKeeps
  <2>6. Steady
    BY <2>1, <2>2, <2>5 DEF Steady, lexer
  <2>7. QED
    BY <2>1, <2>2, <2>3, <2>4, <2>6, ReturnStands, StayStands DEF Keywords
<1>10. ASSUME CheckNext PROVE Stands'
  <2> DEFINE m == [top EXCEPT !.at = "stop"]
  <2>1. Runs("check") /\ cache' = cache /\ UNCHANGED lexer
    BY <1>10 DEF CheckNext
  <2>2. /\ stack # <<>> /\ top.at = "check" /\ top \in Methods /\ cache \in Seq(Token)
        /\ failed \in BOOLEAN
        /\ ~failed => Lines(cache, ended) /\ Placed(top, cache, CurrentIndent) /\ result
    <3>1. "check" \in Reading
      BY DEF Reading
    <3>2. QED
      BY <2>1, <3>1, Running DEF Runs, At
  <2>3. ~failed => Midline(cache)
    BY <2>2 DEF Placed, Starting
  <2>4. /\ m \in Methods /\ SameBlock(m) /\ m.at = "stop"
    BY <2>2, PointNames DEF Methods, SameBlock, CasePoints
  <2>5. \/ /\ stack' = GoOn(m) /\ indents' = indents /\ result' = result
           /\ (~result /\ failed' = failed) \/ failed' = TRUE
        \/ Recovered /\ Return(TRUE) /\ failed' = failed
        \/ ~Recovered /\ Ahead(Skips[top.use]) = Eof /\ Return(FALSE) /\ FinalRecord
    BY <1>10 DEF CheckNext, GoTo, state
  <2>6. CASE /\ stack' = GoOn(m) /\ indents' = indents /\ result' = result
             /\ (~result /\ failed' = failed) \/ failed' = TRUE
    <3> HIDE DEF m
    <3>1. failed'
      BY <2>2, <2>6
    <3>2. Steady
      BY <2>1, <2>2, <2>6, <3>1 DEF Steady, lexer
    <3>3. QED
      BY <2>1, <2>2, <2>4, <2>6, <3>1, <3>2, GoStands DEF Keywords
  <2>7. CASE Recovered /\ Return(TRUE) /\ failed' = failed
    <3>1. Steady
      BY <2>1, <2>2, <2>7 DEF Steady, lexer
    <3>2. ASSUME ~failed, NEW p \in Methods, NEW n, Called(p.at, top)
          PROVE  Placed(p, cache, n)
      <4>1. /\ top.use \in DOMAIN Nexts
            /\ top.use = "condition" => p.at = "line break or"
            /\ top.use = "switched" => p.at = "cases?"
            /\ top.use = "type" => p.at = "typed"
        BY <2>2, <3>2 DEF Called
      <4>2. DOMAIN Nexts = {"condition", "switched", "type"}
        BY DEF Nexts
      <4>3. top.use = "switched" => CaseAhead(cache)
        <5>1. top.use = "switched" => Ahead(TRUE).is \in {"Case", "Default"}
          BY <2>7, UseSkips, Zenon DEF Recovered
        <5>2. QED
          BY <2>2, <5>1, CaseSeen DEF IsCase
      <4>4. p.at \in {"line break or", "cases?", "typed"} /\ (p.at = "cases?" => CaseAhead(cache))
        BY <4>1, <4>2, <4>3
      <4>5. QED
        BY <2>3, <3>2, <4>4 DEF Placed, AfterLine
    <3>3. QED
      BY <2>1, <2>2, <2>7, <3>1, <3>2, ReturnStands
  <2>8. CASE ~Recovered /\ Ahead(Skips[top.use]) = Eof /\ Return(FALSE) /\ FinalRecord
    <3>1. failed' = (failed \/ top.use # "type")
      BY <2>8 DEF FinalRecord
    <3>2. Steady
      BY <2>1, <2>2, <3>1 DEF Steady, lexer
    <3>3. ASSUME ~failed', NEW p \in Methods, NEW n, Called(p.at, top)
          PROVE  Placed(p, cache, n) /\ p.at = "typed" /\ ended /\ ~HasSolid(cache)
      <4>1. top.use = "type" /\ ~failed
        BY <2>2, <3>1, <3>3
      <4>2. p.at = "typed"
        BY <2>2, <3>3, <4>1 DEF Called
      <4>3. ~HasSolid(cache)
        <5>1. Ahead(TRUE) = Eof
          BY <2>8, <4>1, UseSkips, Zenon
        <5>2. QED
          BY <2>2, <5>1, AheadIs, EofIs
      <4>4. ended
        <5>1. ~Sees(TRUE, 1)
          BY <2>2, <4>3, FirstSolid DEF Sees
        <5>2. ~Sighted
          BY <2>2, <5>1, Zenon DEF Sighted
        <5>3. QED
          BY <2>1, <5>2 DEF Runs
      <4>5. QED
        BY <2>3, <4>1, <4>2, <4>3, <4>4, PlacedPlain DEF AfterLine
    <3>4. QED
      BY <2>1, <2>2, <2>8, <3>1, <3>2, <3>3, ReturnStands
  <2>9. QED
    BY <2>5, <2>6, <2>7, <2>8
<1>11. ASSUME Recover PROVE Stands'
  <2>1. Runs("stop") /\ UNCHANGED lexer
    BY <1>11 DEF Recover
  <2>2. /\ stack # <<>> /\ top.at = "stop" /\ cache \in Seq(Token) /\ failed \in BOOLEAN
        /\ ~failed => Placed(top, cache, CurrentIndent)
    BY <2>1, Running DEF Runs, At
  <2>3. failed
    BY <2>2 DEF Placed
  <2>4. \/ Return(FALSE) /\ FinalRecord /\ cache' = cache
        \/ /\ Takes(FALSE) /\ stack' = stack /\ indents' = indents /\ result' = result
           /\ failed' = failed
    BY <1>11 DEF Recover, state
  <2>5. failed'
    BY <2>3, <2>4 DEF FinalRecord
  <2>6. cache' \in Seq(Token) /\ failed' \in BOOLEAN
    BY <2>2, <2>4, TakesFirstKeeps DEF FinalRecord
  <2>7. Steady
    BY <2>1, <2>5, <2>6 DEF Steady, lexer
  <2>8. QED
    BY <2>2, <2>4, <2>5, <2>7, ReturnStands, StayStands DEF Keywords
<1>12. QED
  BY <1>1, <1>2, <1>3, <1>4, <1>5, <1>6, <1>7, <1>8, <1>9, <1>10, <1>11 DEF Blocks

\* An expression that has no operand is an error.
LEMMA NoOperandStands ==
  ASSUME Stands, Steady, stack # <<>>, top \in Methods, top.at \notin CasePoints,
         NoOperand, failed' = TRUE
  PROVE  Stands'
<1> DEFINE m == [top EXCEPT !.at = "climb", !.ok = FALSE]
<1>1. m \in Methods /\ SameBlock(m) /\ m.at = "climb"
  BY PointNames DEF Methods, SameBlock, CasePoints
<1>2. \/ stack' = GoOn(m) /\ indents' = indents /\ result' = result
      \/ Return(FALSE)
  BY DEF NoOperand, state
<1> HIDE DEF m
<1>3. QED
  BY <1>1, <1>2, GoStands, ReturnStands DEF Keywords

\* Expressions and assignments.
LEMMA ExpressionsStand ==
  ASSUME Stands, Expressions PROVE Stands'
<1>1. ASSUME PrimaryExpr PROVE Stands'
  <2>1. Runs("expression") /\ UNCHANGED lexer
    BY <1>1 DEF PrimaryExpr
  <2>2. /\ stack # <<>> /\ top.at = "expression" /\ top \in Methods /\ cache \in Seq(Token)
        /\ failed \in BOOLEAN
        /\ ~failed => Lines(cache, ended) /\ Caller(top) /\ top.ok
    BY <2>1, Running DEF Runs, At
  <2>3. PICK point : point = IF Ahead(TRUE).is = "Minus" THEN "unary"
                             ELSE IF Ahead(TRUE).is = "Ident" /\ Second.is \in IsAtomExprLookahead
                             THEN "parameters" ELSE "climb"
    OBVIOUS
  <2> DEFINE m == [top EXCEPT !.at = point]
  <2>4. \/ /\ Ahead(TRUE).is \in {"IntLit", "Unit", "Ident", "Minus"}
           /\ Takes(TRUE) /\ stack' = GoOn(m) /\ indents' = indents /\ result' = result
           /\ failed' = failed
        \/ NoOperand /\ failed' = TRUE /\ cache' = cache
    BY <1>1, <2>3 DEF PrimaryExpr, IsAtomExprLookahead, GoTo, state
  <2>5. CASE NoOperand /\ failed' = TRUE /\ cache' = cache
    <3>1. Steady
      BY <2>1, <2>2, <2>5 DEF Steady, lexer
    <3>2. QED
      BY <2>2, <2>5, <3>1, NoOperandStands DEF CasePoints
  <2>6. CASE /\ Ahead(TRUE).is \in {"IntLit", "Unit", "Ident", "Minus"}
             /\ Takes(TRUE) /\ stack' = GoOn(m) /\ indents' = indents /\ result' = result
             /\ failed' = failed
    <3>1. point \in {"unary", "parameters", "climb"} /\ point \in Point
      BY <2>3, PointNames
    <3>2. /\ m \in Methods /\ SameBlock(m) /\ m.at = point /\ m.ok = top.ok
          /\ Caller(top) => Caller(m)
      BY <2>2, <3>1 DEF Methods, SameBlock, CasePoints, Caller, Called
    <3> HIDE DEF m
    <3>3. HasSolid(cache)
      BY <2>2, <2>6, AheadIs, EofIs
    <3>4. cache' \in Seq(Token) /\ (~failed => Lines(cache', ended) /\ Midline(cache'))
      BY <2>2, <2>6, <3>3, TakesSolidKeeps
    <3>5. Steady
      BY <2>1, <2>2, <2>6, <3>4 DEF Steady, lexer
    <3>6. ~failed => Placed(m, cache', CurrentIndent)
      BY <3>1, <3>2, <3>4, PlacedPlain DEF AfterLine
    <3>7. m.at \notin Keywords \cup Reading
      BY <3>1, <3>2 DEF Keywords, Reading
    <3>8. QED
      BY <2>2, <2>6, <3>2, <3>4, <3>5, <3>6, <3>7, GoStands
  <2>7. QED
    BY <2>4, <2>5, <2>6
<1>2. ASSUME Parameter PROVE Stands'
  <2> DEFINE m == [top EXCEPT !.at = "climb"]
  <2>1. Runs("parameters") /\ indents' = indents /\ result' = result /\ failed' = failed
        /\ UNCHANGED lexer
    BY <1>2 DEF Parameter, state
  <2>2. /\ stack # <<>> /\ top.at = "parameters" /\ top \in Methods /\ cache \in Seq(Token)
        /\ failed \in BOOLEAN
        /\ ~failed => /\ Lines(cache, ended) /\ Placed(top, cache, CurrentIndent) /\ Caller(top)
                      /\ top.ok
    BY <2>1, Running DEF Runs, At
  <2>3. \/ Ahead(FALSE).is \in IsAtomExprLookahead /\ Takes(FALSE) /\ stack' = stack
        \/ stack' = GoOn(m) /\ cache' = cache
    BY <1>2 DEF Parameter, GoTo
  <2>4. CASE Ahead(FALSE).is \in IsAtomExprLookahead /\ Takes(FALSE) /\ stack' = stack
    <3>1. cache # <<>> /\ ~IsSpace(cache[1])
      BY <2>2, <2>4, AheadIs, EofIs DEF IsAtomExprLookahead, IsSpace, Space
    <3>2. cache' \in Seq(Token) /\ (~failed => Lines(cache', ended) /\ Midline(cache'))
      BY <2>2, <2>4, <3>1, TakesFirstKeeps
    <3>3. Steady
      BY <2>1, <2>2, <3>2 DEF Steady, lexer
    <3>4. ~failed => Placed(top, cache', CurrentIndent)
      BY <2>2, <3>2, PlacedPlain DEF AfterLine
    <3>5. top.at \notin Keywords \cup Reading
      BY <2>2 DEF Keywords, Reading
    <3>6. QED
      BY <2>1, <2>2, <2>4, <3>2, <3>3, <3>4, <3>5, StayStands
  <2>5. CASE stack' = GoOn(m) /\ cache' = cache
    <3>1. /\ m \in Methods /\ SameBlock(m) /\ m.at = "climb" /\ m.ok = top.ok
          /\ Caller(top) => Caller(m)
      BY <2>2, PointNames DEF Methods, SameBlock, CasePoints, Caller, Called
    <3> HIDE DEF m
    <3>2. Steady
      BY <2>1, <2>2, <2>5 DEF Steady, lexer
    <3>3. ~failed => Placed(m, cache, CurrentIndent)
      BY <2>2, <3>1, PlacedPlain DEF Placed, Starting, AfterLine
    <3>4. QED
      BY <2>1, <2>2, <2>5, <3>1, <3>2, <3>3, GoStands DEF Keywords, Reading
  <2>6. QED
    BY <2>3, <2>4, <2>5
<1>3. ASSUME UnaryOperation PROVE Stands'
  <2>1. Runs("unary") /\ UNCHANGED lexer
    BY <1>3 DEF UnaryOperation
  <2>2. /\ stack # <<>> /\ top.at = "unary" /\ top \in Methods /\ cache \in Seq(Token)
        /\ failed \in BOOLEAN
        /\ ~failed => /\ Lines(cache, ended) /\ Placed(top, cache, CurrentIndent) /\ Caller(top)
                      /\ top.ok
    BY <2>1, Running DEF Runs, At
  <2>3. PICK point : point = IF Ahead(TRUE) = Eof THEN "crashed"
                             ELSE IF Ahead(TRUE).is = "Minus" THEN "unary" ELSE "climb"
    OBVIOUS
  <2> DEFINE m == [top EXCEPT !.at = point]
  <2>4. point \in {"unary", "climb", "crashed"} /\ point \in Point
    BY <2>3, PointNames
  <2>5. /\ m \in Methods /\ SameBlock(m) /\ m.at = point /\ m.ok = top.ok
        /\ Caller(top) => Caller(m)
        /\ point = "unary" => m = top
    BY <2>2, <2>4 DEF Methods, SameBlock, CasePoints, Caller, Called
  <2>6. \/ /\ Ahead(TRUE).is \in {"IntLit", "Unit", "Ident", "Minus"}
           /\ Takes(TRUE) /\ (stack' = GoOn(m) \/ (stack' = stack /\ m = top))
           /\ indents' = indents /\ result' = result /\ failed' = failed
        \/ /\ stack' = GoOn(m) /\ cache' = cache
           /\ indents' = indents /\ result' = result /\ failed' = failed
        \/ NoOperand /\ failed' = TRUE /\ cache' = cache
    BY <1>3, <2>3, <2>5, EofIs DEF UnaryOperation, IsAtomExprLookahead, GoTo, state
  <2> HIDE DEF m
  <2>7. m.at \notin Keywords \cup Reading
    BY <2>4, <2>5 DEF Keywords, Reading
  <2>8. CASE NoOperand /\ failed' = TRUE /\ cache' = cache
    <3>1. Steady
      BY <2>1, <2>2, <2>8 DEF Steady, lexer
    <3>2. QED
      BY <2>2, <2>8, <3>1, NoOperandStands DEF CasePoints
  <2>9. CASE /\ Ahead(TRUE).is \in {"IntLit", "Unit", "Ident", "Minus"}
             /\ Takes(TRUE) /\ (stack' = GoOn(m) \/ (stack' = stack /\ m = top))
             /\ indents' = indents /\ result' = result /\ failed' = failed
    <3>1. HasSolid(cache)
      BY <2>2, <2>9, AheadIs, EofIs
    <3>2. cache' \in Seq(Token) /\ (~failed => Lines(cache', ended) /\ Midline(cache'))
      BY <2>2, <2>9, <3>1, TakesSolidKeeps
    <3>3. Steady
      BY <2>1, <2>2, <2>9, <3>2 DEF Steady, lexer
    <3>4. ~failed => Placed(m, cache', CurrentIndent)
      BY <2>4, <2>5, <3>2, PlacedPlain DEF AfterLine
    <3>5. CASE stack' = GoOn(m)
      BY <2>2, <2>5, <2>7, <2>9, <3>2, <3>3, <3>4, <3>5, GoStands
    <3>6. CASE stack' = stack /\ m = top
      BY <2>2, <2>5, <2>7, <2>9, <3>2, <3>3, <3>4, <3>6, StayStands
    <3>7. QED
      BY <2>9, <3>5, <3>6
  <2>10. CASE /\ stack' = GoOn(m) /\ cache' = cache
              /\ indents' = indents /\ result' = result /\ failed' = failed
    <3>1. Steady
      BY <2>1, <2>2, <2>10 DEF Steady, lexer
    <3>2. ~failed => Midline(cache)
      BY <2>2 DEF Placed, Starting
    <3>3. ~failed => Placed(m, cache, CurrentIndent)
      BY <2>4, <2>5, <3>2, PlacedPlain DEF AfterLine
    <3>4. QED
      BY <2>2, <2>5, <2>7, <2>10, <3>1, <3>3, GoStands
  <2>11. QED
    BY <2>6, <2>8, <2>9, <2>10
<1>4. ASSUME PrecedenceClimb PROVE Stands'
  <2> DEFINE m == [top EXCEPT !.at = "expression", !.some = TRUE]
  <2>1. Runs("climb") /\ failed' = failed /\ UNCHANGED lexer
    BY <1>4 DEF PrecedenceClimb
  <2>2. /\ stack # <<>> /\ top.at = "climb" /\ top \in Methods /\ cache \in Seq(Token)
        /\ failed \in BOOLEAN
        /\ ~failed => /\ Lines(cache, ended) /\ Placed(top, cache, CurrentIndent) /\ Caller(top)
                      /\ top.ok
    BY <2>1, Running DEF Runs, At
  <2>3. \/ /\ Ahead(TRUE).is = "Minus" /\ Takes(TRUE) /\ stack' = GoOn(m)
           /\ indents' = indents /\ result' = result
        \/ Return(top.ok) /\ cache' = cache
    BY <1>4 DEF PrecedenceClimb, state
  <2>4. CASE /\ Ahead(TRUE).is = "Minus" /\ Takes(TRUE) /\ stack' = GoOn(m)
             /\ indents' = indents /\ result' = result
    <3>1. /\ m \in Methods /\ SameBlock(m) /\ m.at = "expression" /\ m.ok = top.ok
          /\ Caller(top) => Caller(m)
      <4>1. "expression" \in Point
        BY PointNames
      <4>2. m \in Methods /\ m.at = "expression" /\ m.ok = top.ok /\ m.use = top.use
            /\ m.guards = top.guards
        BY <2>2, <4>1 DEF Methods
      <4>3. QED
        BY <2>2, <4>2 DEF SameBlock, CasePoints, Caller, Called
    <3> HIDE DEF m
    <3>2. HasSolid(cache)
      BY <2>2, <2>4, AheadIs, EofIs
    <3>3. cache' \in Seq(Token) /\ (~failed => Lines(cache', ended))
      BY <2>2, <2>4, <3>2, TakesSolidKeeps
    <3>4. Steady
      BY <2>1, <2>2, <3>3 DEF Steady, lexer
    <3>5. Placed(m, cache', CurrentIndent)
      BY <3>1, PlacedStarting DEF Starting
    <3>6. QED
      BY <2>1, <2>2, <2>4, <3>1, <3>3, <3>4, <3>5, GoStands DEF Keywords, Reading
  <2>5. CASE Return(top.ok) /\ cache' = cache
    <3>1. Steady /\ top.ok \in BOOLEAN
      BY <2>1, <2>2, <2>5 DEF Steady, lexer, Methods
    <3>2. ASSUME ~failed, NEW p \in Methods, NEW n, Called(p.at, top)
          PROVE  Placed(p, cache, n)
      <4>1. p.at \in {"assign?", "assigned", "variable end", "return value", "check"}
        BY <2>2, <3>2 DEF Called
      <4>2. Midline(cache)
        BY <2>2, <3>2 DEF Placed, Starting
      <4>3. QED
        BY <4>1, <4>2, PlacedPlain DEF AfterLine
    <3>3. QED
      BY <2>1, <2>2, <2>5, <3>1, <3>2, ReturnStands
  <2>6. QED
    BY <2>3, <2>4, <2>5
<1>5. ASSUME Assignment PROVE Stands'
  <2> DEFINE m == [top EXCEPT !.at = IF cache' # cache THEN "assigned" ELSE "end", !.ok = result]
             c == Method("expression")
  <2>1. /\ Runs("assign?") /\ cache' = Dropped(cache, "SingleEq")
        /\ indents' = indents /\ result' = result /\ failed' = failed /\ UNCHANGED lexer
        /\ \/ cache' # cache /\ stack' = Append(GoOn(m), c)
           \/ cache' = cache /\ stack' = GoOn(m)
    BY <1>5 DEF Assignment, state
  <2>2. /\ stack # <<>> /\ top.at = "assign?" /\ top \in Methods /\ cache \in Seq(Token)
        /\ failed \in BOOLEAN /\ result \in BOOLEAN
        /\ ~failed => /\ Lines(cache, ended) /\ Placed(top, cache, CurrentIndent) /\ Caller(top)
                      /\ top.ok /\ result
    <3>1. "assign?" \in Reading
      BY DEF Reading
    <3>2. QED
      BY <2>1, <3>1, Running DEF Runs, At
  <2>3. PICK point : point = IF cache' # cache THEN "assigned" ELSE "end"
    OBVIOUS
  <2>4. m = [top EXCEPT !.at = point, !.ok = result]
    BY <2>3
  <2>5. point \in {"assigned", "end"} /\ point \in Point
    BY <2>3, PointNames
  <2> HIDE DEF m
  <2>6. /\ m \in Methods /\ SameBlock(m) /\ m.at = point /\ m.ok = result
        /\ Caller(top) => Caller(m)
    BY <2>2, <2>4, <2>5 DEF Methods, SameBlock, CasePoints, Caller, Called
  <2>7. c \in Methods /\ c.at = "expression" /\ c.ok /\ c.guards = {}
    BY PointNames, NewMethod
  <2> HIDE DEF c
  <2>8. /\ cache' \in Seq(Token)
        /\ ~failed => Lines(cache', ended) /\ Midline(cache')
    BY <2>1, <2>2, EqualsKeeps DEF Placed, Starting
  <2>9. Steady
    BY <2>1, <2>2, <2>8 DEF Steady, lexer
  <2>10. CASE cache' # cache /\ stack' = Append(GoOn(m), c)
    <3>1. point = "assigned"
      BY <2>3, <2>10
    <3>2. Called(m.at, c) /\ Placed(c, cache', CurrentIndent)
      BY <2>6, <2>7, <3>1, PlacedStarting DEF Called, CasePoints, Starting
    <3>3. m.at \notin Keywords /\ c.at \notin Keywords \cup Reading
      BY <2>5, <2>6, <2>7 DEF Keywords, Reading
    <3>4. QED
      BY <2>1, <2>2, <2>6, <2>7, <2>8, <2>9, <2>10, <3>2, <3>3, CallStands
  <2>11. CASE cache' = cache /\ stack' = GoOn(m)
    <3>1. point = "end"
      BY <2>3, <2>11
    <3>2. ~failed => Placed(m, cache', CurrentIndent)
      BY <2>6, <2>8, <3>1, PlacedPlain DEF AfterLine
    <3>3. m.at \notin Keywords \cup Reading
      BY <2>6, <3>1 DEF Keywords, Reading
    <3>4. QED
      BY <2>1, <2>2, <2>6, <2>8, <2>9, <2>11, <3>2, <3>3, GoStands
  <2>12. QED
    BY <2>1, <2>10, <2>11
<1>6. ASSUME Assigned PROVE Stands'
  <2> DEFINE m == [top EXCEPT !.at = "end", !.ok = @ /\ result]
  <2>1. /\ Runs("assigned") /\ stack' = GoOn(m) /\ cache' = cache
        /\ indents' = indents /\ result' = result /\ failed' = failed /\ UNCHANGED lexer
    BY <1>6 DEF Assigned, state
  <2>2. /\ stack # <<>> /\ top.at = "assigned" /\ top \in Methods /\ cache \in Seq(Token)
        /\ failed \in BOOLEAN /\ result \in BOOLEAN
        /\ ~failed => /\ Lines(cache, ended) /\ Placed(top, cache, CurrentIndent) /\ Caller(top)
                      /\ top.ok /\ result
    <3>1. "assigned" \in Reading
      BY DEF Reading
    <3>2. QED
      BY <2>1, <3>1, Running DEF Runs, At
  <2>3. /\ m \in Methods /\ SameBlock(m) /\ m.at = "end" /\ (top.ok /\ result => m.ok)
        /\ Caller(top) => Caller(m)
    BY <2>2, PointNames DEF Methods, SameBlock, CasePoints, Caller, Called
  <2> HIDE DEF m
  <2>4. Steady
    BY <2>1, <2>2 DEF Steady, lexer
  <2>5. ~failed => Placed(m, cache, CurrentIndent)
    BY <2>2, <2>3, PlacedPlain DEF Placed, Starting, AfterLine
  <2>6. QED
    BY <2>1, <2>2, <2>3, <2>4, <2>5, GoStands DEF Keywords, Reading
<1>7. QED
  BY <1>1, <1>2, <1>3, <1>4, <1>5, <1>6 DEF Expressions

\* The body of a statement, before it runs.
LEMMA BodyIs ==
  ASSUME top \in Methods
  PROVE  /\ Body \in Methods /\ Body.at = "program" /\ Body.ok /\ Body.use = "" /\ Body.guards = {}
         /\ LET e == [Body EXCEPT !.use = "emptyable"] IN
              e \in Methods /\ e.at = "program" /\ e.ok /\ e.use = "emptyable" /\ e.guards = {}
<1>1. PICK z \in Methods :
        z = Method("program") /\ z.at = "program" /\ z.ok /\ z.use = "" /\ z.guards = {}
  <2>1. "program" \in Point
    BY PointNames
  <2>2. QED
    BY <2>1, NewMethod
<1>2. Body = [z EXCEPT !.line = top.line] /\ top.line \in Nat \cup {-1}
  BY <1>1 DEF Body, Methods
<1>3. Body \in Methods /\ Body.at = "program" /\ Body.ok /\ Body.use = "" /\ Body.guards = {}
  BY <1>1, <1>2 DEF Methods
<1>4. QED
  BY <1>3 DEF Methods

\* A method goes on, and calls one or none.
LEMMA ThenIs ==
  ASSUME Stands, stack # <<>>, NEW m \in Methods, NEW c
  PROVE  GoOn(m) \o <<c>> = Append(GoOn(m), c) /\ GoOn(m) \o <<>> = GoOn(m)
<1>1. GoOn(m) \in Seq(Methods)
  BY Replaced DEF Stands, Formed
<1>2. QED
  BY <1>1, AppendStack DEF Stacks

\* The head of a loop is taken, with the variable or without.
LEMMA ForKeeps ==
  ASSUME cache \in Seq(Token), HasSolid(cache), NEW variable,
         variable => First + 2 \in DOMAIN cache /\ cache[First + 2].is = "In",
         cache' = From(First + IF variable THEN 3 ELSE 1)
  PROVE  /\ cache' \in Seq(Token)
         /\ Lines(cache, ended) => Lines(cache', ended) /\ Midline(cache')
<1>1. First \in 1 .. Len(cache) /\ Len(cache) \in Nat /\ DOMAIN cache = 1 .. Len(cache)
  BY FirstSolid, LenProperties
<1>2. ~IsSpace(cache[First])
  BY FirstSolid
<1>3. variable => First + 2 \in 1 .. Len(cache) /\ ~IsSpace(cache[First + 2])
  BY <1>1 DEF IsSpace, Space
<1>4. PICK k : k = IF variable THEN First + 2 ELSE First
  OBVIOUS
<1>5. k \in 1 .. Len(cache) /\ ~IsSpace(cache[k])
  BY <1>1, <1>2, <1>3, <1>4
<1>6. PICK n : n = k + 1
  OBVIOUS
<1>7. n \in 1 .. Len(cache) + 1 /\ n - 1 = k /\ k >= 1
  BY <1>1, <1>5, <1>6
<1>8. cache' = SubSeq(cache, n, Len(cache))
  <2>1. n = First + IF variable THEN 3 ELSE 1
    BY <1>1, <1>4, <1>6
  <2>2. QED
    BY <2>1 DEF From
<1>9. Cut(cache', cache, k)
  BY <1>7, <1>8, Tail0
<1>10. cache' \in Seq(Token)
  BY <1>9 DEF Cut
<1>11. QED
  BY <1>5, <1>7, <1>9, <1>10, LinesCut

\* The loop level is a number.
LEMMA LevelIsNat == ASSUME IInv, Stands PROVE loop_level \in Nat
<1>1. Len(stack) \in Nat /\ loop_level = Level(stack, Len(stack))
  BY LenProperties DEF IInv, Guarded, Stands, Formed, Nested
<1>2. QED
  BY <1>1, NextLevel

\* The levels that LoopLevel compares.
LEMMA LevelIs ==
  ASSUME IInv, Stands
  PROVE  /\ \E v \in BOOLEAN : v = (loop_level >= 1) /\ (v \/ loop_level < 1)
         /\ \E v \in BOOLEAN : /\ v = (Ahead(FALSE).number <= loop_level)
                               /\ v \/ Ahead(FALSE).number > loop_level
<1>1. loop_level \in Nat
  BY LevelIsNat
<1>2. cache \in Seq(Token)
  BY DEF Stands, Formed
<1>3. PICK t : t = Ahead(FALSE)
  OBVIOUS
<1>4. t \in Token \/ t = Eof
  BY <1>2, <1>3, AheadIs
<1>5. t.number \in Nat
  BY <1>4, EofIs
<1>6. /\ (loop_level >= 1) \in BOOLEAN /\ (t.number <= loop_level) \in BOOLEAN
      /\ loop_level >= 1 \/ loop_level < 1
      /\ t.number <= loop_level \/ t.number > loop_level
  BY <1>1, <1>5
<1>7. QED
  BY <1>3, <1>6, Zenon

\* If, for, switch, break and continue.
LEMMA ControlStands ==
  ASSUME IInv, Stands, Control PROVE Stands'
<1>1. ASSUME Condition PROVE Stands'
  <2> DEFINE m == [top EXCEPT !.at = "line break or"]
             c == [Method("check") EXCEPT !.use = "condition"]
             d == Method("expression")
  <2>1. /\ Runs("condition") /\ stack' = GoOn(m) \o <<c, d>> /\ cache' = cache
        /\ indents' = indents /\ result' = result /\ failed' = failed /\ UNCHANGED lexer
    BY <1>1 DEF Condition, WithRecovery, state
  <2>2. /\ stack # <<>> /\ top.at = "condition" /\ top \in Methods /\ cache \in Seq(Token)
        /\ failed \in BOOLEAN
        /\ ~failed => Lines(cache, ended) /\ Caller(top) /\ top.ok
    BY <2>1, Running DEF Runs, At
  <2>3. /\ m \in Methods /\ SameBlock(m) /\ m.at = "line break or" /\ m.ok = top.ok
        /\ Caller(top) => Caller(m)
    BY <2>2, PointNames DEF Methods, SameBlock, CasePoints, Caller, Called
  <2>4. c \in Methods /\ c.at = "check" /\ c.use = "condition" /\ c.ok /\ c.guards = {}
    BY CheckMethod
  <2>5. d \in Methods /\ d.at = "expression" /\ d.ok /\ d.guards = {}
    BY PointNames, NewMethod
  <2> HIDE DEF m, c, d
  <2>6. Steady
    BY <2>1, <2>2 DEF Steady, lexer
  <2>7. Called(m.at, c) /\ Called(c.at, d) /\ Placed(d, cache, CurrentIndent)
    BY <2>3, <2>4, <2>5, PlacedStarting DEF Called, CasePoints, Starting, Nexts
  <2>8. QED
    BY <2>1, <2>2, <2>3, <2>4, <2>5, <2>6, <2>7, CallTwoStands DEF Keywords, Reading
<1>2. ASSUME LineBreakOr PROVE Stands'
  <2> DEFINE m == [top EXCEPT !.at = "line break", !.ok = result]
  <2>1. Runs("line break or") /\ UNCHANGED lexer
    BY <1>2 DEF LineBreakOr
  <2>2. /\ stack # <<>> /\ top.at = "line break or" /\ top \in Methods /\ cache \in Seq(Token)
        /\ failed \in BOOLEAN /\ result \in BOOLEAN
        /\ ~failed => /\ Lines(cache, ended) /\ Placed(top, cache, CurrentIndent) /\ Caller(top)
                      /\ result
    <3>1. "line break or" \in Reading
      BY DEF Reading
    <3>2. QED
      BY <2>1, <3>1, Running DEF Runs, At
  <2>3. \/ /\ Ahead(TRUE).is = "Colon" /\ Takes(TRUE) /\ stack' = GoOn(m)
           /\ indents' = indents /\ result' = result /\ failed' = failed
        \/ /\ cache' = AfterBreak /\ failed' = (failed \/ Ahead(FALSE).is # "LineBreak")
           /\ Return(result)
    BY <1>2 DEF LineBreakOr, state
  <2>4. CASE /\ Ahead(TRUE).is = "Colon" /\ Takes(TRUE) /\ stack' = GoOn(m)
             /\ indents' = indents /\ result' = result /\ failed' = failed
    <3>1. /\ m \in Methods /\ SameBlock(m) /\ m.at = "line break" /\ m.ok = result
          /\ Caller(top) => Caller(m)
      <4>1. "line break" \in Point
        BY PointNames
      <4>2. m \in Methods /\ m.at = "line break" /\ m.ok = result /\ m.use = top.use
            /\ m.guards = top.guards /\ m.some = top.some
        BY <2>2, <4>1 DEF Methods
      <4>3. QED
        BY <2>2, <4>2 DEF SameBlock, CasePoints, Caller, Called
    <3> HIDE DEF m
    <3>2. HasSolid(cache)
      BY <2>2, <2>4, AheadIs, EofIs
    <3>3. cache' \in Seq(Token) /\ (~failed => Lines(cache', ended) /\ Midline(cache'))
      BY <2>2, <2>4, <3>2, TakesSolidKeeps
    <3>4. Steady
      BY <2>1, <2>2, <2>4, <3>3 DEF Steady, lexer
    <3>5. ~failed => Placed(m, cache', CurrentIndent)
      BY <3>1, <3>3, PlacedPlain DEF AfterLine
    <3>6. QED
      BY <2>2, <2>4, <3>1, <3>3, <3>4, <3>5, GoStands DEF Keywords, Reading
  <2>5. CASE /\ cache' = AfterBreak /\ failed' = (failed \/ Ahead(FALSE).is # "LineBreak")
             /\ Return(result)
    <3>1. /\ cache' \in Seq(Token)
          /\ ~failed => Lines(cache', ended) /\ Midline(cache')
      BY <2>2, <2>5, AfterBreakIs DEF Placed, Starting
    <3>2. Steady
      BY <2>1, <2>2, <2>5, <3>1 DEF Steady, lexer
    <3>3. ASSUME ~failed, NEW p \in Methods, NEW n, Called(p.at, top)
          PROVE  Placed(p, cache', n)
      <4>1. p.at \in {"then", "for body", "case body"}
        BY <2>2, <3>3 DEF Called
      <4>2. QED
        BY <3>1, <3>3, <4>1, PlacedPlain DEF AfterLine
    <3>4. QED
      BY <2>2, <2>5, <3>1, <3>2, <3>3, ReturnStands
  <2>6. QED
    BY <2>3, <2>4, <2>5
<1>3. ASSUME LineBreak PROVE Stands'
  <2>1. /\ Runs("line break") /\ cache' = AfterBreak /\ Return(top.ok) /\ failed' = failed
        /\ UNCHANGED lexer
    BY <1>3 DEF LineBreak
  <2>2. /\ stack # <<>> /\ top.at = "line break" /\ top \in Methods /\ cache \in Seq(Token)
        /\ failed \in BOOLEAN
        /\ ~failed => Lines(cache, ended) /\ Placed(top, cache, CurrentIndent) /\ top.ok
    BY <2>1, Running DEF Runs, At
  <2>3. /\ cache' \in Seq(Token)
        /\ ~failed => Lines(cache', ended) /\ Midline(cache')
    BY <2>1, <2>2, AfterBreakIs DEF Placed, Starting
  <2>4. Steady /\ top.ok \in BOOLEAN
    BY <2>1, <2>2, <2>3 DEF Steady, lexer, Methods
  <2>5. ASSUME ~failed, NEW p \in Methods, NEW n, Called(p.at, top)
        PROVE  Placed(p, cache', n)
    <3>1. p.at \in {"then", "for body", "case body"}
      BY <2>2, <2>5 DEF Called
    <3>2. QED
      BY <2>3, <2>5, <3>1, PlacedPlain DEF AfterLine
  <2>6. QED
    BY <2>1, <2>2, <2>3, <2>4, <2>5, ReturnStands
<1>4. ASSUME If PROVE Stands'
  <2> DEFINE m == [top EXCEPT !.at = "then"]
             c == Method("condition")
  <2>1. /\ Runs("if") /\ Takes(TRUE) /\ stack' = Append(GoOn(m), c)
        /\ indents' = indents /\ result' = result /\ failed' = failed /\ UNCHANGED lexer
    BY <1>4 DEF If, Call, state
  <2>2. /\ stack # <<>> /\ top.at = "if" /\ top \in Methods /\ cache \in Seq(Token)
        /\ failed \in BOOLEAN /\ HasSolid(cache)
        /\ ~failed => Lines(cache, ended) /\ Caller(top) /\ top.ok
    <3>1. "if" \in Keywords
      BY DEF Keywords
    <3>2. QED
      BY <2>1, <3>1, Running DEF Runs, At
  <2>3. /\ m \in Methods /\ SameBlock(m) /\ m.at = "then" /\ m.ok = top.ok
        /\ Caller(top) => Caller(m)
    BY <2>2, PointNames DEF Methods, SameBlock, CasePoints, Caller, Called
  <2>4. c \in Methods /\ c.at = "condition" /\ c.ok /\ c.guards = {}
    BY PointNames, NewMethod
  <2> HIDE DEF m, c
  <2>5. cache' \in Seq(Token) /\ (~failed => Lines(cache', ended) /\ Midline(cache'))
    BY <2>1, <2>2, TakesSolidKeeps
  <2>6. Steady
    BY <2>1, <2>2, <2>5 DEF Steady, lexer
  <2>7. Called(m.at, c)
    BY <2>3, <2>4 DEF Called, CasePoints
  <2>8. ~failed => Placed(c, cache', CurrentIndent)
    BY <2>4, <2>5, PlacedPlain DEF AfterLine
  <2>9. QED
    BY <2>1, <2>2, <2>3, <2>4, <2>5, <2>6, <2>7, <2>8, CallStands DEF Keywords, Reading
<1>5. ASSUME TrueBody PROVE Stands'
  <2> DEFINE m == [top EXCEPT !.at = "else?", !.ok = @ /\ result]
  <2>1. /\ Runs("then") /\ stack' = GoOn(m) \o <<Body>> /\ cache' = cache
        /\ indents' = indents /\ result' = result /\ failed' = failed /\ UNCHANGED lexer
    BY <1>5 DEF TrueBody, Then, state
  <2>2. /\ stack # <<>> /\ top.at = "then" /\ top \in Methods /\ cache \in Seq(Token)
        /\ failed \in BOOLEAN /\ result \in BOOLEAN
        /\ ~failed => /\ Lines(cache, ended) /\ Placed(top, cache, CurrentIndent) /\ Caller(top)
                      /\ top.ok /\ result
    <3>1. "then" \in Reading
      BY DEF Reading
    <3>2. QED
      BY <2>1, <3>1, Running DEF Runs, At
  <2>3. /\ m \in Methods /\ SameBlock(m) /\ m.at = "else?" /\ (top.ok /\ result => m.ok)
        /\ Caller(top) => Caller(m)
    BY <2>2, PointNames DEF Methods, SameBlock, CasePoints, Caller, Called
  <2> HIDE DEF m
  <2>4. stack' = Append(GoOn(m), Body)
    BY <2>1, <2>2, <2>3, ThenIs
  <2>5. Body \in Methods /\ Body.at = "program" /\ Body.ok /\ Body.use = "" /\ Body.guards = {}
    BY <2>2, BodyIs
  <2>6. Steady
    BY <2>1, <2>2 DEF Steady, lexer
  <2>7. Called(m.at, Body)
    BY <2>3, <2>5 DEF Called, CasePoints
  <2>8. ~failed => Placed(Body, cache, CurrentIndent)
    BY <2>2, <2>5, PlacedPlain DEF Placed, Starting, AfterLine
  <2>9. QED
    BY <2>1, <2>2, <2>3, <2>4, <2>5, <2>6, <2>7, <2>8, CallStands DEF Keywords, Reading
<1>6. ASSUME OptionalElse PROVE Stands'
  <2> DEFINE k == StatementIndent
             m == [top EXCEPT !.at = "if end", !.ok = @ /\ result]
             c == [Method("else") EXCEPT !.line = Ahead(TRUE).line]
             b == [c EXCEPT !.guards = {"block"}]
  <2>1. Runs("else?") /\ UNCHANGED lexer
    BY <1>6 DEF OptionalElse
  <2>2. /\ stack # <<>> /\ top.at = "else?" /\ top \in Methods /\ cache \in Seq(Token)
        /\ failed \in BOOLEAN /\ result \in BOOLEAN /\ CurrentIndent \in Nat \cup {-1}
        /\ ~failed => /\ Lines(cache, ended) /\ Placed(top, cache, CurrentIndent) /\ Caller(top)
                      /\ top.ok /\ result
    <3>1. "else?" \in Reading
      BY DEF Reading
    <3>2. QED
      BY <2>1, <3>1, Running DEF Runs, At
  <2>3. /\ m \in Methods /\ SameBlock(m) /\ m.at = "if end" /\ (top.ok /\ result => m.ok)
        /\ Caller(top) => Caller(m)
    BY <2>2, PointNames DEF Methods, SameBlock, CasePoints, Caller, Called
  <2>4. k \in Nat \cup {-1}
    BY <2>2, AfterBreakIs
  <2>5. \/ /\ Ahead(TRUE).is = "Else" /\ k > CurrentIndent /\ Takes(TRUE)
           /\ stack' = Append(GoOn(m), b) /\ indents' = Append(indents, k)
           /\ result' = result /\ failed' = TRUE
        \/ /\ Ahead(TRUE).is = "Else" /\ ~(k > CurrentIndent) /\ Takes(TRUE)
           /\ stack' = Append(GoOn(m), c) /\ indents' = indents
           /\ result' = result /\ failed' = failed
        \/ /\ cache' = AfterBreak \/ cache' = cache
           /\ Return(top.ok /\ result) /\ failed' = failed
    BY <1>6 DEF OptionalElse
  <2>6. ASSUME Ahead(TRUE).is = "Else", Takes(TRUE)
        PROVE  /\ c \in Methods /\ c.at = "else" /\ c.ok /\ c.use = "" /\ c.guards = {}
               /\ b \in Methods /\ b.at = "else" /\ b.guards = {"block"}
               /\ cache' \in Seq(Token)
               /\ ~failed => Lines(cache', ended) /\ Midline(cache')
    <3>1. HasSolid(cache) /\ Ahead(TRUE).line \in Nat
      BY <2>2, <2>6, AheadIs, EofIs
    <3>2. PICK z \in Methods :
            z = Method("else") /\ z.at = "else" /\ z.ok /\ z.use = "" /\ z.guards = {}
      <4>1. "else" \in Point
        BY PointNames
      <4>2. QED
        BY <4>1, NewMethod
    <3>3. c = [z EXCEPT !.line = Ahead(TRUE).line]
      BY <3>2
    <3>4. c \in Methods /\ c.at = "else" /\ c.ok /\ c.use = "" /\ c.guards = {}
      BY <3>1, <3>2, <3>3 DEF Methods
    <3> HIDE DEF c
    <3>5. b \in Methods /\ b.at = "else" /\ b.guards = {"block"}
      BY <3>4 DEF Methods
    <3>6. QED
      BY <2>2, <2>6, <3>1, <3>4, <3>5, TakesSolidKeeps
  <2> HIDE DEF m, c, b, k
  <2>7. CASE /\ Ahead(TRUE).is = "Else" /\ k > CurrentIndent /\ Takes(TRUE)
             /\ stack' = Append(GoOn(m), b) /\ indents' = Append(indents, k)
             /\ result' = result /\ failed' = TRUE
    <3>1. Steady
      BY <2>1, <2>6, <2>7 DEF Steady, lexer
    <3>2. k >= CurrentIndent /\ k # CurrentIndent
      BY <2>2, <2>4, <2>7
    <3>3. QED
      BY <2>2, <2>3, <2>4, <2>6, <2>7, <3>1, <3>2, BlockStands DEF Keywords, Reading
  <2>8. CASE /\ Ahead(TRUE).is = "Else" /\ ~(k > CurrentIndent) /\ Takes(TRUE)
             /\ stack' = Append(GoOn(m), c) /\ indents' = indents
             /\ result' = result /\ failed' = failed
    <3>1. Steady
      BY <2>1, <2>2, <2>6, <2>8 DEF Steady, lexer
    <3>2. Called(m.at, c)
      BY <2>3, <2>6, <2>8 DEF Called, CasePoints
    <3>3. ~failed => Placed(c, cache', CurrentIndent)
      BY <2>6, <2>8, PlacedPlain DEF AfterLine
    <3>4. QED
      BY <2>2, <2>3, <2>6, <2>8, <3>1, <3>2, <3>3, CallStands DEF Keywords, Reading
  <2>9. CASE /\ cache' = AfterBreak \/ cache' = cache
             /\ Return(top.ok /\ result) /\ failed' = failed
    <3>1. /\ cache' \in Seq(Token)
          /\ ~failed => Lines(cache', ended) /\ Midline(cache') /\ NoBreak(cache')
      <4>1. ~failed => Midline(cache) /\ NoBreak(cache)
        BY <2>2 DEF Placed, Starting, AfterLine
      <4>2. QED
        BY <2>2, <2>9, <4>1, AfterBreakIs
    <3>2. Steady
      BY <2>1, <2>2, <2>9, <3>1 DEF Steady, lexer
    <3>3. PICK v \in BOOLEAN : v = (top.ok /\ result)
      OBVIOUS
    <3>4. Return(v) /\ (~failed => v)
      BY <2>2, <2>9, <3>3
    <3>5. ASSUME ~failed, NEW p \in Methods, NEW n, Called(p.at, top)
          PROVE  Placed(p, cache', n)
      <4>1. p.at \in {"append", "if end"}
        BY <2>2, <3>5 DEF Called
      <4>2. QED
        BY <3>1, <3>5, <4>1, PlacedPlain
    <3>6. QED
      BY <2>2, <2>9, <3>1, <3>2, <3>4, <3>5, ReturnStands
  <2>10. QED
    BY <2>5, <2>7, <2>8, <2>9

<1>7. ASSUME Else PROVE Stands'
  <2>1. PICK point : point = IF Ahead(FALSE).is = "If" THEN "if" ELSE "colon"
    OBVIOUS
  <2> DEFINE m == [top EXCEPT !.at = point]
  <2>2. /\ Runs("else") /\ stack' = GoOn(m) /\ cache' = cache
        /\ indents' = indents /\ result' = result /\ failed' = failed /\ UNCHANGED lexer
    BY <1>7, <2>1 DEF Else, GoTo, state
  <2>3. /\ stack # <<>> /\ top.at = "else" /\ top \in Methods /\ cache \in Seq(Token)
        /\ failed \in BOOLEAN
        /\ ~failed => /\ Lines(cache, ended) /\ Placed(top, cache, CurrentIndent) /\ Caller(top)
                      /\ top.ok
    BY <2>2, Running DEF Runs, At
  <2>4. point \in {"if", "colon"} /\ point \in Point
    BY <2>1, PointNames
  <2>5. /\ m \in Methods /\ SameBlock(m) /\ m.at = point /\ m.ok = top.ok
        /\ Caller(top) => Caller(m)
    BY <2>3, <2>4 DEF Methods, SameBlock, CasePoints, Caller, Called
  <2> HIDE DEF m
  <2>6. Steady
    BY <2>2, <2>3 DEF Steady, lexer
  <2>7. point = "if" => HasSolid(cache)
    <3>1. SUFFICES ASSUME Ahead(FALSE).is = "If" PROVE HasSolid(cache)
      BY <2>1
    <3>2. cache # <<>> /\ ~IsSpace(cache[1])
      BY <2>3, <3>1, AheadIs, EofIs DEF IsSpace, Space
    <3>3. 1 \in 1 .. Len(cache)
      BY <2>3, <3>2, EmptySeq, LenProperties
    <3>4. QED
      BY <3>2, <3>3 DEF HasSolid
  <2>8. ~failed => Placed(m, cache, CurrentIndent)
    BY <2>3, <2>4, <2>5, PlacedPlain DEF Placed, Starting, AfterLine
  <2>9. m.at \notin Reading /\ (m.at \in Keywords => HasSolid(cache))
    BY <2>4, <2>5, <2>7 DEF Reading, Keywords
  <2>10. QED
    BY <2>2, <2>3, <2>5, <2>6, <2>8, <2>9, GoStands
<1>8. ASSUME OptionalColon PROVE Stands'
  <2> DEFINE m == [top EXCEPT !.at = "program"]
  <2>1. /\ Runs("colon") /\ stack' = GoOn(m)
        /\ (Ahead(TRUE).is = "Colon" /\ Takes(TRUE)) \/ cache' = cache
        /\ indents' = indents /\ result' = result /\ failed' = failed /\ UNCHANGED lexer
    BY <1>8 DEF OptionalColon, GoTo, state
  <2>2. /\ stack # <<>> /\ top.at = "colon" /\ top \in Methods /\ cache \in Seq(Token)
        /\ failed \in BOOLEAN
        /\ ~failed => /\ Lines(cache, ended) /\ Placed(top, cache, CurrentIndent) /\ Caller(top)
                      /\ top.ok
    BY <2>1, Running DEF Runs, At
  <2>3. /\ m \in Methods /\ SameBlock(m) /\ m.at = "program" /\ m.ok = top.ok
        /\ Caller(top) => Caller(m)
    BY <2>2, PointNames DEF Methods, SameBlock, CasePoints, Caller, Called
  <2> HIDE DEF m
  <2>4. Ahead(TRUE).is = "Colon" => HasSolid(cache)
    BY <2>2, AheadIs, EofIs
  <2>5. cache' \in Seq(Token) /\ (~failed => Lines(cache', ended) /\ Midline(cache'))
    BY <2>1, <2>2, <2>4, TakesSolidKeeps DEF Placed, Starting
  <2>6. Steady
    BY <2>1, <2>2, <2>5 DEF Steady, lexer
  <2>7. ~failed => Placed(m, cache', CurrentIndent)
    BY <2>3, <2>5, PlacedPlain DEF AfterLine
  <2>8. QED
    BY <2>1, <2>2, <2>3, <2>5, <2>6, <2>7, GoStands DEF Keywords, Reading
<1>9. ASSUME IfEnd PROVE Stands'
  <2>1. /\ Runs("if end") /\ Return(top.ok) /\ cache' = cache /\ failed' = failed
        /\ UNCHANGED lexer
    BY <1>9 DEF IfEnd
  <2>2. /\ stack # <<>> /\ top.at = "if end" /\ top \in Methods /\ cache \in Seq(Token)
        /\ failed \in BOOLEAN
        /\ ~failed => Lines(cache, ended) /\ Placed(top, cache, CurrentIndent) /\ top.ok
    BY <2>1, Running DEF Runs, At
  <2>3. Steady /\ top.ok \in BOOLEAN
    BY <2>1, <2>2 DEF Steady, lexer, Methods
  <2>4. ASSUME ~failed, NEW p \in Methods, NEW n, Called(p.at, top)
        PROVE  Placed(p, cache, n)
    <3>1. p.at \in {"append", "if end"}
      BY <2>2, <2>4 DEF Called
    <3>2. QED
      BY <2>2, <2>4, <3>1, PlacedPlain DEF Placed, Starting, AfterLine
  <2>5. QED
    BY <2>1, <2>2, <2>3, <2>4, ReturnStands
<1>10. ASSUME For PROVE Stands'
  <2> DEFINE m == [top EXCEPT !.at = "for body", !.guards = @ \cup {"loop"}]
             c == Method("condition")
  <2>1. /\ Runs("for") /\ stack' = Append(GoOn(m), c)
        /\ indents' = indents /\ result' = result /\ failed' = failed /\ UNCHANGED lexer
    BY <1>10 DEF For
  <2>2. /\ stack # <<>> /\ top.at = "for" /\ top \in Methods /\ cache \in Seq(Token)
        /\ failed \in BOOLEAN /\ HasSolid(cache)
        /\ ~failed => Lines(cache, ended) /\ Caller(top) /\ top.ok
    <3>1. "for" \in Keywords
      BY DEF Keywords
    <3>2. QED
      BY <2>1, <3>1, Running DEF Runs, At
  <2>3. /\ m \in Methods /\ SameBlock(m) /\ m.at = "for body" /\ m.ok = top.ok
        /\ Caller(top) => Caller(m)
    BY <2>2, PointNames DEF Methods, SameBlock, CasePoints, Caller, Called
  <2>4. c \in Methods /\ c.at = "condition" /\ c.ok /\ c.guards = {}
    BY PointNames, NewMethod
  <2> HIDE DEF m, c
  <2>5. cache' \in Seq(Token) /\ (~failed => Lines(cache', ended) /\ Midline(cache'))
    <3>1. PICK variable :
            /\ variable => First + 2 \in DOMAIN cache /\ cache[First + 2].is = "In"
            /\ cache' = From(First + IF variable THEN 3 ELSE 1)
      BY <1>10 DEF For
    <3>2. QED
      BY <2>2, <3>1, ForKeeps
  <2>6. Steady
    BY <2>1, <2>2, <2>5 DEF Steady, lexer
  <2>7. Called(m.at, c)
    BY <2>3, <2>4 DEF Called, CasePoints
  <2>8. ~failed => Placed(c, cache', CurrentIndent)
    BY <2>4, <2>5, PlacedPlain DEF AfterLine
  <2>9. QED
    BY <2>1, <2>2, <2>3, <2>4, <2>5, <2>6, <2>7, <2>8, CallStands DEF Keywords, Reading
<1>11. ASSUME ForBody PROVE Stands'
  <2> DEFINE m == [top EXCEPT !.at = "for end", !.ok = @ /\ result]
  <2>1. /\ Runs("for body") /\ stack' = GoOn(m) \o <<Body>> /\ cache' = cache
        /\ indents' = indents /\ result' = result /\ failed' = failed /\ UNCHANGED lexer
    BY <1>11 DEF ForBody, Then, state
  <2>2. /\ stack # <<>> /\ top.at = "for body" /\ top \in Methods /\ cache \in Seq(Token)
        /\ failed \in BOOLEAN /\ result \in BOOLEAN
        /\ ~failed => /\ Lines(cache, ended) /\ Placed(top, cache, CurrentIndent) /\ Caller(top)
                      /\ top.ok /\ result
    <3>1. "for body" \in Reading
      BY DEF Reading
    <3>2. QED
      BY <2>1, <3>1, Running DEF Runs, At
  <2>3. /\ m \in Methods /\ SameBlock(m) /\ m.at = "for end" /\ (top.ok /\ result => m.ok)
        /\ Caller(top) => Caller(m)
    BY <2>2, PointNames DEF Methods, SameBlock, CasePoints, Caller, Called
  <2> HIDE DEF m
  <2>4. stack' = Append(GoOn(m), Body)
    BY <2>1, <2>2, <2>3, ThenIs
  <2>5. Body \in Methods /\ Body.at = "program" /\ Body.ok /\ Body.use = "" /\ Body.guards = {}
    BY <2>2, BodyIs
  <2>6. Steady
    BY <2>1, <2>2 DEF Steady, lexer
  <2>7. Called(m.at, Body)
    BY <2>3, <2>5 DEF Called, CasePoints
  <2>8. ~failed => Placed(Body, cache, CurrentIndent)
    BY <2>2, <2>5, PlacedPlain DEF Placed, Starting, AfterLine
  <2>9. QED
    BY <2>1, <2>2, <2>3, <2>4, <2>5, <2>6, <2>7, <2>8, CallStands DEF Keywords, Reading
<1>12. ASSUME BodyEnd PROVE Stands'
  <2>1. /\ Runs("for end") \/ Runs("switch end")
        /\ Return(top.ok /\ result) /\ cache' = cache /\ failed' = failed
        /\ UNCHANGED lexer
    BY <1>12 DEF BodyEnd
  <2>2. stack # <<>> /\ top.at \in {"for end", "switch end"}
    BY <2>1 DEF Runs, At
  <2>3. /\ top \in Methods /\ cache \in Seq(Token) /\ failed \in BOOLEAN
        /\ ~failed => /\ Lines(cache, ended) /\ Placed(top, cache, CurrentIndent)
                      /\ top.ok /\ result
    <3>1. top.at \in Reading
      BY <2>2 DEF Reading
    <3>2. QED
      BY <2>2, <3>1, Running
  <2>4. Steady
    BY <2>1, <2>3 DEF Steady, lexer
  <2>5. PICK v \in BOOLEAN : v = (top.ok /\ result)
    OBVIOUS
  <2>6. Return(v) /\ (~failed => v)
    BY <2>1, <2>3, <2>5
  <2>7. ASSUME ~failed, NEW p \in Methods, NEW n, Called(p.at, top)
        PROVE  Placed(p, cache, n)
    <3>1. p.at = "append"
      BY <2>2, <2>7 DEF Called
    <3>2. QED
      BY <2>2, <2>3, <2>7, <3>1, PlacedPlain DEF Placed, Starting, AfterLine
  <2>8. QED
    BY <2>1, <2>2, <2>3, <2>4, <2>6, <2>7, ReturnStands
<1>13. ASSUME Switch PROVE Stands'
  <2> DEFINE m == [top EXCEPT !.at = "cases?"]
             c == [Method("check") EXCEPT !.use = "switched"]
             d == Method("expression")
  <2>1. /\ Runs("switch") /\ Takes(TRUE) /\ stack' = GoOn(m) \o <<c, d>>
        /\ indents' = indents /\ result' = result /\ failed' = failed /\ UNCHANGED lexer
    BY <1>13 DEF Switch, WithRecovery, state
  <2>2. /\ stack # <<>> /\ top.at = "switch" /\ top \in Methods /\ cache \in Seq(Token)
        /\ failed \in BOOLEAN /\ HasSolid(cache)
        /\ ~failed => Lines(cache, ended) /\ Caller(top) /\ top.ok
    <3>1. "switch" \in Keywords
      BY DEF Keywords
    <3>2. QED
      BY <2>1, <3>1, Running DEF Runs, At
  <2>3. /\ m \in Methods /\ SameBlock(m) /\ m.at = "cases?" /\ m.ok = top.ok
        /\ Caller(top) => Caller(m)
    BY <2>2, PointNames DEF Methods, SameBlock, CasePoints, Caller, Called
  <2>4. c \in Methods /\ c.at = "check" /\ c.use = "switched" /\ c.ok /\ c.guards = {}
    BY CheckMethod
  <2>5. d \in Methods /\ d.at = "expression" /\ d.ok /\ d.guards = {}
    BY PointNames, NewMethod
  <2> HIDE DEF m, c, d
  <2>6. cache' \in Seq(Token) /\ (~failed => Lines(cache', ended))
    BY <2>1, <2>2, TakesSolidKeeps
  <2>7. Steady
    BY <2>1, <2>2, <2>6 DEF Steady, lexer
  <2>8. Called(m.at, c) /\ Called(c.at, d) /\ Placed(d, cache', CurrentIndent)
    BY <2>3, <2>4, <2>5, PlacedStarting DEF Called, CasePoints, Starting, Nexts
  <2>9. QED
    BY <2>1, <2>2, <2>3, <2>4, <2>5, <2>6, <2>7, <2>8, CallTwoStands DEF Keywords, Reading
<1>14. ASSUME SwitchCases PROVE Stands'
  <2> DEFINE k == StatementIndent
             m == [top EXCEPT !.at = "switch end", !.ok = result]
             c == [Method("cases") EXCEPT !.guards = {"block"}]
  <2>1. Runs("cases?") /\ UNCHANGED lexer
    BY <1>14 DEF SwitchCases
  <2>2. /\ stack # <<>> /\ top.at = "cases?" /\ top \in Methods /\ cache \in Seq(Token)
        /\ failed \in BOOLEAN /\ result \in BOOLEAN /\ CurrentIndent \in Nat \cup {-1}
        /\ ~failed => /\ Lines(cache, ended) /\ Placed(top, cache, CurrentIndent) /\ Caller(top)
                      /\ top.ok /\ result
    <3>1. "cases?" \in Reading
      BY DEF Reading
    <3>2. QED
      BY <2>1, <3>1, Running DEF Runs, At
  <2>3. /\ m \in Methods /\ SameBlock(m) /\ m.at = "switch end" /\ m.ok = result
        /\ Caller(top) => Caller(m)
    BY <2>2, PointNames DEF Methods, SameBlock, CasePoints, Caller, Called
  <2>4. c \in Methods /\ c.at = "cases" /\ c.ok /\ ~c.some /\ c.guards = {"block"}
    <3>1. PICK z \in Methods : z = Method("cases") /\ z.at = "cases" /\ z.ok /\ ~z.some
      BY PointNames, NewMethod
    <3>2. QED
      BY <3>1 DEF Methods
  <2>5. /\ k \in Nat \cup {-1} /\ AfterBreak \in Seq(Token)
        /\ AfterBreak # <<>> => k = AfterBreak[1].at
        /\ ~failed => /\ Lines(AfterBreak, ended) /\ NoBreak(AfterBreak) /\ Midline(AfterBreak)
                      /\ CaseAhead(cache) /\ CaseAhead(AfterBreak) /\ AfterBreak # <<>>
    BY <2>2, AfterBreakIs, CaseAfterBreak DEF Placed, Starting
  <2>6. \/ ~IsCase /\ Return(FALSE) /\ cache' = cache /\ failed' = failed
        \/ cache' = AfterBreak /\ Return(FALSE) /\ failed' = TRUE
        \/ /\ k >= CurrentIndent /\ cache' = AfterBreak
           /\ stack' = Append(GoOn(m), c) /\ indents' = Append(indents, k)
           /\ result' = result /\ failed' = failed
    BY <1>14 DEF SwitchCases
  <2> HIDE DEF m, c, k
  <2>7. CASE ~IsCase /\ Return(FALSE) /\ cache' = cache /\ failed' = failed
    <3>1. Steady
      BY <2>1, <2>2, <2>7 DEF Steady, lexer
    <3>2. failed'
      BY <2>2, <2>5, <2>7, CaseSeen
    <3>3. QED
      BY <2>2, <2>7, <3>1, <3>2, ReturnStands
  <2>8. CASE cache' = AfterBreak /\ Return(FALSE) /\ failed' = TRUE
    <3>1. Steady
      BY <2>1, <2>5, <2>8 DEF Steady, lexer
    <3>2. QED
      BY <2>2, <2>8, <3>1, ReturnStands
  <2>9. CASE /\ k >= CurrentIndent /\ cache' = AfterBreak
             /\ stack' = Append(GoOn(m), c) /\ indents' = Append(indents, k)
             /\ result' = result /\ failed' = failed
    <3>1. Steady
      BY <2>1, <2>2, <2>5, <2>9 DEF Steady, lexer
    <3>2. Called(m.at, c)
      BY <2>3, <2>4 DEF Called, CasePoints
    <3>3. ~failed => Placed(c, cache', k)
      BY <2>4, <2>5, <2>9 DEF Placed
    <3>4. c.at \in CasePoints /\ m.at \notin Keywords /\ c.at \notin Keywords \cup Reading
      BY <2>3, <2>4 DEF CasePoints, Keywords, Reading
    <3>5. QED
      BY <2>2, <2>3, <2>4, <2>5, <2>9, <3>1, <3>2, <3>3, <3>4, BlockStands
  <2>10. QED
    BY <2>6, <2>7, <2>8, <2>9
<1>15. ASSUME Cases PROVE Stands'
  <2> DEFINE k == StatementIndent
             m == [top EXCEPT !.at = "cases"]
             a == [top EXCEPT !.at = "append case"]
             c == Method("case")
             b == [c EXCEPT !.guards = @ \cup {"block"}]
  <2>1. Runs("cases") /\ UNCHANGED lexer
    BY <1>15 DEF Cases
  <2>2. /\ stack # <<>> /\ top.at = "cases" /\ top \in Methods /\ cache \in Seq(Token)
        /\ failed \in BOOLEAN /\ CurrentIndent \in Nat \cup {-1}
        /\ ~failed => /\ Lines(cache, ended) /\ Placed(top, cache, CurrentIndent) /\ Caller(top)
                      /\ top.ok
    BY <2>1, Running DEF Runs, At
  <2>3. /\ m \in Methods /\ SameBlock(m) /\ m.at = "cases"
        /\ a \in Methods /\ SameBlock(a) /\ a.at = "append case" /\ a.ok = top.ok
        /\ Caller(top) => Caller(a)
    BY <2>2, PointNames DEF Methods, SameBlock, CasePoints, Caller, Called
  <2>4. /\ c \in Methods /\ c.at = "case" /\ c.ok /\ c.use = "" /\ c.guards = {}
        /\ b \in Methods /\ b.at = "case" /\ b.guards = {"block"}
    <3>1. c \in Methods /\ c.at = "case" /\ c.ok /\ c.use = "" /\ c.guards = {}
      BY PointNames, NewMethod
    <3> HIDE DEF c
    <3>2. QED
      BY <3>1 DEF Methods
  <2>5. /\ k \in Nat \cup {-1} /\ AfterBreak \in Seq(Token)
        /\ AfterBreak # <<>> => k = AfterBreak[1].at
        /\ k # -1 => AfterBreak # <<>>
        /\ IsCase => AfterBreak # <<>> /\ CaseAhead(AfterBreak) /\ HasSolid(AfterBreak)
    <3>1. IsCase => AfterBreak # <<>> /\ CaseAhead(AfterBreak)
      BY <2>2, CaseSeen, CaseAfterBreak
    <3>2. CaseAhead(AfterBreak) => HasSolid(AfterBreak)
      BY DEF CaseAhead, HasSolid, IsSpace, Space
    <3>3. QED
      BY <2>2, <3>1, <3>2, AfterBreakIs
  <2>6. ~failed => /\ Midline(cache) /\ NoBreak(cache) /\ AfterBreak = cache
                   /\ ~top.some => cache # <<>> /\ CurrentIndent = cache[1].at /\ CaseAhead(cache)
    <3>1. ~failed => Midline(cache) /\ NoBreak(cache)
      BY <2>2 DEF Placed, Starting, AfterLine
    <3>2. ~failed /\ ~top.some => cache # <<>> /\ CurrentIndent = cache[1].at /\ CaseAhead(cache)
      BY <2>2 DEF Placed
    <3>3. QED
      BY <2>2, <3>1, <3>2, AfterBreakIs
  <2>7. \/ ~IsCase /\ Return(top.some) /\ cache' = cache /\ failed' = failed
        \/ k < CurrentIndent /\ cache' = AfterBreak /\ Return(top.some) /\ failed' = failed
        \/ /\ IsCase /\ k > CurrentIndent /\ cache' = AfterBreak
           /\ stack' = Append(GoOn(m), b) /\ indents' = Append(indents, k)
           /\ result' = result /\ failed' = TRUE
        \/ /\ IsCase /\ k = CurrentIndent /\ cache' = AfterBreak
           /\ stack' = Append(GoOn(a), c) /\ indents' = indents
           /\ result' = result /\ failed' = failed
    BY <1>15 DEF Cases, WithBlock, Call, state
  <2> HIDE DEF m, a, c, b, k
  <2>8. CASE \/ ~IsCase /\ Return(top.some) /\ cache' = cache /\ failed' = failed
             \/ k < CurrentIndent /\ cache' = AfterBreak /\ Return(top.some) /\ failed' = failed
    <3>1. Return(top.some) /\ failed' = failed /\ (cache' = cache \/ cache' = AfterBreak)
          /\ (~IsCase \/ k < CurrentIndent)
      BY <2>8
    <3>2. Steady /\ top.some \in BOOLEAN
      BY <2>1, <2>2, <2>5, <3>1 DEF Steady, lexer, Methods
    <3>3. ~failed => top.some
      <4>1. SUFFICES ASSUME ~failed, ~top.some PROVE FALSE
        BY <3>2
      <4>2. IsCase /\ k = CurrentIndent
        BY <2>2, <2>5, <2>6, <4>1, CaseSeen
      <4>3. QED
        BY <2>2, <3>1, <4>2
    <3>4. ASSUME ~failed, NEW p \in Methods, NEW n, Called(p.at, top)
          PROVE  Placed(p, cache', n)
      <4>1. p.at = "switch end" /\ cache' = cache
        BY <2>2, <2>6, <3>1, <3>4 DEF Called, CasePoints
      <4>2. QED
        BY <2>6, <3>4, <4>1, PlacedPlain
    <3>5. ~failed => Lines(cache', ended)
      BY <2>2, <2>6, <3>1
    <3>6. QED
      BY <2>2, <3>1, <3>2, <3>3, <3>4, <3>5, ReturnStands
  <2>9. CASE /\ IsCase /\ k > CurrentIndent /\ cache' = AfterBreak
             /\ stack' = Append(GoOn(m), b) /\ indents' = Append(indents, k)
             /\ result' = result /\ failed' = TRUE
    <3>1. Steady
      BY <2>1, <2>5, <2>9 DEF Steady, lexer
    <3>2. k >= CurrentIndent /\ k # CurrentIndent
      BY <2>2, <2>5, <2>9
    <3>3. m.at \notin Keywords
      BY <2>3 DEF Keywords
    <3>4. b.at \notin Reading /\ HasSolid(cache')
      BY <2>4, <2>5, <2>9 DEF Reading
    <3>5. QED
      BY <2>2, <2>3, <2>4, <2>5, <2>9, <3>1, <3>2, <3>3, <3>4, BlockStands
  <2>10. CASE /\ IsCase /\ k = CurrentIndent /\ cache' = AfterBreak
              /\ stack' = Append(GoOn(a), c) /\ indents' = indents
              /\ result' = result /\ failed' = failed
    <3>1. Steady
      BY <2>1, <2>2, <2>5, <2>10 DEF Steady, lexer
    <3>2. Called(a.at, c)
      BY <2>3, <2>4 DEF Called, CasePoints
    <3>3. ~failed => Lines(cache', ended) /\ Placed(c, cache', CurrentIndent)
      <4>1. SUFFICES ASSUME ~failed PROVE Lines(cache', ended) /\ Placed(c, cache', CurrentIndent)
        OBVIOUS
      <4>2. /\ Midline(cache') /\ NoBreak(cache') /\ cache' # <<>> /\ CaseAhead(cache')
            /\ cache'[1].at = CurrentIndent /\ Lines(cache', ended)
        BY <2>2, <2>5, <2>6, <2>10, <4>1
      <4>3. QED
        BY <2>4, <4>2 DEF Placed
    <3>4. a.at \notin Keywords
      BY <2>3 DEF Keywords
    <3>5. c.at \notin Reading /\ HasSolid(cache')
      BY <2>4, <2>5, <2>10 DEF Reading
    <3>6. QED
      BY <2>2, <2>3, <2>4, <2>10, <3>1, <3>2, <3>3, <3>4, <3>5, CallStands
  <2>11. QED
    BY <2>7, <2>8, <2>9, <2>10

<1>16. ASSUME AppendCase PROVE Stands'
  <2> DEFINE m == [top EXCEPT !.at = "cases", !.some = @ \/ result]
  <2>1. /\ Runs("append case") /\ stack' = GoOn(m) /\ cache' = cache
        /\ indents' = indents /\ result' = result /\ failed' = failed /\ UNCHANGED lexer
    BY <1>16 DEF AppendCase, state
  <2>2. /\ stack # <<>> /\ top.at = "append case" /\ top \in Methods /\ cache \in Seq(Token)
        /\ failed \in BOOLEAN /\ result \in BOOLEAN
        /\ ~failed => /\ Lines(cache, ended) /\ Placed(top, cache, CurrentIndent) /\ Caller(top)
                      /\ top.ok /\ result
    <3>1. "append case" \in Reading
      BY DEF Reading
    <3>2. QED
      BY <2>1, <3>1, Running DEF Runs, At
  <2>3. /\ m \in Methods /\ SameBlock(m) /\ m.at = "cases" /\ m.ok = top.ok
        /\ result => m.some
        /\ Caller(top) => Caller(m)
    BY <2>2, PointNames DEF Methods, SameBlock, CasePoints, Caller, Called
  <2> HIDE DEF m
  <2>4. Steady
    BY <2>1, <2>2 DEF Steady, lexer
  <2>5. ~failed => Placed(m, cache, CurrentIndent)
    <3>1. ~failed => Midline(cache) /\ NoBreak(cache)
      BY <2>2 DEF Placed, Starting, AfterLine
    <3>2. QED
      BY <2>2, <2>3, <3>1 DEF Placed
  <2>6. QED
    BY <2>1, <2>2, <2>3, <2>4, <2>5, GoStands DEF Keywords, Reading
<1>17. ASSUME Case PROVE Stands'
  <2> DEFINE point == IF Ahead(TRUE).is = "Default" THEN "colon" ELSE "case body"
             m == [top EXCEPT !.at = point, !.line = Ahead(TRUE).line]
             c == Method("condition")
  <2>1. /\ Runs("case") /\ Takes(TRUE)
        /\ stack' = IF Ahead(TRUE).is = "Default" THEN GoOn(m) ELSE Append(GoOn(m), c)
        /\ indents' = indents /\ result' = result /\ failed' = failed /\ UNCHANGED lexer
    BY <1>17 DEF Case, state
  <2>2. /\ stack # <<>> /\ top.at = "case" /\ top \in Methods /\ cache \in Seq(Token)
        /\ failed \in BOOLEAN /\ HasSolid(cache)
        /\ ~failed => Lines(cache, ended) /\ Caller(top) /\ top.ok
    <3>1. "case" \in Keywords
      BY DEF Keywords
    <3>2. QED
      BY <2>1, <3>1, Running DEF Runs, At
  <2>3. PICK p : p = point
    OBVIOUS
  <2>4. /\ p \in {"colon", "case body"} /\ p \in Point
        /\ p = "colon" <=> Ahead(TRUE).is = "Default"
    BY <2>3, PointNames
  <2>5. Ahead(TRUE).line \in Nat
    BY <2>2, AheadIs, EofIs
  <2>6. /\ m \in Methods /\ SameBlock(m) /\ m.at = p /\ m.ok = top.ok
        /\ Caller(top) => Caller(m)
    <3>1. m = [top EXCEPT !.at = p, !.line = Ahead(TRUE).line]
      BY <2>3
    <3> HIDE DEF m
    <3>2. QED
      BY <2>2, <2>4, <2>5, <3>1 DEF Methods, SameBlock, CasePoints, Caller, Called
  <2>7. c \in Methods /\ c.at = "condition" /\ c.ok /\ c.guards = {}
    BY PointNames, NewMethod
  <2> HIDE DEF m, c, point
  <2>8. cache' \in Seq(Token) /\ (~failed => Lines(cache', ended) /\ Midline(cache'))
    BY <2>1, <2>2, TakesSolidKeeps
  <2>9. Steady
    BY <2>1, <2>2, <2>8 DEF Steady, lexer
  <2>10. CASE p = "colon"
    <3>1. stack' = GoOn(m)
      BY <2>1, <2>4, <2>10
    <3>2. ~failed => Placed(m, cache', CurrentIndent)
      BY <2>6, <2>8, <2>10, PlacedPlain DEF AfterLine
    <3>3. QED
      BY <2>1, <2>2, <2>6, <2>8, <2>9, <2>10, <3>1, <3>2, GoStands DEF Keywords, Reading
  <2>11. CASE p = "case body"
    <3>1. stack' = Append(GoOn(m), c)
      BY <2>1, <2>4, <2>11
    <3>2. Called(m.at, c)
      BY <2>6, <2>7, <2>11 DEF Called, CasePoints
    <3>3. ~failed => Placed(c, cache', CurrentIndent)
      BY <2>7, <2>8, PlacedPlain DEF AfterLine
    <3>4. m.at \notin Keywords /\ c.at \notin Keywords /\ c.at \notin Reading
      BY <2>6, <2>7, <2>11 DEF Keywords, Reading
    <3>5. QED
      BY <2>1, <2>2, <2>6, <2>7, <2>8, <2>9, <3>1, <3>2, <3>3, <3>4, CallStands
  <2>12. QED
    BY <2>4, <2>10, <2>11
<1>18. ASSUME CaseBody PROVE Stands'
  <2> DEFINE m == [top EXCEPT !.at = "case end", !.ok = @ /\ result]
             e == [Body EXCEPT !.use = "emptyable"]
  <2>1. /\ Runs("case body") /\ cache' = cache /\ failed' = failed /\ UNCHANGED lexer
        /\ \/ /\ result /\ stack' = GoOn(m) \o <<e>> /\ indents' = indents /\ result' = result
           \/ ~result /\ Return(FALSE)
    BY <1>18 DEF CaseBody, Then, state
  <2>2. /\ stack # <<>> /\ top.at = "case body" /\ top \in Methods /\ cache \in Seq(Token)
        /\ failed \in BOOLEAN /\ result \in BOOLEAN
        /\ ~failed => /\ Lines(cache, ended) /\ Placed(top, cache, CurrentIndent) /\ Caller(top)
                      /\ top.ok /\ result
    <3>1. "case body" \in Reading
      BY DEF Reading
    <3>2. QED
      BY <2>1, <3>1, Running DEF Runs, At
  <2>3. /\ m \in Methods /\ SameBlock(m) /\ m.at = "case end" /\ (top.ok /\ result => m.ok)
        /\ Caller(top) => Caller(m)
    BY <2>2, PointNames DEF Methods, SameBlock, CasePoints, Caller, Called
  <2>4. e \in Methods /\ e.at = "program" /\ e.ok /\ e.use = "emptyable" /\ e.guards = {}
    BY <2>2, BodyIs
  <2> HIDE DEF m, e
  <2>5. Steady
    BY <2>1, <2>2 DEF Steady, lexer
  <2>6. CASE result /\ stack' = GoOn(m) \o <<e>> /\ indents' = indents /\ result' = result
    <3>1. stack' = Append(GoOn(m), e)
      BY <2>2, <2>3, <2>6, ThenIs
    <3>2. Called(m.at, e)
      BY <2>3, <2>4 DEF Called, CasePoints
    <3>3. ~failed => Placed(e, cache, CurrentIndent)
      BY <2>2, <2>4, PlacedPlain DEF Placed, Starting, AfterLine
    <3>4. QED
      BY <2>1, <2>2, <2>3, <2>4, <2>5, <2>6, <3>1, <3>2, <3>3, CallStands DEF Keywords, Reading
  <2>7. CASE ~result /\ Return(FALSE)
    BY <2>1, <2>2, <2>5, <2>7, ReturnStands
  <2>8. QED
    BY <2>1, <2>6, <2>7
<1>19. ASSUME CaseEnd PROVE Stands'
  <2>1. /\ Runs("case end") /\ Return(TRUE) /\ cache' = cache /\ failed' = failed
        /\ UNCHANGED lexer
    BY <1>19 DEF CaseEnd
  <2>2. /\ stack # <<>> /\ top.at = "case end" /\ top \in Methods /\ cache \in Seq(Token)
        /\ failed \in BOOLEAN
        /\ ~failed => Lines(cache, ended) /\ Placed(top, cache, CurrentIndent)
    BY <2>1, Running DEF Runs, At
  <2>3. Steady
    BY <2>1, <2>2 DEF Steady, lexer
  <2>4. ASSUME ~failed, NEW p \in Methods, NEW n, Called(p.at, top)
        PROVE  Placed(p, cache, n)
    <3>1. p.at = "append case"
      BY <2>2, <2>4 DEF Called
    <3>2. QED
      BY <2>2, <2>4, <3>1, PlacedPlain DEF Placed, Starting, AfterLine
  <2>5. QED
    BY <2>1, <2>2, <2>3, <2>4, ReturnStands
<1>20. ASSUME LoopControl PROVE Stands'
  <2> DEFINE m == [top EXCEPT !.at = "level?"]
  <2>1. /\ Runs("loop control") /\ Takes(TRUE) /\ stack' = GoOn(m)
        /\ indents' = indents /\ result' = result /\ failed' = failed /\ UNCHANGED lexer
    BY <1>20 DEF LoopControl, GoTo, state
  <2>2. /\ stack # <<>> /\ top.at = "loop control" /\ top \in Methods /\ cache \in Seq(Token)
        /\ failed \in BOOLEAN /\ HasSolid(cache)
        /\ ~failed => Lines(cache, ended) /\ Caller(top) /\ top.ok
    <3>1. "loop control" \in Keywords
      BY DEF Keywords
    <3>2. QED
      BY <2>1, <3>1, Running DEF Runs, At
  <2>3. /\ m \in Methods /\ SameBlock(m) /\ m.at = "level?" /\ m.ok = top.ok
        /\ Caller(top) => Caller(m)
    BY <2>2, PointNames DEF Methods, SameBlock, CasePoints, Caller, Called
  <2> HIDE DEF m
  <2>4. cache' \in Seq(Token) /\ (~failed => Lines(cache', ended) /\ Midline(cache'))
    BY <2>1, <2>2, TakesSolidKeeps
  <2>5. Steady
    BY <2>1, <2>2, <2>4 DEF Steady, lexer
  <2>6. ~failed => Placed(m, cache', CurrentIndent)
    BY <2>3, <2>4, PlacedPlain DEF AfterLine
  <2>7. QED
    BY <2>1, <2>2, <2>3, <2>4, <2>5, <2>6, GoStands DEF Keywords, Reading
<1>21. ASSUME LoopLevel PROVE Stands'
  <2> DEFINE r == [top EXCEPT !.at = "recover"]
  <2>1. Runs("level?") /\ UNCHANGED lexer
    BY <1>21 DEF LoopLevel
  <2>2. /\ stack # <<>> /\ top.at = "level?" /\ top \in Methods /\ cache \in Seq(Token)
        /\ failed \in BOOLEAN
        /\ ~failed => /\ Lines(cache, ended) /\ Placed(top, cache, CurrentIndent) /\ Caller(top)
                      /\ top.ok
    BY <2>1, Running DEF Runs, At
  <2>3. r \in Methods /\ SameBlock(r) /\ r.at = "recover"
    BY <2>2, PointNames DEF Methods, SameBlock, CasePoints
  <2>4. PICK admitted \in BOOLEAN : /\ admitted = (Ahead(FALSE).number <= loop_level)
                                    /\ admitted \/ Ahead(FALSE).number > loop_level
    BY LevelIs
  <2>5. PICK inside \in BOOLEAN : inside = (loop_level >= 1) /\ (inside \/ loop_level < 1)
    BY LevelIs
  <2> DEFINE m == [top EXCEPT !.at = "end", !.ok = admitted]
  <2>7. /\ m \in Methods /\ SameBlock(m) /\ m.at = "end" /\ m.ok = admitted
        /\ Caller(top) => Caller(m)
    BY <2>2, PointNames DEF Methods, SameBlock, CasePoints, Caller, Called
  <2>8. \/ /\ SkipStatementEnd /\ Return(inside)
           /\ failed' = (failed \/ loop_level < 1)
        \/ /\ Ahead(FALSE).is = "IntLit" /\ Takes(FALSE) /\ stack' = GoOn(m)
           /\ indents' = indents /\ result' = result
           /\ failed' = (failed \/ Ahead(FALSE).number > loop_level)
        \/ /\ stack' = GoOn(r) /\ failed' = TRUE /\ cache' = cache
           /\ indents' = indents /\ result' = result
    BY <1>21, <2>4, <2>5, Zenon DEF LoopLevel, GoTo, state
  <2> HIDE DEF r, m
  <2>9. CASE /\ SkipStatementEnd /\ Return(inside)
             /\ failed' = (failed \/ loop_level < 1)
    <3>1. /\ cache' \in Seq(Token)
          /\ ~failed => Lines(cache', ended) /\ NoBreak(cache') /\ Midline(cache')
      BY <2>2, <2>9, SkipKeeps DEF Placed, Starting
    <3>2. failed => failed'
      BY <2>9
    <3>3. failed' \in BOOLEAN
      BY <2>9
    <3>4. Steady
      BY <2>1, <2>2, <3>1, <3>2, <3>3 DEF Steady, lexer
    <3>5. ~failed' => ~failed /\ inside
      BY <2>2, <2>5, <2>9
    <3>6. ASSUME ~failed, NEW p \in Methods, NEW n, Called(p.at, top)
          PROVE  Placed(p, cache', n)
      <4>1. p.at = "append"
        BY <2>2, <3>6 DEF Called
      <4>2. QED
        BY <3>1, <3>6, <4>1, PlacedPlain
    <3>7. Return(inside)
      BY <2>9
    <3>8. QED
      BY <2>2, <3>1, <3>4, <3>5, <3>6, <3>7, ReturnStands
  <2>10. CASE /\ Ahead(FALSE).is = "IntLit" /\ Takes(FALSE) /\ stack' = GoOn(m)
              /\ indents' = indents /\ result' = result
              /\ failed' = (failed \/ Ahead(FALSE).number > loop_level)
    <3>1. cache # <<>> /\ ~IsSpace(cache[1])
      BY <2>2, <2>10, AheadIs, EofIs DEF IsSpace, Space
    <3>2. cache' \in Seq(Token) /\ (~failed => Lines(cache', ended) /\ Midline(cache'))
      BY <2>2, <2>10, <3>1, TakesFirstKeeps
    <3>3. failed' \in BOOLEAN /\ (failed => failed')
      BY <2>10
    <3>4. Steady
      BY <2>1, <2>2, <3>2, <3>3 DEF Steady, lexer
    <3>5. ~failed' => ~failed /\ m.ok
      BY <2>2, <2>4, <2>7, <2>10
    <3>6. ~failed => Placed(m, cache', CurrentIndent)
      BY <2>7, <3>2, PlacedPlain DEF AfterLine
    <3>7. QED
      BY <2>2, <2>7, <2>10, <3>2, <3>4, <3>5, <3>6, GoStands DEF Keywords, Reading
  <2>11. CASE /\ stack' = GoOn(r) /\ failed' = TRUE /\ cache' = cache
              /\ indents' = indents /\ result' = result
    <3>1. Steady
      BY <2>1, <2>2, <2>11 DEF Steady, lexer
    <3>2. QED
      BY <2>2, <2>3, <2>11, <3>1, GoStands DEF Keywords
  <2>12. QED
    BY <2>8, <2>9, <2>10, <2>11
<1>22. QED
  BY <1>1, <1>2, <1>3, <1>4, <1>5, <1>6, <1>7, <1>8, <1>9, <1>10, <1>11, <1>12, <1>13, <1>14,
     <1>15, <1>16, <1>17, <1>18, <1>19, <1>20, <1>21 DEF Control

\* The token that AssertLookahead expects is taken.
LEMMA AssertKeeps ==
  ASSUME cache \in Seq(Token), NEW kind, kind # "Eof",
         IF Ahead(TRUE).is = kind THEN Takes(TRUE) ELSE cache' = cache
  PROVE  /\ cache' \in Seq(Token)
         /\ Lines(cache, ended) /\ Ahead(TRUE).is = kind => Lines(cache', ended) /\ Midline(cache')
<1>1. Ahead(TRUE).is = kind => HasSolid(cache)
  BY AheadIs, EofIs
<1>2. QED
  BY <1>1, TakesSolidKeeps

\* AssertLookahead, on the way to a point in the middle of a line.
LEMMA AssertStands ==
  ASSUME Stands, stack # <<>>, NEW kind, kind # "Eof", NEW point \in Point, Assert(kind, point),
         top.ok \/ (failed \/ Ahead(TRUE).is # kind),
         LET m == [top EXCEPT !.at = point, !.ok = @ /\ Ahead(TRUE).is = kind] IN
           /\ SameBlock(m) /\ m.at \notin Keywords /\ m.at \notin Reading
           /\ ~failed => Caller(m) /\ ~AfterLine(m)
           /\ m.at \notin Starting
           /\ m.at \notin {"recover", "stop", "block", "case", "cases", "cases?"}
  PROVE  Stands'
<1> DEFINE m == [top EXCEPT !.at = point, !.ok = @ /\ Ahead(TRUE).is = kind]
<1>1. /\ top \in Methods /\ cache \in Seq(Token) /\ failed \in BOOLEAN
      /\ ~failed => Lines(cache, ended)
  BY Running
<1>2. /\ IF Ahead(TRUE).is = kind THEN Takes(TRUE) ELSE cache' = cache
      /\ failed' = (failed \/ Ahead(TRUE).is # kind) /\ stack' = GoOn(m)
      /\ indents' = indents /\ result' = result /\ UNCHANGED lexer
  BY DEF Assert, state
<1>3. m \in Methods /\ m.at = point /\ (top.ok /\ Ahead(TRUE).is = kind => m.ok)
  BY <1>1 DEF Methods
<1>4. /\ SameBlock(m) /\ m.at \notin Keywords /\ m.at \notin Reading
      /\ ~failed => Caller(m) /\ ~AfterLine(m)
      /\ m.at \notin Starting
      /\ m.at \notin {"recover", "stop", "block", "case", "cases", "cases?"}
  OBVIOUS
<1> HIDE DEF m
<1>5. /\ cache' \in Seq(Token)
      /\ ~failed' => Lines(cache', ended) /\ Midline(cache') /\ ~failed /\ m.ok
  BY <1>1, <1>2, <1>3, AssertKeeps
<1>6. Steady
  BY <1>1, <1>2, <1>5 DEF Steady, lexer
<1>7. ~failed' => Placed(m, cache', CurrentIndent)
  <2>1. m.at \notin {"statement", "return"}
    BY <1>4 DEF Starting
  <2>2. QED
    BY <1>4, <1>5, <2>1, PlacedPlain
<1>8. QED
  BY <1>1, <1>2, <1>3, <1>4, <1>5, <1>6, <1>7, GoStands

\* Definitions and return.
LEMMA DefinitionsStand ==
  ASSUME IInv, Stands, Definitions PROVE Stands'
<1>1. ASSUME Definition PROVE Stands'
  <2> DEFINE m == [top EXCEPT !.at = "define"]
  <2>1. /\ Runs("export") /\ stack' = GoOn(m)
        /\ (Ahead(TRUE).is = "Export" /\ Takes(TRUE)) \/ cache' = cache
        /\ indents' = indents /\ result' = result /\ failed' = failed /\ UNCHANGED lexer
    BY <1>1 DEF Definition, GoTo, state
  <2>2. /\ stack # <<>> /\ top.at = "export" /\ top \in Methods /\ cache \in Seq(Token)
        /\ failed \in BOOLEAN
        /\ ~failed => Lines(cache, ended) /\ Caller(top) /\ top.ok
    BY <2>1, Running DEF Runs, At
  <2>3. /\ m \in Methods /\ SameBlock(m) /\ m.at = "define" /\ m.ok = top.ok
        /\ Caller(top) => Caller(m)
    BY <2>2, PointNames DEF Methods, SameBlock, CasePoints, Caller, Called
  <2> HIDE DEF m
  <2>4. Ahead(TRUE).is = "Export" => HasSolid(cache)
    BY <2>2, AheadIs, EofIs
  <2>5. cache' \in Seq(Token) /\ (~failed => Lines(cache', ended))
    BY <2>1, <2>2, <2>4, TakesSolidKeeps
  <2>6. Steady
    BY <2>1, <2>2, <2>5 DEF Steady, lexer
  <2>7. Placed(m, cache', CurrentIndent)
    BY <2>3, PlacedStarting DEF Starting
  <2>8. QED
    BY <2>1, <2>2, <2>3, <2>5, <2>6, <2>7, GoStands DEF Keywords, Reading
<1>2. ASSUME Define PROVE Stands'
  <2> DEFINE m == [top EXCEPT !.at = "name", !.ok = @ /\ Ahead(TRUE).is = "Define"]
  <2>1. Runs("define") /\ Assert("Define", "name")
    BY <1>2 DEF Define
  <2>2. /\ stack # <<>> /\ top.at = "define" /\ top \in Methods
        /\ ~failed => Caller(top) /\ top.ok
    BY <2>1, Running DEF Runs, At
  <2>3. /\ SameBlock(m) /\ m.at = "name" /\ m.some = top.some
        /\ Caller(top) => Caller(m)
    BY <2>2 DEF Methods, SameBlock, CasePoints, Caller, Called
  <2>4. QED
    BY <2>1, <2>2, <2>3, PointNames, AssertStands DEF Keywords, Reading, AfterLine, Starting
<1>3. ASSUME Name PROVE Stands'
  <2> DEFINE m == [top EXCEPT !.at = "signature", !.ok = @ /\ Ahead(TRUE).is = "Ident"]
  <2>1. Runs("name") /\ Assert("Ident", "signature")
    BY <1>3 DEF Name
  <2>2. /\ stack # <<>> /\ top.at = "name" /\ top \in Methods
        /\ ~failed => Caller(top) /\ top.ok
    BY <2>1, Running DEF Runs, At
  <2>3. /\ SameBlock(m) /\ m.at = "signature" /\ m.some = top.some
        /\ Caller(top) => Caller(m)
    BY <2>2 DEF Methods, SameBlock, CasePoints, Caller, Called
  <2>4. QED
    BY <2>1, <2>2, <2>3, PointNames, AssertStands DEF Keywords, Reading, AfterLine, Starting
<1>4. ASSUME Signature PROVE Stands'
  <2> DEFINE f == [top EXCEPT !.at = "type?", !.guards = @ \cup {"function"}, !.old = loop_level]
             m == [top EXCEPT !.at = "type?"]
  <2>1. /\ Runs("signature")
        /\ \/ Ahead(TRUE).is = "Unit" /\ Takes(TRUE) /\ stack' = GoOn(f)
           \/ cache' = cache /\ stack' = GoOn(m)
        /\ indents' = indents /\ result' = result /\ failed' = failed /\ UNCHANGED lexer
    BY <1>4 DEF Signature, GoTo
  <2>2. /\ stack # <<>> /\ top.at = "signature" /\ top \in Methods /\ cache \in Seq(Token)
        /\ failed \in BOOLEAN
        /\ ~failed => /\ Lines(cache, ended) /\ Placed(top, cache, CurrentIndent) /\ Caller(top)
                      /\ top.ok
    BY <2>1, Running DEF Runs, At
  <2>3. loop_level \in Nat
    BY LevelIsNat
  <2>4. /\ m \in Methods /\ SameBlock(m) /\ m.at = "type?" /\ m.ok = top.ok
        /\ f \in Methods /\ SameBlock(f) /\ f.at = "type?" /\ f.ok = top.ok
        /\ Caller(top) => Caller(m) /\ Caller(f)
    BY <2>2, <2>3, PointNames DEF Methods, SameBlock, CasePoints, Caller, Called
  <2> HIDE DEF m, f
  <2>5. Ahead(TRUE).is = "Unit" => HasSolid(cache)
    BY <2>2, AheadIs, EofIs
  <2>6. cache' \in Seq(Token) /\ (~failed => Lines(cache', ended) /\ Midline(cache'))
    BY <2>1, <2>2, <2>5, TakesSolidKeeps DEF Placed, Starting
  <2>7. Steady
    BY <2>1, <2>2, <2>6 DEF Steady, lexer
  <2>8. ~failed => Placed(m, cache', CurrentIndent) /\ Placed(f, cache', CurrentIndent)
    BY <2>4, <2>6, PlacedPlain DEF AfterLine
  <2>9. CASE stack' = GoOn(m)
    BY <2>1, <2>2, <2>4, <2>6, <2>7, <2>8, <2>9, GoStands DEF Keywords, Reading
  <2>10. CASE stack' = GoOn(f)
    BY <2>1, <2>2, <2>4, <2>6, <2>7, <2>8, <2>10, GoStands DEF Keywords, Reading
  <2>11. QED
    BY <2>1, <2>9, <2>10
<1>5. ASSUME OptionalTypeInDef PROVE Stands'
  <2> DEFINE m == [top EXCEPT !.at = "typed"]
             s == [top EXCEPT !.at = "equals"]
             c == [Method("check") EXCEPT !.use = "type"]
             d == Method("type")
  <2>1. /\ Runs("type?")
        /\ \/ Ahead(TRUE).is = "Colon" /\ Takes(TRUE) /\ stack' = GoOn(m) \o <<c, d>>
           \/ cache' = cache /\ stack' = GoOn(s)
        /\ indents' = indents /\ result' = result /\ failed' = failed /\ UNCHANGED lexer
    BY <1>5 DEF OptionalTypeInDef, GoTo, WithRecovery, state
  <2>2. /\ stack # <<>> /\ top.at = "type?" /\ top \in Methods /\ cache \in Seq(Token)
        /\ failed \in BOOLEAN
        /\ ~failed => /\ Lines(cache, ended) /\ Placed(top, cache, CurrentIndent) /\ Caller(top)
                      /\ top.ok
    BY <2>1, Running DEF Runs, At
  <2>3. /\ m \in Methods /\ SameBlock(m) /\ m.at = "typed" /\ m.ok = top.ok
        /\ s \in Methods /\ SameBlock(s) /\ s.at = "equals" /\ s.ok = top.ok
        /\ Caller(top) => Caller(m) /\ Caller(s)
    BY <2>2, PointNames DEF Methods, SameBlock, CasePoints, Caller, Called
  <2>4. c \in Methods /\ c.at = "check" /\ c.use = "type" /\ c.ok /\ c.guards = {}
    BY CheckMethod
  <2>5. d \in Methods /\ d.at = "type" /\ d.ok /\ d.guards = {}
    BY PointNames, NewMethod
  <2> HIDE DEF m, s, c, d
  <2>6. Ahead(TRUE).is = "Colon" => HasSolid(cache)
    BY <2>2, AheadIs, EofIs
  <2>7. cache' \in Seq(Token) /\ (~failed => Lines(cache', ended) /\ Midline(cache'))
    BY <2>1, <2>2, <2>6, TakesSolidKeeps DEF Placed, Starting
  <2>8. Steady
    BY <2>1, <2>2, <2>7 DEF Steady, lexer
  <2>9. CASE stack' = GoOn(m) \o <<c, d>>
    <3>1. Called(m.at, c) /\ Called(c.at, d)
      BY <2>3, <2>4, <2>5 DEF Called, CasePoints, Nexts
    <3>2. ~failed => Placed(d, cache', CurrentIndent)
      BY <2>5, <2>7, PlacedPlain DEF AfterLine
    <3>3. m.at \notin Keywords /\ c.at \notin Keywords /\ d.at \notin Keywords \cup Reading
      BY <2>3, <2>4, <2>5 DEF Keywords, Reading
    <3>4. QED
      BY <2>1, <2>2, <2>3, <2>4, <2>5, <2>7, <2>8, <2>9, <3>1, <3>2, <3>3, CallTwoStands
  <2>10. CASE stack' = GoOn(s)
    <3>1. ~failed => Placed(s, cache', CurrentIndent)
      BY <2>3, <2>7, PlacedPlain DEF AfterLine
    <3>2. QED
      BY <2>1, <2>2, <2>3, <2>7, <2>8, <2>10, <3>1, GoStands DEF Keywords, Reading
  <2>11. QED
    BY <2>1, <2>9, <2>10
<1>6. ASSUME TypeExpression PROVE Stands'
  <2>1. PICK v \in BOOLEAN : v = (Ahead(TRUE).is = "Unit")
    OBVIOUS
  <2>2. /\ Runs("type") /\ (IF Ahead(TRUE).is = "Unit" THEN Takes(TRUE) ELSE cache' = cache)
        /\ failed' = (failed \/ Ahead(TRUE).is # "Unit") /\ Return(v) /\ UNCHANGED lexer
    BY <1>6, <2>1 DEF TypeExpression
  <2>3. /\ stack # <<>> /\ top.at = "type" /\ top \in Methods /\ cache \in Seq(Token)
        /\ failed \in BOOLEAN
        /\ ~failed => Lines(cache, ended)
    BY <2>2, Running DEF Runs, At
  <2>4. /\ cache' \in Seq(Token)
        /\ ~failed' => ~failed /\ v /\ Lines(cache', ended) /\ Midline(cache')
    BY <2>1, <2>2, <2>3, AssertKeeps
  <2>5. Steady
    BY <2>2, <2>3, <2>4 DEF Steady, lexer
  <2>6. ASSUME ~failed', NEW p \in Methods, NEW n, Called(p.at, top)
        PROVE  Placed(p, cache', n)
    <3>1. p.at = "check"
      BY <2>3, <2>6 DEF Called
    <3>2. QED
      BY <2>4, <2>6, <3>1, PlacedPlain DEF AfterLine
  <2>7. QED
    BY <2>2, <2>3, <2>4, <2>5, <2>6, ReturnStands

<1>7. ASSUME Typed PROVE Stands'
  <2> DEFINE m == [top EXCEPT !.at = "equals", !.ok = @ /\ result]
  <2>1. /\ Runs("typed") /\ stack' = GoOn(m) \o <<>> /\ cache' = cache
        /\ indents' = indents /\ result' = result /\ failed' = failed /\ UNCHANGED lexer
    BY <1>7 DEF Typed, Then, state
  <2>2. /\ stack # <<>> /\ top.at = "typed" /\ top \in Methods /\ cache \in Seq(Token)
        /\ failed \in BOOLEAN /\ result \in BOOLEAN
        /\ ~failed => Lines(cache, ended) /\ Placed(top, cache, CurrentIndent) /\ Caller(top)
    BY <2>1, Running DEF Runs, At
  <2>3. /\ m \in Methods /\ SameBlock(m) /\ m.at = "equals" /\ (top.ok /\ result => m.ok)
        /\ Caller(top) => Caller(m)
    BY <2>2, PointNames DEF Methods, SameBlock, CasePoints, Caller, Called
  <2> HIDE DEF m
  <2>4. stack' = GoOn(m)
    BY <2>1, <2>2, <2>3, ThenIs
  <2>5. Steady
    BY <2>1, <2>2 DEF Steady, lexer
  <2>6. ASSUME ~failed PROVE m.ok \/ TypeAtEnd'
    <3>1. (top.ok \/ TypeAtEnd) /\ (result \/ TypeAtEnd)
      BY <2>2, <2>6 DEF Stands, Clean, Reading
    <3>2. ASSUME TypeAtEnd PROVE TypeAtEnd'
      <4>1. ended /\ Ahead(TRUE) = Eof
        BY <3>2 DEF TypeAtEnd
      <4>2. ended' /\ Ahead(TRUE)' = Eof
        BY <2>1, <4>1 DEF lexer, Ahead, Sees, Solid, First
      <4>3. Shaped
        BY DEF Stands, Formed, Shaped
      <4>4. stack' # <<>> /\ top' = m
        BY <2>1, <2>2, <2>3, <2>4, <4>3, GoesOn
      <4>5. QED
        BY <2>3, <4>2, <4>4 DEF TypeAtEnd, At
    <3>3. QED
      BY <2>3, <3>1, <3>2
  <2>7. ~failed => Placed(m, cache, CurrentIndent)
    BY <2>2, <2>3, PlacedPlain DEF Placed, Starting, AfterLine
  <2>8. QED
    BY <2>1, <2>2, <2>3, <2>4, <2>5, <2>6, <2>7, GoStands DEF Keywords, Reading
<1>8. ASSUME FunctionDef PROVE Stands'
  <2> DEFINE m == [top EXCEPT !.at = "function end", !.ok = @ /\ Ahead(TRUE).is = "SingleEq"]
  <2>1. Runs("equals") /\ Assert("SingleEq", "function end")
    BY <1>8 DEF FunctionDef
  <2>2. /\ stack # <<>> /\ top.at = "equals" /\ top \in Methods
        /\ ~failed => Caller(top)
    BY <2>1, Running DEF Runs, At
  <2>3. /\ SameBlock(m) /\ m.at = "function end" /\ m.some = top.some
        /\ Caller(top) => Caller(m) /\ ~top.some
    BY <2>2 DEF Methods, SameBlock, CasePoints, Caller, Called
  <2>4. top.ok \/ (failed \/ Ahead(TRUE).is # "SingleEq")
    <3>1. failed \/ top.ok \/ TypeAtEnd
      BY <2>2 DEF Stands, Clean
    <3>2. TypeAtEnd => Ahead(TRUE).is = "Eof"
      BY EofIs DEF TypeAtEnd
    <3>3. QED
      BY <3>1, <3>2
  <2>5. QED
    BY <2>1, <2>2, <2>3, <2>4, PointNames, AssertStands DEF Keywords, Reading, AfterLine, Starting
<1>9. ASSUME FunctionBody PROVE Stands'
  <2> DEFINE m == [top EXCEPT !.some = TRUE]
  <2>1. /\ Runs("function end") /\ ~top.some
        /\ stack' = Append(GoOn(m), Body) /\ cache' = cache
        /\ indents' = indents /\ result' = result /\ failed' = failed /\ UNCHANGED lexer
    BY <1>9 DEF FunctionBody, state
  <2>2. /\ stack # <<>> /\ top.at = "function end" /\ top \in Methods /\ cache \in Seq(Token)
        /\ failed \in BOOLEAN
        /\ ~failed => /\ Lines(cache, ended) /\ Placed(top, cache, CurrentIndent) /\ Caller(top)
                      /\ top.ok
    BY <2>1, Running DEF Runs, At
  <2>3. /\ m \in Methods /\ SameBlock(m) /\ m.at = "function end" /\ m.ok = top.ok
        /\ Caller(top) => Caller(m)
    BY <2>2, PointNames DEF Methods, SameBlock, CasePoints, Caller, Called
  <2> HIDE DEF m
  <2>4. Body \in Methods /\ Body.at = "program" /\ Body.ok /\ Body.use = "" /\ Body.guards = {}
    BY <2>2, BodyIs
  <2>5. Steady
    BY <2>1, <2>2 DEF Steady, lexer
  <2>6. Called(m.at, Body)
    BY <2>3, <2>4 DEF Called, CasePoints
  <2>7. ~failed => Placed(Body, cache, CurrentIndent)
    BY <2>2, <2>4, PlacedPlain DEF Placed, Starting, AfterLine
  <2>8. QED
    BY <2>1, <2>2, <2>3, <2>4, <2>5, <2>6, <2>7, CallStands DEF Keywords, Reading
<1>10. ASSUME FunctionEnd PROVE Stands'
  <2>1. /\ Runs("function end") /\ top.some /\ Return(top.ok) /\ cache' = cache
        /\ failed' = failed /\ UNCHANGED lexer
    BY <1>10 DEF FunctionEnd
  <2>2. /\ stack # <<>> /\ top.at = "function end" /\ top \in Methods /\ cache \in Seq(Token)
        /\ failed \in BOOLEAN
        /\ ~failed => Lines(cache, ended) /\ Placed(top, cache, CurrentIndent) /\ top.ok
    BY <2>1, Running DEF Runs, At
  <2>3. Steady /\ top.ok \in BOOLEAN
    BY <2>1, <2>2 DEF Steady, lexer, Methods
  <2>4. ASSUME ~failed, NEW p \in Methods, NEW n, Called(p.at, top)
        PROVE  Placed(p, cache, n)
    <3>1. p.at = "append"
      BY <2>2, <2>4 DEF Called
    <3>2. QED
      BY <2>1, <2>2, <2>4, <3>1, PlacedPlain DEF Placed, Starting, AfterLine
  <2>5. QED
    BY <2>1, <2>2, <2>3, <2>4, ReturnStands
<1>11. ASSUME VariableDef PROVE Stands'
  <2> DEFINE m == [top EXCEPT !.at = "variable end"]
             r == [top EXCEPT !.at = "recover"]
             c == Method("expression")
  <2>1. /\ Runs("equals") /\ UNCHANGED lexer
        /\ \/ /\ Ahead(TRUE).is = "SingleEq" /\ Takes(TRUE) /\ stack' = Append(GoOn(m), c)
              /\ failed' = (failed \/ FALSE)
           \/ cache' = cache /\ stack' = GoOn(r) /\ failed' = (failed \/ TRUE)
        /\ indents' = indents /\ result' = result
    BY <1>11 DEF VariableDef, Call, GoTo, state
  <2>2. /\ stack # <<>> /\ top.at = "equals" /\ top \in Methods /\ cache \in Seq(Token)
        /\ failed \in BOOLEAN
        /\ ~failed => Lines(cache, ended) /\ Caller(top)
    BY <2>1, Running DEF Runs, At
  <2>3. /\ m \in Methods /\ SameBlock(m) /\ m.at = "variable end" /\ m.ok = top.ok
        /\ r \in Methods /\ SameBlock(r) /\ r.at = "recover"
        /\ Caller(top) => Caller(m)
    BY <2>2, PointNames DEF Methods, SameBlock, CasePoints, Caller, Called
  <2>4. c \in Methods /\ c.at = "expression" /\ c.ok /\ c.guards = {}
    BY PointNames, NewMethod
  <2> HIDE DEF m, r, c
  <2>5. CASE /\ Ahead(TRUE).is = "SingleEq" /\ Takes(TRUE) /\ stack' = Append(GoOn(m), c)
             /\ failed' = (failed \/ FALSE)
    <3>1. HasSolid(cache)
      BY <2>2, <2>5, AheadIs, EofIs
    <3>2. cache' \in Seq(Token) /\ (~failed => Lines(cache', ended))
      BY <2>2, <2>5, <3>1, TakesSolidKeeps
    <3>3. failed' = failed
      BY <2>2, <2>5
    <3>4. Steady
      BY <2>1, <2>2, <3>2, <3>3 DEF Steady, lexer
    <3>5. ~failed => m.ok
      <4>1. failed \/ top.ok \/ TypeAtEnd
        BY <2>2 DEF Stands, Clean
      <4>2. TypeAtEnd => Ahead(TRUE).is = "Eof"
        BY EofIs DEF TypeAtEnd
      <4>3. QED
        BY <2>3, <2>5, <4>1, <4>2
    <3>6. Called(m.at, c) /\ Placed(c, cache', CurrentIndent)
      BY <2>3, <2>4, PlacedStarting DEF Called, CasePoints, Starting
    <3>7. QED
      BY <2>1, <2>2, <2>3, <2>4, <2>5, <3>2, <3>3, <3>4, <3>5, <3>6, CallStands
      DEF Keywords, Reading
  <2>6. CASE cache' = cache /\ stack' = GoOn(r) /\ failed' = (failed \/ TRUE)
    <3>1. failed' = TRUE
      BY <2>6
    <3>2. Steady
      BY <2>1, <2>2, <2>6, <3>1 DEF Steady, lexer
    <3>3. QED
      BY <2>1, <2>2, <2>3, <2>6, <3>1, <3>2, GoStands DEF Keywords
  <2>7. QED
    BY <2>1, <2>5, <2>6
<1>12. ASSUME ValueEnd PROVE Stands'
  <2>1. PICK point : point = IF result THEN "end" ELSE "recover"
    OBVIOUS
  <2> DEFINE m == [top EXCEPT !.at = point]
  <2>2. /\ Runs("variable end") \/ Runs("return value")
        /\ stack' = GoOn(m) /\ cache' = cache
        /\ indents' = indents /\ result' = result /\ failed' = failed /\ UNCHANGED lexer
    BY <1>12, <2>1 DEF ValueEnd, GoTo, state
  <2>3. stack # <<>> /\ top.at \in {"variable end", "return value"}
    BY <2>2 DEF Runs, At
  <2>4. /\ top \in Methods /\ cache \in Seq(Token) /\ failed \in BOOLEAN /\ result \in BOOLEAN
        /\ ~failed => /\ Lines(cache, ended) /\ Placed(top, cache, CurrentIndent) /\ Caller(top)
                      /\ top.ok /\ result
    <3>1. top.at \in Reading
      BY <2>3 DEF Reading
    <3>2. QED
      BY <2>3, <3>1, Running
  <2>5. point \in Point /\ point \in {"end", "recover"} /\ (result => point = "end")
    BY <2>1, PointNames
  <2>6. /\ m \in Methods /\ SameBlock(m) /\ m.at = point /\ m.ok = top.ok
        /\ Caller(top) /\ point = "end" => Caller(m)
    BY <2>3, <2>4, <2>5 DEF Methods, SameBlock, CasePoints, Caller, Called
  <2> HIDE DEF m
  <2>7. Steady
    BY <2>2, <2>4 DEF Steady, lexer
  <2>8. ~failed => Placed(m, cache, CurrentIndent)
    <3>1. ~failed => Midline(cache)
      BY <2>3, <2>4 DEF Placed, Starting
    <3>2. QED
      BY <2>4, <2>5, <2>6, <3>1, PlacedPlain DEF AfterLine
  <2>9. QED
    BY <2>2, <2>3, <2>4, <2>5, <2>6, <2>7, <2>8, GoStands DEF Keywords, Reading
<1>13. ASSUME ReturnStmt PROVE Stands'
  <2> DEFINE m == [top EXCEPT !.at = "after return"]
  <2>1. /\ Runs("return") /\ Takes(FALSE) /\ stack' = GoOn(m)
        /\ indents' = indents /\ result' = result /\ failed' = failed /\ UNCHANGED lexer
    BY <1>13 DEF ReturnStmt, GoTo, state
  <2>2. /\ stack # <<>> /\ top.at = "return" /\ top \in Methods /\ cache \in Seq(Token)
        /\ failed \in BOOLEAN
        /\ ~failed => /\ Lines(cache, ended) /\ Placed(top, cache, CurrentIndent) /\ Caller(top)
                      /\ top.ok
    BY <2>1, Running DEF Runs, At
  <2>3. /\ m \in Methods /\ SameBlock(m) /\ m.at = "after return" /\ m.ok = top.ok
        /\ Caller(top) => Caller(m)
    BY <2>2, PointNames DEF Methods, SameBlock, CasePoints, Caller, Called
  <2> HIDE DEF m
  <2>4. ~failed => cache # <<>> /\ ~IsSpace(cache[1])
    BY <2>2 DEF Placed
  <2>5. cache' \in Seq(Token) /\ (~failed => Lines(cache', ended) /\ Midline(cache'))
    BY <2>1, <2>2, <2>4, TakesFirstKeeps
  <2>6. Steady
    BY <2>1, <2>2, <2>5 DEF Steady, lexer
  <2>7. ~failed => Placed(m, cache', CurrentIndent)
    BY <2>3, <2>5, PlacedPlain DEF AfterLine
  <2>8. QED
    BY <2>1, <2>2, <2>3, <2>5, <2>6, <2>7, GoStands DEF Keywords, Reading
<1>14. ASSUME ReturnValue PROVE Stands'
  <2> DEFINE m == [top EXCEPT !.at = "return value"]
             c == Method("expression")
  <2>1. /\ Runs("after return") /\ failed' = failed /\ UNCHANGED lexer
        /\ \/ SkipStatementEnd /\ Return(TRUE)
           \/ /\ stack' = Append(GoOn(m), c) /\ cache' = cache
              /\ indents' = indents /\ result' = result
    BY <1>14 DEF ReturnValue, Call, state
  <2>2. /\ stack # <<>> /\ top.at = "after return" /\ top \in Methods /\ cache \in Seq(Token)
        /\ failed \in BOOLEAN
        /\ ~failed => /\ Lines(cache, ended) /\ Placed(top, cache, CurrentIndent) /\ Caller(top)
                      /\ top.ok
    BY <2>1, Running DEF Runs, At
  <2>3. /\ m \in Methods /\ SameBlock(m) /\ m.at = "return value" /\ m.ok = top.ok
        /\ Caller(top) => Caller(m)
    BY <2>2, PointNames DEF Methods, SameBlock, CasePoints, Caller, Called
  <2>4. c \in Methods /\ c.at = "expression" /\ c.ok /\ c.guards = {}
    BY PointNames, NewMethod
  <2> HIDE DEF m, c
  <2>5. CASE SkipStatementEnd /\ Return(TRUE)
    <3>1. /\ cache' \in Seq(Token)
          /\ ~failed => Lines(cache', ended) /\ NoBreak(cache') /\ Midline(cache')
      BY <2>2, <2>5, SkipKeeps DEF Placed, Starting
    <3>2. Steady
      BY <2>1, <2>2, <3>1 DEF Steady, lexer
    <3>3. ASSUME ~failed, NEW p \in Methods, NEW n, Called(p.at, top)
          PROVE  Placed(p, cache', n)
      <4>1. p.at = "append"
        BY <2>2, <3>3 DEF Called
      <4>2. QED
        BY <3>1, <3>3, <4>1, PlacedPlain
    <3>4. QED
      BY <2>1, <2>2, <2>5, <3>1, <3>2, <3>3, ReturnStands
  <2>6. CASE /\ stack' = Append(GoOn(m), c) /\ cache' = cache
             /\ indents' = indents /\ result' = result
    <3>1. Steady
      BY <2>1, <2>2, <2>6 DEF Steady, lexer
    <3>2. Called(m.at, c) /\ Placed(c, cache, CurrentIndent)
      BY <2>3, <2>4, PlacedStarting DEF Called, CasePoints, Starting
    <3>3. QED
      BY <2>1, <2>2, <2>3, <2>4, <2>6, <3>1, <3>2, CallStands DEF Keywords, Reading
  <2>7. QED
    BY <2>1, <2>5, <2>6
<1>15. QED
  BY <1>1, <1>2, <1>3, <1>4, <1>5, <1>6, <1>7, <1>8, <1>9, <1>10, <1>11, <1>12, <1>13, <1>14
  DEF Definitions

-----------------------------------------------------------------------------
(***************************************************************************)
(* What the lexer adds.                                                    *)
(***************************************************************************)
\* A line with all of its tokens, with a line break or at the end.
LEMMA LineIsWhole ==
  ASSUME NEW line \in Line, NEW n \in Nat
  PROVE  LET p == <<Break("Indent", n, n)>> \o Tokens(line, n)
             q == p \o <<Break("LineBreak", n, n + Len(line))>>
         IN  /\ p \in Seq(Token) /\ p # <<>> /\ p[1].is = "Indent"
             /\ q \in Seq(Token) /\ q # <<>> /\ q[1].is = "Indent"
             /\ (\A i \in DOMAIN line : line[i] # "Unknown") => Lines(p, TRUE) /\ Lines(q, FALSE)
<1> DEFINE a == Break("Indent", n, n)
           b == Break("LineBreak", n, n + Len(line))
           t == Tokens(line, n)
           l == Len(t)
           p == <<a>> \o t
           q == p \o <<b>>
<1>1. a \in Token /\ a.is = "Indent" /\ a.at = n
  BY DEF Break, Token
<1>2. b \in Token /\ b.is = "LineBreak"
  <2>1. n + Len(line) \in Nat
    BY LineIs
  <2>2. QED
    BY <2>1 DEF Break, Token
<1>3. t \in Seq(Token) /\ l \in Nat
  BY TokensAre, LenProperties
<1>4. ASSUME \A i \in DOMAIN line : line[i] # "Unknown"
      PROVE  /\ l >= 1
             /\ \A k \in 1 .. l : ~IsSpace(t[k]) /\ t[k].at = n + k - 1 /\ t[k].line = n
  <2>1. l = Len(line) /\ \A k \in 1 .. Len(line) : t[k] = TokenAt(line, k, n)
    BY <1>4, AllKnown
  <2>2. Len(line) \in Nat \ {0} /\ DOMAIN line = 1 .. Len(line)
        /\ \A i \in 1 .. Len(line) : line[i] \in Kind \cup DOMAIN IntLit \cup {"Unknown"}
    BY LineIs
  <2>3. ASSUME NEW k \in 1 .. Len(line)
        PROVE  LET u == TokenAt(line, k, n) IN ~IsSpace(u) /\ u.at = n + k - 1 /\ u.line = n
    <3>1. line[k] \in Kind \cup DOMAIN IntLit
      BY <1>4, <2>2
    <3>2. QED
      BY <3>1 DEF TokenAt, IsSpace, Space, Kind
  <2> HIDE DEF l, t
  <2>4. QED
    BY <2>1, <2>2, <2>3
<1> HIDE DEF a, b, t, l
<1>5. /\ p \in Seq(Token) /\ Len(p) = l + 1 /\ p[1] = a
      /\ \A i \in 1 .. l : p[i + 1] = t[i]
  <2>1. <<a>> \in Seq(Token) /\ Len(<<a>>) = 1 /\ <<a>>[1] = a
    BY <1>1
  <2>2. PICK h : h = <<a>>
    OBVIOUS
  <2>3. /\ h \o t \in Seq(Token) /\ Len(h \o t) = 1 + l
        /\ \A i \in 1 .. 1 + l : (h \o t)[i] = IF i <= 1 THEN h[i] ELSE t[i - 1]
    BY <1>3, <2>1, <2>2, ConcatProperties DEF l
  <2>4. PICK r : r = h \o t
    OBVIOUS
  <2>5. p = r
    BY <2>2, <2>4
  <2> HIDE DEF p
  <2>6. \A i \in 1 .. l : i + 1 \in 1 .. 1 + l /\ ~(i + 1 <= 1) /\ (i + 1) - 1 = i
    BY <1>3
  <2>7. 1 \in 1 .. 1 + l
    BY <1>3
  <2>8. QED
    BY <1>3, <2>1, <2>2, <2>3, <2>4, <2>5, <2>6, <2>7
<1> HIDE DEF p
<1>6. /\ q \in Seq(Token) /\ Len(q) = l + 2 /\ q[l + 2] = b
      /\ \A i \in 1 .. l + 1 : q[i] = p[i]
  <2>1. <<b>> \in Seq(Token) /\ Len(<<b>>) = 1 /\ <<b>>[1] = b
    BY <1>2
  <2>2. PICK h : h = <<b>>
    OBVIOUS
  <2>3. /\ p \o h \in Seq(Token) /\ Len(p \o h) = (l + 1) + 1
        /\ \A i \in 1 .. (l + 1) + 1 : (p \o h)[i] = IF i <= l + 1 THEN p[i] ELSE h[i - (l + 1)]
    BY <1>5, <2>1, <2>2, ConcatProperties
  <2>4. PICK r : r = p \o h
    OBVIOUS
  <2>5. q = r
    BY <2>2, <2>4
  <2> HIDE DEF q
  <2>6. \A i \in 1 .. l + 1 : i \in 1 .. (l + 1) + 1 /\ i <= l + 1
    BY <1>3
  <2>7. l + 2 \in 1 .. (l + 1) + 1 /\ ~(l + 2 <= l + 1) /\ l + 2 - (l + 1) = 1 /\ (l + 1) + 1 = l + 2
    BY <1>3
  <2>8. QED
    BY <1>3, <2>1, <2>2, <2>3, <2>4, <2>5, <2>6, <2>7
<1> HIDE DEF q
<1>7. p # <<>> /\ q # <<>> /\ p[1].is = "Indent" /\ q[1].is = "Indent"
  <2>1. Len(p) # 0 /\ Len(q) # 0 /\ 1 \in 1 .. l + 1
    BY <1>3, <1>5, <1>6
  <2>2. QED
    BY <1>1, <1>5, <1>6, <2>1, EmptySeq
<1>8. ASSUME \A i \in DOMAIN line : line[i] # "Unknown"
      PROVE  Lines(p, TRUE) /\ Lines(q, FALSE)
  <2>1. /\ l >= 1 /\ l \in Nat
        /\ \A k \in 1 .. l : ~IsSpace(t[k]) /\ t[k].at = n + k - 1 /\ t[k].line = n
    BY <1>3, <1>4, <1>8
  <2>2. \A k \in 2 .. l : ~Begins(t[k])
    <3> SUFFICES ASSUME NEW k \in 2 .. l PROVE ~Begins(t[k])
      OBVIOUS
    <3>1. k \in 1 .. l /\ n + k - 1 # n
      BY <2>1
    <3>2. QED
      BY <2>1, <3>1 DEF Begins
  <2>3. /\ p[1] = a /\ p[2] = t[1] /\ 1 \in 1 .. l
        /\ \A i \in 2 .. l + 1 : i - 1 \in 1 .. l /\ (i - 1) + 1 = i
    BY <1>5, <2>1
  <2>4. \A i \in 2 .. l + 1 : p[i] = t[i - 1] /\ ~IsSpace(p[i]) /\ (i # 2 => ~Begins(p[i]))
    <3> SUFFICES ASSUME NEW i \in 2 .. l + 1
                 PROVE  p[i] = t[i - 1] /\ ~IsSpace(p[i]) /\ (i # 2 => ~Begins(p[i]))
      OBVIOUS
    <3>1. PICK k \in 1 .. l : k = i - 1 /\ k + 1 = i
      BY <2>3
    <3>2. p[i] = t[k] /\ (i # 2 => k \in 2 .. l)
      BY <1>5, <2>1, <3>1
    <3>3. QED
      BY <2>1, <2>2, <3>1, <3>2
  <2>5. a.at = p[2].at /\ ~IsSpace(p[2])
    <3>1. t[1].at = n + 1 - 1 /\ n + 1 - 1 = n /\ 2 \in 2 .. l + 1
      BY <2>1, <2>3
    <3>2. QED
      BY <1>1, <2>3, <2>4, <3>1
  <2>6. ASSUME NEW i \in 1 .. l
        PROVE  /\ p[i].is = "Indent" => ~IsSpace(p[i + 1]) /\ p[i].at = p[i + 1].at
               /\ p[i].is # "LineBreak"
               /\ ~IsSpace(p[i]) => ~Begins(p[i + 1])
    <3>1. CASE i = 1
      <4>1. i + 1 = 2
        BY <3>1
      <4>2. QED
        BY <1>1, <2>3, <2>5, <3>1, <4>1 DEF IsSpace, Space
    <3>2. CASE i # 1
      <4>1. i \in 2 .. l + 1 /\ i + 1 \in 2 .. l + 1 /\ i + 1 # 2
        BY <2>1, <3>2
      <4>2. QED
        BY <2>4, <4>1 DEF IsSpace, Space
    <3>3. QED
      BY <3>1, <3>2
  <2>7. ~IsSpace(p[l + 1])
    <3>1. l + 1 \in 2 .. l + 1
      BY <2>1
    <3>2. QED
      BY <2>4, <3>1
  <2>8. Lines(p, TRUE)
    <3> SUFFICES ASSUME NEW i \in 1 .. l + 1
                 PROVE  /\ p[i].is = "Indent" => i < l + 1 /\ ~IsSpace(p[i + 1]) /\ p[i].at = p[i + 1].at
                        /\ p[i].is = "LineBreak" /\ i < l + 1 => p[i + 1].is = "Indent"
                        /\ ~IsSpace(p[i]) /\ i < l + 1 /\ ~IsSpace(p[i + 1]) => ~Begins(p[i + 1])
      BY <1>5 DEF Lines
    <3>1. i \in 1 .. l \/ i = l + 1
      BY <2>1
    <3>2. l < l + 1 /\ ~(l + 1 < l + 1) /\ (i \in 1 .. l => i < l + 1)
      BY <2>1
    <3>3. QED
      BY <2>6, <2>7, <3>1, <3>2 DEF IsSpace, Space
  <2>9. Lines(q, FALSE)
    <3>1. ASSUME NEW i \in 1 .. l + 2
          PROVE  /\ q[i].is = "Indent" => i < l + 2 /\ ~IsSpace(q[i + 1]) /\ q[i].at = q[i + 1].at
                 /\ q[i].is = "LineBreak" /\ i < l + 2 => q[i + 1].is = "Indent"
                 /\ ~IsSpace(q[i]) /\ i < l + 2 /\ ~IsSpace(q[i + 1]) => ~Begins(q[i + 1])
      <4>1. CASE i \in 1 .. l
        <5>1. i \in 1 .. l + 1 /\ i + 1 \in 1 .. l + 1 /\ i < l + 2
          BY <2>1, <4>1
        <5>2. q[i] = p[i] /\ q[i + 1] = p[i + 1]
          BY <1>6, <5>1
        <5>3. QED
          BY <2>6, <4>1, <5>1, <5>2
      <4>2. CASE i = l + 1
        <5>1. i \in 1 .. l + 1 /\ i + 1 = l + 2
          BY <2>1, <4>2
        <5>2. q[i] = p[l + 1] /\ q[i + 1] = b
          BY <1>6, <4>2, <5>1
        <5>3. QED
          BY <1>2, <2>7, <5>2 DEF IsSpace, Space
      <4>3. CASE i = l + 2
        <5>1. ~(l + 2 < l + 2)
          BY <2>1
        <5>2. QED
          BY <1>2, <1>6, <4>3, <5>1 DEF IsSpace, Space
      <4>4. QED
        BY <2>1, <4>1, <4>2, <4>3
    <3>2. QED
      BY <1>2, <1>6, <3>1 DEF Lines
  <2>10. QED
    BY <2>8, <2>9
<1>9. QED
  BY <1>5, <1>6, <1>7, <1>8 DEF q, p, a, b, t

\* More lines behind what the cache holds.
LEMMA Joined ==
  ASSUME NEW q \in Seq(Token), NEW p \in Seq(Token), p # <<>>, p[1].is = "Indent"
  PROVE  /\ q \o p \in Seq(Token)
         /\ HasSolid(q) => HasSolid(q \o p)
         /\ \A e : Lines(q, FALSE) /\ Lines(p, e) => Lines(q \o p, e)
         /\ \A m, n : Placed(m, q, n) => Placed(m, q \o p, n)
<1> DEFINE k == Len(q)
           l == Len(p)
           r == q \o p
<1>1. /\ k \in Nat /\ l \in Nat /\ l # 0 /\ Len(r) = k + l /\ r \in Seq(Token)
      /\ \A i \in 1 .. k + l : r[i] = IF i <= k THEN q[i] ELSE p[i - k]
      /\ q = <<>> <=> k = 0
  BY ConcatProperties, LenProperties, EmptySeq
<1> HIDE DEF r, k, l
<1>2. /\ \A i \in 1 .. k : r[i] = q[i]
      /\ \A i \in 1 .. l : r[i + k] = p[i] /\ i + k \in 1 .. k + l
      /\ k + l # 0 /\ r # <<>>
  <2>1. \A i \in 1 .. k : i \in 1 .. k + l /\ i <= k
    BY <1>1
  <2>2. \A i \in 1 .. l : i + k \in 1 .. k + l /\ ~(i + k <= k) /\ (i + k) - k = i
    BY <1>1
  <2>3. k + l # 0
    BY <1>1
  <2>4. QED
    BY <1>1, <2>1, <2>2, <2>3, EmptySeq
<1>3. q # <<>> => 1 \in 1 .. k /\ r[1] = q[1]
  BY <1>1, <1>2
<1>4. q = <<>> => r[1] = p[1]
  <2>1. 1 \in 1 .. l /\ (k = 0 => 1 + k = 1)
    BY <1>1
  <2>2. QED
    BY <1>1, <1>2, <2>1
<1>5. HasSolid(q) => HasSolid(r)
  <2>1. \A i \in 1 .. k : i \in 1 .. Len(r)
    BY <1>1
  <2>2. QED
    BY <1>2, <2>1 DEF HasSolid, k
<1>6. CaseAhead(q) => CaseAhead(r)
  <2> SUFFICES ASSUME CaseAhead(q) PROVE CaseAhead(r)
    OBVIOUS
  <2>1. PICK i \in 1 .. k : /\ q[i].is \in {"Case", "Default"}
                            /\ \A j \in 1 .. i - 1 : IsSpace(q[j])
    BY DEF CaseAhead, k
  <2>2. i \in 1 .. Len(r) /\ \A j \in 1 .. i - 1 : j \in 1 .. k
    BY <1>1, <2>1
  <2>3. QED
    BY <1>2, <2>1, <2>2 DEF CaseAhead
<1>7. (Midline(q) => Midline(r)) /\ (NoBreak(q) => NoBreak(r))
  BY <1>3, <1>4 DEF Midline, NoBreak, IsSpace, Space
<1>8. ASSUME NEW m, NEW n, Placed(m, q, n) PROVE Placed(m, r, n)
  BY <1>2, <1>3, <1>6, <1>7, <1>8 DEF Placed
<1>9. ASSUME NEW e, Lines(q, FALSE), Lines(p, e) PROVE Lines(r, e)
  <2>1. /\ q # <<>> => q[k].is = "LineBreak"
        /\ \A i \in 1 .. k :
             /\ q[i].is = "Indent" => i < k /\ ~IsSpace(q[i + 1]) /\ q[i].at = q[i + 1].at
             /\ q[i].is = "LineBreak" /\ i < k => q[i + 1].is = "Indent"
             /\ ~IsSpace(q[i]) /\ i < k /\ ~IsSpace(q[i + 1]) => ~Begins(q[i + 1])
    BY <1>9 DEF Lines, k
  <2>2. /\ ~e => p[l].is = "LineBreak"
        /\ \A i \in 1 .. l :
             /\ p[i].is = "Indent" => i < l /\ ~IsSpace(p[i + 1]) /\ p[i].at = p[i + 1].at
             /\ p[i].is = "LineBreak" /\ i < l => p[i + 1].is = "Indent"
             /\ ~IsSpace(p[i]) /\ i < l /\ ~IsSpace(p[i + 1]) => ~Begins(p[i + 1])
    BY <1>9 DEF Lines, l
  <2>3. ASSUME NEW i \in 1 .. k + l
        PROVE  /\ r[i].is = "Indent" => i < k + l /\ ~IsSpace(r[i + 1]) /\ r[i].at = r[i + 1].at
               /\ r[i].is = "LineBreak" /\ i < k + l => r[i + 1].is = "Indent"
               /\ ~IsSpace(r[i]) /\ i < k + l /\ ~IsSpace(r[i + 1]) => ~Begins(r[i + 1])
    <3>1. CASE i < k
      <4>1. i \in 1 .. k /\ i + 1 \in 1 .. k /\ i < k + l
        BY <1>1, <3>1
      <4>2. r[i] = q[i] /\ r[i + 1] = q[i + 1]
        BY <1>2, <4>1
      <4>3. QED
        BY <2>1, <3>1, <4>1, <4>2
    <3>2. CASE i = k
      <4>1. k \in 1 .. k /\ q # <<>> /\ 1 \in 1 .. l /\ i + 1 = 1 + k /\ ~(k < k)
        BY <1>1, <3>2
      <4>2. r[i].is = "LineBreak" /\ r[i + 1].is = "Indent"
        BY <1>2, <2>1, <3>2, <4>1
      <4>3. QED
        BY <4>2 DEF IsSpace, Space
    <3>3. CASE i > k
      <4>1. PICK j : j = i - k
        OBVIOUS
      <4>2. j \in 1 .. l /\ i = j + k /\ i + 1 = (j + 1) + k /\ (i < k + l <=> j < l)
            /\ (j < l => j + 1 \in 1 .. l)
        BY <1>1, <3>3, <4>1
      <4>3. r[i] = p[j] /\ (j < l => r[i + 1] = p[j + 1])
        BY <1>2, <4>2
      <4>4. QED
        BY <2>2, <4>2, <4>3
    <3>4. QED
      BY <1>1, <3>1, <3>2, <3>3
  <2>4. ~e => r[k + l].is = "LineBreak"
    <3>1. l \in 1 .. l /\ l + k = k + l
      BY <1>1
    <3>2. QED
      BY <1>2, <2>2, <3>1
  <2>5. QED
    BY <1>1, <2>3, <2>4 DEF Lines
<1>10. QED
  BY <1>1, <1>5, <1>8, <1>9 DEF r

\* The lexer reads while a method waits.
LEMMA LexStands ==
  ASSUME Stands, Lex PROVE Stands'
<1>1. /\ stack # <<>> /\ ended = FALSE /\ stack' = stack /\ indents' = indents /\ result' = result
      /\ cache \in Seq(Token) /\ failed \in BOOLEAN /\ left \in Nat
  BY DEF Lex, ReadLine, EndOfSource, Consumes, state, Stands, Formed
<1>2. top' = top /\ CurrentIndent' = CurrentIndent
  BY <1>1 DEF top, CurrentIndent
<1>3. ~TypeAtEnd
  BY <1>1 DEF TypeAtEnd
<1>4. ASSUME ~failed
      PROVE  /\ Lines(cache, FALSE) /\ Complete(stack) /\ Placed(top, cache, CurrentIndent)
             /\ top.ok /\ (top.at \in Reading => result)
  BY <1>1, <1>3, <1>4 DEF Stands, Clean
<1>5. CASE EndOfSource
  <2>1. ended' = TRUE /\ cache' = cache /\ failed' = failed /\ left' = left
    BY <1>5 DEF EndOfSource
  <2>2. Formed'
    BY <1>1, <1>2, <2>1 DEF Stands, Formed
  <2>3. ASSUME ~failed PROVE Clean'
    <3>1. Lines(cache, TRUE)
      BY <1>4, <2>3 DEF Lines
    <3>2. QED
      BY <1>1, <1>2, <1>4, <2>1, <2>3, <3>1 DEF Clean
  <2>4. QED
    BY <2>1, <2>2, <2>3 DEF Stands
<1>6. CASE ReadLine
  <2>1. PICK n \in Indent, line \in Line :
          /\ \/ /\ cache' = cache \o <<Break("Indent", n, n)>> \o Tokens(line, n)
                              \o <<Break("LineBreak", n, n + Len(line))>>
                /\ ended' = ended
             \/ /\ cache' = cache \o <<Break("Indent", n, n)>> \o Tokens(line, n)
                /\ ended' = TRUE
          /\ failed' = (failed \/ \E i \in DOMAIN line : line[i] = "Unknown")
    BY <1>6 DEF ReadLine
  <2>2. left' \in Nat
    BY <1>1, <1>6 DEF ReadLine
  <2> DEFINE a == Break("Indent", n, n)
             t == Tokens(line, n)
             b == Break("LineBreak", n, n + Len(line))
             p == <<a>> \o t
             q == p \o <<b>>
  <2>3. n \in Nat
    BY SourceAssumption
  <2>4. /\ p \in Seq(Token) /\ p # <<>> /\ p[1].is = "Indent"
        /\ q \in Seq(Token) /\ q # <<>> /\ q[1].is = "Indent"
        /\ (\A i \in DOMAIN line : line[i] # "Unknown") => Lines(p, TRUE) /\ Lines(q, FALSE)
    BY <2>3, LineIsWhole
  <2>5. a \in Token /\ b \in Token /\ t \in Seq(Token)
    <3>1. n + Len(line) \in Nat
      BY <2>3, LineIs
    <3>2. QED
      BY <2>3, <3>1, TokensAre DEF Break, Token
  <2> HIDE DEF a, b, t
  <2>6. <<a>> \in Seq(Token) /\ <<b>> \in Seq(Token)
    BY <2>5
  <2>7. (cache \o <<a>>) \o t = cache \o p
    <3>1. \A r, s \in Seq(Token) : (cache \o r) \o s = cache \o (r \o s)
      BY <1>1, ConcatAssociative
    <3>2. QED
      BY <2>5, <2>6, <3>1
  <2>8. (cache \o p) \o <<b>> = cache \o q
    <3>1. \A r, s \in Seq(Token) : (cache \o r) \o s = cache \o (r \o s)
      BY <1>1, ConcatAssociative
    <3>2. QED
      BY <2>4, <2>6, <3>1
  <2>9. \/ cache' = cache \o q /\ ended' = FALSE
        \/ cache' = cache \o p /\ ended' = TRUE
    BY <1>1, <2>1, <2>7, <2>8 DEF a, b, t
  <2> HIDE DEF p, q
  <2>10. PICK r : /\ r \in {p, q} /\ cache' = cache \o r
                  /\ ~failed' => Lines(r, ended')
    BY <2>1, <2>4, <2>9
  <2>11. /\ cache' \in Seq(Token)
         /\ HasSolid(cache) => HasSolid(cache')
         /\ Lines(cache, FALSE) /\ Lines(r, ended') => Lines(cache', ended')
         /\ Placed(top, cache, CurrentIndent) => Placed(top, cache', CurrentIndent)
    <3>1. r \in Seq(Token) /\ r # <<>> /\ r[1].is = "Indent"
      BY <2>4, <2>10
    <3>2. QED
      BY <1>1, <2>10, <3>1, Joined
  <2>12. failed' \in BOOLEAN /\ (failed => failed') /\ ended' \in BOOLEAN
    BY <2>1, <2>9
  <2>13. Formed'
    BY <1>1, <1>2, <2>2, <2>11, <2>12 DEF Stands, Formed
  <2>14. ASSUME ~failed' PROVE Clean'
    <3>1. ~failed
      BY <2>12, <2>14
    <3>2. QED
      BY <1>1, <1>2, <1>4, <2>10, <2>11, <2>14, <3>1 DEF Clean
  <2>15. QED
    BY <2>12, <2>13, <2>14 DEF Stands
<1>7. QED
  BY <1>5, <1>6 DEF Lex

-----------------------------------------------------------------------------
(***************************************************************************)
(* The theorems.                                                           *)
(***************************************************************************)
LEMMA InitStands == Init => Stands
<1> SUFFICES ASSUME Init PROVE Stands
  OBVIOUS
<1>1. PICK m \in Methods : /\ m = Method("program") /\ m.at = "program" /\ m.ok
                           /\ m.use = "" /\ m.guards = {}
  <2>1. "program" \in Point
    BY PointNames
  <2>2. QED
    BY <2>1, NewMethod
<1>2. /\ stack = <<m>> /\ indents = <<-1>> /\ cache = <<>> /\ ended = FALSE
      /\ left \in Nat /\ result = TRUE /\ failed = FALSE
  BY <1>1, SourceAssumption DEF Init
<1>3. stack \in Seq(Methods) /\ Len(stack) = 1 /\ stack[1] = m
  BY <1>2
<1>4. indents \in Seq(Nat \cup {-1}) /\ Len(indents) = 1 /\ indents[1] = -1
  BY <1>2
<1>5. Opened(stack, 1) = 0
  <2>1. {i \in 1 .. 1 : "block" \in stack[i].guards} = {}
    <3>1. \A i \in 1 .. 1 : i = 1
      OBVIOUS
    <3>2. QED
      BY <1>1, <1>3, <3>1
  <2>2. QED
    BY <2>1, FS_EmptySet DEF Opened
<1>6. \A i \in 1 .. Len(stack) : stack[i] = m
  <2>1. \A i \in 1 .. 1 : i = 1
    OBVIOUS
  <2>2. QED
    BY <1>3, <2>1
<1>7. 1 .. Len(stack) - 1 = {}
  BY <1>3
<1>8. Nested(stack, indents) /\ Waits(stack)
  <2>1. Len(indents) = Opened(stack, Len(stack)) + 1
    BY <1>3, <1>4, <1>5
  <2>2. \A i \in 1 .. Len(stack) : "block" \notin stack[i].guards
    BY <1>1, <1>6
  <2>3. \A i \in 1 .. Len(stack) - 1 : FALSE
    BY <1>7
  <2>4. QED
    BY <1>3, <1>4, <2>1, <2>2, <2>3 DEF Nested, Waits
<1>9. top = m /\ CurrentIndent = -1 /\ cache \in Seq(Token) /\ stack # <<>>
  BY <1>2, <1>3, <1>4 DEF top, CurrentIndent
<1>10. m.at \notin Keywords /\ m.at \notin Reading
  BY <1>1 DEF Keywords, Reading
<1>11. Formed
  BY <1>2, <1>8, <1>9, <1>10 DEF Formed
<1>12. Complete(stack)
  <2>1. Called("parse", m)
    BY <1>1 DEF Called, CasePoints
  <2>2. QED
    BY <1>3, <1>7, <2>1 DEF Complete
<1>13. Lines(cache, ended)
  <2>1. Len(cache) = 0 /\ 1 .. 0 = {}
    BY <1>2, EmptySeq
  <2>2. QED
    BY <1>2, <2>1 DEF Lines
<1>14. Placed(m, cache, CurrentIndent)
  BY <1>1, <1>2, PlacedPlain DEF Midline, AfterLine
<1>15. QED
  BY <1>1, <1>9, <1>10, <1>11, <1>12, <1>13, <1>14 DEF Stands, Clean

Standing == IInv /\ Stands

\* Every step keeps both invariants.
LEMMA NextStands == Standing /\ [Next]_vars => Standing'
<1> SUFFICES ASSUME IInv, Stands, [Next]_vars PROVE IInv' /\ Stands'
  BY DEF Standing
<1>1. IInv'
  BY NextInv
<1>2. CASE UNCHANGED vars
  <2>1. /\ left' = left /\ ended' = ended /\ cache' = cache /\ indents' = indents
        /\ stack' = stack /\ result' = result /\ failed' = failed
    BY <1>2 DEF vars
  <2>2. top' = top /\ CurrentIndent' = CurrentIndent /\ Ahead(TRUE)' = Ahead(TRUE)
    BY <2>1 DEF top, CurrentIndent, Ahead, Sees, Solid, First
  <2>3. TypeAtEnd' = TypeAtEnd
    BY <2>1, <2>2 DEF TypeAtEnd, At
  <2>4. Formed' /\ (Clean => Clean')
    BY <2>1, <2>2, <2>3 DEF Stands, Formed, Clean
  <2>5. QED
    BY <1>1, <2>1, <2>4 DEF Stands
<1>3. CASE Next
  BY <1>1, <1>3, LexStands, BlocksStand, ExpressionsStand, ControlStands, DefinitionsStand DEF Next
<1>4. QED
  BY <1>2, <1>3

\* They hold in every state.
LEMMA AlwaysStanding == Spec => []Standing
<1>1. Init => Standing
  BY InitInv, InitStands DEF Standing
<1>2. QED
  BY <1>1, NextStands, PTL DEF Spec

\* The type invariant, for any source.
THEOREM BlocksTypeCorrect == Spec => []TypeOK
<1>1. Standing => TypeOK
  <2> SUFFICES ASSUME IInv, Stands PROVE TypeOK
    BY DEF Standing
  <2>1. Nested(stack, indents) /\ Len(stack) \in Nat
    BY LenProperties DEF Stands, Formed, Nested
  <2>2. Opened(stack, Len(stack)) \in Nat
    BY <2>1, NextOpened
  <2>3. indents # <<>>
    <3>1. Len(indents) # 0
      BY <2>1, <2>2 DEF Nested
    <3>2. QED
      BY <2>1, <3>1, EmptySeq DEF Nested
  <2>4. loop_level \in Nat
    BY LevelIsNat
  <2>5. QED
    BY <2>1, <2>3, <2>4 DEF TypeOK, Stands, Formed, Nested, Methods
<1>2. QED
  BY <1>1, AlwaysStanding, PTL

\* The blocks whose methods are running stand one in the other, each indented
\* more than the one around it, but for the cases of a switch.
THEOREM IndentsNest == Spec => []BlocksNest
<1>1. Standing => BlocksNest
  <2> SUFFICES ASSUME Stands PROVE BlocksNest
    BY DEF Standing
  <2>1. Nested(stack, indents) /\ DOMAIN stack = 1 .. Len(stack)
    BY LenProperties DEF Stands, Formed, Nested
  <2>2. QED
    BY <2>1 DEF BlocksNest, Nested, Rises, CasePoints
<1>2. QED
  BY <1>1, AlwaysStanding, PTL

\* A part of the program that no method returned has left an error; that a type was
\* lost which the source ends with is reported in the step after it.
THEOREM MissingPartsReported == Spec => []NothingWithoutError
<1>1. Standing => NothingWithoutError
  <2> SUFFICES ASSUME Stands, ~failed, ~TypeAtEnd
               PROVE  /\ \A i \in DOMAIN stack : stack[i].ok
                      /\ stack # <<>> /\ top.at \in Reading => result
    BY DEF Standing, NothingWithoutError, Reading
  <2>1. Clean /\ stack \in Seq(Methods)
    BY DEF Stands, Formed, Nested
  <2>2. Len(stack) \in Nat /\ DOMAIN stack = 1 .. Len(stack)
    BY <2>1, LenProperties
  <2>3. ASSUME NEW i \in 1 .. Len(stack) PROVE stack[i].ok
    <3>1. CASE i \in 1 .. Len(stack) - 1
      BY <2>1, <3>1 DEF Clean, Complete
    <3>2. CASE i = Len(stack)
      <4>1. stack # <<>>
        BY <2>2, <2>3, EmptySeq
      <4>2. top.ok
        BY <2>1, <4>1 DEF Clean
      <4>3. top = stack[i]
        BY <3>2 DEF top
      <4>4. QED
        BY <4>2, <4>3
    <3>3. i \in 1 .. Len(stack) - 1 \/ i = Len(stack)
      <4>1. PICK n \in Nat : n = Len(stack)
        BY <2>2
      <4>2. i \in 1 .. n - 1 \/ i = n
        BY <2>3, <4>1
      <4>3. QED
        BY <4>1, <4>2, SMTT(30)
    <3>4. QED
      BY <3>1, <3>2, <3>3
  <2>4. QED
    BY <2>1, <2>2, <2>3 DEF Clean
<1>2. QED
  BY <1>1, AlwaysStanding, PTL

\* While there is no error, no statement and no case that begins a line is parsed
\* in another block than that of its indent.
THEOREM StatementsStand == Spec => []StatementsInTheirBlock
<1>1. Standing => StatementsInTheirBlock
  <2> SUFFICES ASSUME Stands, ~failed, Runs("statement") \/ Runs("case"), Ahead(TRUE) # Eof,
                      Ahead(TRUE).at = Ahead(TRUE).line
               PROVE  CurrentIndent = Ahead(TRUE).at
    BY DEF Standing, StatementsInTheirBlock
  <2>1. stack # <<>> /\ top.at \in {"statement", "case"}
    BY DEF Runs, At
  <2>2. /\ cache \in Seq(Token) /\ CurrentIndent \in Nat \cup {-1}
        /\ Lines(cache, ended) /\ Placed(top, cache, CurrentIndent)
    BY <2>1, Running
  <2>3. HasSolid(cache) /\ cache # <<>> /\ Ahead(TRUE) = cache[First]
    BY <2>2, AheadIs
  <2>4. Len(cache) \in Nat /\ Len(cache) >= 1 /\ 1 \in 1 .. Len(cache)
    BY <2>2, <2>3, EmptySeq, LenProperties
  <2>5. /\ First \in 1 .. Len(cache) /\ ~IsSpace(cache[First])
        /\ \A j \in 1 .. First - 1 : IsSpace(cache[j])
    BY <2>2, <2>3, FirstSolid
  <2>6. ~IsSpace(cache[1]) => First = 1
    <3>1. SUFFICES ASSUME First # 1 PROVE IsSpace(cache[1])
      OBVIOUS
    <3>2. 1 \in 1 .. First - 1
      BY <2>4, <2>5, <3>1
    <3>3. QED
      BY <2>5, <3>2
  <2>7. CASE top.at = "statement"
    <3>1. ~IsSpace(cache[1]) /\ (Begins(cache[1]) => cache[1].at = CurrentIndent)
      BY <2>2, <2>7 DEF Placed
    <3>2. QED
      BY <2>3, <2>6, <3>1 DEF Begins
  <2>8. CASE top.at = "case"
    <3>1. /\ Midline(cache) /\ NoBreak(cache) /\ cache[1].at = CurrentIndent
      BY <2>2, <2>8 DEF Placed, Starting, AfterLine
    <3>2. CASE ~IsSpace(cache[1])
      BY <2>3, <2>6, <3>1, <3>2
    <3>3. CASE IsSpace(cache[1])
      <4>1. cache[1].is = "Indent"
        BY <2>3, <3>1, <3>3 DEF NoBreak, IsSpace, Space
      <4>2. 1 < Len(cache) /\ ~IsSpace(cache[2]) /\ cache[1].at = cache[2].at
        <5>1. 1 < Len(cache) /\ ~IsSpace(cache[1 + 1]) /\ cache[1].at = cache[1 + 1].at
          BY <2>2, <2>4, <4>1 DEF Lines
        <5>2. 1 + 1 = 2
          OBVIOUS
        <5>3. QED
          BY <5>1, <5>2
      <4>3. First = 2
        <5>1. First # 1
          BY <2>5, <3>3
        <5>2. 2 \notin 1 .. First - 1
          BY <2>5, <4>2
        <5>3. QED
          BY <2>4, <2>5, <5>1, <5>2
      <4>4. QED
        BY <2>3, <3>1, <4>2, <4>3
    <3>4. QED
      BY <3>2, <3>3
  <2>9. QED
    BY <2>1, <2>7, <2>8
<1>2. QED
  BY <1>1, AlwaysStanding, PTL
=============================================================================
