---------------------------- MODULE TypingProofs ----------------------------
(***************************************************************************)
(* Theorems about Typing for any functions, variables and bounds.  Nothing *)
(* fails and no null type is used without an error, unless the program     *)
(* reads a name before its definition has a type.  The generator has code  *)
(* for what the checker lets through, which reads the operands as what     *)
(* they are.                                                               *)
(***************************************************************************)
EXTENDS Typing, SequenceTheorems, TLAPS

-----------------------------------------------------------------------------
(***************************************************************************)
(* The generator has a case for the type of every operand the checker      *)
(* accepts.  This is about the rules alone, whatever the program.          *)
(***************************************************************************)
\* What a simple type accepts is simple, and converted to it.
LEMMA AcceptedBySimple ==
  ASSUME NEW d, NEW s \in Simple, Satisfies(d, <<s>>)
  PROVE  \/ d.type = <<s>>
         \/ d.type = kExitCode /\ <<s>> \in {kBool, kInt}
         \/ d.type = kRelPath /\ <<s>> = kPath
<1>1. <<s>> \notin ArrayType \cup MapType
  BY DEF ArrayType, MapType, Array, Map
<1>2. SolveRequirement(d, <<s>>) # None
  BY DEF Satisfies
<1>3. ImplicitConvertible(d.type, <<s>>)
  BY <1>1, <1>2 DEF SolveRequirement
<1>4. QED
  BY <1>3 DEF ImplicitConvertible

\* What is accepted as one of some types is accepted as one in the list.
LEMMA AcceptedByOne ==
  ASSUME NEW d, NEW ts, RequireOneOf(d, ts) # None
  PROVE  \E i \in DOMAIN ts : Satisfies(d, ts[i])
  BY DEF RequireOneOf

\* The simple types are no null pointers, and differ.
LEMMA SimpleTypes ==
  /\ kInt = <<"Int">> /\ kBool = <<"Bool">> /\ kFd = <<"Fd">> /\ kString = <<"String">>
  /\ kExitCode = <<"ExitCode">> /\ kPath = <<"Path">> /\ kRelPath = <<"RelPath">>
  /\ kChar = <<"Char">>
  /\ {"Int", "Bool", "Fd", "String", "ExitCode", "Path", "RelPath", "Char"} \subseteq Simple
  /\ None \notin SimpleType \cup ArrayType \cup MapType
  /\ \A s \in Simple : <<s>> # None
  BY DEF kInt, kBool, kFd, kExitCode, kPath, kRelPath, kString, kChar, None, Simple,
         SimpleType, ArrayType, MapType, Array, Map

\* What is accepted as one of some simple types is one of them or is converted.
LEMMA AcceptedTypes ==
  ASSUME NEW d
  PROVE  /\ Satisfies(d, kInt) => d.type \in {kInt, kExitCode}
         /\ Satisfies(d, kString) => d.type = kString
         /\ Satisfies(d, kChar) => d.type = kChar
         /\ Satisfies(d, kPath) => d.type \in {kPath, kRelPath}
         /\ Satisfies(d, kRelPath) => d.type = kRelPath
         /\ Satisfies(d, kFd) => d.type = kFd
<1>1. ASSUME NEW s \in Simple, Satisfies(d, <<s>>)
      PROVE  \/ d.type = <<s>>
             \/ d.type = kExitCode /\ <<s>> \in {kBool, kInt}
             \/ d.type = kRelPath /\ <<s>> = kPath
  BY <1>1, AcceptedBySimple
<1>2. QED
  BY <1>1, SimpleTypes

\* Where the checker finds a type for the left operand of an operator, the
\* template of the operator has a case for that type.
LEMMA OperatorsHaveCode ==
  ASSUME NEW op \in Operator, NEW d, LeftType(op, d) # None
  PROVE  Reads(op, d.type) # None
<1> DEFINE t == d.type
<1>1. CASE op = "Logic" \/ t \in {kInt, kExitCode}
  BY <1>1, SimpleTypes DEF Reads
<1>2. CASE op \in {"Minus", "Mod"}
  <2>1. Satisfies(d, kInt)
    BY <1>2 DEF LeftType
  <2>2. QED
    BY <1>1, <2>1, AcceptedTypes
<1>3. CASE op = "Add" /\ t \notin {kInt, kExitCode}
  <2>1. t \in ArrayType \cup MapType \cup {kString}
    BY <1>3 DEF LeftType, Addable
  <2>2. QED
    BY <1>3, <2>1, SimpleTypes DEF Reads, Cases
<1>4. CASE op = "Equal" /\ t \notin {kInt, kExitCode}
  <2>1. t \in ArrayType \cup SimpleType
    BY <1>4 DEF LeftType, EqualComparable
  <2>2. QED
    BY <1>4, <2>1, SimpleTypes DEF Reads, Cases
<1>5. CASE op = "Mult" /\ t \notin {kInt, kExitCode}
  <2>1. RequireOneOf(d, <<kInt, kString>>) # None
    BY <1>5 DEF LeftType
  <2>2. Satisfies(d, kInt) \/ Satisfies(d, kString)
    BY <2>1, AcceptedByOne
  <2>3. t = kString
    BY <1>5, <2>2, AcceptedTypes
  <2>4. QED
    BY <1>5, <2>3, SimpleTypes DEF Reads
<1>6. CASE op = "Div" /\ t \notin {kInt, kExitCode}
  <2>1. RequireOneOf(d, <<kInt, kPath, kRelPath>>) # None
    BY <1>6 DEF LeftType
  <2>2. Satisfies(d, kInt) \/ Satisfies(d, kPath) \/ Satisfies(d, kRelPath)
    BY <2>1, AcceptedByOne
  <2>3. t \in {kPath, kRelPath}
    BY <1>6, <2>2, AcceptedTypes
  <2>4. QED
    BY <1>6, <2>3, SimpleTypes DEF Reads, Cases
<1>7. CASE op = "Order" /\ t \notin {kInt, kExitCode}
  <2>1. RequireOneOf(d, <<kChar, kInt, kString>>) # None
    BY <1>7 DEF LeftType
  <2>2. Satisfies(d, kChar) \/ Satisfies(d, kInt) \/ Satisfies(d, kString)
    BY <2>1, AcceptedByOne
  <2>3. t \in {kChar, kString}
    BY <1>7, <2>2, AcceptedTypes
  <2>4. QED
    BY <1>7, <2>3, SimpleTypes DEF Reads, Cases
<1>8. QED
  BY <1>1, <1>2, <1>3, <1>4, <1>5, <1>6, <1>7 DEF Operator

\* A redirection that is accepted is of a type it can be written for.
LEMMA RedirectionsHaveCode ==
  ASSUME NEW d, NEW accepts \in {FromRedirAccepts, ToRedirAccepts},
         RequireOneOf(d, accepts) # None
  PROVE  d.type \in {kPath, kRelPath, kFd}
<1>1. Satisfies(d, kPath) \/ Satisfies(d, kRelPath) \/ Satisfies(d, kFd)
  BY AcceptedByOne DEF FromRedirAccepts, ToRedirAccepts
<1>2. QED
  BY <1>1, AcceptedTypes

-----------------------------------------------------------------------------
(***************************************************************************)
(* The inductive invariant.  What an empty literal lacks is its first key  *)
(* or the value of that, never a part of a text or of a call: this is why  *)
(* the map made of it is a type.  The gaps are bounded whether there are   *)
(* errors or not, since the checker hands on no bad operand.               *)
(***************************************************************************)
Good(o) ==
  /\ o \in OperandType
  /\ o.empty => /\ o.type = None
                /\ o.open \in {<<>>, <<"literal">>} \cup ({"value"} \X Simple)

Gaps == {"pipe", "return", "default"}

IInv ==
  /\ TypeOK
  /\ \A i \in 1..Size : Good(operands[i])
  /\ FailuresAreReported
  /\ CrashesExplained
  /\ stuck \subseteq Gaps

\* Types, and what is no type, told apart.
LEMMA TypeShapes ==
  /\ SimpleType \subseteq Type /\ ArrayType \subseteq Type
  /\ MapType \subseteq Type /\ FunctionType \subseteq Type
  /\ kInt \in Type /\ kBool \in Type /\ kUnit \in Type /\ kFd \in Type /\ kExitCode \in Type
  /\ kPath \in Type /\ kRelPath \in Type /\ kString \in Type /\ kChar \in Type
  /\ None \notin Type
  /\ \A s \in Simple : <<s>> \in Type /\ Array(s) \in Type /\ Array(s) # None
  /\ \A k, v \in Simple : Map(k, v) \in Type
  /\ \A t \in SimpleType : t[1] \in Simple
  /\ \A t \in ArrayType : t[2] \in Simple
  /\ \A t \in MapType : t[2] \in Simple /\ t[3] \in Simple
<1>1. /\ kInt \in SimpleType /\ kBool \in SimpleType /\ kUnit \in SimpleType
      /\ kFd \in SimpleType /\ kExitCode \in SimpleType /\ kPath \in SimpleType
      /\ kRelPath \in SimpleType /\ kString \in SimpleType /\ kChar \in SimpleType
  BY DEF kInt, kBool, kUnit, kFd, kExitCode, kPath, kRelPath, kString, kChar, SimpleType, Simple
<1>2. None \notin Type
  BY DEF None, Type, SimpleType, ArrayType, MapType, FunctionType, Array, Map
<1>3. \A s \in Simple : <<s>> \in SimpleType /\ Array(s) \in ArrayType
  BY DEF SimpleType, ArrayType
<1>4. \A k, v \in Simple : Map(k, v) \in MapType
  BY DEF MapType
<1>5. \A t \in SimpleType : t[1] \in Simple
  BY DEF SimpleType
<1>6. \A t \in ArrayType : t[2] \in Simple
  BY DEF ArrayType, Array
<1>7. \A t \in MapType : t[2] \in Simple /\ t[3] \in Simple
  BY DEF MapType, Map
<1>8. SimpleType \subseteq Type /\ ArrayType \subseteq Type /\ MapType \subseteq Type
        /\ FunctionType \subseteq Type
  BY DEF Type
<1>9. QED
  BY <1>1, <1>2, <1>3, <1>4, <1>5, <1>6, <1>7, <1>8

\* Indexing gives a type or none, and asks for one of the index.
LEMMA IndexTypes ==
  ASSUME NEW t \in Type \cup {None}
  PROVE  ElementType(t) \in Type \cup {None} /\ IndexType(t) \in SimpleType
<1>1. t \in MapType => <<t[2]>> \in SimpleType /\ <<t[3]>> \in Type
  BY TypeShapes DEF SimpleType
<1>2. t \in ArrayType => <<t[2]>> \in Type
  BY TypeShapes
<1>3. kInt \in SimpleType
  BY SimpleTypes DEF SimpleType
<1>4. QED
  BY <1>1, <1>2, <1>3, TypeShapes DEF ElementType, IndexType

\* The operands that are made from a deduction.
LEMMA OperandTypes ==
  /\ \A t \in Type \cup {None}, h \in Type \cup {None, Mixed} :
       /\ Good(Operand(Deduced(t), h))
       /\ ~Operand(Deduced(t), h).fail
       /\ ~Operand(Deduced(t), h).empty
  /\ Good(Result(Fail)) /\ Good(Operand(Fail, None)) /\ ~Result(Fail).empty
  /\ \A h \in Type \cup {None, Mixed} : Good(Operand(Fail, h))
  /\ Good(Operand(EmptyArray, None)) /\ ~Operand(EmptyArray, None).fail
<1>1. <<>> \in Open
  BY DEF Open
<1>2. <<>> \in Seq({"call", "command"})
  OBVIOUS
<1>3. QED
  BY <1>1, <1>2 DEF Operand, Result, Deduced, Fail, EmptyArray, Good, OperandType

-----------------------------------------------------------------------------
(***************************************************************************)
(* What a step does with the operands.                                     *)
(***************************************************************************)
\* The operands left after some are used, and the new one on top.
LEMMA UsePreserves ==
  ASSUME IInv, NEW n \in {0, 1, 2}, n <= Size,
         NEW new \in Seq(OperandType), NEW error \in BOOLEAN, NEW gaps, NEW wrong,
         Use(n, new, error, gaps, wrong), gaps \subseteq Gaps, early \subseteq early',
         \A i \in 1..Len(new) :
           Good(new[i]) /\ (new[i].fail => Explained \/ error \/ early' # {})
  PROVE  /\ operands' \in Seq(OperandType)
         /\ \A i \in 1..Len(operands') : Good(operands'[i]) /\ (operands'[i].fail => Explained')
         /\ errors' \in BOOLEAN
         /\ Explained \/ error => Explained'
         /\ stuck' \subseteq Gaps
         /\ ~crashed
<1> DEFINE rest == SubSeq(operands, 1, Size - n)
<1>1. operands \in Seq(OperandType) /\ Size \in Nat /\ errors \in BOOLEAN /\ crashed \in BOOLEAN
  BY DEF IInv, TypeOK, Size
<1>2. /\ rest \in Seq(OperandType) /\ Len(rest) = Size - n
      /\ \A i \in 1..(Size - n) : rest[i] = operands[i]
  <2>1. Size - n \in 0..Len(operands)
    BY <1>1 DEF Size
  <2>2. QED
    BY <1>1, <2>1 DEF Size
<1>3. operands' = rest \o new
  BY DEF Use
<1>4. errors' = (errors \/ error) /\ ~crashed
  BY DEF Use, Running
<1>5. errors' \in BOOLEAN /\ (Explained \/ error \/ early' # {} => Explained')
  BY <1>1, <1>4 DEF Explained
<1>6. \A i \in 1..(Size - n) : Good(rest[i]) /\ (rest[i].fail => Explained')
  <2>1. \A i \in 1..(Size - n) : i \in 1..Size
    BY <1>1
  <2>2. QED
    BY <1>2, <1>5, <2>1 DEF IInv, FailuresAreReported
<1> HIDE DEF rest
<1>7. /\ operands' \in Seq(OperandType)
      /\ Len(operands') = Len(rest) + Len(new)
      /\ \A i \in 1..Len(operands') :
           operands'[i] = IF i <= Len(rest) THEN rest[i] ELSE new[i - Len(rest)]
  BY <1>2, <1>3, ConcatProperties
<1>8. ASSUME NEW i \in 1..Len(operands')
      PROVE  Good(operands'[i]) /\ (operands'[i].fail => Explained')
  <2>1. CASE i <= Len(rest)
    <3>1. i \in 1..(Size - n)
      BY <1>1, <1>2, <2>1
    <3>2. QED
      BY <1>6, <1>7, <2>1, <3>1
  <2>2. CASE ~(i <= Len(rest))
    <3>1. i - Len(rest) \in 1..Len(new)
      BY <1>1, <1>2, <1>7, <2>2
    <3>2. QED
      BY <1>5, <1>7, <2>2, <3>1
  <2>3. QED
    BY <2>1, <2>2
<1>9. stuck' \subseteq Gaps
  BY DEF Use, Gaps
<1>10. QED
  BY <1>4, <1>5, <1>7, <1>8, <1>9

\* What is visited takes the place of its parts, and may have been read early.
LEMMA VisitPreserves ==
  ASSUME IInv, NEW n \in {0, 1, 2}, n <= Size,
         NEW new, NEW error \in BOOLEAN, NEW gaps, NEW wrong,
         Use(n, <<new>>, error, gaps, wrong), gaps \subseteq Gaps,
         UNCHANGED <<statements, types, holds, returns, switched, crashed>>,
         early \subseteq early', early' \subseteq Name \cup Untyped,
         Good(new), new.fail => Explained \/ error \/ early' # {}
  PROVE  IInv'
<1>1. new \in OperandType
  BY DEF Good
<1>2. /\ <<new>> \in Seq(OperandType)
      /\ \A i \in 1..Len(<<new>>) :
           Good(<<new>>[i]) /\ (<<new>>[i].fail => Explained \/ error \/ early' # {})
  BY <1>1
<1>3. /\ operands' \in Seq(OperandType)
      /\ \A i \in 1..Len(operands') : Good(operands'[i]) /\ (operands'[i].fail => Explained')
      /\ errors' \in BOOLEAN
      /\ Explained \/ error => Explained'
      /\ stuck' \subseteq Gaps
      /\ ~crashed
  BY <1>2, UsePreserves
<1>4. TypeOK'
  BY <1>3 DEF IInv, TypeOK, Gaps
<1>5. FailuresAreReported' /\ CrashesExplained'
  BY <1>3 DEF IInv, FailuresAreReported, CrashesExplained, Size
<1>6. QED
  BY <1>3, <1>4, <1>5 DEF IInv, Size

\* An expression takes the place of its parts.
LEMMA ExpressionPreserves ==
  ASSUME IInv, NEW n \in {0, 1, 2}, n <= Size,
         NEW new, NEW error \in BOOLEAN, NEW gaps, NEW wrong,
         Expression(n, new, error, gaps, wrong), gaps \subseteq Gaps,
         Good(new), new.fail => Explained \/ error
  PROVE  IInv'
<1>1. /\ Use(n, <<new>>, error, gaps, wrong)
      /\ UNCHANGED <<statements, types, early, holds, returns, switched, crashed>>
  BY DEF Expression
<1>2. early \subseteq early' /\ early' \subseteq Name \cup Untyped
  BY <1>1 DEF IInv, TypeOK
<1>3. QED
  BY <1>1, <1>2, VisitPreserves

\* The two topmost operands.
LEMMA TopTwo ==
  ASSUME IInv
  PROVE  /\ Size \in Nat
         /\ Size >= 1 => Good(Top) /\ Top \in OperandType /\ (Top.fail => Explained)
         /\ Size >= 2 => Good(Under) /\ Under \in OperandType /\ (Under.fail => Explained)
<1>1. Size \in Nat
  BY DEF IInv, TypeOK, Size
<1>2. Size >= 1 => Size \in 1..Size
  BY <1>1
<1>3. Size >= 2 => Size - 1 \in 1..Size
  BY <1>1
<1>4. QED
  BY <1>1, <1>2, <1>3 DEF IInv, FailuresAreReported, Top, Under, Good

\* An expression that reports nothing and for which there is code.
LEMMA QuietPreserves ==
  ASSUME IInv, NEW n \in {0, 1, 2}, n <= Size, NEW new,
         Expression(n, new, FALSE, {}, {}), Good(new), new.fail => Explained
  PROVE  IInv'
<1> DEFINE error == FALSE
<1>1. error \in BOOLEAN /\ ~error /\ {} \subseteq Gaps
  OBVIOUS
<1>2. Expression(n, new, error, {}, {})
  OBVIOUS
<1> HIDE DEF error
<1>3. QED
  BY <1>1, <1>2, ExpressionPreserves

\* An expression that reports an error, whatever its parts.
LEMMA LoudPreserves ==
  ASSUME IInv, NEW n \in {0, 1, 2}, n <= Size, NEW new,
         Expression(n, new, TRUE, {}, {}), Good(new)
  PROVE  IInv'
<1> DEFINE error == TRUE
<1>1. error \in BOOLEAN /\ {} \subseteq Gaps
  OBVIOUS
<1>2. Expression(n, new, error, {}, {})
  OBVIOUS
<1>3. new.fail => Explained \/ error
  OBVIOUS
<1> HIDE DEF error
<1>4. QED
  BY <1>1, <1>2, <1>3, ExpressionPreserves

\* A visit that begins, with an operand that has not failed.
LEMMA PushPreserves ==
  ASSUME IInv, NEW o, Push(o), Good(o), o.fail => Explained
  PROVE  IInv'
<1>1. Expression(0, o, FALSE, {}, {})
  BY DEF Push
<1>2. 0 <= Size
  BY TopTwo
<1>3. QED
  BY <1>1, <1>2, QuietPreserves

\* The next part of a construct, or a failure in its place.
LEMMA PartPreserves ==
  ASSUME IInv, NEW opens, NEW ok \in BOOLEAN, NEW new, NEW wrong,
         Part(opens, ok, new, wrong),
         ok => Good(new) /\ (new.fail => Explained)
  PROVE  IInv'
<1> DEFINE result == IF ok THEN new ELSE Result(Fail)
<1>1. /\ Size >= 2 /\ Size \in Nat /\ Top \in OperandType /\ (Top.fail => Explained)
      /\ Expression(2, result, Reports(Top, ok), {}, IF ok THEN wrong ELSE {})
  BY TopTwo DEF Part, Ready
<1>2. Good(result)
  BY OperandTypes
<1>3. Reports(Top, ok) \in BOOLEAN
  BY DEF Reports
<1>4. result.fail => Explained \/ Reports(Top, ok)
  BY <1>1 DEF Reports
<1> HIDE DEF result
<1>5. QED
  BY <1>1, <1>2, <1>3, <1>4, ExpressionPreserves

\* A name that is read too early: the failure it leaves is explained by it.
LEMMA EarlyPreserves ==
  ASSUME IInv, NEW m \in Name \cup Untyped, Early(m)
  PROVE  IInv'
<1> DEFINE new == [Result(Fail) EXCEPT !.root = m]
           error == FALSE
           none == {}
<1>1. Use(0, <<new>>, error, none, none)
  BY DEF Early
<1>2. /\ early' = early \cup {m}
      /\ UNCHANGED <<statements, types, holds, returns, switched, crashed>>
  BY DEF Early
<1>3. Good(new)
  BY OperandTypes DEF Good, OperandType
<1>4. early' # {} /\ early \subseteq early' /\ early' \subseteq Name \cup Untyped
  BY <1>2 DEF IInv, TypeOK
<1>5. error \in BOOLEAN /\ none \subseteq Gaps
  OBVIOUS
<1>6. 0 <= Size
  BY TopTwo
<1> HIDE DEF new, error, none
<1>7. QED
  BY <1>1, <1>2, <1>3, <1>4, <1>5, <1>6, VisitPreserves

-----------------------------------------------------------------------------
(***************************************************************************)
(* Literals, variables and what begins a construct.                        *)
(***************************************************************************)
LEMMA PrimaryPreserves ==
  ASSUME IInv, Primary
  PROVE  IInv'
<1> DEFINE call == <<"call", 1>>
<1>1. ASSUME NEW t \in Type
      PROVE  Good(Value(t)) /\ ~Value(t).fail /\ ~Value(t).empty /\ Value(t) \in OperandType
  BY <1>1, OperandTypes DEF Value, Good
<1>2. /\ <<"text">> \in Open /\ <<"literal">> \in Open /\ call \in Open
      /\ <<"command">> \in Seq({"call", "command"})
  BY DEF Open
<1>3. ASSUME NEW t, Literal(t)
      PROVE  IInv'
  <2>1. t \in Type /\ Push(Value(t))
    BY <1>3, TypeShapes DEF Literal
  <2>2. QED
    BY <1>1, <2>1, PushPreserves
<1>4. ASSUME NEW t, Text(t)
      PROVE  IInv'
  <2> DEFINE o == [Value(t) EXCEPT !.open = <<"text">>]
  <2>1. t \in Type /\ Push(o)
    BY <1>4, TypeShapes DEF Text
  <2>2. Good(o) /\ ~o.fail
    BY <1>1, <1>2, <2>1 DEF Good, OperandType
  <2> HIDE DEF o
  <2>3. QED
    BY <2>1, <2>2, PushPreserves
<1>5. ASSUME NEW n \in Name, Variable(n)
      PROVE  IInv'
  <2> DEFINE d == Or(types[n] # None, Deduced(types[n]))
             o == [Operand(d, holds[n]) EXCEPT !.root = n]
  <2>1. /\ n \in DOMAIN types /\ Push(o)
        /\ types[n] \in Type \cup {None} /\ holds[n] \in Type \cup {None, Mixed}
    BY <1>5 DEF Variable, IInv, TypeOK
  <2>2. Good(Operand(d, holds[n])) /\ (Operand(d, holds[n]).fail => types[n] = None)
    BY <2>1, OperandTypes DEF Or
  <2>3. Good(o) /\ (o.fail => types[n] = None)
    BY <2>2 DEF Good, OperandType
  <2>4. types[n] = None => Explained
    BY <2>1 DEF IInv, FailuresAreReported
  <2> HIDE DEF o
  <2>5. QED
    BY <2>1, <2>3, <2>4, PushPreserves
<1>6. ASSUME NEW f \in Function, FunctionName(f) \/ Call(f)
      PROVE  IInv'
  <2> DEFINE t == <<"Function", f>>
             name == [Value(t) EXCEPT !.root = f]
             open == [Value(t) EXCEPT !.open = call]
  <2>1. t \in Type
    BY DEF Type, FunctionType
  <2>2. Push(name) \/ Push(open)
    BY <1>6 DEF FunctionName, Call
  <2>3. Good(name) /\ ~name.fail
    BY <1>1, <2>1 DEF Good, OperandType
  <2>4. Good(open) /\ ~open.fail
    BY <1>1, <1>2, <2>1 DEF Good, OperandType
  <2> HIDE DEF name, open
  <2>5. QED
    BY <2>2, <2>3, <2>4, PushPreserves
<1>7. ASSUME Command
      PROVE  IInv'
  <2> DEFINE o == [Value(kExitCode) EXCEPT !.open = <<"text">>, !.stages = <<"command">>]
  <2>1. Push(o)
    BY <1>7 DEF Command
  <2>2. Value(kExitCode) \in OperandType /\ ~Value(kExitCode).fail /\ ~Value(kExitCode).empty
    BY <1>1, TypeShapes
  <2>3. Good(o) /\ ~o.fail
    BY <1>2, <2>2 DEF Good, OperandType
  <2> HIDE DEF o
  <2>4. QED
    BY <2>1, <2>3, PushPreserves
<1>8. ASSUME EmptyLiteral
      PROVE  IInv'
  <2> DEFINE o == [Operand(EmptyArray, None) EXCEPT !.open = <<"literal">>]
  <2>1. Push(o)
    BY <1>8 DEF EmptyLiteral
  <2>2. Good(o) /\ ~o.fail
    BY <1>2, OperandTypes DEF Good, OperandType
  <2> HIDE DEF o
  <2>3. QED
    BY <2>1, <2>2, PushPreserves
<1>9. ASSUME BadCall
      PROVE  IInv'
  <2>1. Expression(0, Result(Fail), TRUE, {}, {})
    BY <1>9 DEF BadCall
  <2>2. 0 <= Size /\ Good(Result(Fail))
    BY TopTwo, OperandTypes
  <2>3. QED
    BY <2>1, <2>2, LoudPreserves
<1>10. QED
  <2>1. \/ \E t \in SimpleType : Literal(t) \/ Text(t)
        \/ \E n \in Name : Variable(n)
        \/ \E n \in Name \cup Untyped : Early(n)
        \/ \E f \in Function : FunctionName(f) \/ Call(f)
        \/ Command \/ EmptyLiteral \/ BadCall
    BY DEF Primary
  <2>2. QED
    BY <2>1, <1>3, <1>4, <1>5, <1>6, <1>7, <1>8, <1>9, EarlyPreserves

(***************************************************************************)
(* Constructs.                                                             *)
(***************************************************************************)
\* What is under construction keeps its type when its state or value changes.
LEMMA OpenUpdated ==
  ASSUME NEW o \in OperandType, NEW p \in Open
  PROVE  /\ [o EXCEPT !.open = p] \in OperandType
         /\ [o EXCEPT !.open = p].fail = o.fail
         /\ [o EXCEPT !.open = p].empty = o.empty
         /\ [o EXCEPT !.open = p].type = o.type
         /\ [o EXCEPT !.open = p].open = p
  BY DEF OperandType

\* An operand whose value is read otherwise.
LEMMA HoldsUpdated ==
  ASSUME NEW o \in OperandType, NEW h \in Type \cup {None, Mixed}
  PROVE  /\ [o EXCEPT !.holds = h] \in OperandType
         /\ [o EXCEPT !.holds = h].fail = o.fail
         /\ [o EXCEPT !.holds = h].empty = o.empty
         /\ [o EXCEPT !.holds = h].type = o.type
         /\ [o EXCEPT !.holds = h].open = o.open
  BY DEF OperandType

\* An array or a map begins with what the type of its first element gives.
LEMMA OpenedGood ==
  ASSUME NEW kind \in Open, NEW t \in Type, NEW h \in Type \cup {None, Mixed}
  PROVE  Good(Opened(kind, t, h)) /\ ~Opened(kind, t, h).fail
<1>1. /\ Good(Operand(Deduced(t), h)) /\ ~Operand(Deduced(t), h).fail
      /\ ~Operand(Deduced(t), h).empty
  BY OperandTypes
<1>2. QED
  BY <1>1, OpenUpdated DEF Opened, Good

\* The parts of a literal, and the constructs.
LEMMA ConstructPreserves ==
  ASSUME IInv, Construct
  PROVE  IInv'
<1>1. /\ Size >= 2 => /\ Under \in OperandType /\ Good(Under) /\ (Under.fail => Explained)
                      /\ Top \in OperandType
      /\ Size >= 1 => Top \in OperandType /\ Good(Top) /\ (Top.fail => Explained)
  BY TopTwo
<1>2. ASSUME NEW o \in OperandType
      PROVE  DeduceSimple(o) => o.type \in SimpleType /\ o.type[1] \in Simple
  BY TypeShapes DEF DeduceSimple, UnambiguousDeduce, SimpleType, None
<1>3. /\ <<"array">> \in Open /\ <<"map">> \in Open /\ <<"text">> \in Open /\ <<>> \in Open
      /\ \A s \in Simple : <<"value", s>> \in Open
  BY DEF Open
<1>4. ASSUME Interpolate
      PROVE  IInv'
  <2> DEFINE ok == RequireOneOf(Top, Interpolatable) # None
  <2>1. Part({<<"text">>}, ok, Under, {}) /\ ok \in BOOLEAN
    BY <1>4 DEF Interpolate
  <2>2. Size >= 2
    BY <2>1 DEF Part, Ready
  <2> HIDE DEF ok
  <2>3. QED
    BY <1>1, <2>1, <2>2, PartPreserves
<1>5. ASSUME FirstElement
      PROVE  IInv'
  <2> DEFINE ok == DeduceSimple(Top)
             t == Array(Top.type[1])
             h == IF Sound(Top) THEN t ELSE Mixed
             new == Opened(<<"array">>, t, h)
  <2>1. Part({<<"literal">>}, ok, new, {}) /\ Size >= 2
    BY <1>5 DEF FirstElement, Ready
  <2>2. ok \in BOOLEAN
    BY DEF DeduceSimple
  <2>3. ok => t \in Type
    BY <1>1, <1>2, <2>1, TypeShapes
  <2>4. ok => Good(new) /\ ~new.fail
    BY <1>3, <2>3, OpenedGood
  <2> HIDE DEF ok, new
  <2>5. QED
    BY <2>1, <2>2, <2>4, PartPreserves
<1>6. ASSUME NextElement
      PROVE  IInv'
  <2> DEFINE t == ElementType(Under.type)
             ok == Satisfies(Top, t)
             h == IF Same(Top.holds, t) \/ Top.empty THEN Under.holds ELSE Mixed
             new == [Under EXCEPT !.holds = h]
             wrong == Misread("copy", Top, t)
  <2>1. Part({<<"array">>}, ok, new, wrong) /\ Size >= 2
    BY <1>6 DEF NextElement, Ready
  <2>2. ok \in BOOLEAN
    BY DEF Satisfies
  <2>3. h \in Type \cup {None, Mixed}
    BY <1>1, <2>1 DEF OperandType
  <2>4. Good(new) /\ (new.fail => Explained)
    BY <1>1, <2>1, <2>3, HoldsUpdated DEF Good
  <2> HIDE DEF ok, new, wrong
  <2>5. QED
    BY <2>1, <2>2, <2>4, PartPreserves
<1>7. ASSUME FirstKey
      PROVE  IInv'
  <2> DEFINE ok == DeduceSimple(Top)
             new == [Under EXCEPT !.open = <<"value", Top.type[1]>>]
  <2>1. Part({<<"literal">>}, ok, new, {}) /\ Size >= 2
    BY <1>7 DEF FirstKey, Ready
  <2>2. ok \in BOOLEAN
    BY DEF DeduceSimple
  <2>3. ok => Top.type[1] \in Simple
    BY <1>1, <1>2, <2>1
  <2>4. ok => Good(new) /\ (new.fail => Explained)
    BY <1>1, <1>3, <2>1, <2>3, OpenUpdated DEF Good
  <2> HIDE DEF ok, new
  <2>5. QED
    BY <2>1, <2>2, <2>4, PartPreserves
<1>8. ASSUME FirstValue
      PROVE  IInv'
  <2> DEFINE ok == DeduceSimple(Top)
             t == Map(Under.open[2], Top.type[1])
             h == IF Sound(Top) THEN t ELSE Mixed
             new == Opened(<<"map">>, t, h)
  <2>1. /\ Part({Under.open}, ok, new, {}) /\ Size >= 2
        /\ Under.empty /\ ~Closed(Under) /\ Under.open # <<"literal">>
    BY <1>8 DEF FirstValue, Ready
  <2>2. ok \in BOOLEAN
    BY DEF DeduceSimple
  <2>3. Under.open[2] \in Simple
    BY <1>1, <2>1 DEF Good, Closed
  <2>4. ok => t \in Type
    BY <1>1, <1>2, <2>1, <2>3, TypeShapes
  <2>5. ok => Good(new) /\ ~new.fail
    BY <1>3, <2>4, OpenedGood
  <2> HIDE DEF ok, new
  <2>6. QED
    BY <2>1, <2>2, <2>5, PartPreserves
<1>9. ASSUME NextKey
      PROVE  IInv'
  <2> DEFINE t == IndexType(Under.type)
             ok == Satisfies(Top, t)
             new == [Under EXCEPT !.open = <<"value", t[1]>>]
             wrong == Misread("copy", Top, t)
  <2>1. Part({<<"map">>}, ok, new, wrong) /\ Size >= 2
    BY <1>9 DEF NextKey, Ready
  <2>2. ok \in BOOLEAN
    BY DEF Satisfies
  <2>3. t[1] \in Simple
    BY <1>1, <2>1, IndexTypes, TypeShapes DEF OperandType
  <2>4. Good(new) /\ (new.fail => Explained)
    BY <1>1, <1>3, <2>1, <2>3, OpenUpdated DEF Good
  <2> HIDE DEF ok, new, wrong
  <2>5. QED
    BY <2>1, <2>2, <2>4, PartPreserves
<1>10. ASSUME NextValue
       PROVE  IInv'
  <2> DEFINE t == ElementType(Under.type)
             ok == Satisfies(Top, t)
             h == IF Same(Top.holds, t) THEN Under.holds ELSE Mixed
             new == [Under EXCEPT !.open = <<"map">>, !.holds = h]
             wrong == Misread("copy", Top, t)
  <2>1. Part({Under.open}, ok, new, wrong) /\ Size >= 2 /\ Under.type \in MapType
    BY <1>10 DEF NextValue, Ready
  <2>2. ok \in BOOLEAN
    BY DEF Satisfies
  <2>3. h \in Type \cup {None, Mixed}
    BY <1>1, <2>1 DEF OperandType
  <2>4. new \in OperandType /\ new.fail = Under.fail /\ new.empty = Under.empty
    BY <1>1, <1>3, <2>1, <2>3 DEF OperandType
  <2>5. ~Under.empty
    BY <1>1, <2>1, TypeShapes DEF Good
  <2>6. Good(new) /\ (new.fail => Explained)
    BY <1>1, <2>1, <2>4, <2>5 DEF Good
  <2> HIDE DEF ok, new, wrong
  <2>7. QED
    BY <2>1, <2>2, <2>6, PartPreserves
<1>11. ASSUME Close
       PROVE  IInv'
  <2> DEFINE new == [Top EXCEPT !.open = <<>>]
  <2>1. Expression(1, new, FALSE, {}, {})
    BY <1>11 DEF Close
  <2>2. 1 <= Size
    BY <1>11, TopTwo DEF Close
  <2>3. Good(new) /\ (new.fail => Explained)
    BY <1>1, <1>3, <2>2, OpenUpdated DEF Good
  <2> HIDE DEF new
  <2>4. QED
    BY <2>1, <2>2, <2>3, QuietPreserves
<1>12. ASSUME Parameter
       PROVE  IInv'
  <2> DEFINE f == Under.type[2]
             i == Under.open[2]
             t == Params[f][i]
             ok == Satisfies(Top, t)
             returned == Returned(ResultType[f])
             next == [Under EXCEPT !.open = <<"call", i + 1>>]
             new == IF i = Len(Params[f]) THEN returned ELSE next
             wrong == Misread("copy", Top, t)
  <2>1. /\ Part({<<"call", i>>}, ok, new, wrong) /\ Size >= 2
        /\ Under.type \in FunctionType /\ Under.open = <<"call", i>>
    BY <1>12 DEF Parameter, Ready, Calling, Part
  <2>2. ok \in BOOLEAN
    BY DEF Satisfies
  <2>3. f \in Function
    BY <2>1 DEF FunctionType
  <2>4. i \in Nat
    BY <1>1, <2>1 DEF OperandType, Open
  <2>5. <<"call", i + 1>> \in Open
    BY <2>4 DEF Open
  <2>6. ~Under.empty
    BY <1>1, <2>1, TypeShapes DEF Good
  <2>7. Good(next) /\ (next.fail => Explained)
    BY <1>1, <2>1, <2>5, <2>6, OpenUpdated DEF Good
  <2>8. ResultType[f] \in Type
    BY <2>3, FunctionsAssumption
  <2>9. Good(returned) /\ ~returned.fail
    <3> DEFINE h == IF ResultType[f] \in ArrayType THEN Mixed ELSE ResultType[f]
               value == Operand(Deduced(ResultType[f]), h)
    <3>1. h \in Type \cup {None, Mixed}
      BY <2>8
    <3>2. Good(value) /\ ~value.fail /\ <<"call">> \in Seq({"call", "command"})
      BY <2>8, <3>1, OperandTypes
    <3>3. returned = [value EXCEPT !.stages = <<"call">>]
      BY DEF Returned
    <3> HIDE DEF value, returned
    <3>4. QED
      BY <3>2, <3>3 DEF Good, OperandType
  <2> HIDE DEF ok, returned, next, wrong
  <2>10. QED
    BY <2>1, <2>2, <2>7, <2>9, PartPreserves
<1>13. QED
  BY <1>4, <1>5, <1>6, <1>7, <1>8, <1>9, <1>10, <1>11, <1>12 DEF Construct

(***************************************************************************)
(* Operators, calls and pipelines.                                         *)
(***************************************************************************)
\* What the rules give for well-formed operands is a type or none.
LEMMA RuleTypes ==
  ASSUME NEW o \in OperandType, NEW op \in Operator
  PROVE  /\ LeftType(op, o) \in Type \cup {None}
         /\ TypeOfWhole(op, LeftType(op, o)) \in Type \cup {None}
         /\ UnambiguousDeduce(o) \in Type \cup {None}
<1>1. o.type \in Type \cup {None}
  BY DEF OperandType
<1>2. \A ts : RequireOneOf(o, ts) \in Type \cup {None}
  BY <1>1 DEF RequireOneOf
<1>3. Addable(o) \in Type \cup {None} /\ EqualComparable(o) \in Type \cup {None}
  BY <1>1 DEF Addable, EqualComparable
<1>4. LeftType(op, o) \in Type \cup {None}
  BY <1>2, <1>3, TypeShapes DEF LeftType
<1>5. QED
  BY <1>1, <1>4, TypeShapes DEF TypeOfWhole, UnambiguousDeduce

\* The whole has failed exactly when the requirements on its parts are not met.
LEMMA WholeGood ==
  ASSUME NEW ok \in BOOLEAN, NEW t \in Type \cup {None}
  PROVE  Good(Result(Or(ok, Deduced(t)))) /\ (Result(Or(ok, Deduced(t))).fail => ~ok)
<1>1. Result(Deduced(t)) = Operand(Deduced(t), t)
  BY DEF Result, Deduced
<1>2. Good(Result(Deduced(t))) /\ ~Result(Deduced(t)).fail
  BY <1>1, OperandTypes
<1>3. QED
  BY <1>2, OperandTypes DEF Or

\* The operators and the pipelines.
LEMMA CombinePreserves ==
  ASSUME IInv, Combine
  PROVE  IInv'
<1>1. /\ Size >= 2 => /\ Under \in OperandType /\ Good(Under) /\ (Under.fail => Explained)
                      /\ Top \in OperandType
      /\ Size >= 1 => Top \in OperandType /\ Good(Top) /\ (Top.fail => Explained)
      /\ Size \in Nat
  BY TopTwo
<1>2. {} \subseteq Gaps
  OBVIOUS
<1>3. ASSUME NEW op \in Operator, Binary(op)
      PROVE  IInv'
  <2> DEFINE left == LeftType(op, Under)
             good == left # None /\ Satisfies(Top, RightType(op, left))
             reads == Reads(op, Under.type)
             new == Result(Or(good, Deduced(TypeOfWhole(op, left))))
             error == Reports(Under, left # None) \/ (left # None /\ Reports(Top, good))
             gaps == IF good /\ reads = None THEN {"operator"} ELSE {}
             wrong == IF good THEN ReadAs(op, Under, reads) \cup ReadAs(op, Top, reads) ELSE {}
  <2>1. Size >= 2 /\ Expression(2, new, error, gaps, wrong)
    BY <1>3 DEF Binary, Ready
  <2>2. good \in BOOLEAN /\ error \in BOOLEAN
    BY DEF Satisfies, Reports
  <2>3. gaps \subseteq Gaps
    BY OperatorsHaveCode
  <2>4. TypeOfWhole(op, left) \in Type \cup {None}
    BY <1>1, <2>1, RuleTypes
  <2>5. ~good => Explained \/ error
    BY <1>1, <2>1 DEF Reports
  <2> HIDE DEF good
  <2>6. Good(new) /\ (new.fail => Explained \/ error)
    BY <2>2, <2>4, <2>5, WholeGood
  <2> HIDE DEF new, error, gaps, wrong
  <2>7. QED
    BY <2>1, <2>2, <2>3, <2>6, ExpressionPreserves
<1>4. ASSUME NEW t \in {kBool, kInt}, NEW wrong,
             LET ok == Satisfies(Top, t)
             IN Ready(1) /\ Expression(1, Result(Or(ok, Deduced(t))), Reports(Top, ok), {}, wrong)
      PROVE  IInv'
  <2> DEFINE ok == Satisfies(Top, t)
             new == Result(Or(ok, Deduced(t)))
             error == Reports(Top, ok)
  <2>1. Size >= 1 /\ Expression(1, new, error, {}, wrong)
    BY <1>4 DEF Ready
  <2>2. ok \in BOOLEAN /\ error \in BOOLEAN
    BY DEF Satisfies, Reports
  <2>3. t \in Type
    BY TypeShapes
  <2>4. ~ok => Explained \/ error
    BY <1>1, <2>1 DEF Reports
  <2> HIDE DEF ok
  <2>5. Good(new) /\ (new.fail => Explained \/ error)
    BY <2>2, <2>3, <2>4, WholeGood
  <2> HIDE DEF new, error
  <2>6. QED
    BY <1>2, <2>1, <2>2, <2>5, ExpressionPreserves
<1>5. ASSUME Indexing
      PROVE  IInv'
  <2> DEFINE t == UnambiguousDeduce(Under)
             element == ElementType(t)
             ok == element # None /\ Satisfies(Top, IndexType(t))
             named == Under.root # NoName /\ t # kString
             held == IF named /\ Under.holds # Mixed THEN ElementType(Under.holds) ELSE Mixed
             h == IF ok THEN held ELSE None
             whole == Operand(Or(ok, Deduced(element)), h)
             new == [whole EXCEPT !.root = Under.root]
             error == Reports(Under, element # None) \/ (element # None /\ Reports(Top, ok))
             wrong == IF ok THEN Misread("index", Top, IndexType(t)) ELSE {}
  <2>1. Size >= 2 /\ Expression(2, new, error, {}, wrong)
    BY <1>5 DEF Indexing, Ready
  <2>2. ok \in BOOLEAN /\ error \in BOOLEAN
    BY DEF Satisfies, Reports
  <2>3. t \in Type \cup {None} /\ element \in Type \cup {None}
    <3>1. "Add" \in Operator
      BY DEF Operator
    <3>2. t \in Type \cup {None}
      BY <1>1, <2>1, <3>1, RuleTypes
    <3> HIDE DEF t
    <3>3. QED
      BY <3>2, IndexTypes
  <2>4. h \in Type \cup {None, Mixed}
    <3>1. Under.holds \in Type \cup {None, Mixed}
      BY <1>1, <2>1 DEF OperandType
    <3>2. Under.holds # Mixed => ElementType(Under.holds) \in Type \cup {None}
      BY <3>1, IndexTypes
    <3>3. QED
      BY <3>2
  <2>5. ~ok => Explained \/ error
    BY <1>1, <2>1 DEF Reports
  <2> HIDE DEF ok, h, element
  <2>6. Good(whole) /\ (whole.fail => Explained \/ error)
    <3>1. ok => Good(whole) /\ ~whole.fail
      BY <2>3, <2>4, OperandTypes DEF Or
    <3>2. ~ok => Good(whole)
      BY <2>4, OperandTypes DEF Or
    <3>3. QED
      BY <2>2, <2>5, <3>1, <3>2
  <2>7. Under.root \in Name \cup Function \cup Untyped \cup {NoName}
    BY <1>1, <2>1 DEF OperandType
  <2> HIDE DEF whole
  <2>8. Good(new) /\ (new.fail => Explained \/ error)
    BY <2>6, <2>7 DEF Good, OperandType
  <2> HIDE DEF new, error, wrong
  <2>9. QED
    BY <1>2, <2>1, <2>2, <2>8, ExpressionPreserves
<1>6. ASSUME NEW accepts \in {FromRedirAccepts, ToRedirAccepts}, Redirect(accepts)
      PROVE  IInv'
  <2> DEFINE ok == RequireOneOf(Top, accepts) # None
             new == IF ok THEN Under ELSE Result(Fail)
             error == Reports(Top, ok)
             gaps == IF ok /\ Top.type \notin {kPath, kRelPath, kFd} THEN {"redirect"} ELSE {}
  <2>1. Size >= 2 /\ Expression(2, new, error, gaps, {})
    BY <1>6 DEF Redirect, Ready
  <2>2. error \in BOOLEAN
    BY DEF Reports
  <2>3. gaps \subseteq Gaps
    BY RedirectionsHaveCode
  <2>4. Good(new) /\ (new.fail => Explained \/ error)
    <3>1. ~ok => Explained \/ error
      BY <1>1, <2>1 DEF Reports
    <3>2. ok => Good(new) /\ (new.fail => Explained)
      BY <1>1, <2>1
    <3>3. ~ok => Good(new)
      BY OperandTypes
    <3> HIDE DEF ok, new
    <3>4. QED
      BY <3>1, <3>2, <3>3
  <2> HIDE DEF new, error, gaps
  <2>5. QED
    BY <2>1, <2>2, <2>3, <2>4, ExpressionPreserves
<1>7. ASSUME RedirectToHere
      PROVE  IInv'
  <2> DEFINE new == [Value(kString) EXCEPT !.stages = Top.stages, !.here = TRUE]
  <2>1. Size >= 1
    BY <1>7 DEF RedirectToHere, Ready
  <2>2. Expression(1, new, FALSE, {}, {})
    BY <1>7 DEF RedirectToHere
  <2>3. Good(Value(kString)) /\ ~Value(kString).fail
    BY OperandTypes, TypeShapes DEF Value
  <2>4. Top.stages \in Seq({"call", "command"})
    BY <1>1, <2>1 DEF OperandType
  <2>5. Good(new) /\ ~new.fail
    BY <2>3, <2>4 DEF Good, OperandType
  <2> HIDE DEF new
  <2>6. QED
    BY <2>1, <2>2, <2>5, QuietPreserves
<1>8. ASSUME Pipe
      PROVE  IInv'
  <2> DEFINE all == Under.stages \o Top.stages
             held == IF Top.here THEN kString ELSE Piped(all)
             new == [Top EXCEPT !.stages = all, !.holds = held]
  <2>1. Size >= 2
    BY <1>8 DEF Pipe, Ready
  <2>2. Expression(2, new, FALSE, {}, {})
    BY <1>8 DEF Pipe
  <2>3. all \in Seq({"call", "command"})
    BY <1>1, <2>1, ConcatProperties DEF OperandType
  <2>4. held \in Type \cup {None, Mixed}
    BY TypeShapes DEF Piped
  <2>5. Good(Top) /\ Top \in OperandType /\ (Top.fail => Explained)
    BY <1>1, <2>1
  <2> HIDE DEF all, held
  <2>6. Good(new) /\ (new.fail => Explained)
    BY <2>3, <2>4, <2>5 DEF Good, OperandType
  <2> HIDE DEF new
  <2>7. QED
    BY <2>1, <2>2, <2>6, QuietPreserves
<1>9. Negate => IInv'
  BY <1>4 DEF Negate
<1>10. PosNeg => IInv'
  BY <1>4 DEF PosNeg
<1>11. QED
  BY <1>3, <1>5, <1>6, <1>7, <1>8, <1>9, <1>10 DEF Combine

-----------------------------------------------------------------------------
(***************************************************************************)
(* Statements.                                                             *)
(***************************************************************************)
\* What the checker knows of the variables, the function and the switch.
Bindings ==
  /\ DOMAIN types \subseteq Name
  /\ types \in [DOMAIN types -> Type \cup {None}]
  /\ holds \in [DOMAIN types -> Type \cup {None, Mixed}]
  /\ returns \in Type \cup {None}
  /\ switched \in Seq([type : Type \cup {None}, default : BOOLEAN]) /\ Len(switched) <= 1
  /\ crashed \in BOOLEAN
  /\ crashed => Explained
  /\ \A n \in DOMAIN types : types[n] = None => Explained
  /\ switched # <<>> => (switched[1].type = None => Explained)

\* What the names are bound to has its type.
LEMMA BindingsHold ==
  ASSUME IInv
  PROVE  Bindings
BY DEF IInv, TypeOK, FailuresAreReported, CrashesExplained, Bindings

\* A statement uses its expressions up; what remains is about the bindings.
LEMMA StatementPreserves ==
  ASSUME IInv, NEW n \in {0, 1, 2}, NEW error \in BOOLEAN, NEW gaps, NEW wrong,
         Statement(n, error, gaps, wrong), gaps \subseteq Gaps,
         (Explained \/ error => Explained') => Bindings'
  PROVE  IInv'
<1>1. Size = n /\ Use(n, <<>>, error, gaps, wrong) /\ UNCHANGED early
  BY DEF Statement
<1>2. n <= Size
  BY <1>1
<1>3. <<>> \in Seq(OperandType) /\ Len(<<>>) = 0
  OBVIOUS
<1>4. \A i \in 1..Len(<<>>) : Good(<<>>[i]) /\ (<<>>[i].fail => Explained \/ error \/ early' # {})
  BY <1>3
<1>5. /\ operands' \in Seq(OperandType)
      /\ \A i \in 1..Len(operands') : Good(operands'[i]) /\ (operands'[i].fail => Explained')
      /\ errors' \in BOOLEAN
      /\ Explained \/ error => Explained'
      /\ stuck' \subseteq Gaps
  BY <1>1, <1>2, <1>3, <1>4, UsePreserves
<1>6. Bindings'
  BY <1>5
<1>7. TypeOK'
  BY <1>1, <1>5, <1>6 DEF IInv, TypeOK, Bindings, Gaps
<1>8. FailuresAreReported' /\ CrashesExplained'
  BY <1>5, <1>6 DEF FailuresAreReported, CrashesExplained, Bindings, Size
<1>9. QED
  BY <1>5, <1>7, <1>8 DEF IInv, Size

\* Bindings that stay as they are stay right.
LEMMA BindingsStay ==
  ASSUME Bindings, UNCHANGED <<types, holds, returns, switched, crashed>>,
         Explained => Explained'
  PROVE  Bindings'
BY DEF Bindings

\* A definition with a type, or without one and with an error.
LEMMA DefinePreserves ==
  ASSUME Bindings, NEW n \in Name, NEW t \in Type \cup {None}, NEW h \in Type \cup {None, Mixed},
         Define(n, t, h), Explained => Explained', t = None => Explained'
  PROVE  Bindings'
<1>1. /\ types' = [m \in DOMAIN types \cup {n} |-> IF m = n THEN t ELSE types[m]]
      /\ holds' = [m \in DOMAIN holds \cup {n} |-> IF m = n THEN h ELSE holds[m]]
      /\ UNCHANGED <<returns, switched, crashed>>
  BY DEF Define, Put
<1>2. DOMAIN types' = DOMAIN types \cup {n} /\ DOMAIN types' \subseteq Name
  BY <1>1 DEF Bindings
<1>3. types' \in [DOMAIN types' -> Type \cup {None}]
  BY <1>1, <1>2 DEF Bindings
<1>4. holds' \in [DOMAIN types' -> Type \cup {None, Mixed}]
  BY <1>1, <1>2 DEF Bindings
<1>5. \A m \in DOMAIN types' : types'[m] = None => Explained'
  BY <1>1 DEF Bindings
<1>6. QED
  BY <1>1, <1>2, <1>3, <1>4, <1>5 DEF Bindings

\* What Define is given, and what is assigned.
LEMMA HeldTypes ==
  ASSUME NEW o \in OperandType, NEW t \in Type \cup {None}
  PROVE  /\ Held(o, t) \in Type \cup {None, Mixed}
         /\ UnambiguousDeduce(o) \in Type \cup {None}
BY DEF Held, OperandType, UnambiguousDeduce

\* The types that can be written in a program are types.
LEMMA WrittenTypes == Written \subseteq Type
<1>1. \A e \in Element : Array(e) \in Type
  BY TypingAssumption, TypeShapes
<1>2. \A k, v \in Element : Map(k, v) \in Type
  BY TypingAssumption, TypeShapes
<1>3. QED
  BY <1>1, <1>2, TypeShapes DEF Written

\* The statements.
LEMMA CheckStatementPreserves ==
  ASSUME IInv, CheckStatement
  PROVE  IInv'
<1> USE BindingsHold
<1>1. /\ Size >= 2 => /\ Under \in OperandType /\ (Under.fail => Explained)
                      /\ Top \in OperandType /\ (Top.fail => Explained)
      /\ Size >= 1 => Top \in OperandType /\ (Top.fail => Explained)
      /\ Size \in Nat
  BY TopTwo
<1>2. {} \subseteq Gaps /\ {"return"} \subseteq Gaps
  BY DEF Gaps
<1>3. ASSUME ExpressionStatement
      PROVE  IInv'
  <2> DEFINE error == Reports(Top, UnambiguousDeduce(Top) # None)
  <2>1. /\ Statement(1, error, {}, {})
        /\ UNCHANGED <<types, holds, returns, switched, crashed>>
    BY <1>3 DEF ExpressionStatement
  <2>2. error \in BOOLEAN
    BY DEF Reports
  <2> HIDE DEF error
  <2>3. (Explained \/ error => Explained') => Bindings'
    BY <2>1, BindingsStay
  <2>4. QED
    BY <1>2, <2>1, <2>2, <2>3, StatementPreserves
<1>4. ASSUME NEW n \in Name, NEW t \in Written, DefineParameter(n, t)
      PROVE  IInv'
  <2> DEFINE error == FALSE
  <2>1. Statement(0, error, {}, {}) /\ Define(n, t, t)
    BY <1>4 DEF DefineParameter
  <2>2. t \in Type /\ t # None
    BY WrittenTypes, TypeShapes
  <2>3. error \in BOOLEAN
    OBVIOUS
  <2> HIDE DEF error
  <2>4. (Explained \/ error => Explained') => Bindings'
    BY <2>1, <2>2, DefinePreserves
  <2>5. QED
    BY <1>2, <2>1, <2>3, <2>4, StatementPreserves
<1>5. ASSUME NEW n \in Name, VariableDef(n)
      PROVE  IInv'
  <2> DEFINE t == UnambiguousDeduce(Top)
             h == Held(Top, t)
             error == Reports(Top, t # None)
  <2>1. Size = 1 /\ Statement(1, error, {}, {}) /\ Define(n, t, h)
    BY <1>5 DEF VariableDef
  <2>2. t \in Type \cup {None} /\ h \in Type \cup {None, Mixed}
    BY <1>1, <2>1, HeldTypes
  <2>3. error \in BOOLEAN
    BY DEF Reports
  <2>4. t = None => Explained \/ error
    BY <1>1, <2>1 DEF Reports
  <2> HIDE DEF error, t, h
  <2>5. (Explained \/ error => Explained') => Bindings'
    BY <2>1, <2>2, <2>4, DefinePreserves
  <2>6. QED
    BY <1>2, <2>1, <2>3, <2>5, StatementPreserves
<1>6. ASSUME NEW n \in Name, NEW t \in Written, DeclaredVariableDef(n, t)
      PROVE  IInv'
  <2> DEFINE ok == Satisfies(Top, t)
             type == IF ok THEN t ELSE None
             h == Held(Top, t)
             error == Reports(Top, ok)
             wrong == IF ok THEN Misread("copy", Top, t) ELSE {}
  <2>1. Size = 1 /\ Define(n, type, h)
    BY <1>6 DEF DeclaredVariableDef
  <2>8. Statement(1, error, {}, wrong)
    BY <1>6 DEF DeclaredVariableDef
  <2>2. t \in Type /\ t # None
    BY WrittenTypes, TypeShapes
  <2>3. h \in Type \cup {None, Mixed} /\ type \in Type \cup {None}
    BY <1>1, <2>1, <2>2, HeldTypes
  <2>4. error \in BOOLEAN
    BY DEF Reports
  <2>5. type = None => Explained \/ error
    BY <1>1, <2>1, <2>2 DEF Reports
  <2> HIDE DEF error, type, h, wrong
  <2>6. (Explained \/ error => Explained') => Bindings'
    BY <2>1, <2>3, <2>5, DefinePreserves
  <2>7. QED
    BY <1>2, <2>8, <2>4, <2>6, StatementPreserves
<1>7. ASSUME Assignment
      PROVE  IInv'
  <2> DEFINE t == UnambiguousDeduce(Under)
             ok == Satisfies(Top, t)
             m == Under.root
             assignable == m # NoName
             known == m \in DOMAIN types
             element == known /\ t # types[m]
             held == Held(Top, t)
             error == ~assignable \/ Reports(Under, t # None) \/ (t # None /\ Reports(Top, ok))
             wrong == IF assignable /\ ok THEN Misread("copy", Top, t) ELSE {}
  <2>1. /\ Size = 2
        /\ crashed' = (assignable /\ t = None /\ ~Top.fail)
        /\ holds' = IF ~known \/ t = None THEN holds
                    ELSE IF ~element THEN [holds EXCEPT ![m] = held]
                    ELSE IF Same(held, t) THEN holds ELSE [holds EXCEPT ![m] = Mixed]
        /\ UNCHANGED <<types, returns, switched>>
    BY <1>7 DEF Assignment
  <2>2. Statement(2, error, {}, wrong)
    BY <1>7 DEF Assignment
  <2>3. t \in Type \cup {None}
    BY <1>1, <2>1, HeldTypes
  <2>4. held \in Type \cup {None, Mixed}
    BY <1>1, <2>1, <2>3, HeldTypes
  <2>5. error \in BOOLEAN
    BY DEF Reports
  <2>6. crashed' \in BOOLEAN
    BY <2>1
  <2>7. crashed' => Explained \/ error
    <3>1. crashed' => t = None
      BY <2>1
    <3>2. t = None => Explained \/ error
      BY <1>1, <2>1 DEF Reports
    <3>3. QED
      BY <3>1, <3>2
  <2>8. holds' \in [DOMAIN types -> Type \cup {None, Mixed}]
    <3>1. holds \in [DOMAIN types -> Type \cup {None, Mixed}]
      BY DEF Bindings
    <3> HIDE DEF t, held, element, known, m
    <3>2. QED
      BY <2>1, <2>4, <3>1
  <2> HIDE DEF error, wrong
  <2>9. (Explained \/ error => Explained') => Bindings'
    BY <2>1, <2>6, <2>7, <2>8 DEF Bindings
  <2>10. QED
    BY <1>2, <2>2, <2>5, <2>9, StatementPreserves
<1>8. ASSUME Condition
      PROVE  IInv'
  <2> DEFINE ok == Satisfies(Top, kBool)
             error == Reports(Top, ok)
             wrong == IF ok THEN MisreadBool("if", Top) ELSE {}
  <2>1. UNCHANGED <<types, holds, returns, switched, crashed>>
    BY <1>8 DEF Condition
  <2>2. Statement(1, error, {}, wrong)
    BY <1>8 DEF Condition
  <2>3. error \in BOOLEAN
    BY DEF Reports
  <2> HIDE DEF error, wrong
  <2>4. (Explained \/ error => Explained') => Bindings'
    BY <2>1, BindingsStay
  <2>5. QED
    BY <1>2, <2>2, <2>3, <2>4, StatementPreserves
<1>9. ASSUME NEW n \in Name, ForRange(n)
      PROVE  IInv'
  <2> DEFINE t == UnambiguousDeduce(Top)
             ok == t \in ArrayType
             element == ElementType(t)
             h == IF Top.holds = Mixed THEN Mixed ELSE ElementType(Top.holds)
             error == Reports(Top, ok)
  <2>1. /\ Size = 1
        /\ IF ok THEN Define(n, element, h)
           ELSE UNCHANGED <<types, holds, returns, switched, crashed>>
    BY <1>9 DEF ForRange
  <2>2. Statement(1, error, {}, {})
    BY <1>9 DEF ForRange
  <2>3. error \in BOOLEAN
    BY DEF Reports
  <2>4. ok => element \in Type /\ element # None
    BY TypeShapes DEF ElementType
  <2>5. h \in Type \cup {None, Mixed}
    BY <1>1, <2>1, IndexTypes DEF OperandType
  <2> HIDE DEF error, element, h, ok
  <2>6. (Explained \/ error => Explained') => Bindings'
    BY <2>1, <2>4, <2>5, BindingsStay, DefinePreserves
  <2>7. QED
    BY <1>2, <2>2, <2>3, <2>6, StatementPreserves
<1>10. ASSUME Switch
       PROVE  IInv'
  <2> DEFINE t == UnambiguousDeduce(Top)
             error == Reports(Top, t # None)
  <2>1. /\ Size = 1 /\ switched' = <<[type |-> t, default |-> FALSE]>>
        /\ UNCHANGED <<types, holds, returns, crashed>>
    BY <1>10 DEF Switch
  <2>2. Statement(1, error, {}, {})
    BY <1>10 DEF Switch
  <2>3. error \in BOOLEAN
    BY DEF Reports
  <2>4. t \in Type \cup {None}
    BY <1>1, <2>1, HeldTypes
  <2>5. t = None => Explained \/ error
    BY <1>1, <2>1 DEF Reports
  <2> HIDE DEF error, t
  <2>6. (Explained \/ error => Explained') => Bindings'
    BY <2>1, <2>4, <2>5 DEF Bindings
  <2>7. QED
    BY <1>2, <2>2, <2>3, <2>6, StatementPreserves
<1>11. ASSUME Case
       PROVE  IInv'
  <2> DEFINE t == switched[1].type
             ok == t # None /\ Satisfies(Top, t)
             number == {kInt, kBool, kExitCode, kFd, kUnit}
             error == t # None /\ Reports(Top, ok)
             wrong == IF ok /\ t \in number THEN IF t = kBool THEN MisreadBool("case", Top)
                                                 ELSE Misread("case", Top, t)
                      ELSE IF ok THEN {<<"case", t>>} ELSE {}
  <2>1. /\ switched # <<>> /\ crashed' = (t = None)
        /\ UNCHANGED <<types, holds, returns, switched>>
    BY <1>11 DEF Case
  <2>2. Statement(1, error, {}, wrong)
    BY <1>11 DEF Case
  <2>3. error \in BOOLEAN
    BY DEF Reports
  <2>4. crashed' \in BOOLEAN /\ (crashed' => Explained)
    BY <2>1 DEF Bindings
  <2> HIDE DEF error, wrong, t
  <2>5. (Explained \/ error => Explained') => Bindings'
    BY <2>1, <2>4 DEF Bindings
  <2>6. QED
    BY <1>2, <2>2, <2>3, <2>5, StatementPreserves
<1>12. ASSUME Return
       PROVE  IInv'
  <2> DEFINE t == UnambiguousDeduce(Top)
             ok == IF returns = None THEN t # None ELSE Satisfies(Top, returns)
             error == Reports(Top, ok)
             wrong == IF ok /\ returns # None THEN Misread("copy", Top, returns) ELSE {}
  <2>1. /\ Size = 1 /\ returns' = (IF returns = None THEN t ELSE returns)
        /\ UNCHANGED <<types, holds, switched, crashed>>
    BY <1>12 DEF Return
  <2>2. Statement(1, error, {}, wrong)
    BY <1>12 DEF Return
  <2>3. error \in BOOLEAN
    BY DEF Reports
  <2>4. t \in Type \cup {None}
    BY <1>1, <2>1, HeldTypes
  <2> HIDE DEF error, wrong, t
  <2>5. (Explained \/ error => Explained') => Bindings'
    BY <2>1, <2>4 DEF Bindings
  <2>6. QED
    BY <1>2, <2>2, <2>3, <2>5, StatementPreserves
<1>13. ASSUME ReturnNothing
       PROVE  IInv'
  <2> DEFINE error == returns \notin {None, kUnit}
  <2>1. Statement(0, error, {"return"}, {})
    BY <1>13 DEF ReturnNothing
  <2>2. /\ returns' = (IF returns = None THEN kUnit ELSE returns)
        /\ UNCHANGED <<types, holds, switched, crashed>>
    BY <1>13 DEF ReturnNothing
  <2>3. error \in BOOLEAN
    OBVIOUS
  <2> HIDE DEF error
  <2>4. (Explained \/ error => Explained') => Bindings'
    BY <2>2, TypeShapes DEF Bindings
  <2>5. QED
    BY <1>2, <2>1, <2>3, <2>4, StatementPreserves
<1>14. ASSUME NEW gaps, Line(gaps), gaps \subseteq Gaps, Bindings'
       PROVE  IInv'
  <2>1. UNCHANGED <<operands, errors, types, early, holds, returns, crashed>> /\ stuck' = gaps
    BY <1>14 DEF Line
  <2>2. TypeOK'
    BY <1>14, <2>1 DEF TypeOK, Bindings, Gaps, IInv
  <2>3. FailuresAreReported' /\ CrashesExplained'
    BY <1>14, <2>1 DEF FailuresAreReported, CrashesExplained, Explained, Bindings, Size, IInv
  <2>4. QED
    BY <1>14, <2>1, <2>2, <2>3 DEF IInv, Size
<1>15. ASSUME Default
       PROVE  IInv'
  <2> DEFINE gaps == IF switched[1].default THEN {"default"} ELSE {}
  <2>1. Line(gaps) /\ gaps \subseteq Gaps
    BY <1>15 DEF Default, Gaps
  <2>2. /\ UNCHANGED <<errors, types, early, holds, returns, crashed>> /\ switched # <<>>
        /\ switched' = [switched EXCEPT ![1].default = TRUE]
    BY <1>15 DEF Default, Line
  <2> HIDE DEF gaps
  <2>3. Bindings'
    <3> DEFINE Switches == [type : Type \cup {None}, default : BOOLEAN]
               new == [switched[1] EXCEPT !.default = TRUE]
    <3>1. switched \in Seq(Switches) /\ Len(switched) <= 1
      BY DEF Bindings
    <3>2. switched' = [switched EXCEPT ![1] = new]
      BY <2>2
    <3> HIDE DEF Switches
    <3>3. Len(switched) = 1
      <4>1. Len(switched) \in Nat
        BY <3>1, LenProperties
      <4>2. Len(switched) # 0
        BY <2>2, <3>1, EmptySeq
      <4>3. Len(switched) <= 1
        BY <3>1
      <4> DEFINE n == Len(switched)
      <4>4. n \in Nat /\ n # 0 /\ n <= 1
        BY <4>1, <4>2, <4>3
      <4> HIDE DEF n
      <4>5. n = 1
        BY <4>4
      <4>6. QED
        BY <4>5 DEF n
    <3>4. switched[1] \in Switches
      BY <3>1, <3>3
    <3>5. new \in Switches /\ new.type = switched[1].type
      BY <3>4 DEF Switches
    <3> HIDE DEF new
    <3>6. switched' \in Seq(Switches) /\ Len(switched') = 1 /\ switched'[1] = new
      BY <3>1, <3>2, <3>3, <3>5, ExceptSeq
    <3>7. QED
      BY <2>2, <3>5, <3>6 DEF Bindings, Explained, Switches
  <2>4. QED
    BY <1>14, <2>1, <2>3
<1>16. ASSUME EndSwitch
       PROVE  IInv'
  <2>1. Line({}) /\ switched' = <<>>
    BY <1>16 DEF EndSwitch
  <2>2. Bindings'
    BY <2>1 DEF Line, Bindings, Explained
  <2>3. QED
    BY <1>2, <1>14, <2>1, <2>2
<1>17. QED
  BY <1>3, <1>4, <1>5, <1>6, <1>7, <1>8, <1>9, <1>10, <1>11, <1>12, <1>13, <1>15, <1>16
     DEF CheckStatement

-----------------------------------------------------------------------------
\* At first nothing is bound and nothing pending.
LEMMA InitInv == Init => IInv
<1> SUFFICES ASSUME Init PROVE IInv
  OBVIOUS
<1>1. operands = <<>> /\ Size = 0 /\ operands \in Seq(OperandType)
  BY DEF Init, Size
<1>2. types = <<>> /\ holds = <<>> /\ DOMAIN types = {}
  BY DEF Init
<1>3. types \in [DOMAIN types -> Type \cup {None}] /\ holds \in [DOMAIN types -> Type \cup {None, Mixed}]
  BY <1>2
<1>4. switched = <<>> /\ switched \in Seq([type : Type \cup {None}, default : BOOLEAN])
      /\ Len(switched) <= 1
  BY DEF Init
<1>5. /\ returns \in Type \cup {None} /\ early = {}
      /\ errors \in BOOLEAN /\ crashed \in BOOLEAN /\ stuck = {}
  BY TypeShapes DEF Init
<1>6. TypeOK
  BY <1>1, <1>2, <1>3, <1>4, <1>5 DEF TypeOK
<1>7. QED
  BY <1>1, <1>2, <1>6 DEF Init, IInv, FailuresAreReported, CrashesExplained

\* Every step keeps the invariant.
LEMMA NextInv == IInv /\ [Next]_vars => IInv'
<1> SUFFICES ASSUME IInv, [Next]_vars PROVE IInv'
  OBVIOUS
<1>1. CASE Next
  BY <1>1, PrimaryPreserves, ConstructPreserves, CombinePreserves, CheckStatementPreserves DEF Next
<1>2. CASE UNCHANGED vars
  BY <1>2 DEF vars, IInv, TypeOK, FailuresAreReported, CrashesExplained, Explained, Size
<1>3. QED
  BY <1>1, <1>2

\* The invariant holds in every reachable state.
THEOREM TypingInv == Spec => []IInv
BY InitInv, NextInv, PTL DEF Spec

\* Every expression of a body has a type of the language, a failure or an empty
\* literal, whatever the functions and the length: the pointers and the casts of
\* DeduceResult and of TypeOfWhole are to what they say.
THEOREM TypingTypeOK == Spec => []TypeOK
<1>1. IInv => TypeOK
  BY DEF IInv
<1>2. QED
  BY <1>1, TypingInv, PTL

\* In any body, whatever fails has been reported, or the body has read a name
\* before its definition has a type: Pipeline stops after every other failure.
THEOREM NoSilentFailure == Spec => []FailuresAreReported
<1>1. IInv => FailuresAreReported
  BY DEF IInv
<1>2. QED
  BY <1>1, TypingInv, PTL

\* A null type is used only in a program with an error or one that reads a name
\* before its definition has a type, whatever its length.
THEOREM NullTypesExplained == Spec => []CrashesExplained
<1>1. IInv => CrashesExplained
  BY DEF IInv
<1>2. QED
  BY <1>1, TypingInv, PTL

\* For any functions, the rules of the checker leave the templates of the
\* generator no operand they have no case for.
THEOREM GeneratorHasCode == Spec => []AcceptedProgramsTranslate
<1>1. IInv => AcceptedProgramsTranslate
  BY DEF IInv, Gaps, AcceptedProgramsTranslate
<1>2. QED
  BY <1>1, TypingInv, PTL

-----------------------------------------------------------------------------
(***************************************************************************)
(* What the code reads is what it takes it for, but for the exceptions of  *)
(* OperandsFit.  This is about the rules again: what a step reads wrongly  *)
(* depends on the operands it uses only, and the checker has accepted them.*)
(***************************************************************************)
Numbers == {kInt, kBool, kExitCode, kFd, kUnit}

\* The misreadings that OperandsFit admits.
Fitting(wrong) ==
  \A m \in wrong \ KnownMisreadings : m[1] = "case" /\ m[2] \notin Numbers

\* The simple types are different types.
LEMMA TypesDiffer ==
  /\ kInt # kBool /\ kInt # kExitCode /\ kInt # kPath /\ kInt # kRelPath /\ kInt # kString
  /\ kInt # kChar /\ kBool # kExitCode /\ kBool # kPath /\ kBool # kRelPath
  /\ kExitCode # kPath /\ kExitCode # kRelPath /\ kPath # kRelPath
  /\ kString # kPath /\ kString # kRelPath /\ kString # kExitCode /\ kString # kBool
  /\ kChar # kPath /\ kChar # kRelPath /\ kChar # kExitCode /\ kChar # kBool
  /\ kFd # kBool /\ kFd # kPath /\ kUnit # kBool /\ kUnit # kPath
  BY DEF kInt, kBool, kUnit, kFd, kExitCode, kPath, kRelPath, kString, kChar

\* A number is read as what it is, whichever of the two number types it has.
LEMMA ReadAsItsOwn ==
  ASSUME NEW use, NEW o, NEW t,
         o.type = t \/ {o.type, t} \subseteq {kInt, kExitCode}
  PROVE  Misread(use, o, t) = {}
<1> SUFFICES ASSUME Sound(o) PROVE Same(o.holds, t)
  BY DEF Misread
<1>1. Same(o.holds, o.type)
  BY DEF Sound
<1>2. CASE o.type = t
  BY <1>1, <1>2
<1>3. CASE {o.type, t} \subseteq {kInt, kExitCode}
  <2>1. o.holds \in {kInt, kExitCode}
    BY <1>1, <1>3 DEF Same
  <2>2. QED
    BY <1>3, <2>1 DEF Same
<1>4. QED
  BY <1>2, <1>3

\* Where the checker accepts a value for another type, code that takes it as it
\* is misreads an exit code as a boolean or a relative path as a path only.
LEMMA AcceptedMisread ==
  ASSUME NEW use, NEW o, NEW t, Satisfies(o, t)
  PROVE  /\ Misread(use, o, t) \subseteq {<<use, kExitCode>>, <<use, kRelPath>>}
         /\ t \notin {kBool, kPath} => Misread(use, o, t) = {}
         /\ t = kBool => Misread(use, o, t) \subseteq {<<use, kExitCode>>}
         /\ t = kBool => MisreadBool(use, o) = {}
         /\ t = kPath => o.type \in {kPath, kRelPath} \/ Misread(use, o, t) = {}
<1>1. CASE ~Sound(o)
  BY <1>1 DEF Misread, MisreadBool
<1>2. CASE Sound(o)
  <2>1. ImplicitConvertible(o.type, t)
    BY <1>2 DEF Sound, Satisfies, SolveRequirement
  <2>2. CASE o.type = t \/ {o.type, t} \subseteq {kInt, kExitCode}
    <3>1. Misread(use, o, t) = {}
      BY <2>2, ReadAsItsOwn
    <3>2. QED
      BY <3>1 DEF MisreadBool
  <2>3. CASE o.type = kExitCode /\ t = kBool
    BY <2>3, TypesDiffer DEF Misread, MisreadBool
  <2>4. CASE o.type = kRelPath /\ t = kPath
    BY <2>4, TypesDiffer DEF Misread, MisreadBool
  <2>5. QED
    BY <2>1, <2>2, <2>3, <2>4 DEF ImplicitConvertible
<1>3. QED
  BY <1>1, <1>2

\* What is copied, and what an index is.
LEMMA CopiesFit ==
  ASSUME NEW o, NEW t, Satisfies(o, t)
  PROVE  Fitting(Misread("copy", o, t)) /\ Fitting(Misread("index", o, t))
<1>1. /\ Misread("copy", o, t) \subseteq {<<"copy", kExitCode>>, <<"copy", kRelPath>>}
      /\ Misread("index", o, t) \subseteq {<<"index", kExitCode>>, <<"index", kRelPath>>}
  BY AcceptedMisread
<1>2. QED
  BY <1>1 DEF Fitting, KnownMisreadings

\* The left operand is one of the types the operator has, or is converted to it.
LEMMA LeftTypes ==
  ASSUME NEW op \in Operator, NEW d, LeftType(op, d) # None
  PROVE  LET left == LeftType(op, d) IN
         /\ op \in {"Minus", "Mod"} => left = kInt /\ d.type \in {kInt, kExitCode}
         /\ op = "Logic" => left = kBool /\ Satisfies(d, kBool)
         /\ op \notin {"Minus", "Mod", "Logic"} => left = d.type
         /\ op = "Add" => d.type \in ArrayType \cup MapType \cup {kInt, kString}
         /\ op = "Mult" => d.type \in {kInt, kExitCode, kString}
         /\ op = "Div" => d.type \in {kInt, kExitCode, kPath, kRelPath}
         /\ op = "Order" => d.type \in {kChar, kInt, kExitCode, kString}
         /\ op = "Equal" => d.type \in SimpleType \cup ArrayType
<1> DEFINE left == LeftType(op, d)
<1>1. op \in {"Minus", "Mod"} => left = kInt /\ d.type \in {kInt, kExitCode}
  BY AcceptedTypes DEF LeftType
<1>2. op = "Logic" => left = kBool /\ Satisfies(d, kBool)
  BY DEF LeftType
<1>3. op = "Add" => left = d.type /\ d.type \in ArrayType \cup MapType \cup {kInt, kString}
  BY DEF LeftType, Addable
<1>4. op = "Equal" => left = d.type /\ d.type \in SimpleType \cup ArrayType
  BY DEF LeftType, EqualComparable
<1>5. \A ts : RequireOneOf(d, ts) # None => RequireOneOf(d, ts) = d.type
  BY DEF RequireOneOf
<1>6. op = "Mult" => left = d.type /\ d.type \in {kInt, kExitCode, kString}
  <2> SUFFICES ASSUME op = "Mult" PROVE left = d.type /\ d.type \in {kInt, kExitCode, kString}
    OBVIOUS
  <2>1. RequireOneOf(d, <<kInt, kString>>) # None /\ left = RequireOneOf(d, <<kInt, kString>>)
    BY DEF LeftType
  <2>2. Satisfies(d, kInt) \/ Satisfies(d, kString)
    BY <2>1, AcceptedByOne
  <2>3. QED
    BY <1>5, <2>1, <2>2, AcceptedTypes
<1>7. op = "Div" => left = d.type /\ d.type \in {kInt, kExitCode, kPath, kRelPath}
  <2> SUFFICES ASSUME op = "Div"
               PROVE  left = d.type /\ d.type \in {kInt, kExitCode, kPath, kRelPath}
    OBVIOUS
  <2>1. /\ RequireOneOf(d, <<kInt, kPath, kRelPath>>) # None
        /\ left = RequireOneOf(d, <<kInt, kPath, kRelPath>>)
    BY DEF LeftType
  <2>2. Satisfies(d, kInt) \/ Satisfies(d, kPath) \/ Satisfies(d, kRelPath)
    BY <2>1, AcceptedByOne
  <2>3. QED
    BY <1>5, <2>1, <2>2, AcceptedTypes
<1>8. op = "Order" => left = d.type /\ d.type \in {kChar, kInt, kExitCode, kString}
  <2> SUFFICES ASSUME op = "Order"
               PROVE  left = d.type /\ d.type \in {kChar, kInt, kExitCode, kString}
    OBVIOUS
  <2>1. /\ RequireOneOf(d, <<kChar, kInt, kString>>) # None
        /\ left = RequireOneOf(d, <<kChar, kInt, kString>>)
    BY DEF LeftType
  <2>2. Satisfies(d, kChar) \/ Satisfies(d, kInt) \/ Satisfies(d, kString)
    BY <2>1, AcceptedByOne
  <2>3. QED
    BY <1>5, <2>1, <2>2, AcceptedTypes
<1>9. QED
  BY <1>1, <1>2, <1>3, <1>4, <1>6, <1>7, <1>8 DEF Operator

\* The operands of an operator: numbers are read as numbers, relative paths where
\* paths are read, and exit codes are converted to booleans.
LEMMA OperatorsFit ==
  ASSUME NEW op \in Operator, NEW a, NEW b, LeftType(op, a) # None,
         Satisfies(b, RightType(op, LeftType(op, a)))
  PROVE  Fitting(ReadAs(op, a, Reads(op, a.type)) \cup ReadAs(op, b, Reads(op, a.type)))
<1> DEFINE reads == Reads(op, a.type)
           left == LeftType(op, a)
           wrong == ReadAs(op, a, reads) \cup ReadAs(op, b, reads)
<1>1. \A o, t : op # "Logic" => ReadAs(op, o, t) \in {{}, Misread(op, o, t)}
  BY Zenon DEF ReadAs
<1>2. \A o : op = "Logic" => ReadAs(op, o, reads) = MisreadBool(op, o)
  BY Zenon DEF ReadAs
<1>3. op # "Logic" /\ a.type \in {kInt, kExitCode} => reads = kInt
  BY DEF Reads
<1>4. a.type \in {kInt, kExitCode} /\ op # "Logic" => ReadAs(op, a, reads) = {}
  BY <1>1, <1>3, ReadAsItsOwn
<1>5. op # "Logic" /\ reads = a.type => ReadAs(op, a, reads) = {}
  BY <1>1, ReadAsItsOwn
<1>6. CASE op = "Logic"
  <2>1. left = kBool /\ Satisfies(a, kBool)
    BY <1>6, LeftTypes
  <2>2. RightType(op, left) = kBool
    BY <1>6, <2>1, Zenon DEF RightType
  <2>3. Satisfies(b, kBool)
    BY <2>2
  <2>4. wrong = {}
    BY <1>2, <1>6, <2>1, <2>3, AcceptedMisread
  <2>5. QED
    BY <2>4 DEF Fitting
<1>7. CASE op \in {"Minus", "Mod"}
  <2>1. left = kInt /\ a.type \in {kInt, kExitCode}
    BY <1>7, LeftTypes
  <2>2. RightType(op, left) = kInt
    BY <1>7, Zenon DEF RightType
  <2>3. Misread(op, b, kInt) = {}
    BY <2>2, AcceptedMisread, TypesDiffer
  <2>4. wrong = {}
    BY <1>1, <1>3, <1>4, <1>7, <2>1, <2>3
  <2>5. QED
    BY <2>4 DEF Fitting
<1>8. CASE op = "Add"
  <2>1. left = a.type /\ a.type \in ArrayType \cup MapType \cup {kInt, kString}
    BY <1>8, LeftTypes
  <2>2. RightType(op, left) = a.type
    BY <1>8, <2>1, Zenon DEF RightType
  <2>3. reads = a.type
    <3>1. kExitCode \notin ArrayType \cup MapType \cup {kInt, kString}
      BY DEF ArrayType, MapType, Array, Map, kExitCode, kInt, kString
    <3>2. a.type = kInt \/ a.type \in Cases(op)
      BY <1>8, <2>1 DEF Cases
    <3>3. a.type = kInt \/ a.type \notin {kInt, kExitCode}
      BY <2>1, <3>1
    <3>4. QED
      BY <1>8, <3>2, <3>3 DEF Reads
  <2>4. a.type \notin {kBool, kPath}
    BY <2>1, TypesDiffer DEF ArrayType, MapType, Array, Map, kBool, kPath
  <2>5. Misread(op, b, a.type) = {}
    BY <2>2, <2>4, AcceptedMisread
  <2>6. wrong = {}
    BY <1>1, <1>5, <1>8, <2>3, <2>5
  <2>7. QED
    BY <2>6 DEF Fitting
<1>9. CASE op = "Mult"
  <2>1. left = a.type /\ a.type \in {kInt, kExitCode, kString}
    BY <1>9, LeftTypes
  <2>2. RightType(op, left) = kInt
    BY <1>9, Zenon DEF RightType
  <2>3. reads = kInt
    BY <1>9, <2>1 DEF Reads
  <2>4. ReadAs(op, b, reads) = {}
    <3>1. Misread(op, b, kInt) = {}
      BY <2>2, AcceptedMisread, TypesDiffer
    <3>2. QED
      BY <1>1, <1>9, <2>3, <3>1
  <2>5. CASE a.type = kString
    <3>1. Misread(op, a, kInt) \subseteq {<<"Mult", kString>>}
      BY <1>9, <2>5 DEF Misread
    <3>2. wrong \subseteq {<<"Mult", kString>>}
      BY <1>1, <1>9, <2>3, <2>4, <3>1
    <3>3. QED
      BY <3>2 DEF Fitting, KnownMisreadings
  <2>6. CASE a.type \in {kInt, kExitCode}
    BY <1>4, <1>9, <2>4, <2>6 DEF Fitting
  <2>7. QED
    BY <2>1, <2>5, <2>6
<1>10. CASE op = "Div"
  <2>1. left = a.type /\ a.type \in {kInt, kExitCode, kPath, kRelPath}
    BY <1>10, LeftTypes
  <2>2. RightType(op, left) = IF a.type = kInt THEN kInt ELSE kRelPath
    BY <1>10, <2>1, Zenon DEF RightType
  <2>3. CASE a.type \in {kPath, kRelPath}
    <3>1. b.type = kRelPath /\ a.type # kInt
      BY <2>2, <2>3, AcceptedTypes, TypesDiffer
    <3>2. reads = a.type
      BY <1>10, <2>3, TypesDiffer DEF Reads, Cases
    <3>3. ReadAs(op, a, reads) = {} /\ ReadAs(op, b, reads) = {}
      BY <1>10, <2>3, <3>1, <3>2, Zenon DEF ReadAs
    <3>4. QED
      BY <3>3 DEF Fitting
  <2>4. CASE a.type = kInt
    <3>1. Misread(op, b, kInt) = {}
      BY <2>2, <2>4, AcceptedMisread, TypesDiffer
    <3>2. wrong = {}
      BY <1>1, <1>3, <1>4, <1>10, <2>4, <3>1
    <3>3. QED
      BY <3>2 DEF Fitting
  <2>5. CASE a.type = kExitCode
    <3>1. b.type = kRelPath
      BY <2>2, <2>5, AcceptedTypes, TypesDiffer
    <3>2. Misread(op, b, kInt) \subseteq {<<"Div", kRelPath>>}
      BY <1>10, <3>1 DEF Misread
    <3>3. wrong \subseteq {<<"Div", kRelPath>>}
      BY <1>1, <1>3, <1>4, <1>10, <2>5, <3>2
    <3>4. QED
      BY <3>3 DEF Fitting, KnownMisreadings
  <2>6. QED
    BY <2>1, <2>3, <2>4, <2>5
<1>11. CASE op \in {"Order", "Equal"}
  <2>1. /\ left = a.type
        /\ op = "Order" => a.type \in {kChar, kInt, kExitCode, kString}
        /\ op = "Equal" => a.type \in SimpleType \cup ArrayType
    BY <1>11, LeftTypes
  <2>2. RightType(op, left) = a.type
    BY <1>11, <2>1, Zenon DEF RightType
  <2>3. Satisfies(b, a.type)
    BY <2>2
  <2>4. CASE a.type \in {kInt, kExitCode}
    <3>1. reads = kInt /\ ReadAs(op, a, reads) = {}
      BY <1>3, <1>4, <1>11, <2>4
    <3>2. Misread(op, b, kInt) = {}
      <4>1. CASE Sound(b)
        <5>1. ImplicitConvertible(b.type, a.type)
          BY <2>3, <4>1 DEF Sound, Satisfies, SolveRequirement
        <5>2. {b.type, kInt} \subseteq {kInt, kExitCode}
          BY <2>4, <5>1, TypesDiffer DEF ImplicitConvertible
        <5>3. QED
          BY <5>2, ReadAsItsOwn
      <4>2. CASE ~Sound(b)
        BY <4>2 DEF Misread
      <4>3. QED
        BY <4>1, <4>2
    <3>3. wrong = {}
      BY <1>1, <1>11, <3>1, <3>2
    <3>4. QED
      BY <3>3 DEF Fitting
  <2>5. CASE a.type \notin {kInt, kExitCode}
    <3>1. reads = a.type
      <4>1. a.type \in Cases(op) /\ op # "Mult" /\ op # "Logic"
        BY <1>11, <2>1, <2>5 DEF Cases
      <4>2. QED
        BY <2>5, <4>1 DEF Reads
    <3>2. ReadAs(op, a, reads) = {}
      BY <1>5, <1>11, <3>1
    <3>3. CASE a.type = kBool
      <4>1. op = "Equal"
        BY <1>11, <2>1, <3>3, TypesDiffer
      <4>2. Misread(op, b, kBool) \subseteq {<<"Equal", kExitCode>>}
        BY <2>3, <3>3, <4>1, AcceptedMisread
      <4>3. wrong \subseteq {<<"Equal", kExitCode>>}
        BY <1>1, <1>11, <3>1, <3>2, <3>3, <4>2
      <4>4. QED
        BY <4>3 DEF Fitting, KnownMisreadings
    <3>4. CASE a.type = kPath
      <4>1. CASE b.type \in {kPath, kRelPath}
        <5>1. ReadAs(op, b, reads) = {}
          BY <1>11, <3>1, <3>4, <4>1, Zenon DEF ReadAs
        <5>2. QED
          BY <3>2, <5>1 DEF Fitting
      <4>2. CASE b.type \notin {kPath, kRelPath}
        <5>1. Misread(op, b, kPath) = {}
          BY <2>3, <3>4, <4>2, AcceptedMisread
        <5>2. wrong = {}
          BY <1>1, <1>11, <3>1, <3>2, <3>4, <5>1
        <5>3. QED
          BY <5>2 DEF Fitting
      <4>3. QED
        BY <4>1, <4>2
    <3>5. CASE a.type \notin {kBool, kPath}
      <4>1. Misread(op, b, a.type) = {}
        BY <2>3, <3>5, AcceptedMisread
      <4>2. wrong = {}
        BY <1>1, <1>11, <3>1, <3>2, <4>1
      <4>3. QED
        BY <4>2 DEF Fitting
    <3>6. QED
      BY <3>3, <3>4, <3>5
  <2>6. QED
    BY <2>4, <2>5
<1>12. QED
  BY <1>6, <1>7, <1>8, <1>9, <1>10, <1>11 DEF Operator

MisreadingsFit == Fitting(misread)

\* Every step reads its operands as what they are, but for the exceptions; a step
\* that fails reads nothing.
LEMMA StepsFit == Next => Fitting(misread')
<1>1. Fitting({})
  BY DEF Fitting
<1>2. ASSUME NEW n, NEW new, NEW error, NEW gaps, NEW wrong, Use(n, new, error, gaps, wrong),
             Fitting(wrong)
      PROVE  Fitting(misread')
  BY <1>2 DEF Use
<1>3. ASSUME NEW n, NEW new, NEW error, NEW gaps, NEW wrong,
             Expression(n, new, error, gaps, wrong), Fitting(wrong)
      PROVE  Fitting(misread')
  BY <1>2, <1>3 DEF Expression
<1>4. ASSUME NEW o, Push(o) PROVE Fitting(misread')
  BY <1>1, <1>3, <1>4 DEF Push
<1>5. ASSUME NEW opens, NEW ok, NEW new, NEW wrong, Part(opens, ok, new, wrong),
             ok => Fitting(wrong)
      PROVE  Fitting(misread')
  <2>1. Fitting(IF ok THEN wrong ELSE {})
    BY <1>1, <1>5
  <2>2. QED
    BY <1>3, <1>5, <2>1 DEF Part
<1>6. ASSUME NEW n, NEW error, NEW gaps, NEW wrong, Statement(n, error, gaps, wrong),
             Fitting(wrong)
      PROVE  Fitting(misread')
  BY <1>2, <1>6 DEF Statement
<1>7. ASSUME Primary PROVE Fitting(misread')
  BY <1>1, <1>2, <1>3, <1>4, <1>7
     DEF Primary, Literal, Text, Variable, Early, FunctionName, Call, Command, EmptyLiteral,
         BadCall
<1>8. ASSUME Construct PROVE Fitting(misread')
  <2>1. ASSUME Interpolate PROVE Fitting(misread')
    BY <1>1, <1>5, <2>1 DEF Interpolate
  <2>2. ASSUME FirstElement PROVE Fitting(misread')
    BY <1>1, <1>5, <2>2 DEF FirstElement
  <2>3. ASSUME FirstKey PROVE Fitting(misread')
    BY <1>1, <1>5, <2>3 DEF FirstKey
  <2>4. ASSUME FirstValue PROVE Fitting(misread')
    BY <1>1, <1>5, <2>4 DEF FirstValue
  <2>5. ASSUME NextElement PROVE Fitting(misread')
    <3> DEFINE t == ElementType(Under.type)
    <3>1. Satisfies(Top, t) => Fitting(Misread("copy", Top, t))
      BY CopiesFit
    <3>2. QED
      BY <1>5, <2>5, <3>1 DEF NextElement
  <2>6. ASSUME NextKey PROVE Fitting(misread')
    <3> DEFINE t == IndexType(Under.type)
    <3>1. Satisfies(Top, t) => Fitting(Misread("copy", Top, t))
      BY CopiesFit
    <3>2. QED
      BY <1>5, <2>6, <3>1 DEF NextKey
  <2>7. ASSUME NextValue PROVE Fitting(misread')
    <3> DEFINE t == ElementType(Under.type)
    <3>1. Satisfies(Top, t) => Fitting(Misread("copy", Top, t))
      BY CopiesFit
    <3>2. QED
      BY <1>5, <2>7, <3>1 DEF NextValue
  <2>8. ASSUME Close PROVE Fitting(misread')
    BY <1>1, <1>3, <2>8 DEF Close
  <2>9. ASSUME Parameter PROVE Fitting(misread')
    <3> DEFINE t == Params[Under.type[2]][Under.open[2]]
    <3>1. Satisfies(Top, t) => Fitting(Misread("copy", Top, t))
      BY CopiesFit
    <3>2. QED
      BY <1>5, <2>9, <3>1 DEF Parameter
  <2>10. QED
    BY <1>8, <2>1, <2>2, <2>3, <2>4, <2>5, <2>6, <2>7, <2>8, <2>9 DEF Construct
<1>9. ASSUME Combine PROVE Fitting(misread')
  <2>1. ASSUME NEW op \in Operator, Binary(op) PROVE Fitting(misread')
    <3> DEFINE left == LeftType(op, Under)
               good == left # None /\ Satisfies(Top, RightType(op, left))
               reads == Reads(op, Under.type)
               wrong == IF good THEN ReadAs(op, Under, reads) \cup ReadAs(op, Top, reads) ELSE {}
    <3>1. Fitting(wrong)
      <4>1. CASE good
        <5>1. Fitting(ReadAs(op, Under, reads) \cup ReadAs(op, Top, reads))
          BY <4>1, OperatorsFit
        <5>2. QED
          BY <4>1, <5>1
      <4>2. CASE ~good
        BY <1>1, <4>2
      <4>3. QED
        BY <4>1, <4>2
    <3>2. misread' = wrong
      BY <2>1 DEF Binary, Expression, Use
    <3>3. QED
      BY <3>1, <3>2
  <2>2. ASSUME Negate PROVE Fitting(misread')
    <3>1. Satisfies(Top, kBool) => MisreadBool("not", Top) = {}
      BY AcceptedMisread
    <3>2. misread' = {}
      BY <2>2, <3>1 DEF Negate, Expression, Use
    <3>3. QED
      BY <1>1, <3>2
  <2>3. ASSUME PosNeg PROVE Fitting(misread')
    <3>1. Satisfies(Top, kInt) => Misread("sign", Top, kInt) = {}
      BY AcceptedMisread, TypesDiffer
    <3>2. misread' = {}
      BY <2>3, <3>1 DEF PosNeg, Expression, Use
    <3>3. QED
      BY <1>1, <3>2
  <2>4. ASSUME Indexing PROVE Fitting(misread')
    <3> DEFINE t == UnambiguousDeduce(Under)
               ok == ElementType(t) # None /\ Satisfies(Top, IndexType(t))
               wrong == IF ok THEN Misread("index", Top, IndexType(t)) ELSE {}
    <3>1. Fitting(wrong)
      BY <1>1, CopiesFit
    <3>2. misread' = wrong
      BY <2>4 DEF Indexing, Expression, Use
    <3>3. QED
      BY <3>1, <3>2
  <2>5. ASSUME NEW accepts, Redirect(accepts) PROVE Fitting(misread')
    BY <1>1, <1>3, <2>5 DEF Redirect
  <2>6. ASSUME RedirectToHere PROVE Fitting(misread')
    BY <1>1, <1>3, <2>6 DEF RedirectToHere
  <2>7. ASSUME Pipe PROVE Fitting(misread')
    BY <1>1, <1>3, <2>7 DEF Pipe
  <2>8. QED
    BY <1>9, <2>1, <2>2, <2>3, <2>4, <2>5, <2>6, <2>7 DEF Combine
<1>10. ASSUME CheckStatement PROVE Fitting(misread')
  <2>1. ASSUME NEW n, VariableDef(n) \/ ForRange(n) PROVE Fitting(misread')
    BY <1>1, <1>6, <2>1 DEF VariableDef, ForRange
  <2>2. ASSUME NEW n, NEW t, DefineParameter(n, t) PROVE Fitting(misread')
    BY <1>1, <1>6, <2>2 DEF DefineParameter
  <2>3. ASSUME NEW n, NEW t, DeclaredVariableDef(n, t) PROVE Fitting(misread')
    <3> DEFINE wrong == IF Satisfies(Top, t) THEN Misread("copy", Top, t) ELSE {}
    <3>1. Fitting(wrong)
      BY <1>1, CopiesFit
    <3>2. misread' = wrong
      BY <2>3 DEF DeclaredVariableDef, Statement, Use
    <3>3. QED
      BY <3>1, <3>2
  <2>4. ASSUME Assignment PROVE Fitting(misread')
    <3> DEFINE t == UnambiguousDeduce(Under)
               wrong == IF Under.root # NoName /\ Satisfies(Top, t)
                        THEN Misread("copy", Top, t) ELSE {}
    <3>1. Fitting(wrong)
      BY <1>1, CopiesFit
    <3>2. misread' = wrong
      BY <2>4 DEF Assignment, Statement, Use
    <3>3. QED
      BY <3>1, <3>2
  <2>5. ASSUME Condition PROVE Fitting(misread')
    <3>1. Satisfies(Top, kBool) => MisreadBool("if", Top) = {}
      BY AcceptedMisread
    <3>2. misread' = {}
      BY <2>5, <3>1 DEF Condition, Statement, Use
    <3>3. QED
      BY <1>1, <3>2
  <2>6. ASSUME Case PROVE Fitting(misread')
    <3> DEFINE t == switched[1].type
               ok == t # None /\ Satisfies(Top, t)
               wrong == IF ok /\ t \in Numbers
                        THEN IF t = kBool THEN MisreadBool("case", Top)
                             ELSE Misread("case", Top, t)
                        ELSE IF ok THEN {<<"case", t>>} ELSE {}
    <3>1. ok /\ t = kBool => MisreadBool("case", Top) = {}
      BY AcceptedMisread
    <3>2. ok /\ t \in Numbers /\ t # kBool => Misread("case", Top, t) = {}
      <4>1. t \in Numbers => t # kPath
        BY TypesDiffer DEF Numbers
      <4>2. QED
        BY <4>1, AcceptedMisread
    <3>3. t \notin Numbers => Fitting({<<"case", t>>})
      BY DEF Fitting
    <3>4. Fitting(wrong)
      BY <1>1, <3>1, <3>2, <3>3
    <3>5. misread' = wrong
      BY <2>6 DEF Case, Statement, Use, Numbers
    <3>6. QED
      BY <3>4, <3>5
  <2>7. ASSUME Return PROVE Fitting(misread')
    <3> DEFINE ok == IF returns = None THEN UnambiguousDeduce(Top) # None
                     ELSE Satisfies(Top, returns)
               wrong == IF ok /\ returns # None THEN Misread("copy", Top, returns) ELSE {}
    <3>1. Fitting(wrong)
      BY <1>1, CopiesFit
    <3>2. misread' = wrong
      BY <2>7 DEF Return, Statement, Use
    <3>3. QED
      BY <3>1, <3>2
  <2>8. ASSUME ExpressionStatement \/ Switch \/ ReturnNothing PROVE Fitting(misread')
    BY <1>1, <1>6, <2>8 DEF ExpressionStatement, Switch, ReturnNothing
  <2>9. ASSUME Default \/ EndSwitch PROVE Fitting(misread')
    BY <1>1, <2>9 DEF Default, EndSwitch, Line
  <2>10. QED
    BY <1>10, <2>1, <2>2, <2>3, <2>4, <2>5, <2>6, <2>7, <2>8, <2>9 DEF CheckStatement
<1>11. QED
  BY <1>7, <1>8, <1>9, <1>10 DEF Next

\* Whatever the functions and the element types: where the checker lets a type
\* pass for another, the templates of the generator read the value as it is, but
\* for the exceptions that are listed.
THEOREM OperandsAlwaysFit == Spec => []OperandsFit
<1>1. Init => MisreadingsFit
  BY DEF Init, MisreadingsFit, Fitting
<1>2. MisreadingsFit /\ [Next]_vars => MisreadingsFit'
  BY StepsFit DEF vars, MisreadingsFit
<1>3. MisreadingsFit => OperandsFit
  BY DEF MisreadingsFit, Fitting, OperandsFit, Numbers
<1>4. QED
  BY <1>1, <1>2, <1>3, PTL DEF Spec
=============================================================================
