------------------------------- MODULE Types -------------------------------
(***************************************************************************)
(* The types of sushiscript, what deducing the type of an expression can   *)
(* give, and the requirements the expression around it puts on the result. *)
(*                                                                         *)
(* A type is a tuple: <<"Int">> is simple, <<"Array", "Int">> an array,    *)
(* <<"Map", "Int", "Bool">> a map and <<"Function", f>> the type of the    *)
(* function f, two functions of the same type having the same name.        *)
(***************************************************************************)
EXTENDS Integers, Sequences

CONSTANTS
  Function,    \* the types of function in scope
  Params,      \* the types of the parameters of each, never none
  ResultType   \* the type each returns

Simple ==
  {"Int", "Bool", "Unit", "Fd", "ExitCode", "Path", "RelPath", "String", "Char"}

kInt == <<"Int">>
kBool == <<"Bool">>
kUnit == <<"Unit">>
kFd == <<"Fd">>
kExitCode == <<"ExitCode">>
kPath == <<"Path">>
kRelPath == <<"RelPath">>
kString == <<"String">>
kChar == <<"Char">>

Array(t) == <<"Array", t>>
Map(k, v) == <<"Map", k, v>>

SimpleType == {<<s>> : s \in Simple}
ArrayType == {Array(s) : s \in Simple}
MapType == {Map(k, v) : k, v \in Simple}
FunctionType == {<<"Function", f>> : f \in Function}
Type == SimpleType \cup ArrayType \cup MapType \cup FunctionType

\* A null pointer to a type.
None == <<>>

ASSUME FunctionsAssumption ==
  /\ Params \in [Function -> Seq(Type) \ {<<>>}]
  /\ ResultType \in [Function -> Type]

ImplicitConvertible(from, to) ==
  \/ from = to
  \/ from = kExitCode /\ to \in {kBool, kInt}
  \/ from = kRelPath /\ to = kPath

-----------------------------------------------------------------------------
(***************************************************************************)
(* DeduceResult: a type; or an empty literal, an array or a map of any     *)
(* type; or a failure.                                                     *)
(***************************************************************************)
Deduced(t) == [type |-> t, empty |-> FALSE, fail |-> FALSE]
EmptyArray == [type |-> None, empty |-> TRUE, fail |-> FALSE]
Fail == [type |-> None, empty |-> FALSE, fail |-> TRUE]

\* The type the expression has when t is required of it, None when it cannot
\* have it.  A conversion leaves it the type it had.
SolveRequirement(d, t) ==
  IF d.fail THEN None
  ELSE IF d.empty THEN IF t \in ArrayType \cup MapType THEN t ELSE None
  ELSE IF ImplicitConvertible(d.type, t) THEN d.type ELSE None

Satisfies(d, t) == SolveRequirement(d, t) # None

\* One of the types of ts; to be convertible to two of them is ambiguous, unless
\* the type itself comes before the second.
RequireOneOf(d, ts) ==
  LET Accepts(i) == Satisfies(d, ts[i])
      ambiguous ==
        \E i, j \in DOMAIN ts :
          i < j /\ Accepts(i) /\ Accepts(j) /\ \A k \in 1..j : ts[k] # d.type
  IN IF (\E i \in DOMAIN ts : Accepts(i)) /\ ~ambiguous THEN d.type ELSE None

UnambiguousDeduce(d) == IF d.fail \/ d.empty THEN None ELSE d.type

Interpolatable == <<kChar, kInt, kString, kPath, kRelPath>>
FromRedirAccepts == <<kPath, kRelPath>>
ToRedirAccepts == <<kPath, kRelPath, kFd>>

-----------------------------------------------------------------------------
(***************************************************************************)
(* The binary operators: the type the left operand has if it can be one,   *)
(* what is then required of the right operand, and the type of the whole.  *)
(***************************************************************************)
Operator == {"Add", "Minus", "Mult", "Div", "Mod", "Order", "Equal", "Logic"}

Addable(d) ==
  IF d.type \in ArrayType \cup MapType \cup {kInt, kString} THEN d.type ELSE None

\* A mutant: maps can be compared like arrays.
EqualComparable_Maps(d) ==
  IF d.type \in SimpleType \cup ArrayType \cup MapType THEN d.type ELSE None

EqualComparable(d) == IF d.type \in SimpleType \cup ArrayType THEN d.type ELSE None

LeftType(op, d) ==
  IF op = "Add" THEN Addable(d)
  ELSE IF op = "Mult" THEN RequireOneOf(d, <<kInt, kString>>)
  ELSE IF op = "Div" THEN RequireOneOf(d, <<kInt, kPath, kRelPath>>)
  ELSE IF op = "Order" THEN RequireOneOf(d, <<kChar, kInt, kString>>)
  ELSE IF op = "Equal" THEN EqualComparable(d)
  ELSE LET t == IF op = "Logic" THEN kBool ELSE kInt
       IN IF Satisfies(d, t) THEN t ELSE None

RightType(op, left) ==
  CASE op \in {"Add", "Order", "Equal", "Logic"} -> left
    [] op \in {"Minus", "Mod", "Mult"} -> kInt
    [] op = "Div" -> IF left = kInt THEN kInt ELSE kRelPath

TypeOfWhole(op, left) ==
  IF op \in {"Order", "Equal", "Logic"} THEN kBool ELSE left

\* A mutant: an index selects a key of a map with its value.
ElementType_Pair(t) ==
  IF t \in ArrayType THEN <<t[2]>>
  ELSE IF t \in MapType THEN <<t[2], t[3]>>
  ELSE IF t = kString THEN kChar
  ELSE None

\* The type of the element an index selects, and what the index has to be.
IndexType(t) == IF t \in MapType THEN <<t[2]>> ELSE kInt
ElementType(t) ==
  IF t \in ArrayType THEN <<t[2]>>
  ELSE IF t \in MapType THEN <<t[3]>>
  ELSE IF t = kString THEN kChar
  ELSE None
=============================================================================
