------------------------------- MODULE Typing -------------------------------
(***************************************************************************)
(* The body of a function, expression by expression and statement by       *)
(* statement: the type that type::Check deduces for each expression, and   *)
(* what the text CodeGenerator writes for it holds when the script runs.   *)
(*                                                                         *)
(* Both visitors recurse over the same tree, and both need of a            *)
(* subexpression only what its visit left behind: the DeduceResult, and    *)
(* val.  So the model keeps these two of every expression that is visited  *)
(* and not yet used, on a stack, whatever the tree that produced them.     *)
(*                                                                         *)
(* The generator runs only when the checker found no error.  Its part of a *)
(* step says nothing about a program with errors, nor about one that reads *)
(* a name before its definition has a type (early): that fails, and no     *)
(* error is reported.                                                      *)
(***************************************************************************)
EXTENDS Types

CONSTANTS
  Name,        \* the variables of the function
  Untyped,     \* the functions that have no type before their bodies are visited
  NoName,      \* what an expression that is no lvalue denotes
  Element,     \* bound on the types of the elements of arrays and maps
  MaxStatements, \* bound on the length of the body
  MaxOperands, \* bound on the expressions waiting to be used
  MaxStages    \* bound on the length of a pipeline

ASSUME TypingAssumption ==
  /\ NoName \notin Name \cup Function \cup Untyped
  /\ Function \cap Name = {} /\ Untyped \cap (Name \cup Function) = {}
  /\ Element \subseteq Simple
  /\ MaxStatements \in Nat /\ MaxOperands \in Nat /\ MaxStages \in Nat

VARIABLES
  statements,  \* how many have been visited
  operands,    \* the expressions visited and not yet used, the last one on top
  types,       \* State::bindings, None for a definition that has no type
  early,       \* the names that were read before their definitions had a type
  holds,       \* what the bash variable of each holds
  returns,     \* State::return_type
  switched,    \* the type of the expression of the switch, and its defaults
  errors,      \* State::errors is not empty
  crashed,     \* the checker went through a null pointer
  stuck,       \* the constructs the generator has no code for in this step
  misread      \* what it writes code for that reads a value as it is not

vars ==
  <<statements, operands, types, early, holds, returns, switched, errors, crashed, stuck, misread>>

-----------------------------------------------------------------------------
(***************************************************************************)
(* An operand: what Deduce returned (type, empty, fail); the type of value *)
(* val expands to (holds); the variable at the root of an lvalue (root);   *)
(* what is still missing of a literal or a call (open); the stages of a    *)
(* pipeline (stages), and whether the last redirects its output to here.   *)
(***************************************************************************)
Operand(d, h) ==
  [type |-> d.type, empty |-> d.empty, fail |-> d.fail, holds |-> h,
   root |-> NoName, open |-> <<>>, stages |-> <<>>, here |-> FALSE]

Open ==
  {<<>>, <<"text">>, <<"literal">>, <<"array">>, <<"map">>}
    \cup ({"value"} \X Simple) \cup ({"call"} \X Nat)

\* A value that has no type: some of it converted and some not, or a wrong one.
Mixed == <<"Mixed">>

Value(t) == Operand(Deduced(t), t)
Result(d) == Operand(d, d.type)
Or(condition, d) == IF condition THEN d ELSE Fail

\* Exit codes are numbers; no other type holds its values as another does.
Same(h, t) == h = t \/ {h, t} = {kInt, kExitCode}
Sound(o) == ~o.fail /\ ~o.empty /\ Same(o.holds, o.type)

\* What is wrong with code that takes the value of o for a t.
Misread(use, o, t) ==
  IF Sound(o) /\ ~Same(o.holds, t) THEN {<<use, o.type>>} ELSE {}

\* A mutant: the exit code is taken for the boolean as it is.
MisreadBool_Unconverted(use, o) == Misread(use, o, kBool)

\* The same where the generator turns an exit code into a boolean.
MisreadBool(use, o) == IF o.type = kExitCode THEN {} ELSE Misread(use, o, kBool)

Size == Len(operands)
Top == operands[Size]
Under == operands[Size - 1]
Closed(o) == o.open = <<>>
Ready(n) == Size >= n /\ Closed(Top)

Running == ~crashed /\ stuck = {}

\* The type recorded for a pipeline is that of its head.  The generator looks
\* up the type of the last of three or more when it is a call.
LongPipe(o) ==
  LET n == Len(o.stages) IN n > 2 /\ o.stages[n] = "call" /\ ~o.here

\* The last n operands are used and new takes their place; gaps and wrong are
\* what the generator makes of it.
Use(n, new, error, gaps, wrong) ==
  /\ Running
  /\ operands' = SubSeq(operands, 1, Size - n) \o new
  /\ errors' = (errors \/ error)
  /\ stuck' = gaps \cup
       (IF \E i \in (Size - n + 1)..Size : LongPipe(operands[i]) THEN {"pipe"} ELSE {})
  /\ misread' = wrong

Expression(n, new, error, gaps, wrong) ==
  /\ Use(n, <<new>>, error, gaps, wrong)
  /\ UNCHANGED <<statements, types, early, holds, returns, switched, crashed>>

\* A visit that begins, when there is room for what it leaves; there always is
\* for a parameter of a call in a pipeline.
Calling(o) == o.type \in FunctionType /\ ~Closed(o)
CommandLike(o) == Closed(o) /\ o.stages # <<>>
Room ==
  /\ statements < MaxStatements
  /\ Size < MaxOperands \/ (Size = MaxOperands /\ Calling(Top) /\ CommandLike(Under))
Push(o) == Room /\ Expression(0, o, FALSE, {}, {})

\* A mutant: an empty literal that cannot have a type is not reported.
Reports_NotEmpty(d, ok) == ~d.fail /\ ~d.empty /\ ~ok

\* A failure has been reported; only a result that does not fit is.
Reports(d, ok) == ~d.fail /\ ~ok

-----------------------------------------------------------------------------
(***************************************************************************)
(* Literals, variables and the arguments of commands.  A literal fails     *)
(* with its first bad part; the code goes on to report more errors.        *)
(***************************************************************************)
Literal(t) == t \in {kInt, kChar, kBool, kUnit, kFd} /\ Push(Value(t))

\* A variable that was defined but got no type fails silently.
Variable(n) ==
  /\ n \in DOMAIN types
  /\ Push([Operand(Or(types[n] # None, Deduced(types[n])), holds[n]) EXCEPT !.root = n])

\* The scopes are finished, and so a name is found in the innermost one around it
\* though the definition there comes later in the body, or is the very one that
\* is visited.  There is no type yet: a failure that nothing reports.
Early(n) ==
  /\ n \in (Name \ DOMAIN types) \cup Untyped /\ Room
  /\ Use(0, <<[Result(Fail) EXCEPT !.root = n]>>, FALSE, {}, {})
  /\ early' = early \cup {n}
  /\ UNCHANGED <<statements, types, holds, returns, switched, crashed>>

FunctionName(f) == Push([Value(<<"Function", f>>) EXCEPT !.root = f])

\* A string, a path or a command, before what is interpolated in it.
Text(t) == t \in {kString, kPath, kRelPath} /\ Push([Value(t) EXCEPT !.open = <<"text">>])
Command ==
  Push([Value(kExitCode) EXCEPT !.open = <<"text">>,
                                !.stages = <<"command">>])

\* The next part of what is under construction below: kept when it is good.
Part(opens, ok, new, wrong) ==
  /\ Ready(2) /\ Under.open \in opens
  /\ Expression(2, IF ok THEN new ELSE Result(Fail), Reports(Top, ok), {},
                IF ok THEN wrong ELSE {})

Interpolate ==
  Part({<<"text">>}, RequireOneOf(Top, Interpolatable) # None, Under, {})

EmptyLiteral == Push([Operand(EmptyArray, None) EXCEPT !.open = <<"literal">>])

DeduceSimple(d) == UnambiguousDeduce(d) \in SimpleType
Opened(kind, t, h) == [Operand(Deduced(t), h) EXCEPT !.open = kind]

Bounded(o) == o.type \in SimpleType => o.type[1] \in Element

FirstElement ==
  /\ Ready(2) /\ Bounded(Top)
  /\ Part({<<"literal">>}, DeduceSimple(Top),
          Opened(<<"array">>, Array(Top.type[1]),
                 IF Sound(Top) THEN Array(Top.type[1]) ELSE Mixed), {})

\* What is converted to the type of the others is copied as it is.
NextElement ==
  /\ Ready(2) /\ Under.open = <<"array">>
  /\ LET t == ElementType(Under.type)
     IN Part({<<"array">>}, Satisfies(Top, t),
             [Under EXCEPT !.holds = IF Same(Top.holds, t) \/ Top.empty THEN @ ELSE Mixed],
             Misread("copy", Top, t))

FirstKey ==
  /\ Ready(2) /\ Bounded(Top)
  /\ Part({<<"literal">>}, DeduceSimple(Top),
          [Under EXCEPT !.open = <<"value", Top.type[1]>>], {})

FirstValue ==
  /\ Ready(2) /\ Under.empty /\ ~Closed(Under) /\ Under.open # <<"literal">> /\ Bounded(Top)
  /\ LET t == Map(Under.open[2], Top.type[1])
     IN Part({Under.open}, DeduceSimple(Top),
             Opened(<<"map">>, t, IF Sound(Top) THEN t ELSE Mixed), {})

NextKey ==
  /\ Ready(2) /\ Under.open = <<"map">>
  /\ LET t == IndexType(Under.type)
     IN Part({<<"map">>}, Satisfies(Top, t), [Under EXCEPT !.open = <<"value", t[1]>>],
             Misread("copy", Top, t))

NextValue ==
  /\ Ready(2) /\ Under.type \in MapType /\ Under.open = <<"value", Under.type[2]>>
  /\ LET t == ElementType(Under.type)
     IN Part({Under.open}, Satisfies(Top, t),
             [Under EXCEPT !.open = <<"map">>,
                           !.holds = IF Same(Top.holds, t) THEN @ ELSE Mixed],
             Misread("copy", Top, t))

\* The end of a literal or of a command.
Close ==
  /\ Size > 0 /\ Top.open \in {<<"text">>, <<"literal">>, <<"array">>, <<"map">>}
  /\ Expression(1, [Top EXCEPT !.open = <<>>], FALSE, {}, {})

-----------------------------------------------------------------------------
(***************************************************************************)
(* Operators.                                                              *)
(***************************************************************************)
\* The types of the left operand, numbers aside, that the generator has a case
\* for; and what the code takes both operands for, None where there is no case.
Cases(op) ==
  IF op = "Add" THEN {kString} \cup ArrayType \cup MapType
  ELSE IF op = "Div" THEN {kPath, kRelPath}
  ELSE IF op = "Order" THEN {kChar, kString}
  ELSE IF op = "Equal" THEN SimpleType \cup ArrayType
  ELSE {}

Reads(op, t) ==
  IF op = "Logic" THEN kBool
  ELSE IF t \in {kInt, kExitCode} \/ (op = "Mult" /\ t = kString) THEN kInt
  ELSE IF t \in Cases(op) THEN t
  ELSE None

\* A relative path is as good as a path where it is used at once.
ReadAs(op, o, t) ==
  CASE op = "Logic" -> MisreadBool(op, o)
    [] op # "Logic" /\ t \in {kPath, kRelPath} /\ o.type \in {kPath, kRelPath} -> {}
    [] OTHER -> Misread(op, o, t)

Binary(op) ==
  /\ Ready(2) /\ Closed(Under)
  /\ LET left == LeftType(op, Under)
         good == left # None /\ Satisfies(Top, RightType(op, left))
         reads == Reads(op, Under.type)
     IN Expression(2, Result(Or(good, Deduced(TypeOfWhole(op, left)))),
          Reports(Under, left # None) \/ (left # None /\ Reports(Top, good)),
          IF good /\ reads = None THEN {"operator"} ELSE {},
          IF good THEN ReadAs(op, Under, reads) \cup ReadAs(op, Top, reads) ELSE {})

Negate ==
  /\ Ready(1)
  /\ LET ok == Satisfies(Top, kBool)
     IN Expression(1, Result(Or(ok, Deduced(kBool))), Reports(Top, ok), {},
                   IF ok THEN MisreadBool("not", Top) ELSE {})

PosNeg ==
  /\ Ready(1)
  /\ LET ok == Satisfies(Top, kInt)
     IN Expression(1, Result(Or(ok, Deduced(kInt))), Reports(Top, ok), {},
                   IF ok THEN Misread("sign", Top, kInt) ELSE {})

\* ${x[i]} is an element when x is the name of an array or a map.
Indexing ==
  /\ Ready(2) /\ Closed(Under)
  /\ LET t == UnambiguousDeduce(Under)
         element == ElementType(t)
         ok == element # None /\ Satisfies(Top, IndexType(t))
         named == Under.root # NoName /\ t # kString
         held == IF named /\ Under.holds # Mixed THEN ElementType(Under.holds) ELSE Mixed
     IN Expression(2, [Operand(Or(ok, Deduced(element)), IF ok THEN held ELSE None)
                         EXCEPT !.root = Under.root],
          Reports(Under, element # None) \/ (element # None /\ Reports(Top, ok)), {},
          IF ok THEN Misread("index", Top, IndexType(t)) ELSE {})

-----------------------------------------------------------------------------
(***************************************************************************)
(* Calls and pipelines.                                                    *)
(***************************************************************************)
Call(f) ==
  Push([Value(<<"Function", f>>) EXCEPT !.open = <<"call", 1>>])

\* A wrong number of parameters, no function, or a function without a type yet.
BadCall == Room /\ Expression(0, Result(Fail), TRUE, {}, {})

\* An array is returned as ${temp}, its first element.
Returned(t) ==
  [Operand(Deduced(t), IF t \in ArrayType THEN Mixed ELSE t)
     EXCEPT !.stages = <<"call">>]

Parameter ==
  /\ Ready(2) /\ Calling(Under)
  /\ LET f == Under.type[2]
         i == Under.open[2]
         t == Params[f][i]
     IN Part({<<"call", i>>}, Satisfies(Top, t),
             IF i = Len(Params[f]) THEN Returned(ResultType[f])
             ELSE [Under EXCEPT !.open = <<"call", i + 1>>],
             Misread("copy", Top, t))

Redirect(accepts) ==
  /\ Ready(2) /\ CommandLike(Under) /\ Len(Under.stages) = 1
  /\ LET ok == RequireOneOf(Top, accepts) # None
     IN Expression(2, IF ok THEN Under ELSE Result(Fail), Reports(Top, ok),
                   IF ok /\ Top.type \notin {kPath, kRelPath, kFd} THEN {"redirect"} ELSE {},
                   {})

RedirectToHere ==
  /\ Ready(1) /\ CommandLike(Top) /\ Len(Top.stages) = 1
  /\ Expression(1, [Value(kString) EXCEPT !.stages = Top.stages, !.here = TRUE],
                FALSE, {}, {})

\* The generator takes the value from the head of a pipeline of two and from
\* the end of a longer one; what a call in a pipeline returns is lost.
Piped(stages) ==
  LET n == Len(stages)
  IN IF stages[IF n = 2 THEN 1 ELSE n] = "call" THEN Mixed ELSE kExitCode

Pipe ==
  /\ Ready(2) /\ CommandLike(Under) /\ CommandLike(Top) /\ Len(Top.stages) = 1
  /\ Len(Under.stages) < MaxStages /\ ~LongPipe(Under)
  /\ LET all == Under.stages \o Top.stages
     IN Expression(2, [Top EXCEPT !.stages = all,
                                   !.holds = IF Top.here THEN kString ELSE Piped(all)], FALSE, {}, {})

-----------------------------------------------------------------------------
(***************************************************************************)
(* Statements.  The statements of a block come after the one that has it.  *)
(* A block copies the return type through a null pointer when there is     *)
(* none yet, which NameResolution models; here there is one.               *)
(***************************************************************************)
Statement(n, error, gaps, wrong) ==
  /\ statements < MaxStatements
  /\ Size = n /\ (n > 0 => Closed(Top))
  /\ Use(n, <<>>, error, gaps, wrong)
  /\ statements' = statements + 1
  /\ UNCHANGED early

Put(f, n, t) == [m \in DOMAIN f \cup {n} |-> IF m = n THEN t ELSE f[m]]

Define(n, t, h) ==
  /\ types' = Put(types, n, t)
  /\ holds' = Put(holds, n, h)
  /\ UNCHANGED <<returns, switched, crashed>>

ExpressionStatement ==
  /\ Statement(1, Reports(Top, UnambiguousDeduce(Top) # None), {}, {})
  /\ UNCHANGED <<types, holds, returns, switched, crashed>>

\* Nothing reads a parameter, or the variable of a loop, before it is defined.
New(n) == n \notin DOMAIN types \cup early

DefineParameter(n, t) == New(n) /\ Statement(0, FALSE, {}, {}) /\ Define(n, t, t)

\* An empty literal holds whatever is asked of it.
Held(o, t) == IF o.empty THEN t ELSE o.holds

VariableDef(n) ==
  /\ n \notin DOMAIN types /\ Size = 1
  /\ LET t == UnambiguousDeduce(Top)
     IN Statement(1, Reports(Top, t # None), {}, {}) /\ Define(n, t, Held(Top, t))

DeclaredVariableDef(n, t) ==
  /\ n \notin DOMAIN types /\ Size = 1
  /\ LET ok == Satisfies(Top, t)
     IN /\ Statement(1, Reports(Top, ok), {}, IF ok THEN Misread("copy", Top, t) ELSE {})
        /\ Define(n, IF ok THEN t ELSE None, Held(Top, t))

\* The type of the left side is required of the right, null or not.
Assignment ==
  /\ Size = 2 /\ Closed(Under)
  /\ LET t == UnambiguousDeduce(Under)
         ok == Satisfies(Top, t)
         n == Under.root
         assignable == n # NoName
         known == n \in DOMAIN types
         element == known /\ t # types[n]
         held == Held(Top, t)
     IN /\ Statement(2, ~assignable \/ Reports(Under, t # None) \/ (t # None /\ Reports(Top, ok)), {},
                     IF assignable /\ ok THEN Misread("copy", Top, t) ELSE {})
        /\ crashed' = (assignable /\ t = None /\ ~Top.fail)
        /\ holds' = IF ~known \/ t = None THEN holds
                    ELSE IF ~element THEN [holds EXCEPT ![n] = held]
                    ELSE IF Same(held, t) THEN holds ELSE [holds EXCEPT ![n] = Mixed]
        /\ UNCHANGED <<types, returns, switched>>

\* if, and for with a condition: 0 is true of an exit code, false of a boolean.
Condition ==
  /\ returns # None /\ Size = 1
  /\ LET ok == Satisfies(Top, kBool)
     IN Statement(1, Reports(Top, ok), {}, IF ok THEN MisreadBool("if", Top) ELSE {})
  /\ UNCHANGED <<types, holds, returns, switched, crashed>>

ForRange(n) ==
  /\ returns # None /\ New(n) /\ Size = 1
  /\ LET t == UnambiguousDeduce(Top)
         ok == t \in ArrayType
     IN /\ Statement(1, Reports(Top, ok), {}, {})
        /\ IF ok THEN Define(n, ElementType(t),
                             IF Top.holds = Mixed THEN Mixed ELSE ElementType(Top.holds))
           ELSE UNCHANGED <<types, holds, returns, switched, crashed>>

Switch ==
  /\ returns # None /\ switched = <<>> /\ Size = 1
  /\ LET t == UnambiguousDeduce(Top)
     IN /\ Statement(1, Reports(Top, t # None), {}, {})
        /\ switched' = <<[type |-> t, default |-> FALSE]>>
  /\ UNCHANGED <<types, holds, returns, crashed>>

\* -eq is for numbers, and there is no _sushi_comp_array.
Case ==
  /\ switched # <<>> /\ Size = 1
  /\ LET t == switched[1].type
         ok == t # None /\ Satisfies(Top, t)
         number == {kInt, kBool, kExitCode, kFd, kUnit}
     IN /\ Statement(1, t # None /\ Reports(Top, ok), {},
                     IF ok /\ t \in number THEN IF t = kBool THEN MisreadBool("case", Top)
                                                ELSE Misread("case", Top, t)
                     ELSE IF ok THEN {<<"case", t>>} ELSE {})
        /\ crashed' = (t = None)
  /\ UNCHANGED <<types, holds, returns, switched>>

\* A line of the switch that leaves the checker as it is.
Line(gaps) ==
  /\ switched # <<>> /\ Running /\ Size = 0
  /\ stuck' = gaps /\ misread' = {}
  /\ UNCHANGED <<statements, operands, errors, types, early, holds, returns, crashed>>

\* The generator skips the first default and takes a second for a case.
Default ==
  /\ Line(IF switched[1].default THEN {"default"} ELSE {})
  /\ switched' = [switched EXCEPT ![1].default = TRUE]

EndSwitch == Line({}) /\ switched' = <<>>

Return ==
  /\ Size = 1
  /\ LET t == UnambiguousDeduce(Top)
         ok == IF returns = None THEN t # None ELSE Satisfies(Top, returns)
     IN /\ Statement(1, Reports(Top, ok), {},
                     IF ok /\ returns # None THEN Misread("copy", Top, returns) ELSE {})
        /\ returns' = IF returns = None THEN t ELSE returns
  /\ UNCHANGED <<types, holds, switched, crashed>>

\* The generator visits the value of a return whether it has one or not.
ReturnNothing ==
  /\ Statement(0, returns \notin {None, kUnit}, {"return"}, {})
  /\ returns' = IF returns = None THEN kUnit ELSE returns
  /\ UNCHANGED <<types, holds, switched, crashed>>

-----------------------------------------------------------------------------
\* The types a program can write down.
Written ==
  SimpleType \cup {Array(e) : e \in Element} \cup {Map(k, v) : k, v \in Element}
    \cup FunctionType

Init ==
  /\ statements = 0
  /\ operands = <<>> /\ types = <<>> /\ early = {} /\ holds = <<>>
  /\ returns \in {kUnit, kBool, None} /\ switched = <<>>
  /\ errors = FALSE /\ crashed = FALSE /\ stuck = {} /\ misread = {}

Primary ==
  \/ \E t \in SimpleType : Literal(t) \/ Text(t)
  \/ \E n \in Name : Variable(n)
  \/ \E n \in Name \cup Untyped : Early(n)
  \/ \E f \in Function : FunctionName(f) \/ Call(f)
  \/ Command \/ EmptyLiteral \/ BadCall

Construct ==
  \/ Interpolate \/ FirstElement \/ NextElement
  \/ FirstKey \/ FirstValue \/ NextKey \/ NextValue \/ Close \/ Parameter

Combine ==
  \/ \E op \in Operator : Binary(op)
  \/ Negate \/ PosNeg \/ Indexing
  \/ Redirect(FromRedirAccepts) \/ Redirect(ToRedirAccepts) \/ RedirectToHere \/ Pipe

CheckStatement ==
  \/ \E n \in Name : VariableDef(n) \/ ForRange(n)
  \/ \E n \in Name, t \in Written : DefineParameter(n, t) \/ DeclaredVariableDef(n, t)
  \/ ExpressionStatement \/ Assignment \/ Condition
  \/ Switch \/ Case \/ Default \/ EndSwitch
  \/ Return \/ ReturnNothing

Next == Primary \/ Construct \/ Combine \/ CheckStatement

Spec == Init /\ [][Next]_vars

-----------------------------------------------------------------------------
(***************************************************************************)
(* Properties.                                                             *)
(***************************************************************************)
OperandType ==
  [type : Type \cup {None}, empty : BOOLEAN, fail : BOOLEAN,
   holds : Type \cup {None, Mixed}, root : Name \cup Function \cup Untyped \cup {NoName},
   open : Open, stages : Seq({"call", "command"}), here : BOOLEAN]

\* Every operand, binding and return type is of the kinds of data named above.
TypeOK ==
  /\ operands \in Seq(OperandType)
  /\ DOMAIN types \subseteq Name
  /\ types \in [DOMAIN types -> Type \cup {None}]
  /\ early \subseteq Name \cup Untyped
  /\ holds \in [DOMAIN types -> Type \cup {None, Mixed}]
  /\ returns \in Type \cup {None}
  /\ switched \in Seq([type : Type \cup {None}, default : BOOLEAN]) /\ Len(switched) <= 1
  /\ errors \in BOOLEAN /\ crashed \in BOOLEAN
  /\ stuck \subseteq {"pipe", "operator", "redirect", "default", "return"}

\* An error was reported, or a name was read before its definition had a type.
Explained == errors \/ early # {}

\* What a program must be for the words of the language to apply to it.
Accepted == ~errors /\ early = {}

\* One thing alone fails in silence, a name that is read before its definition
\* has a type: wherever an expression has failed or a definition has no type,
\* the checker has met such a name or has reported an error, after which
\* Pipeline stops.
FailuresAreReported ==
  /\ \A i \in 1..Size : operands[i].fail => Explained
  /\ \A n \in DOMAIN types : types[n] = None => Explained
  /\ switched # <<>> => (switched[1].type = None => Explained)

\* The checker goes through a null type only in a program that has an error, or
\* that reads a name before its definition has a type: no other program makes the
\* compiler itself fail in this pass.
CrashesExplained == crashed => Explained

\* The generator has code for everything the checker accepts, its assertions on
\* types hold; except a call at the end of a pipeline of three or more, a
\* return without a value and a second default.
AcceptedProgramsTranslate == Accepted => stuck \subseteq {"pipe", "return", "default"}

\* Where the checker lets a type pass for another, the code reads the value as
\* it is, converted when it has to be.  The exceptions are: values copied into
\* something of another type, a boolean compared with an exit code, a string
\* repeated, an exit code divided by a path, a map or an array indexed by an exit
\* code, a map of paths indexed by a relative path, and a switch on anything that
\* is no number.
KnownMisreadings ==
  {<<"copy", kExitCode>>, <<"copy", kRelPath>>, <<"Equal", kExitCode>>,
   <<"Mult", kString>>, <<"Div", kRelPath>>, <<"index", kExitCode>>, <<"index", kRelPath>>}
OperandsFit ==
  Accepted => \A m \in misread \ KnownMisreadings :
                m[1] = "case" /\ m[2] \notin {kInt, kBool, kExitCode, kFd, kUnit}

\* Implicit conversion converts: a variable holds values of its own type.
VariablesHoldTheirType ==
  Accepted => \A n \in DOMAIN types :
                types[n] \in SimpleType => Same(holds[n], types[n])
=============================================================================
