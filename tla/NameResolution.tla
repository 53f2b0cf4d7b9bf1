--------------------------- MODULE NameResolution ---------------------------
(***************************************************************************)
(* What an identifier means, as three passes over the same program see it: *)
(* ScopeCheck builds the scopes and checks that each use has a definition, *)
(* type::Check gives a type to each definition and each use, and           *)
(* CodeGenerator::GenCode writes the bash name of each.                    *)
(*                                                                         *)
(* ScopeCheck looks a name up while the scopes are being filled; the two   *)
(* later passes look the same name up again, in the scopes as they are at  *)
(* the end of the program.                                                 *)
(*                                                                         *)
(* program is the syntax tree, as the sequence of its nodes in the order   *)
(* all three visitors meet them.  The actions of the scope pass choose it; *)
(* the other two passes walk it again with pc.                             *)
(***************************************************************************)
EXTENDS Scopes

CONSTANTS
  Ident,       \* the identifiers of the program
  NoIdent,     \* a function without a parameter
  MaxNodes     \* bound on the length of the program

Literal == {"simple", "array"}
Expr == Ident \cup Literal

ASSUME NamesAssumption ==
  /\ Ident \cap Literal = {} /\ NoIdent \notin Expr
  /\ MaxNodes \in Nat

VARIABLES
  program,     \* the nodes met so far
  scope,       \* the scope pass: the scope of the visitor
  bindings,    \* Scope::bindings_ of every scope
  idents,      \* Environment::idents_: the nodes whose use is recorded
  phase,       \* which pass runs, or how the run ended
  errors,      \* the kinds of the errors the running pass has reported
  pc,          \* the type pass and the generator: the node they visit
  types,       \* the type pass: State::bindings, "null" where there is none
  returns,     \* the type pass: return_type of each State on the stack, or "null"
  typed,       \* Environment::typings_: the nodes whose expression has a type
  named        \* the generator: the keys of new_names_map

scopeVars == <<program, scope, bindings, idents>>
typeVars == <<types, returns, typed>>
vars == <<program, scope, bindings, idents, phase, errors, pc, types, returns,
          typed, named>>

-----------------------------------------------------------------------------
(***************************************************************************)
(* Nodes.  e is the expression a node evaluates in its scope, x the name   *)
(* it defines.  def is where ScopeCheck found e; the code forgets it.      *)
(*   use     the expression e, a variable       call   e (), a function    *)
(*   var     define x = e                       return return e            *)
(*   func    define x(e' : T) : R =  with a parameter, perhaps; declared   *)
(*           says whether R is there            loop   for x in e:         *)
(*   block   the body of an if, a case or a for with a condition           *)
(*   close   the end of the body of the node Last(scope)                   *)
(***************************************************************************)
Op == {"use", "call", "var", "return", "func", "loop", "block", "close"}

Node(op, x, e, declared) ==
  [op |-> op, x |-> x, e |-> e, declared |-> declared, scope |-> scope,
   def |-> IF op # "func" /\ e \in Ident
           THEN LookUp(bindings, scope, e) ELSE NoScope]

Uses(node) == node.op # "func" /\ node.e \in Ident

\* The scope of the body of node i, and the node whose body the scope s is.
Body(i) == Append(program[i].scope, i)
Owner(s) == s[Len(s)]

Init ==
  /\ program = <<>> /\ scope = TopScope /\ bindings = {} /\ idents = {}
  /\ phase = "scope" /\ errors = {} /\ pc = 1
  /\ types = <<>> /\ returns = <<"simple">> /\ typed = {} /\ named = {}

-----------------------------------------------------------------------------
(***************************************************************************)
(* ScopeCheck.                                                             *)
(***************************************************************************)
here == Len(program) + 1

\* A node that leaves room to close the blocks that are open.
Meet(node, extra) ==
  /\ phase = "scope"
  /\ here + Len(scope) + extra <= MaxNodes
  /\ program' = Append(program, node)

ScopeOnly == UNCHANGED <<phase, pc, typeVars, named>>

\* ExpressionVisitor on e: the use is recorded unless the name is unknown.
VisitExpr(e) ==
  IF e \in Literal THEN UNCHANGED <<idents, errors>>
  ELSE IF Resolves(bindings, scope, e)
       THEN idents' = idents \cup {here} /\ UNCHANGED errors
       ELSE errors' = errors \cup {"undefined"} /\ UNCHANGED idents

ScopeUse(e) ==
  /\ Meet(Node("use", NoIdent, e, FALSE), 0)
  /\ VisitExpr(e)
  /\ ScopeOnly /\ UNCHANGED <<scope, bindings>>

\* A call records its use even if the function is unknown.
ScopeCall(f) ==
  /\ Meet(Node("call", NoIdent, f, FALSE), 0)
  /\ errors' = IF Resolves(bindings, scope, f) THEN errors
               ELSE errors \cup {"undefined"}
  /\ idents' = idents \cup {here}
  /\ ScopeOnly /\ UNCHANGED <<scope, bindings>>

ScopeReturn(e) ==
  /\ Meet(Node("return", NoIdent, e, FALSE), 0)
  /\ VisitExpr(e)
  /\ ScopeOnly /\ UNCHANGED <<scope, bindings>>

\* Mutant: Insert is called without a look first.
Redefines_Never(x) == FALSE

Redefines(x) == <<scope, x>> \in bindings

\* A name that is defined twice in one scope is an error, and the rest of the
\* definition is not visited.
ScopeRedefinition(x, node) ==
  /\ Redefines(x)
  /\ Meet(node, 0)
  /\ errors' = errors \cup {"redefined"}
  /\ ScopeOnly /\ UNCHANGED <<scope, bindings, idents>>

\* Mutant: the name is in scope in its own value.
ScopeVariableDef_InsertFirst(x, e) ==
  LET new == Node("var", x, e, FALSE)
      known == bindings \cup {<<scope, x>>}
  IN  \/ ScopeRedefinition(x, new)
      \/ /\ ~Redefines(x)
         /\ Meet(new, 0)
         /\ bindings' = known
         /\ IF e \in Literal THEN UNCHANGED <<idents, errors>>
            ELSE IF Resolves(known, scope, e)
                 THEN idents' = idents \cup {here} /\ UNCHANGED errors
                 ELSE errors' = errors \cup {"undefined"} /\ UNCHANGED idents
         /\ ScopeOnly /\ UNCHANGED scope

\* VariableDef: the value is visited before the name is inserted.
ScopeVariableDef(x, e) ==
  LET new == Node("var", x, e, FALSE)
  IN  \/ ScopeRedefinition(x, new)
      \/ /\ ~Redefines(x)
         /\ Meet(new, 0)
         /\ VisitExpr(e)
         /\ bindings' = bindings \cup {<<scope, x>>}
         /\ ScopeOnly /\ UNCHANGED scope

\* FunctionDef: the name is inserted first, then the parameter in the scope of
\* the body.
ScopeFunctionDef(f, p, declared) ==
  LET new == Node("func", f, p, declared)
      body == Append(scope, here)
  IN  \/ ScopeRedefinition(f, new)
      \/ /\ ~Redefines(f)
         /\ Meet(new, 1)
         /\ scope' = body
         /\ bindings' = bindings \cup {<<scope, f>>} \cup
                          (IF p = NoIdent THEN {} ELSE {<<body, p>>})
         /\ ScopeOnly /\ UNCHANGED <<idents, errors>>

\* IfStmt, SwitchStmt, ForStmt with a condition: one scope for each body.
ScopeBlock ==
  /\ Meet(Node("block", NoIdent, "simple", FALSE), 1)
  /\ scope' = Append(scope, here)
  /\ ScopeOnly /\ UNCHANGED <<bindings, idents, errors>>

\* ForStmt over a range: the range is visited outside the scope of the body.
ScopeLoop(x, e) ==
  /\ Meet(Node("loop", x, e, FALSE), 1)
  /\ VisitExpr(e)
  /\ scope' = Append(scope, here)
  /\ bindings' = bindings \cup {<<scope', x>>}
  /\ ScopeOnly

ScopeClose ==
  /\ scope # TopScope
  /\ Meet(Node("close", NoIdent, "simple", FALSE), -1)
  /\ scope' = SubSeq(scope, 1, Len(scope) - 1)
  /\ ScopeOnly /\ UNCHANGED <<bindings, idents, errors>>

\* Mutant: the errors are printed and the run goes on.
ScopeEnd_Ungated ==
  /\ phase = "scope" /\ scope = TopScope
  /\ phase' = "type"
  /\ types' = [b \in bindings |-> "null"]
  /\ UNCHANGED <<scopeVars, errors, pc, returns, typed, named>>

\* TransToSushi stops the run if the pass reported an error.
ScopeEnd ==
  /\ phase = "scope" /\ scope = TopScope
  /\ phase' = IF errors = {} THEN "type" ELSE "rejected"
  /\ types' = [b \in bindings |-> "null"]
  /\ UNCHANGED <<scopeVars, errors, pc, returns, typed, named>>
-----------------------------------------------------------------------------
(***************************************************************************)
(* type::Check.  A type is "simple", "array" or "function"; "null" is the  *)
(* type of a definition that has none (yet).  The parameters and the       *)
(* declared return types of the program are simple.                        *)
(***************************************************************************)
Type == Literal \cup {"function"}

node == program[pc]

Visit(pass, op) == phase = pass /\ pc <= Len(program) /\ node.op = op

\* LookUpIdentType: the name is looked up again, in the finished scopes.
Meaning(i) == <<LookUp(bindings, program[i].scope, program[i].e), program[i].e>>
TypeOf(e) == IF e \in Literal THEN e ELSE types[Meaning(pc)]

\* typings_ gets a type only if the expression has one; a variable without a
\* type fails without an error.
Typing(e) == typed' = IF TypeOf(e) = "null" THEN typed ELSE typed \cup {pc}

InsertType(s, x, t) == types' = [types EXCEPT ![<<s, x>>] = t]

TypeOnly == UNCHANGED <<scopeVars, named>>
Step == pc' = pc + 1 /\ UNCHANGED phase

ReturnType == returns[Len(returns)]
HasReturnType == ReturnType # "null"

\* FromNewProgram copies return_type: through a null pointer if there is none.
CopyOfNull == ~HasReturnType /\ phase' = "copied null"
              /\ UNCHANGED <<scopeVars, errors, pc, typeVars, named>>

TypeUse ==
  /\ Visit("type", "use")
  /\ Typing(node.e)
  /\ Step /\ TypeOnly /\ UNCHANGED <<errors, types, returns>>

\* A function without a type is an error here, as is a call of a variable.
TypeCall ==
  /\ Visit("type", "call")
  /\ errors' = IF TypeOf(node.e) = "null" THEN errors \cup {"missing type"}
               ELSE IF TypeOf(node.e) \in Literal THEN errors \cup {"invalid function"}
               ELSE errors
  /\ Typing(node.e)
  /\ Step /\ TypeOnly /\ UNCHANGED <<types, returns>>

TypeVariableDef ==
  /\ Visit("type", "var")
  /\ InsertType(node.scope, node.x, TypeOf(node.e))
  /\ Typing(node.e)
  /\ Step /\ TypeOnly /\ UNCHANGED <<errors, returns>>

\* ReturnStmt: the first one of the body sets return_type of its own State to the
\* type of its value, if that has one; the others must be of that type.
TypeReturn ==
  /\ Visit("type", "return")
  /\ LET t == TypeOf(node.e)
         fits == ~HasReturnType \/ t \in {"null", ReturnType}
     IN  /\ returns' = IF HasReturnType THEN returns
                       ELSE [returns EXCEPT ![Len(returns)] = t]
         /\ errors' = IF fits THEN errors ELSE errors \cup {"invalid return"}
         /\ typed' = IF fits /\ t # "null" THEN typed \cup {pc} ELSE typed
  /\ Step /\ TypeOnly /\ UNCHANGED types

\* Mutant: the parameters are collected but not inserted.
TypeFunctionDef_NoParams ==
  /\ Visit("type", "func")
  /\ \/ CopyOfNull
     \/ /\ HasReturnType
        /\ types' = IF node.declared
                    THEN [types EXCEPT ![<<node.scope, node.x>>] = "function"]
                    ELSE types
        /\ returns' = Append(returns, IF node.declared THEN "simple" ELSE "null")
        /\ Step /\ TypeOnly /\ UNCHANGED <<errors, typed>>

\* FunctionDef: ExtractParamTypes makes a State for the body, only to insert
\* the parameter; a declared return type gives the function its type before
\* the body is checked.
TypeFunctionDef ==
  /\ Visit("type", "func")
  /\ \/ CopyOfNull
     \/ /\ HasReturnType
        /\ types' = [b \in DOMAIN types |->
             IF b = <<Body(pc), node.e>> THEN "simple"
             ELSE IF b = <<node.scope, node.x>> /\ node.declared THEN "function"
             ELSE types[b]]
        /\ returns' = Append(returns, IF node.declared THEN "simple" ELSE "null")
        /\ Step /\ TypeOnly /\ UNCHANGED <<errors, typed>>

TypeBlock ==
  /\ Visit("type", "block")
  /\ \/ CopyOfNull
     \/ /\ HasReturnType
        /\ returns' = Append(returns, ReturnType)
        /\ Step /\ TypeOnly /\ UNCHANGED <<errors, types, typed>>

\* The node after the end of the body of node i.
After(i) == 1 + CHOOSE j \in i + 1 .. Len(program) :
                  program[j].op = "close" /\ program[j].scope = Body(i)

\* ForStmt over a range: without an array to range over the body is not checked.
TypeLoop ==
  /\ Visit("type", "loop")
  /\ \/ TypeOf(node.e) = "array" /\ CopyOfNull
     \/ /\ TypeOf(node.e) = "array" /\ HasReturnType
        /\ InsertType(Body(pc), node.x, "simple")
        /\ returns' = Append(returns, ReturnType)
        /\ Typing(node.e)
        /\ Step /\ TypeOnly /\ UNCHANGED errors
     \/ /\ TypeOf(node.e) # "array"
        /\ errors' = IF TypeOf(node.e) = "null" THEN errors
                     ELSE errors \cup {"invalid range"}
        /\ pc' = After(pc)
        /\ Typing(node.e)
        /\ TypeOnly /\ UNCHANGED <<phase, types, returns>>

\* A function whose return type is deduced has a type from here on.
TypeClose ==
  /\ Visit("type", "close")
  /\ LET owner == program[Owner(node.scope)]
     IN  IF owner.op = "func" /\ ~owner.declared
         THEN InsertType(owner.scope, owner.x, "function")
         ELSE UNCHANGED types
  /\ returns' = SubSeq(returns, 1, Len(returns) - 1)
  /\ Step /\ TypeOnly /\ UNCHANGED <<errors, typed>>

TypeEnd ==
  /\ phase = "type" /\ pc > Len(program)
  /\ phase' = IF errors = {} THEN "gen" ELSE "rejected"
  /\ pc' = 1
  /\ UNCHANGED <<scopeVars, errors, typeVars, named>>

-----------------------------------------------------------------------------
(***************************************************************************)
(* GenCode.                                                                *)
(***************************************************************************)
\* FindNewName throws for a name GetNewName has not seen; after that the type
\* of the expression is read through the pointer typings_ returns.
Generates(known) ==
  IF node.e \in Ident /\ Meaning(pc) \notin known THEN "thrown"
  ELSE IF pc \notin typed THEN "read null"
  ELSE "gen"

GenVisit(op, names) ==
  /\ Visit("gen", op)
  /\ named' = named \cup names
  /\ UNCHANGED <<scopeVars, errors, typeVars>>

GenExpr ==
  /\ phase' = Generates(named')
  /\ pc' = IF phase' = "gen" THEN pc + 1 ELSE pc

GenUse == (GenVisit("use", {}) \/ GenVisit("call", {}) \/ GenVisit("return", {}))
          /\ GenExpr

\* The name of a definition is made before its value is visited.
GenVariableDef == GenVisit("var", {<<node.scope, node.x>>}) /\ GenExpr

\* Mutant: the parameters are named in the scope around the function.
GenFunctionDef_ParamsOutside ==
  /\ GenVisit("func", {<<node.scope, node.x>>} \cup
                        (IF node.e = NoIdent THEN {} ELSE {<<node.scope, node.e>>}))
  /\ Step

GenFunctionDef ==
  /\ GenVisit("func", {<<node.scope, node.x>>} \cup
                        (IF node.e = NoIdent THEN {} ELSE {<<Body(pc), node.e>>}))
  /\ Step

\* Mutant: the loop variable is named in the scope around the loop.
GenLoop_Outside == GenVisit("loop", {<<node.scope, node.x>>}) /\ GenExpr

GenLoop == GenVisit("loop", {<<Body(pc), node.x>>}) /\ GenExpr

GenBlock == (GenVisit("block", {}) \/ GenVisit("close", {})) /\ Step

GenEnd ==
  /\ phase = "gen" /\ pc > Len(program)
  /\ phase' = "done"
  /\ UNCHANGED <<scopeVars, errors, pc, typeVars, named>>

-----------------------------------------------------------------------------
ScopePass ==
  \/ \E e \in Ident : ScopeUse(e) \/ ScopeCall(e)
  \/ \E e \in Expr : ScopeReturn(e)
  \/ \E x \in Ident, e \in Expr : ScopeVariableDef(x, e) \/ ScopeLoop(x, e)
  \/ \E f \in Ident, p \in Ident \cup {NoIdent}, declared \in BOOLEAN :
       ScopeFunctionDef(f, p, declared)
  \/ ScopeBlock \/ ScopeClose \/ ScopeEnd

TypePass ==
  \/ TypeUse \/ TypeCall \/ TypeVariableDef \/ TypeReturn
  \/ TypeFunctionDef \/ TypeBlock \/ TypeLoop \/ TypeClose \/ TypeEnd

GenPass ==
  \/ GenUse \/ GenVariableDef \/ GenFunctionDef \/ GenLoop \/ GenBlock \/ GenEnd

Next == ScopePass \/ TypePass \/ GenPass

Spec == Init /\ [][Next]_vars
-----------------------------------------------------------------------------
(***************************************************************************)
(* Properties.                                                             *)
(***************************************************************************)
Crash == {"copied null", "thrown", "read null"}
Phase == {"scope", "type", "gen", "done", "rejected"} \cup Crash
ErrorKind == {"undefined", "redefined", "missing type", "invalid function",
              "invalid range", "invalid return"}

Nodes == 1 .. Len(program)
Scope == Seq(Nat)
NodeType ==
  [op : Op, x : Ident \cup {NoIdent}, e : Expr \cup {NoIdent},
   declared : BOOLEAN, scope : Scope, def : Scope]

\* Every variable has its type; errors stay what the passes report.
TypeOK ==
  /\ program \in Seq(NodeType)
  /\ scope \in Scope /\ bindings \subseteq Scope \X Ident
  /\ idents \subseteq Nodes /\ typed \subseteq Nodes
  /\ phase \in Phase /\ errors \subseteq ErrorKind
  /\ pc \in 1 .. Len(program) + 1
  /\ returns \in Seq(Type \cup {"null"}) /\ returns # <<>>
  /\ phase # "scope" => types \in [bindings -> Type \cup {"null"}]
  /\ named \subseteq bindings

\* The scope pass reports exactly the programs that have an error: one that uses
\* a name before any definition of it in the blocks around, or defines a name
\* twice in one block.  (Of a second definition only the name is looked at.)
BoundBy(i) ==
  LET n == program[i]
  IN  (IF n.op \in {"var", "func"} THEN {<<n.scope, n.x>>} ELSE {}) \cup
      (IF n.op = "func" THEN {<<Body(i), n.e>>} ELSE {}) \cup
      (IF n.op = "loop" THEN {<<Body(i), n.x>>} ELSE {})
BoundBefore(i) == UNION {BoundBy(j) : j \in 1 .. i - 1}

Duplicate(i) == program[i].op \in {"var", "func"} /\
                <<program[i].scope, program[i].x>> \in BoundBefore(i)
Undefined(i) == Uses(program[i]) /\ ~Duplicate(i) /\
                ~Resolves(BoundBefore(i), program[i].scope, program[i].e)

ScopeErrorsExact ==
  phase = "scope" =>
    /\ "undefined" \in errors <=> \E i \in Nodes : Undefined(i)
    /\ "redefined" \in errors <=> \E i \in Nodes : Duplicate(i)

\* What state.h and the visitors of the generator dereference untested is never
\* null: once the scope pass has let a program through, the scope of every use
\* is recorded and a definition of its name is found from there.
Found(i) == i \in idents /\ Resolves(bindings, program[i].scope, program[i].e)

NeverDangling ==
  phase \in {"type", "gen"} => \A i \in Nodes : Uses(program[i]) => Found(i)

\* A program is clean when every use still means in the finished scopes what it
\* meant when it was met, when no function without a declared type is used as a
\* value in its own body, and when no such function opens a block before its
\* first return.
Opens(n) == n.op \in {"func", "loop", "block"}
Undeclared(n) == n.op = "func" /\ ~n.declared
InBody(s, i) == Len(Body(i)) <= Len(s) /\ Outward(s, Len(Body(i))) = Body(i)

Clean ==
  /\ \A i \in Nodes : Uses(program[i]) => Meaning(i)[1] = program[i].def
  /\ \A i, j \in Nodes :
       Undeclared(program[i]) /\ InBody(program[j].scope, i) /\ Uses(program[j]) =>
         program[j].op = "call" \/ Meaning(j) # <<program[i].scope, program[i].x>>
  /\ \A i, j \in Nodes :
       Undeclared(program[i]) /\ Opens(program[j]) /\ program[j].scope = Body(i) =>
         \E k \in 1 .. j - 1 : program[k].op = "return" /\ program[k].scope = Body(i)

\* A clean program in which no pass reports an error is translated: the return type
\* a State copies, and the name and the type the generator asks for, are always
\* there, whatever the blocks and the shadowing.
CleanProgramsCompile == phase \in Crash /\ errors = {} => ~Clean

\* All three passes agree on the scope each name belongs to: when the generator has
\* passed a definition its name is known in the scope ScopeCheck bound it in, whatever
\* blocks were closed since, and at the end no other name is.
DefinitionsNamed ==
  /\ phase = "gen" => \A i \in 1 .. pc - 1 : BoundBy(i) \cap bindings \subseteq named
  /\ phase = "done" => named = bindings

\* A definition is given a type once: InsertType, which overwrites without a
\* test, never replaces the type earlier uses were checked with.
TypedOnce ==
  [][\A b \in DOMAIN types : types[b] # "null" => types'[b] = types[b]]_vars

\* "Otherwise, the first return statement [...] instantiate the type parameter
\* T": a function without a declared type may open a block before it returns.
DeducedReturnSurvivesBlocks == phase # "copied null"
=============================================================================
