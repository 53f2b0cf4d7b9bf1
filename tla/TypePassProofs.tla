---------------------------- MODULE TypePassProofs ----------------------------
(***************************************************************************)
(* Theorems about NameResolution for all identifiers and all programs:     *)
(* what the type pass and the generator make of the scopes.                *)
(***************************************************************************)
EXTENDS NameResolutionProofs

(***************************************************************************)
(* The inductive invariant: the walk of the type pass is as deep in the    *)
(* States as in the blocks.                                                *)
(***************************************************************************)
Given(b) ==
  \/ b \in BoundBy(pc) /\ ~ (Undeclared(node) /\ b = <<node.scope, node.x>>)
  \/ \E i \in Nodes : Closes(pc, i) /\ Undeclared(program[i]) /\ b = <<program[i].scope, program[i].x>>

Returning == phase = "type" => Len(returns) = Len(ScopeAt(pc)) + 1

PassInv == ScopeInv /\ IInv /\ TypeOK /\ Returning

Evaluates(n) == n.op \in {"use", "call", "var", "return", "loop"}

-----------------------------------------------------------------------------
(***************************************************************************)
(* The tree as the later passes walk it.                                   *)
(***************************************************************************)
Walking == phase \in {"type", "gen"} /\ pc \in Nodes

\* The node that is visited, and the next one.
LEMMA AtNode ==
  ASSUME PassInv, Walking
  PROVE  /\ pc \in Nodes /\ pc \in Nat /\ node \in NodeType /\ Proper(node)
         /\ node.scope = ScopeAt(pc) /\ node.scope \in Scope /\ Body(pc) \in Scope
         /\ pc + 1 \in Nodes \cup {here}
         /\ \A i \in Nodes : ~Duplicate(i) /\ (Enters(i) <=> Opens(program[i]))
         /\ ScopeAt(pc + 1) = IF Opens(node) THEN Body(pc)
                              ELSE IF node.op = "close"
                                   THEN Outward(node.scope, Len(node.scope) - 1)
                              ELSE node.scope
         /\ node.op = "close" => node.scope # TopScope
         /\ ScopeAt(here) = TopScope
         /\ Uses(node) => Meaning(pc) \in bindings
<1>1. Tree /\ TreeOK /\ Walking /\ pc \in Nodes
  BY DEF PassInv, ScopeInv, Tree, Walking
<1>2. /\ pc \in Nat /\ node \in NodeType /\ node.scope = ScopeAt(pc) /\ node.scope \in Scope
      /\ Body(pc) \in Scope /\ pc + 1 \in Nodes \cup {here}
  BY <1>1, NodesAre, BodyIs DEF node
<1>3. scope = TopScope /\ \A i \in Nodes : ~Duplicate(i) /\ (Enters(i) <=> Opens(program[i]))
  BY <1>1 DEF PassInv, ScopeInv, Accepted, Walking, Enters
<1>4. Proper(node)
  BY <1>1 DEF Tree, AllProper, node
<1>5. /\ node.op = "close" => node.scope # TopScope
      /\ ScopeAt(pc + 1) = IF Opens(node) THEN Body(pc)
                              ELSE IF node.op = "close"
                                   THEN Outward(node.scope, Len(node.scope) - 1)
                              ELSE node.scope
  BY <1>1, <1>3 DEF Tree, Threaded, node
<1>6. ScopeAt(here) = TopScope
  BY <1>1, <1>3, NodesAre DEF ScopeAt
<1>7. ASSUME Uses(node) PROVE Meaning(pc) \in bindings
  <2>1. Resolves(bindings, node.scope, node.e)
    BY <1>1, <1>7 DEF PassInv, IInv, AllFound, Found, Walking, node
  <2>2. QED
    BY <1>2, <2>1, LookedUp DEF Meaning, node
<1>8. QED
  BY <1>1, <1>2, <1>3, <1>4, <1>5, <1>6, <1>7

\* What a node binds is in the scopes.
LEMMA BoundHere ==
  ASSUME PassInv, Walking
  PROVE  \A b \in BoundBy(pc) : b[2] \in Ident => b \in bindings
BY AtNode DEF PassInv, ScopeInv, Tree, BindsAll

\* A close ends the body of a node.
LEMMA ClosesOne ==
  ASSUME PassInv, Walking, node.op = "close"
  PROVE  /\ Owner(node.scope) \in Nodes /\ Closes(pc, Owner(node.scope))
         /\ Opens(program[Owner(node.scope)]) /\ Owner(node.scope) < pc
         /\ \A i \in Nodes : Closes(pc, i) => i = Owner(node.scope)
         /\ Len(node.scope) \in Nat /\ Len(node.scope) > 0
<1> DEFINE s == node.scope
           l == Len(s)
<1>1. s \in Scope /\ s # TopScope /\ s = ScopeAt(pc) /\ pc \in Nodes /\ Tree
  BY AtNode DEF PassInv, ScopeInv
<1>2. l \in Nat /\ l \in 1 .. l /\ l > 0 /\ Outward(s, l) = s
  BY <1>1, PathIs
<1>3. PICK i \in Nodes : BodyOf(pc, l, i)
  BY <1>1, <1>2 DEF Tree, Enclosed
<1>4. Owner(s) = i /\ s = Body(i) /\ Enters(i) /\ i < pc
  BY <1>1, <1>2, <1>3 DEF BodyOf, Owner
<1>5. \A j \in Nodes : Closes(pc, j) => j = i
  BY <1>1, <1>4, BodyIs DEF Closes, Tree, node
<1>6. QED
  BY <1>2, <1>4, <1>5 DEF Closes, Enters, node

\* The loop that is left out is left at the end of its body.
LEMMA AfterIs ==
  ASSUME PassInv, Walking, node.op = "loop"
  PROVE  /\ After(pc) \in Nodes \cup {here} /\ After(pc) > pc + 1 /\ After(pc) \in Nat
         /\ ScopeAt(After(pc)) = ScopeAt(pc)
         /\ Closes(After(pc) - 1, pc) /\ After(pc) - 1 \in Nodes
<1> DEFINE C(j) == program[j].op = "close" /\ program[j].scope = Body(pc)
           l == Len(program)
           q == CHOOSE j \in pc + 1 .. l : C(j)
           s == ScopeAt(pc)
<1>1. /\ Tree /\ pc \in Nodes /\ Enters(pc) /\ ScopeAt(here) = TopScope
      /\ l \in Nat /\ here = l + 1 /\ Nodes = 1 .. l
  <2>1. pc \in Nodes /\ Enters(pc) /\ ScopeAt(here) = TopScope
    BY AtNode DEF Opens, node
  <2>2. Tree /\ program \in Seq(NodeType)
    BY DEF PassInv, ScopeInv, Tree, TreeOK
  <2>3. l \in Nat /\ here = l + 1 /\ Nodes = 1 .. l
    BY <2>2, LenProperties DEF here, Nodes
  <2>4. QED
    BY <2>1, <2>2, <2>3
<1>2. \E j \in pc + 1 .. here - 1 : Closes(j, pc)
  <2>1. ~OnPath(pc, TopScope)
    BY EmptySeq DEF OnPath, TopScope
  <2>2. pc < here /\ here \in Nodes \cup {here}
    BY <1>1
  <2>3. QED
    BY <1>1, <2>1, <2>2 DEF Tree, OpenOrClosed
<1>3. \E j \in pc + 1 .. l : C(j)
  BY <1>1, <1>2 DEF Closes
<1>4. q \in pc + 1 .. l /\ C(q)
  BY <1>3
<1>5. After(pc) = 1 + q
  BY DEF After
<1> HIDE DEF q, l
<1>6. q \in Nodes /\ q \in Nat /\ 1 + q = q + 1 /\ q > pc /\ q + 1 \in Nodes \cup {here}
  BY <1>1, <1>4
<1>7. program[q].op = "close" /\ program[q].scope = Body(pc) /\ ~Enters(q)
  BY <1>4 DEF Enters, Opens
<1>8. ScopeAt(q + 1) = Outward(Body(pc), Len(Body(pc)) - 1)
  BY <1>1, <1>6, <1>7 DEF Tree, Threaded
<1>9. /\ s \in Scope /\ Len(s) \in Nat /\ pc \in Nat /\ Body(pc) = Append(s, pc)
  BY <1>1, NodesAre, PathIs DEF Tree, Body
<1> HIDE DEF s
<1>10. Outward(Append(s, pc), Len(Append(s, pc)) - 1) = s
  <2>1. /\ Len(Append(s, pc)) = Len(s) + 1
        /\ \A n \in 0 .. Len(s) : Outward(Append(s, pc), n) = Outward(s, n)
        /\ Outward(s, Len(s)) = s
    BY <1>9, Inner, PathIs
  <2>2. Len(s) \in 0 .. Len(s) /\ Len(s) + 1 - 1 = Len(s)
    BY <1>9
  <2>3. QED
    BY <2>1, <2>2
<1>11. Closes(q, pc)
  BY <1>7 DEF Closes
<1>12. 1 + q - 1 = q /\ 1 + q > pc + 1
  BY <1>6, <1>9
<1>13. QED
  BY <1>5, <1>6, <1>8, <1>9, <1>10, <1>11, <1>12 DEF s

-----------------------------------------------------------------------------
(***************************************************************************)
(* The type pass.  A step visits a node, or leaves out a loop, or copies   *)
(* through a null pointer, or ends the pass.                               *)
(***************************************************************************)
Nullable == Type \cup {"null"}

ReturnsGo ==
  IF Opens(node)
  THEN HasReturnType /\ \E t \in Nullable : returns' = Append(returns, t) /\ (Undeclared(node) \/ t # "null")
  ELSE IF node.op = "close" THEN returns' = SubSeq(returns, 1, Len(returns) - 1)
  ELSE IF node.op = "return" /\ ~HasReturnType
       THEN returns' = [returns EXCEPT ![Len(returns)] = TypeOf(node.e)]
  ELSE returns' = returns

TypesGo ==
  \A b \in bindings :
    IF Given(b) THEN types'[b] # "null" \/ (node.op = "var" /\ TypeOf(node.e) = "null")
    ELSE types'[b] = types[b]

Walks ==
  /\ pc' = pc + 1 /\ ReturnsGo /\ TypesGo
  /\ node.op = "call" /\ TypeOf(node.e) = "null" => errors' # {}

Leaves ==
  /\ node.op = "loop" /\ pc' = After(pc) /\ UNCHANGED <<types, returns>>
  /\ TypeOf(node.e) # "array"
  /\ TypeOf(node.e) = "null" \/ errors' # {}

TypeVisits ==
  /\ phase = "type" /\ phase' = phase /\ pc \in Nodes /\ UNCHANGED <<scopeVars, named>>
  /\ errors \subseteq errors' /\ errors' \subseteq ErrorKind
  /\ typed \subseteq typed' /\ typed' \subseteq typed \cup {pc}
  /\ Evaluates(node) /\ TypeOf(node.e) # "null" => pc \in typed' \/ errors' # {}
  /\ types' \in [bindings -> Nullable]
  /\ Walks \/ Leaves

CopiesNull == phase = "type" /\ pc \in Nodes /\ Opens(node) /\ CopyOfNull

\* Every visit is of a node of the program.
LEMMA VisitWalks ==
  ASSUME PassInv, NEW pass \in {"type", "gen"}, NEW op, Visit(pass, op)
  PROVE  phase = pass /\ Walking /\ pc \in Nodes /\ node.op = op
<1>1. Len(program) \in Nat /\ pc \in 1 .. Len(program) + 1 /\ pc <= Len(program)
  BY LenProperties DEF PassInv, TypeOK, Visit
<1>2. pc \in 1 .. Len(program)
  BY <1>1
<1>3. QED
  BY <1>2 DEF Visit, Walking, Nodes

\* What a look up of a type returns.
LEMMA TypeOfIs ==
  ASSUME PassInv, Walking, phase = "type", node.op # "func"
  PROVE  TypeOf(node.e) \in Nullable
<1>1. types \in [bindings -> Nullable]
  BY DEF PassInv, TypeOK, Nullable
<1>2. node.e \in Ident => types[Meaning(pc)] \in Nullable
  BY <1>1, AtNode DEF Uses
<1>3. node.e \in Expr
  BY AtNode DEF Proper
<1>4. QED
  BY <1>2, <1>3 DEF TypeOf, Expr, Literal, Nullable, Type

\* What inserting a type changes.
LEMMA Inserted ==
  ASSUME types \in [bindings -> Nullable], NEW s, NEW x, NEW t \in Nullable, InsertType(s, x, t)
  PROVE  /\ types' \in [bindings -> Nullable]
         /\ \A b \in bindings : types'[b] = IF b = <<s, x>> THEN t ELSE types[b]
BY DEF InsertType

\* What a node is given to bind, node by node.
LEMMA GivenIs ==
  ASSUME PassInv, Walking
  PROVE  \A b :
    Given(b) <=>
      \/ node.op = "var" /\ b = <<node.scope, node.x>>
      \/ node.op = "func" /\ b = <<node.scope, node.x>> /\ node.declared
      \/ node.op = "func" /\ b = <<Body(pc), node.e>>
      \/ node.op = "loop" /\ b = <<Body(pc), node.x>>
      \/ LET owner == program[Owner(node.scope)]
         IN  /\ node.op = "close" /\ owner.op = "func" /\ ~owner.declared
             /\ b = <<owner.scope, owner.x>>
<1> SUFFICES ASSUME NEW b
             PROVE  Given(b) <=>
               \/ node.op = "var" /\ b = <<node.scope, node.x>>
               \/ node.op = "func" /\ b = <<node.scope, node.x>> /\ node.declared
               \/ node.op = "func" /\ b = <<Body(pc), node.e>>
               \/ node.op = "loop" /\ b = <<Body(pc), node.x>>
               \/ LET owner == program[Owner(node.scope)]
                  IN  /\ node.op = "close" /\ owner.op = "func" /\ ~owner.declared
                      /\ b = <<owner.scope, owner.x>>
  OBVIOUS
<1>1. Body(pc) # node.scope
  <2>1. Len(Body(pc)) = Len(node.scope) + 1 /\ Len(node.scope) \in Nat
    BY AtNode, BodyIs, PathIs DEF PassInv, ScopeInv, Tree
  <2>2. QED
    BY <2>1
<1>2. b \in BoundBy(pc) /\ ~ (Undeclared(node) /\ b = <<node.scope, node.x>>) <=>
        \/ node.op = "var" /\ b = <<node.scope, node.x>>
        \/ node.op = "func" /\ b = <<node.scope, node.x>> /\ node.declared
        \/ node.op = "func" /\ b = <<Body(pc), node.e>>
        \/ node.op = "loop" /\ b = <<Body(pc), node.x>>
  BY <1>1 DEF BoundBy, Undeclared, node
<1>3. (\E i \in Nodes : Closes(pc, i) /\ Undeclared(program[i])
                         /\ b = <<program[i].scope, program[i].x>>) <=>
        LET owner == program[Owner(node.scope)]
        IN  /\ node.op = "close" /\ owner.op = "func" /\ ~owner.declared
            /\ b = <<owner.scope, owner.x>>
  <2>1. CASE node.op = "close"
    BY <2>1, ClosesOne DEF Undeclared
  <2>2. CASE node.op # "close"
    BY <2>2 DEF Closes, node
  <2>3. QED
    BY <2>1, <2>2
<1>4. QED
  BY <1>2, <1>3 DEF Given

\* The state of the type pass at a node.
LEMMA TypeState ==
  ASSUME PassInv, phase = "type"
  PROVE  /\ types \in [bindings -> Nullable] /\ errors \subseteq ErrorKind
         /\ returns \in Seq(Nullable) /\ Len(returns) = Len(ScopeAt(pc)) + 1
BY DEF PassInv, TypeOK, Nullable, Returning

\* The return type of the State on the top of the stack.
LEMMA ReturnTypeIs ==
  ASSUME PassInv, Walking, phase = "type"
  PROVE  /\ ReturnType = returns[Len(returns)] /\ ReturnType \in Nullable
         /\ Len(returns) \in 1 .. Len(returns)
<1>1. returns \in Seq(Nullable) /\ Len(returns) \in Nat /\ Len(returns) # 0
  <2>1. returns \in Seq(Nullable) /\ returns # <<>>
    BY TypeState DEF PassInv, TypeOK
  <2>2. QED
    BY <2>1, LenProperties, EmptySeq
<1>2. Len(returns) \in 1 .. Len(returns)
  BY <1>1
<1>3. QED
  BY <1>1, <1>2 DEF ReturnType

\* A node that binds nothing.
LEMMA UseVisits ==
  ASSUME PassInv, TypeUse \/ TypeCall
  PROVE  TypeVisits
<1>1. /\ phase = "type" /\ Walking /\ pc \in Nodes /\ node.op \in {"use", "call"}
      /\ types \in [bindings -> Nullable] /\ errors \subseteq ErrorKind
  BY VisitWalks, TypeState DEF TypeUse, TypeCall
<1>2. /\ phase' = phase /\ UNCHANGED <<scopeVars, named>> /\ pc' = pc + 1 /\ Typing(node.e)
      /\ types' = types
  BY DEF TypeUse, TypeCall, TypeOnly, Step
<1>3. TypesGo
  BY <1>1, <1>2, GivenIs DEF TypesGo
<1>4. ReturnsGo
  BY <1>1 DEF ReturnsGo, Opens, TypeUse, TypeCall, Visit
<1>5. /\ errors \subseteq errors' /\ errors' \subseteq ErrorKind
      /\ node.op = "call" /\ TypeOf(node.e) = "null" => errors' # {}
  BY <1>1 DEF TypeUse, TypeCall, Visit, ErrorKind
<1>6. QED
  BY <1>1, <1>2, <1>3, <1>4, <1>5 DEF TypeVisits, Walks, Typing, Evaluates

\* A return, which may give the State its return type.
LEMMA ReturnVisits ==
  ASSUME PassInv, TypeReturn
  PROVE  TypeVisits
<1> DEFINE t == TypeOf(node.e)
           fits == ~HasReturnType \/ t \in {"null", ReturnType}
<1>1. /\ phase = "type" /\ Walking /\ pc \in Nodes /\ node.op = "return"
      /\ types \in [bindings -> Nullable] /\ errors \subseteq ErrorKind
  BY VisitWalks, TypeState DEF TypeReturn
<1>2. /\ phase' = phase /\ UNCHANGED <<scopeVars, named>> /\ pc' = pc + 1 /\ types' = types
      /\ returns' = IF HasReturnType THEN returns ELSE [returns EXCEPT ![Len(returns)] = t]
      /\ errors' = IF fits THEN errors ELSE errors \cup {"invalid return"}
      /\ typed' = IF fits /\ t # "null" THEN typed \cup {pc} ELSE typed
  BY DEF TypeReturn, TypeOnly, Step
<1>3. TypesGo
  BY <1>1, <1>2, GivenIs DEF TypesGo
<1>4. ReturnsGo
  BY <1>1, <1>2 DEF ReturnsGo, Opens
<1> HIDE DEF fits
<1>5. /\ errors \subseteq errors' /\ errors' \subseteq ErrorKind
      /\ typed \subseteq typed' /\ typed' \subseteq typed \cup {pc}
      /\ t # "null" => pc \in typed' \/ errors' # {}
  BY <1>1, <1>2 DEF ErrorKind
<1>6. QED
  BY <1>1, <1>2, <1>3, <1>4, <1>5 DEF TypeVisits, Walks, Evaluates

\* Each action of the type pass is a visit: it moves on and reports.
LEMMA VariableVisits ==
  ASSUME PassInv, TypeVariableDef
  PROVE  TypeVisits
<1>1. /\ phase = "type" /\ Walking /\ pc \in Nodes /\ node.op = "var"
      /\ types \in [bindings -> Nullable] /\ errors \subseteq ErrorKind
  BY VisitWalks, TypeState DEF TypeVariableDef
<1> DEFINE t == TypeOf(node.e)
<1>2. /\ phase' = phase /\ UNCHANGED <<scopeVars, named>> /\ pc' = pc + 1 /\ Typing(node.e)
      /\ InsertType(node.scope, node.x, t) /\ UNCHANGED <<errors, returns>>
  BY DEF TypeVariableDef, TypeOnly, Step
<1>3. t \in Nullable
  BY <1>1, TypeOfIs
<1>4. /\ types' \in [bindings -> Nullable]
      /\ \A b \in bindings : types'[b] = IF b = <<node.scope, node.x>> THEN t ELSE types[b]
  <2> HIDE DEF t
  <2>1. QED
    BY <1>1, <1>2, <1>3, Inserted
<1>5. TypesGo
  BY <1>1, <1>4, GivenIs DEF TypesGo
<1>6. ReturnsGo
  BY <1>1, <1>2 DEF ReturnsGo, Opens
<1>7. QED
  BY <1>1, <1>2, <1>4, <1>5, <1>6 DEF TypeVisits, Walks, Typing, Evaluates

\* A block, which pushes a state.
LEMMA BlockVisits ==
  ASSUME PassInv, TypeBlock, ~CopyOfNull
  PROVE  TypeVisits
<1>1. /\ phase = "type" /\ Walking /\ pc \in Nodes /\ node.op = "block"
      /\ types \in [bindings -> Nullable] /\ errors \subseteq ErrorKind
  BY VisitWalks, TypeState DEF TypeBlock
<1>2. /\ phase' = phase /\ UNCHANGED <<scopeVars, named, errors, types, typed>> /\ pc' = pc + 1
      /\ HasReturnType /\ returns' = Append(returns, ReturnType)
  BY DEF TypeBlock, TypeOnly, Step
<1>3. TypesGo
  BY <1>1, <1>2, GivenIs DEF TypesGo
<1>4. ReturnsGo
  <2>1. ReturnType \in Nullable /\ ReturnType # "null"
    BY <1>1, <1>2, ReturnTypeIs DEF HasReturnType
  <2> HIDE DEF ReturnType
  <2>2. QED
    BY <1>1, <1>2, <2>1 DEF ReturnsGo, Opens
<1>5. QED
  BY <1>1, <1>2, <1>3, <1>4 DEF TypeVisits, Walks, Evaluates

\* The body of a function, which pushes one too.
LEMMA FunctionVisits ==
  ASSUME PassInv, TypeFunctionDef, ~CopyOfNull
  PROVE  TypeVisits
<1>1. /\ phase = "type" /\ Walking /\ pc \in Nodes /\ node.op = "func"
      /\ types \in [bindings -> Nullable] /\ errors \subseteq ErrorKind
  BY VisitWalks, TypeState DEF TypeFunctionDef
<1>2. /\ phase' = phase /\ UNCHANGED <<scopeVars, named, errors, typed>> /\ pc' = pc + 1
      /\ HasReturnType
      /\ returns' = Append(returns, IF node.declared THEN "simple" ELSE "null")
      /\ types' = [b \in DOMAIN types |->
             IF b = <<Body(pc), node.e>> THEN "simple"
             ELSE IF b = <<node.scope, node.x>> /\ node.declared THEN "function"
             ELSE types[b]]
  BY DEF TypeFunctionDef, TypeOnly, Step
<1>3. node.declared \in BOOLEAN
  BY <1>1, AtNode DEF NodeType
<1>4. /\ types' \in [bindings -> Nullable]
      /\ \A b \in bindings :
           types'[b] = IF b = <<Body(pc), node.e>> THEN "simple"
                       ELSE IF b = <<node.scope, node.x>> /\ node.declared THEN "function"
                       ELSE types[b]
  <2>1. "simple" \in Nullable /\ "function" \in Nullable
    BY DEF Nullable, Type, Literal
  <2>2. QED
    BY <1>1, <1>2, <2>1
<1>5. TypesGo
  BY <1>1, <1>4, GivenIs DEF TypesGo
<1>6. ReturnsGo
  <2>1. "simple" \in Nullable /\ "null" \in Nullable
    BY DEF Nullable, Type, Literal
  <2>2. QED
    BY <1>1, <1>2, <1>3, <2>1 DEF ReturnsGo, Opens, Undeclared
<1>7. QED
  BY <1>1, <1>2, <1>4, <1>5, <1>6 DEF TypeVisits, Walks, Evaluates

\* The body of a loop, which does as well.
LEMMA LoopVisits ==
  ASSUME PassInv, TypeLoop, ~CopyOfNull
  PROVE  TypeVisits
<1>1. /\ phase = "type" /\ Walking /\ pc \in Nodes /\ node.op = "loop"
      /\ types \in [bindings -> Nullable] /\ errors \subseteq ErrorKind
  BY VisitWalks, TypeState DEF TypeLoop
<1>2. Typing(node.e) /\ UNCHANGED <<scopeVars, named, phase>>
  BY DEF TypeLoop, TypeOnly, Step
<1>3. CASE TypeOf(node.e) = "array"
  <2>1. /\ HasReturnType /\ returns' = Append(returns, ReturnType) /\ pc' = pc + 1
        /\ UNCHANGED errors /\ InsertType(Body(pc), node.x, "simple")
    BY <1>3 DEF TypeLoop, Step
  <2>2. "simple" \in Nullable
    BY DEF Nullable, Type, Literal
  <2>3. /\ types' \in [bindings -> Nullable]
        /\ \A b \in bindings : types'[b] = IF b = <<Body(pc), node.x>> THEN "simple" ELSE types[b]
    BY <1>1, <2>1, <2>2, Inserted
  <2>4. TypesGo
    BY <1>1, <2>3, GivenIs DEF TypesGo
  <2>5. ReturnsGo
    <3>1. ReturnType \in Nullable /\ ReturnType # "null"
      BY <1>1, <2>1, ReturnTypeIs DEF HasReturnType
    <3>2. QED
      BY <1>1, <2>1, <3>1 DEF ReturnsGo, Opens
  <2>6. QED
    BY <1>1, <1>2, <2>1, <2>3, <2>4, <2>5 DEF TypeVisits, Walks, Typing, Evaluates
<1>4. CASE TypeOf(node.e) # "array"
  <2>1. /\ errors' = IF TypeOf(node.e) = "null" THEN errors ELSE errors \cup {"invalid range"}
        /\ pc' = After(pc) /\ UNCHANGED <<types, returns>>
    BY <1>4 DEF TypeLoop
  <2>2. errors \subseteq errors' /\ errors' \subseteq ErrorKind
    BY <1>1, <2>1 DEF ErrorKind
  <2>3. Leaves
    BY <1>1, <1>4, <2>1 DEF Leaves
  <2>4. QED
    BY <1>1, <1>2, <2>1, <2>2, <2>3 DEF TypeVisits, Typing, Evaluates
<1>5. QED
  BY <1>3, <1>4

\* The end of a body, which pops it.
LEMMA CloseVisits ==
  ASSUME PassInv, TypeClose
  PROVE  TypeVisits
<1> DEFINE owner == program[Owner(node.scope)]
           t == "function"
<1>1. /\ phase = "type" /\ Walking /\ pc \in Nodes /\ node.op = "close"
      /\ types \in [bindings -> Nullable] /\ errors \subseteq ErrorKind
  BY VisitWalks, TypeState DEF TypeClose
<1>2. /\ phase' = phase /\ UNCHANGED <<scopeVars, named, errors, typed>> /\ pc' = pc + 1
      /\ returns' = SubSeq(returns, 1, Len(returns) - 1)
      /\ IF owner.op = "func" /\ ~owner.declared THEN InsertType(owner.scope, owner.x, t)
         ELSE UNCHANGED types
  BY DEF TypeClose, TypeOnly, Step
<1>3. t \in Nullable /\ t # "null"
  BY DEF Nullable, Type
<1> HIDE DEF t
<1>4. /\ types' \in [bindings -> Nullable]
      /\ \A b \in bindings :
           types'[b] = IF owner.op = "func" /\ ~owner.declared /\ b = <<owner.scope, owner.x>>
                       THEN t ELSE types[b]
  <2> HIDE DEF owner
  <2>1. CASE owner.op = "func" /\ ~owner.declared
    BY <1>1, <1>2, <1>3, <2>1, Inserted
  <2>2. CASE ~ (owner.op = "func" /\ ~owner.declared)
    BY <1>1, <1>2, <2>2
  <2>3. QED
    BY <2>1, <2>2
<1>5. TypesGo
  BY <1>1, <1>3, <1>4, GivenIs DEF TypesGo
<1>6. ReturnsGo
  BY <1>1, <1>2 DEF ReturnsGo, Opens
<1>7. QED
  BY <1>1, <1>2, <1>4, <1>5, <1>6 DEF TypeVisits, Walks, Evaluates

\* The steps of the type pass.
LEMMA TypePassSteps ==
  ASSUME PassInv, TypePass
  PROVE  TypeVisits \/ CopiesNull \/ TypeEnd
<1>1. CASE CopyOfNull /\ (TypeFunctionDef \/ TypeBlock \/ TypeLoop)
  BY <1>1, VisitWalks DEF TypeFunctionDef, TypeBlock, TypeLoop, CopiesNull, Opens
<1>2. QED
  BY <1>1, UseVisits, ReturnVisits, VariableVisits, BlockVisits, FunctionVisits, LoopVisits, CloseVisits DEF TypePass

\* The States on the stack, and which of them have a return type.
LEMMA ReturnsAre ==
  ASSUME PassInv, TypeVisits, Walks
  PROVE  LET l == Len(returns)
         IN  /\ returns' \in Seq(Nullable) /\ Len(returns') = Len(ScopeAt(pc + 1)) + 1
             /\ \A d \in 1 .. Len(returns') : d \in 1 .. l /\ returns[d] # "null" => returns'[d] # "null"
             /\ Opens(node) => Len(returns') = l + 1 /\ (returns'[l + 1] # "null" \/ Undeclared(node))
             /\ node.op = "return" => Len(returns') = l /\ (returns'[l] # "null" \/ TypeOf(node.e) = "null")
<1> DEFINE l == Len(returns)
<1>1. /\ Walking /\ returns \in Seq(Nullable) /\ l = Len(node.scope) + 1 /\ ReturnsGo
      /\ node.scope \in Scope /\ Len(node.scope) \in Nat /\ l \in Nat
      /\ Body(pc) \in Scope /\ Len(Body(pc)) = l
  <2>1. Walking /\ ReturnsGo /\ phase = "type" /\ TreeOK /\ pc \in Nodes
    BY DEF TypeVisits, Walks, Walking, PassInv, ScopeInv, Tree
  <2>2. returns \in Seq(Nullable) /\ l = Len(node.scope) + 1 /\ node.scope \in Scope /\ node.scope = ScopeAt(pc)
    BY <2>1, TypeState, AtNode
  <2>3. QED
    BY <2>1, <2>2, PathIs, BodyIs
<1>2. CASE Opens(node)
  <2>1. PICK t \in Nullable : returns' = Append(returns, t) /\ (Undeclared(node) \/ t # "null")
    BY <1>1, <1>2 DEF ReturnsGo
  <2>2. /\ returns' \in Seq(Nullable) /\ Len(returns') = l + 1 /\ returns'[l + 1] = t
        /\ \A d \in 1 .. l : returns'[d] = returns[d]
    BY <1>1, <2>1, AppendProperties
  <2>3. ScopeAt(pc + 1) = Body(pc) /\ node.op # "return"
    BY <1>1, <1>2, AtNode DEF Opens
  <2>4. QED
    BY <1>1, <1>2, <2>1, <2>2, <2>3
<1>3. CASE ~Opens(node) /\ node.op = "close"
  <2>1. returns' = SubSeq(returns, 1, l - 1) /\ node.scope # TopScope
    BY <1>1, <1>3, AtNode DEF ReturnsGo
  <2> DEFINE m == l - 1
  <2>2. m \in Nat /\ m >= 1 /\ m = Len(node.scope) /\ m <= l
    BY <1>1, <2>1, PathIs
  <2>3. \A d \in 1 .. l : returns[d] \in Nullable
    BY <1>1
  <2>4. m - 1 \in 0 .. Len(node.scope) /\ \A d \in 1 .. m : d \in 1 .. l
    BY <1>1, <2>2
  <2>5. ScopeAt(pc + 1) = Outward(node.scope, m - 1)
    BY <1>1, <1>3, <2>2, AtNode
  <2> HIDE DEF m, l
  <2>6. Len(ScopeAt(pc + 1)) = m - 1
    BY <1>1, <2>4, <2>5, OutwardIs
  <2>7. /\ SubSeq(returns, 1, m) \in Seq(Nullable)
        /\ Len(SubSeq(returns, 1, m)) = IF 1 <= m THEN m - 1 + 1 ELSE 0
        /\ \A d \in 1 .. m - 1 + 1 : SubSeq(returns, 1, m)[d] = returns[1 + d - 1]
    BY <2>2, <2>3, <2>4, SubSeqProperties
  <2>8. /\ returns' \in Seq(Nullable) /\ Len(returns') = m
        /\ \A d \in 1 .. m : returns'[d] = returns[d]
    BY <2>1, <2>2, <2>7 DEF m
  <2>9. QED
    BY <1>3, <2>2, <2>6, <2>8 DEF l
<1>4. CASE ~Opens(node) /\ node.op = "return" /\ ~HasReturnType
  <2> DEFINE t == TypeOf(node.e)
  <2>1. returns' = [returns EXCEPT ![l] = t] /\ ScopeAt(pc + 1) = node.scope
    BY <1>1, <1>4, AtNode DEF ReturnsGo
  <2>5. t \in Nullable
    BY <1>1, <1>4, TypeOfIs DEF TypeVisits, Opens
  <2> HIDE DEF t
  <2>2. l \in 1 .. l
    BY <1>1
  <2>3. /\ returns' \in Seq(Nullable) /\ Len(returns') = l /\ returns'[l] = t
        /\ \A d \in 1 .. l : d # l => returns'[d] = returns[d]
    BY <1>1, <2>1, <2>2, <2>5
  <2>6. returns[l] = "null"
    BY <1>4 DEF HasReturnType, ReturnType
  <2>4. QED
    BY <1>1, <1>4, <2>1, <2>2, <2>3, <2>6 DEF t
<1>5. CASE ~Opens(node) /\ node.op # "close" /\ (node.op = "return" => HasReturnType)
  <2>1. returns' = returns /\ ScopeAt(pc + 1) = node.scope
    BY <1>1, <1>5, AtNode DEF ReturnsGo
  <2>2. QED
    BY <1>1, <1>5, <2>1 DEF HasReturnType, ReturnType
<1>6. QED
  BY <1>2, <1>3, <1>4, <1>5

-----------------------------------------------------------------------------
(***************************************************************************)
(* The generator.                                                          *)
(***************************************************************************)
GenVisits ==
  /\ phase = "gen" /\ pc \in Nodes /\ UNCHANGED <<scopeVars, errors, typeVars>>
  /\ named \subseteq named' /\ named' \subseteq bindings
  /\ \A b \in BoundBy(pc) : b \in bindings => b \in named'
  /\ \/ phase' = phase /\ pc' = pc + 1
     \/ /\ phase' \in {"thrown", "read null"} /\ pc' = pc /\ Evaluates(node)
        /\ (node.e \in Ident /\ Meaning(pc) \notin named') \/ pc \notin typed

\* What a node is called by is what it binds.
LEMMA NamesWhatIsBound ==
  ASSUME PassInv, Walking, NEW names,
         \A b \in names : b \in BoundBy(pc) /\ b[2] \in Ident,
         \A b \in BoundBy(pc) : b[2] \in Ident => b \in names,
         named' = named \cup names
  PROVE  /\ named \subseteq named' /\ named' \subseteq bindings
         /\ \A b \in BoundBy(pc) : b \in bindings => b \in named'
<1>1. \A b \in bindings : b[2] \in Ident
  BY DEF PassInv, TypeOK
<1>2. named \subseteq bindings
  BY DEF PassInv, TypeOK
<1>3. QED
  BY <1>1, <1>2, BoundHere

\* An expression is generated, or its name or its type is missing.
LEMMA GeneratesOrNot ==
  ASSUME phase = "gen", GenExpr
  PROVE  \/ phase' = phase /\ pc' = pc + 1
         \/ /\ phase' \in {"thrown", "read null"} /\ pc' = pc
            /\ (node.e \in Ident /\ Meaning(pc) \notin named') \/ pc \notin typed
BY DEF GenExpr, Generates

\* The steps of the generator.
LEMMA GenPassSteps ==
  ASSUME PassInv, GenPass
  PROVE  GenVisits \/ GenEnd
<1>1. ASSUME NEW op \in {"use", "call", "return", "block", "close"}, GenVisit(op, {})
      PROVE  /\ phase = "gen" /\ pc \in Nodes /\ UNCHANGED <<scopeVars, errors, typeVars>>
             /\ named \subseteq named' /\ named' \subseteq bindings /\ node.op = op
             /\ \A b \in BoundBy(pc) : b \in bindings => b \in named'
  <2>1. /\ phase = "gen" /\ Walking /\ pc \in Nodes /\ node.op = op
        /\ UNCHANGED <<scopeVars, errors, typeVars>> /\ named' = named
    BY <1>1, VisitWalks DEF GenVisit
  <2>2. BoundBy(pc) = {}
    BY <2>1 DEF BoundBy, node
  <2>3. QED
    BY <2>1, <2>2 DEF PassInv, TypeOK
<1>2. CASE GenUse
  BY <1>1, <1>2, GeneratesOrNot DEF GenUse, GenVisits, Evaluates
<1>3. CASE GenBlock
  BY <1>1, <1>3 DEF GenBlock, GenVisits, Step
<1>4. CASE GenVariableDef
  <2> DEFINE names == {<<node.scope, node.x>>}
  <2>1. /\ phase = "gen" /\ Walking /\ pc \in Nodes /\ node.op = "var"
        /\ UNCHANGED <<scopeVars, errors, typeVars>> /\ named' = named \cup names
    BY <1>4, VisitWalks DEF GenVariableDef, GenVisit
  <2>2. BoundBy(pc) = names /\ \A b \in names : b[2] \in Ident
    BY <2>1, AtNode DEF BoundBy, node, Proper
  <2> HIDE DEF names
  <2>3. /\ named \subseteq named' /\ named' \subseteq bindings
        /\ \A b \in BoundBy(pc) : b \in bindings => b \in named'
    BY <2>1, <2>2, NamesWhatIsBound
  <2>4. QED
    BY <1>4, <2>1, <2>3, GeneratesOrNot DEF GenVariableDef, GenVisits, Evaluates
<1>5. CASE GenLoop
  <2> DEFINE names == {<<Body(pc), node.x>>}
  <2>1. /\ phase = "gen" /\ Walking /\ pc \in Nodes /\ node.op = "loop"
        /\ UNCHANGED <<scopeVars, errors, typeVars>> /\ named' = named \cup names
    BY <1>5, VisitWalks DEF GenLoop, GenVisit
  <2>2. BoundBy(pc) = names /\ \A b \in names : b[2] \in Ident
    BY <2>1, AtNode DEF BoundBy, node, Proper
  <2> HIDE DEF names
  <2>3. /\ named \subseteq named' /\ named' \subseteq bindings
        /\ \A b \in BoundBy(pc) : b \in bindings => b \in named'
    BY <2>1, <2>2, NamesWhatIsBound
  <2>4. QED
    BY <1>5, <2>1, <2>3, GeneratesOrNot DEF GenLoop, GenVisits, Evaluates
<1>6. CASE GenFunctionDef
  <2> DEFINE names == {<<node.scope, node.x>>} \cup
                        (IF node.e = NoIdent THEN {} ELSE {<<Body(pc), node.e>>})
  <2>1. /\ phase = "gen" /\ Walking /\ pc \in Nodes /\ node.op = "func"
        /\ UNCHANGED <<scopeVars, errors, typeVars>> /\ named' = named \cup names
        /\ pc' = pc + 1 /\ phase' = phase
    BY <1>6, VisitWalks DEF GenFunctionDef, GenVisit, Step
  <2>2. /\ \A b \in names : b \in BoundBy(pc) /\ b[2] \in Ident
        /\ \A b \in BoundBy(pc) : b[2] \in Ident => b \in names
    <3>1. node.x \in Ident /\ node.e \in Ident \cup {NoIdent} /\ NoIdent \notin Ident
      BY <2>1, AtNode, NamesAssumption DEF Proper, Expr
    <3>2. BoundBy(pc) = {<<node.scope, node.x>>, <<Body(pc), node.e>>}
      BY <2>1 DEF BoundBy, node
    <3>3. QED
      BY <3>1, <3>2
  <2> HIDE DEF names
  <2>3. /\ named \subseteq named' /\ named' \subseteq bindings
        /\ \A b \in BoundBy(pc) : b \in bindings => b \in named'
    BY <2>1, <2>2, NamesWhatIsBound
  <2>4. QED
    BY <2>1, <2>3 DEF GenVisits
<1>7. QED
  BY <1>2, <1>3, <1>4, <1>5, <1>6 DEF GenPass

-----------------------------------------------------------------------------
(***************************************************************************)
(* Type correctness.                                                       *)
(***************************************************************************)
LEMMA InitPassInv == Init => PassInv
<1> SUFFICES ASSUME Init PROVE PassInv
  OBVIOUS
<1>1. ScopeInv /\ IInv /\ TreeOK
  BY InitScopeInv, InitIInv DEF ScopeInv, Tree
<1>2. NotBegun /\ Len(program) = 0
  <2>1. program = <<>> /\ Len(program) = 0
    BY EmptySeq DEF Init
  <2>2. QED
    BY <1>1, <2>1 DEF ScopeInv, Scoping, Init
<1>3. returns # <<>>
  <2>1. Len(returns) = 1
    BY <1>2 DEF NotBegun
  <2>2. Len(<<>>) = 0
    OBVIOUS
  <2>3. QED
    BY <2>1, <2>2
<1>4. pc \in 1 .. Len(program) + 1
  BY <1>2 DEF NotBegun
<1>5. TypeOK
  BY <1>1, <1>2, <1>3, <1>4 DEF TypeOK, TreeOK, NotBegun, Init, Phase, ErrorKind
<1>6. QED
  BY <1>1, <1>5 DEF PassInv, Returning, Init

\* A step of the scope pass keeps the invariant.
LEMMA GrowsPassInv ==
  ASSUME PassInv, ScopeInv', IInv', NEW n, Grows(n)
  PROVE  PassInv'
<1>1. /\ phase = "scope" /\ phase' = "scope" /\ UNCHANGED <<pc, types, returns, typed, named>>
      /\ idents' \subseteq idents \cup {here} /\ bindings \subseteq bindings'
  BY DEF Grows, Binds
<1>2. TreeOK /\ TreeOK' /\ NotBegun /\ (ErrorsExact)'
  BY <1>1 DEF PassInv, ScopeInv, Tree, Scoping
<1>3. Nodes' = Nodes \cup {here}
  BY <1>2, GrowsProgram
<1>4. pc' \in 1 .. Len(program') + 1
  <2>1. Len(program') \in Nat /\ pc' = 1
    BY <1>1, <1>2, LenProperties DEF TreeOK, NotBegun
  <2>2. QED
    BY <2>1
<1>5. idents' \subseteq Nodes' /\ typed' \subseteq Nodes' /\ named' \subseteq bindings'
      /\ returns' \in Seq(Type \cup {"null"}) /\ returns' # <<>>
  BY <1>1, <1>3 DEF PassInv, TypeOK
<1>6. errors' \subseteq ErrorKind /\ phase' \in Phase
  BY <1>1, <1>2 DEF ErrorsExact, ErrorKind, Phase
<1>7. TypeOK'
  BY <1>1, <1>2, <1>4, <1>5, <1>6 DEF TypeOK, TreeOK
<1>8. QED
  BY <1>1, <1>7 DEF PassInv, Returning

\* So does its end.
LEMMA ScopeEndPassInv ==
  ASSUME PassInv, ScopeInv', IInv', ScopeEnd
  PROVE  PassInv'
<1>1. /\ phase = "scope" /\ phase' \in {"type", "rejected"}
      /\ UNCHANGED <<program, scope, bindings, idents, errors, pc, returns, typed, named>>
      /\ types' = [b \in bindings |-> "null"]
  BY DEF ScopeEnd, scopeVars
<1>2. types' \in [bindings' -> Type \cup {"null"}]
  BY <1>1
<1>3. TypeOK'
  BY <1>1, <1>2 DEF PassInv, TypeOK, Nodes, Phase
<1>4. Len(returns') = Len(ScopeAt(pc)') + 1
  <2>1. Len(returns) = 1 /\ pc = 1 /\ ScopeAt(1) = TopScope
    BY <1>1 DEF PassInv, ScopeInv, Scoping, NotBegun, Tree, Threaded
  <2>2. ScopeAt(pc)' = ScopeAt(pc)
    BY <1>1 DEF ScopeAt, Nodes
  <2>3. Len(TopScope) = 0
    BY EmptySeq DEF TopScope
  <2>4. QED
    BY <1>1, <2>1, <2>2, <2>3
<1>5. QED
  BY <1>3, <1>4 DEF PassInv, Returning

\* The later passes leave the scopes alone.
LEMMA SameScopes ==
  ASSUME UNCHANGED scopeVars
  PROVE  /\ Nodes' = Nodes /\ here' = here
         /\ \A i : ScopeAt(i)' = ScopeAt(i) /\ Body(i)' = Body(i) /\ BoundBy(i)' = BoundBy(i)
                   /\ Meaning(i)' = Meaning(i)
         /\ \A i, j : Closes(i, j)' <=> Closes(i, j)
         /\ Clean' <=> Clean
<1>1. UNCHANGED <<program, scope, bindings>>
  BY DEF scopeVars
<1>2. Nodes' = Nodes /\ here' = here
  BY <1>1 DEF Nodes, here
<1>3. \A i : ScopeAt(i)' = ScopeAt(i) /\ Body(i)' = Body(i) /\ Meaning(i)' = Meaning(i)
  BY <1>1, <1>2 DEF ScopeAt, Body, Meaning
<1>4. \A i : BoundBy(i)' = BoundBy(i)
  BY <1>1, <1>3 DEF BoundBy
<1>5. \A i, j : Closes(i, j)' <=> Closes(i, j)
  BY <1>1, <1>3 DEF Closes
<1>6. \A s, i : InBody(s, i)' <=> InBody(s, i)
  BY <1>3 DEF InBody
<1>7. Clean' <=> Clean
  BY <1>1, <1>2, <1>3, <1>6 DEF Clean
<1>8. QED
  BY <1>2, <1>3, <1>4, <1>5, <1>7

\* A visit of the type pass keeps the invariant.
LEMMA TypeVisitsPassInv ==
  ASSUME PassInv, ScopeInv', IInv', TypeVisits
  PROVE  PassInv'
<1>1. /\ phase = "type" /\ phase' = "type" /\ pc \in Nodes /\ Walking
      /\ UNCHANGED <<program, scope, bindings, idents, named>>
      /\ errors' \subseteq ErrorKind /\ typed' \subseteq typed \cup {pc}
      /\ types' \in [bindings -> Type \cup {"null"}]
  BY DEF TypeVisits, scopeVars, Nullable, Walking
<1>2. /\ returns' \in Seq(Nullable) /\ Len(returns') = Len(ScopeAt(pc')) + 1
      /\ pc' \in Nodes \cup {here}
  <2>1. CASE Walks
    BY <1>1, <2>1, ReturnsAre, AtNode DEF Walks
  <2>2. CASE Leaves
    BY <1>1, <2>2, AfterIs, TypeState DEF Leaves
  <2>3. QED
    BY <2>1, <2>2 DEF TypeVisits
<1>3. pc' \in 1 .. Len(program) + 1
  <2>1. Len(program) \in Nat
    BY LenProperties DEF PassInv, TypeOK
  <2>2. QED
    BY <1>2, <2>1 DEF Nodes, here
<1>4. returns' # <<>>
  <2>1. ScopeAt(pc') \in Scope
    BY <1>2, NodesAre DEF PassInv, ScopeInv, Tree
  <2>2. Len(ScopeAt(pc')) + 1 # 0
    BY <2>1, PathIs
  <2>3. QED
    BY <1>2, <2>2, EmptySeq
<1>5. TypeOK'
  BY <1>1, <1>2, <1>3, <1>4 DEF PassInv, TypeOK, Nodes, Nullable
<1>6. Returning'
  <2>1. \A i : ScopeAt(i)' = ScopeAt(i)
    BY SameScopes DEF TypeVisits
  <2>2. ScopeAt(pc)' = ScopeAt(pc')
    BY <1>1 DEF ScopeAt, Nodes
  <2>3. QED
    BY <1>2, <2>2 DEF Returning
<1>7. QED
  BY <1>5, <1>6 DEF PassInv

\* So does one of the generator.
LEMMA GenVisitsPassInv ==
  ASSUME PassInv, ScopeInv', IInv', GenVisits
  PROVE  PassInv'
<1>1. /\ phase = "gen" /\ phase' \in {"gen", "thrown", "read null"} /\ pc \in Nodes /\ Walking
      /\ UNCHANGED <<program, scope, bindings, idents, errors, types, returns, typed>>
      /\ named' \subseteq bindings /\ pc' \in {pc, pc + 1}
  BY DEF GenVisits, scopeVars, typeVars, Walking
<1>2. pc' \in 1 .. Len(program) + 1
  <2>1. Len(program) \in Nat
    BY LenProperties DEF PassInv, TypeOK
  <2>2. pc \in 1 .. Len(program)
    BY <1>1 DEF Nodes
  <2>3. pc' = pc \/ pc' = pc + 1
    BY <1>1
  <2>4. QED
    BY <2>1, <2>2, <2>3
<1>3. TypeOK'
  BY <1>1, <1>2 DEF PassInv, TypeOK, Nodes, Phase, Crash
<1>4. QED
  BY <1>1, <1>3 DEF PassInv, Returning

\* So do the steps that end a pass or copy a null type.
LEMMA EndsPassInv ==
  ASSUME PassInv, ScopeInv', IInv', CopiesNull \/ TypeEnd \/ GenEnd
  PROVE  PassInv'
<1>1. /\ UNCHANGED <<program, scope, bindings, idents, errors, types, returns, typed, named>>
      /\ phase # "scope" /\ phase' \in {"copied null", "gen", "rejected", "done"} /\ pc' \in {1, pc}
  BY DEF CopiesNull, CopyOfNull, TypeEnd, GenEnd, scopeVars, typeVars
<1>2. pc' \in 1 .. Len(program) + 1
  <2>1. Len(program) \in Nat
    BY LenProperties DEF PassInv, TypeOK
  <2>2. pc \in 1 .. Len(program) + 1
    BY DEF PassInv, TypeOK
  <2>3. pc' = 1 \/ pc' = pc
    BY <1>1
  <2>4. QED
    BY <2>1, <2>2, <2>3
<1>3. TypeOK'
  BY <1>1, <1>2 DEF PassInv, TypeOK, Nodes, Phase, Crash
<1>4. QED
  BY <1>1, <1>3 DEF PassInv, Returning

\* Every step keeps the invariant.
LEMMA PassInvKept == PassInv /\ [Next]_vars => PassInv'
<1> SUFFICES ASSUME PassInv, [Next]_vars PROVE PassInv'
  OBVIOUS
<1>1. ScopeInv' /\ IInv'
  BY ScopeInvKept, IInvKept DEF PassInv
<1>2. CASE UNCHANGED vars
  <2>1. UNCHANGED <<program, scope, bindings, idents, phase, errors, pc, types, returns, typed, named>>
    BY <1>2 DEF vars
  <2>2. TypeOK' /\ Returning'
    BY <2>1 DEF PassInv, TypeOK, Nodes, Returning, ScopeAt
  <2>3. QED
    BY <1>1, <2>2 DEF PassInv
<1>3. CASE ScopePass
  BY <1>1, <1>3, ScopePassGrows, GrowsPassInv, ScopeEndPassInv DEF PassInv, ScopeInv, Tree
<1>4. CASE TypePass
  BY <1>1, <1>4, TypePassSteps, TypeVisitsPassInv, EndsPassInv
<1>5. CASE GenPass
  BY <1>1, <1>5, GenPassSteps, GenVisitsPassInv, EndsPassInv
<1>6. QED
  BY <1>2, <1>3, <1>4, <1>5 DEF Next

\* The passes keep the tables they share in order: a node's use and type are recorded
\* for nodes of the tree, only what is bound has a type or a bash name, and the stack
\* of States is never empty.
THEOREM PassesTypeOK == Spec => []TypeOK
<1>1. PassInv => TypeOK
  BY DEF PassInv
<1>2. QED
  BY <1>1, InitPassInv, PassInvKept, PTL DEF Spec

-----------------------------------------------------------------------------
(***************************************************************************)
(* One type for a definition.                                              *)
(***************************************************************************)
\* In a program without redefinitions only one node binds a name in a scope.
LEMMA BoundOnce ==
  ASSUME PassInv, Walking, NEW i \in Nodes, NEW j \in Nodes, i < j,
         NEW b \in bindings, b \in BoundBy(i), b \in BoundBy(j)
  PROVE  FALSE
<1>1. Tree /\ TreeOK /\ Enclosed /\ i \in Nat /\ j \in Nat /\ ~Duplicate(j) /\ Nodes = 1 .. here - 1
  BY AtNode, NodesAre DEF PassInv, ScopeInv, Tree
<1>2. i \in 1 .. j - 1
  BY <1>1
<1>3. b \in BoundBefore(j)
  BY <1>2 DEF BoundBefore
<1>4. b[1] = Body(j)
  BY <1>1, <1>3 DEF BoundBy, Duplicate
<1>5. b[1] = Body(i) \/ b[1] = ScopeAt(i)
  BY <1>1, NodesAre DEF BoundBy
<1>6. Body(i) # Body(j)
  BY <1>1, BodyIs
<1>7. ScopeAt(i) # Body(j)
  <2>1. /\ ScopeAt(i) \in Scope /\ Len(ScopeAt(i)) \in 0 .. Len(ScopeAt(i))
        /\ Outward(ScopeAt(i), Len(ScopeAt(i))) = ScopeAt(i)
    BY <1>1, NodesAre, PathIs
  <2>2. i \in Nodes \cup {here} /\ ~ (j < i)
    BY <1>1
  <2>3. QED
    BY <1>1, <2>1, <2>2, BodyOnPath
<1>8. QED
  BY <1>4, <1>5, <1>6, <1>7

\* A body is closed by one node.
LEMMA ClosedByOne ==
  ASSUME PassInv, NEW i \in Nodes, NEW k \in Nodes, NEW j \in Nodes, k < j, Closes(k, i), Closes(j, i)
  PROVE  FALSE
<1>1. Tree /\ TreeOK /\ Owner(Body(i)) = i /\ ScopeAt(j) = Body(i)
  BY BodyIs, NodesAre DEF PassInv, ScopeInv, Tree, Closes
<1>2. ~OnPath(i, Body(i))
  BY <1>1 DEF Tree, ClosedOnce, Closes
<1>3. Len(ScopeAt(i)) + 1 \in 1 .. Len(Body(i)) /\ Body(i)[Len(ScopeAt(i)) + 1] = i
  BY <1>1, BodyIs, NodesAre, PathIs, SMTT(30)
<1>4. QED
  BY <1>2, <1>3 DEF OnPath

\* The inductive invariant: what has a type is bound by a node that was visited, and
\* whose body was left if the type is deduced from it.
Deduced(i, b) == Undeclared(program[i]) /\ b = <<program[i].scope, program[i].x>>

ClosedBefore(i) == \E k \in Nodes : k < pc /\ Closes(k, i)

Typed(b) == \E j \in Nodes : j < pc /\ b \in BoundBy(j) /\ (Deduced(j, b) => ClosedBefore(j))

TypedInv ==
  /\ phase = "scope" => DOMAIN types = {}
  /\ phase = "type" => \A b \in bindings : types[b] # "null" => Typed(b)

\* What this node gives a type has none yet.
LEMMA NotTypedYet ==
  ASSUME PassInv, Walking, NEW b \in bindings, Given(b), Typed(b)
  PROVE  FALSE
<1>1. PICK j \in Nodes : j < pc /\ b \in BoundBy(j) /\ (Deduced(j, b) => ClosedBefore(j))
  BY DEF Typed
<1>2. pc \in Nodes
  BY DEF Walking
<1>3. b \notin BoundBy(pc)
  BY <1>1, <1>2, BoundOnce
<1>4. PICK i \in Nodes : Closes(pc, i) /\ Deduced(i, b)
  BY <1>3 DEF Given, Deduced
<1>5. b \in BoundBy(i)
  BY <1>4 DEF Deduced, Undeclared, BoundBy
<1>6. i \in Nat /\ j \in Nat
  BY NodesAre DEF PassInv, ScopeInv, Tree
<1>7. i = j
  BY <1>1, <1>5, <1>6, BoundOnce
<1>8. PICK k \in Nodes : k < pc /\ Closes(k, i)
  BY <1>1, <1>4, <1>7 DEF ClosedBefore
<1>9. QED
  BY <1>2, <1>4, <1>8, ClosedByOne

\* A type pass step types only what had no type.
LEMMA TypesOnce ==
  ASSUME PassInv, TypedInv, TypeVisits, NEW b \in bindings, types[b] # "null"
  PROVE  types'[b] = types[b]
<1>1. phase = "type" /\ Walking
  BY DEF TypeVisits, Walking
<1>2. ~Given(b)
  BY <1>1, NotTypedYet DEF TypedInv
<1>3. QED
  BY <1>2 DEF TypeVisits, Walks, Leaves, TypesGo

\* A visit goes forward, over a whole body at most.
LEMMA PcAdvances ==
  ASSUME PassInv, TypeVisits
  PROVE  /\ pc \in Nat /\ pc' \in Nat /\ pc < pc' /\ \A j \in Nodes : j \in Nat
         /\ pc' = pc + 1 \/ (Leaves /\ After(pc) = pc')
<1>1. Walking /\ pc \in Nat /\ \A j \in Nodes : j \in Nat
  BY AtNode, NodesAre DEF TypeVisits, Walking, PassInv, ScopeInv, Tree
<1>2. CASE Walks
  <2>1. pc' = pc + 1
    BY <1>2 DEF Walks
  <2>2. QED
    BY <1>1, <2>1
<1>3. CASE Leaves
  <2>1. pc' = After(pc) /\ node.op = "loop"
    BY <1>3 DEF Leaves
  <2>2. After(pc) \in Nat /\ After(pc) > pc + 1
    BY <1>1, <2>1, AfterIs
  <2>3. QED
    BY <1>1, <1>3, <2>1, <2>2
<1>4. QED
  BY <1>2, <1>3 DEF TypeVisits

\* What has a type is bound by a node visited before.
LEMMA TypeVisitsTyped ==
  ASSUME PassInv, TypedInv, TypeVisits
  PROVE  TypedInv'
<1>1. /\ phase = "type" /\ phase' = "type" /\ Walking /\ pc \in Nodes
      /\ pc \in Nat /\ pc' \in Nat /\ pc < pc' /\ \A j \in Nodes : j \in Nat
  BY PcAdvances DEF TypeVisits, Walking
<1>2. /\ bindings' = bindings /\ Nodes' = Nodes /\ program' = program
      /\ \A i : BoundBy(i)' = BoundBy(i)
      /\ \A i, j : Closes(i, j)' <=> Closes(i, j)
  BY SameScopes DEF TypeVisits, scopeVars
<1>3. \A i, b : Deduced(i, b)' <=> Deduced(i, b)
  BY <1>2 DEF Deduced
<1>4. \A i : ClosedBefore(i) => ClosedBefore(i)'
  BY <1>1, <1>2 DEF ClosedBefore
<1>5. \A b : Typed(b) => Typed(b)'
  BY <1>1, <1>2, <1>3, <1>4 DEF Typed
<1>6. ASSUME NEW b \in bindings, Given(b) PROVE Typed(b)'
  <2>1. CASE b \in BoundBy(pc) /\ ~Deduced(pc, b)
    BY <1>1, <1>2, <1>3, <2>1 DEF Typed
  <2>2. CASE \E i \in Nodes : Closes(pc, i) /\ Deduced(i, b)
    <3>1. PICK i \in Nodes : Closes(pc, i) /\ Deduced(i, b)
      BY <2>2
    <3>2. i < pc
      BY <1>1, <3>1, ClosesOne DEF Closes, node
    <3>3. ClosedBefore(i)'
      BY <1>1, <1>2, <3>1 DEF ClosedBefore
    <3>4. b \in BoundBy(i)
      BY <3>1 DEF Deduced, Undeclared, BoundBy
    <3>5. i < pc'
      BY <1>1, <3>2
    <3>6. QED
      BY <1>2, <3>3, <3>4, <3>5 DEF Typed
  <2>3. QED
    BY <1>6, <2>1, <2>2 DEF Given, Deduced, node
<1>7. ASSUME NEW b \in bindings, types'[b] # "null" PROVE Typed(b)'
  <2>1. CASE Given(b)
    BY <1>6, <2>1
  <2>2. CASE ~Given(b)
    <3>1. types[b] # "null"
      BY <1>7, <2>2 DEF TypeVisits, Walks, Leaves, TypesGo
    <3>2. QED
      BY <1>1, <1>5, <3>1 DEF TypedInv
  <2>3. QED
    BY <2>1, <2>2
<1>8. QED
  BY <1>1, <1>2, <1>7 DEF TypedInv

\* The kinds of steps, for the invariants below.
LEMMA NextCases ==
  ASSUME PassInv, [Next]_vars
  PROVE  \/ UNCHANGED vars
         \/ \E n : Grows(n)
         \/ ScopeEnd \/ TypeVisits \/ CopiesNull \/ TypeEnd \/ GenVisits \/ GenEnd
BY ScopePassGrows, TypePassSteps, GenPassSteps DEF Next, PassInv, ScopeInv, Tree

\* Every step keeps this.
LEMMA TypedInvKept == PassInv /\ TypedInv /\ [Next]_vars => TypedInv'
<1> SUFFICES ASSUME PassInv, TypedInv, [Next]_vars PROVE TypedInv'
  OBVIOUS
<1>1. CASE UNCHANGED vars
  BY <1>1, SMTT(30) DEF vars, TypedInv, Typed, Deduced, ClosedBefore, Nodes, BoundBy, Closes, Body
<1>2. ASSUME NEW n, Grows(n) PROVE TypedInv'
  BY <1>2 DEF Grows, TypedInv
<1>3. CASE ScopeEnd
  BY <1>3 DEF ScopeEnd, TypedInv, scopeVars
<1>4. CASE CopiesNull \/ TypeEnd \/ GenVisits \/ GenEnd
  BY <1>4 DEF CopiesNull, CopyOfNull, TypeEnd, GenVisits, GenEnd, TypedInv
<1>5. QED
  BY <1>1, <1>2, <1>3, <1>4, NextCases, TypeVisitsTyped

\* InsertType overwrites without a test, but the name it is called for never has a
\* type already: a definition keeps the type its uses were checked with.
THEOREM DefinitionsTypedOnce == Spec => TypedOnce
<1>1. Init => TypedInv
  BY DEF Init, TypedInv
<1>2. PassInv /\ TypedInv /\ [Next]_vars =>
        [\A b \in DOMAIN types : types[b] # "null" => types'[b] = types[b]]_vars
  <2> SUFFICES ASSUME PassInv, TypedInv, [Next]_vars,
                      NEW b \in DOMAIN types, types[b] # "null"
               PROVE  types'[b] = types[b]
    OBVIOUS
  <2>1. CASE TypeVisits
    <3>1. b \in bindings
      BY <2>1, TypeState DEF TypeVisits
    <3>2. QED
      BY <2>1, <3>1, TypesOnce
  <2>2. ~ScopeEnd
    BY DEF ScopeEnd, TypedInv
  <2>3. CASE UNCHANGED types
    BY <2>3
  <2>4. QED
    BY <2>1, <2>2, <2>3, NextCases DEF vars, Grows, CopiesNull, CopyOfNull, TypeEnd, GenVisits, GenEnd,
       typeVars
<1>3. QED
  BY <1>1, <1>2, InitPassInv, PassInvKept, TypedInvKept, PTL DEF Spec, TypedOnce

-----------------------------------------------------------------------------
(***************************************************************************)
(* A bash name for every definition.                                       *)
(***************************************************************************)
Naming ==
  /\ phase = "gen" => \A j \in Nodes : j < pc => \A b \in BoundBy(j) : b \in bindings => b \in named
  /\ phase = "done" => named = bindings

\* A visit of the generator keeps the names of the open blocks.
LEMMA GenVisitsNaming ==
  ASSUME PassInv, Naming, GenVisits
  PROVE  Naming'
<1>1. phase = "gen" /\ pc \in Nodes /\ phase' # "done"
  BY DEF GenVisits
<1>2. bindings' = bindings /\ Nodes' = Nodes /\ \A i : BoundBy(i)' = BoundBy(i)
  BY SameScopes DEF GenVisits, scopeVars
<1>3. ASSUME phase' = "gen", NEW j \in Nodes, j < pc', NEW b \in BoundBy(j), b \in bindings
      PROVE  b \in named'
  <2>1. pc' = pc + 1 /\ pc \in Nat /\ j \in Nat
    BY <1>1, <1>3, NodesAre DEF GenVisits, PassInv, ScopeInv, Tree
  <2>2. j < pc \/ j = pc
    BY <1>3, <2>1
  <2>3. QED
    BY <1>1, <1>3, <2>2 DEF Naming, GenVisits
<1>4. QED
  BY <1>1, <1>2, <1>3 DEF Naming

\* So does its end.
LEMMA GenEndNaming ==
  ASSUME PassInv, Naming, GenEnd
  PROVE  Naming'
<1>1. /\ phase = "gen" /\ phase' = "done" /\ pc > Len(program) /\ UNCHANGED <<bindings, named>>
  BY DEF GenEnd, scopeVars
<1>2. Len(program) \in Nat /\ pc \in 1 .. Len(program) + 1
  BY LenProperties DEF PassInv, TypeOK
<1>3. \A j \in Nodes : j < pc
  BY <1>1, <1>2 DEF Nodes
<1>4. ASSUME NEW b \in bindings PROVE b \in named
  <2>1. PICK j \in Nodes : b \in BoundBy(j)
    BY NodesAre DEF PassInv, ScopeInv, Tree, BoundThere, BoundBefore
  <2>2. QED
    BY <1>1, <1>3, <2>1 DEF Naming
<1>5. named \subseteq bindings
  BY DEF PassInv, TypeOK
<1>6. QED
  BY <1>1, <1>4, <1>5 DEF Naming

\* So does every step.
LEMMA NamingKept == PassInv /\ Naming /\ [Next]_vars => Naming'
<1> SUFFICES ASSUME PassInv, Naming, [Next]_vars PROVE Naming'
  OBVIOUS
<1>1. CASE UNCHANGED vars
  BY <1>1 DEF vars, Naming, Nodes, BoundBy, Body
<1>2. ASSUME NEW n, Grows(n) PROVE Naming'
  BY <1>2 DEF Grows, Naming
<1>3. CASE ScopeEnd \/ CopiesNull \/ TypeVisits
  BY <1>3 DEF ScopeEnd, CopiesNull, CopyOfNull, TypeVisits, Naming
<1>4. CASE TypeEnd
  <2>1. pc' = 1 /\ phase' # "done" /\ Nodes' = Nodes
    BY <1>4 DEF TypeEnd, Nodes, scopeVars
  <2>2. \A j \in Nodes : ~ (j < 1)
    BY DEF Nodes
  <2>3. QED
    BY <2>1, <2>2 DEF Naming
<1>5. QED
  BY <1>1, <1>2, <1>3, <1>4, NextCases, GenVisitsNaming, GenEndNaming

\* The generator names what ScopeCheck has bound, in the scope it is bound in: every
\* definition it has passed has its bash name, and when the program is translated no
\* other name is there.
THEOREM AllDefinitionsNamed == Spec => []DefinitionsNamed
<1>1. Init => Naming
  BY DEF Init, Naming
<1>2. PassInv /\ Naming => DefinitionsNamed
  <2> SUFFICES ASSUME PassInv, Naming, phase = "gen", NEW i \in 1 .. pc - 1
               PROVE  BoundBy(i) \cap bindings \subseteq named
    BY DEF Naming, DefinitionsNamed
  <2>1. Len(program) \in Nat /\ pc \in 1 .. Len(program) + 1
    BY LenProperties DEF PassInv, TypeOK
  <2>2. i \in Nodes /\ i < pc
    BY <2>1 DEF Nodes
  <2>3. QED
    BY <2>2 DEF Naming
<1>3. QED
  BY <1>1, <1>2, InitPassInv, PassInvKept, NamingKept, PTL DEF Spec

-----------------------------------------------------------------------------
(***************************************************************************)
(* Clean programs.  The inductive invariant: in a clean program without    *)
(* errors the State of a body has a return type if the function declares   *)
(* one or a return was met, and every name bound so far has its type,      *)
(* unless it is a function whose body deduces it and is still open.        *)
(***************************************************************************)
Returned(i) ==
  ~Undeclared(program[i]) \/
  \E k \in Nodes : k < pc /\ program[k].op = "return" /\ program[k].scope = Body(i)

ReturnsSet ==
  /\ returns[1] # "null"
  /\ \A d \in 1 .. Len(ScopeAt(pc)) : Returned(ScopeAt(pc)[d]) => returns[d + 1] # "null"

NamesTyped ==
  \A j \in Nodes : j < pc => \A b \in BoundBy(j) :
    b \in bindings /\ (Deduced(j, b) => ClosedBefore(j)) => types[b] # "null"

ExprsTyped == \A j \in Nodes : j < pc /\ Evaluates(program[j]) => j \in typed

CleanInv ==
  /\ phase = "scope" => returns[1] # "null"
  /\ phase = "type" /\ errors = {} /\ Clean => ReturnsSet /\ NamesTyped /\ ExprsTyped
  /\ phase = "gen" /\ Clean => \A j \in Nodes : Evaluates(program[j]) => j \in typed
  /\ phase \in Crash /\ errors = {} => ~Clean

\* In a clean program a name still means a binding of an earlier node.
LEMMA CleanMeaning ==
  ASSUME PassInv, Walking, Clean, Uses(node)
  PROVE  /\ Meaning(pc) \in bindings
         /\ \E j \in Nodes : j < pc /\ Meaning(pc) \in BoundBy(j)
<1>1. /\ pc \in Nodes /\ pc \in Nat /\ Meaning(pc) \in bindings /\ Tree /\ TreeOK
      /\ Nodes = 1 .. here - 1 /\ here \in Nat
  BY AtNode, NodesAre DEF PassInv, ScopeInv, Tree
<1>2. Meaning(pc) = <<node.def, node.e>>
  BY <1>1 DEF Clean, Meaning, node
<1>3. node.def # NoScope
  <2>1. SUFFICES ASSUME <<NoScope, node.e>> \in bindings PROVE FALSE
    BY <1>1, <1>2
  <2>2. PICK j \in Nodes : <<NoScope, node.e>> \in BoundBy(j)
    BY <1>1, <2>1 DEF Tree, BoundThere, BoundBefore
  <2>3. Body(j) = NoScope \/ ScopeAt(j) = NoScope
    BY <1>1, <2>2, NodesAre DEF BoundBy
  <2>4. NoScope[1] = 0 /\ Len(NoScope) = 1 /\ 1 \in 1 .. Len(NoScope) /\ 0 \notin Nodes
    BY DEF NoScope, Nodes
  <2>5. Body(j) # NoScope
    <3>1. SUFFICES ASSUME Body(j) = NoScope PROVE FALSE
      OBVIOUS
    <3>2. /\ Len(ScopeAt(j)) \in Nat /\ Len(NoScope) = Len(ScopeAt(j)) + 1
          /\ NoScope[Len(ScopeAt(j)) + 1] = j
      BY <1>1, <3>1, NodesAre, PathIs, BodyIs
    <3>3. Len(ScopeAt(j)) + 1 = 1
      BY <2>4, <3>2
    <3>4. QED
      BY <2>4, <3>2, <3>3
  <2>6. ScopeAt(j) # NoScope
    <3>1. ASSUME ScopeAt(j) = NoScope PROVE \E o \in Nodes : BodyOf(j, 1, o)
      BY <1>1, <2>4, <3>1 DEF Enclosed, Tree
    <3>2. QED
      BY <2>4, <3>1 DEF BodyOf
  <2>7. QED
    BY <2>3, <2>5, <2>6
<1>4. Meaning(pc) \in BoundBefore(pc)
  BY <1>1, <1>2, <1>3 DEF Tree, DefsThere, node
<1>5. PICK j \in 1 .. pc - 1 : Meaning(pc) \in BoundBy(j)
  BY <1>4 DEF BoundBefore
<1>6. j \in Nodes /\ j < pc
  BY <1>1, <1>5
<1>7. QED
  BY <1>1, <1>5, <1>6

\* A body that is not left is around.
LEMMA InItsBody ==
  ASSUME PassInv, Walking, NEW j \in Nodes, j < pc, Opens(program[j]), ~ClosedBefore(j)
  PROVE  InBody(node.scope, j)
<1> DEFINE s == ScopeAt(pc)
<1>1. /\ Tree /\ TreeOK /\ pc \in Nodes /\ pc \in Nat /\ Enters(j) /\ s = node.scope /\ j \in Nat
      /\ Nodes = 1 .. here - 1 /\ here \in Nat
  BY AtNode, NodesAre DEF PassInv, ScopeInv, Tree
<1>2. \A k \in j + 1 .. pc - 1 : k \in Nodes /\ k < pc
  BY <1>1
<1>3. OnPath(j, s)
  BY <1>1, <1>2 DEF Tree, OpenOrClosed, ClosedBefore
<1>4. PICK m \in 1 .. Len(s) : s[m] = j
  BY <1>3 DEF OnPath
<1>5. Outward(s, m) = Body(j)
  BY <1>1, <1>4 DEF Tree, Enclosed, BodyOf
<1>6. s \in Scope /\ Len(s) \in Nat /\ m \in 0 .. Len(s) /\ m <= Len(s)
  BY <1>1, <1>4, NodesAre, PathIs
<1>7. Len(Body(j)) = m
  BY <1>5, <1>6, OutwardIs
<1>8. QED
  BY <1>1, <1>5, <1>6, <1>7 DEF InBody

\* Every value of a clean program has a type, unless the call of a function without
\* one has been reported.
LEMMA CleanUse ==
  ASSUME PassInv, Walking, Clean, NamesTyped, Uses(node), node.op # "call"
  PROVE  TypeOf(node.e) # "null"
<1>1. PICK j \in Nodes : j < pc /\ Meaning(pc) \in BoundBy(j)
  BY CleanMeaning
<1>2. Meaning(pc) \in bindings /\ pc \in Nodes
  BY CleanMeaning DEF Walking
<1>3. Deduced(j, Meaning(pc)) => ClosedBefore(j)
  <2>1. SUFFICES ASSUME Deduced(j, Meaning(pc)), ~ClosedBefore(j) PROVE FALSE
    OBVIOUS
  <2>2. Undeclared(program[j]) /\ Opens(program[j])
    BY <2>1 DEF Deduced, Undeclared, Opens
  <2>3. InBody(node.scope, j)
    BY <1>1, <2>1, <2>2, InItsBody
  <2>4. QED
    BY <1>2, <2>1, <2>2, <2>3 DEF Clean, Deduced, node
<1>4. types[Meaning(pc)] # "null"
  BY <1>1, <1>2, <1>3 DEF NamesTyped
<1>5. QED
  BY <1>4, NamesAssumption DEF TypeOf, Literal, Uses

\* Without an error an expression that is visited has a type.
LEMMA CleanTypeOf ==
  ASSUME PassInv, TypeVisits, Clean, NamesTyped, Evaluates(node), errors' = {}
  PROVE  TypeOf(node.e) # "null" /\ Walks
<1>1. Walking /\ phase = "type"
  BY DEF TypeVisits, Walking
<1>2. TypeOf(node.e) # "null"
  <2>1. CASE Uses(node) /\ node.op # "call"
    BY <1>1, <2>1, CleanUse
  <2>2. CASE node.op = "call"
    BY <2>2 DEF TypeVisits, Walks, Leaves
  <2>3. CASE ~Uses(node) /\ node.op # "call"
    <3>1. node.e \in Literal
      BY <1>1, <2>3, AtNode DEF Proper, Uses, Evaluates, Expr
    <3>2. QED
      BY <3>1 DEF TypeOf, Literal
  <2>4. QED
    BY <2>1, <2>2, <2>3
<1>3. QED
  BY <1>2 DEF TypeVisits, Leaves

\* The scope of the next node is a part of the body of this one.
LEMMA NextScope ==
  ASSUME PassInv, Walking
  PROVE  \A d \in 1 .. Len(ScopeAt(pc + 1)) :
           \/ d \in 1 .. Len(node.scope) /\ ScopeAt(pc + 1)[d] = node.scope[d]
           \/ Opens(node) /\ d = Len(node.scope) + 1 /\ ScopeAt(pc + 1)[d] = pc
<1> DEFINE s == node.scope
           l == Len(s)
<1>1. s \in Scope /\ l \in Nat /\ s = ScopeAt(pc) /\ pc \in Nodes /\ TreeOK
  BY AtNode, PathIs DEF PassInv, ScopeInv, Tree
<1>2. CASE Opens(node)
  <2>1. ScopeAt(pc + 1) = Body(pc)
    BY <1>2, AtNode
  <2>2. /\ Len(Body(pc)) = l + 1 /\ Body(pc)[l + 1] = pc
        /\ \A m \in 1 .. l : Body(pc)[m] = s[m]
    BY <1>1, BodyIs
  <2>3. \A d \in 1 .. l + 1 : d \in 1 .. l \/ d = l + 1
    BY <1>1
  <2>4. QED
    BY <1>2, <2>1, <2>2, <2>3
<1>3. CASE ~Opens(node) /\ node.op = "close"
  <2> DEFINE m == l - 1
  <2>1. ScopeAt(pc + 1) = Outward(s, m) /\ s # TopScope
    BY <1>3, AtNode
  <2>2. m \in 0 .. Len(s) /\ \A d \in 1 .. m : d \in 1 .. l
    BY <1>1, <2>1, PathIs
  <2> HIDE DEF m
  <2>3. Len(Outward(s, m)) = m /\ \A d \in 1 .. m : Outward(s, m)[d] = s[d]
    BY <1>1, <2>2, OutwardIs
  <2>4. QED
    BY <2>1, <2>2, <2>3
<1>4. CASE ~Opens(node) /\ node.op # "close"
  BY <1>4, AtNode
<1>5. QED
  BY <1>2, <1>3, <1>4

\* A body that was left without an error has its return type.
LEMMA WalksReturnsSet ==
  ASSUME PassInv, ReturnsSet, TypeVisits, Walks,
         node.op = "return" => TypeOf(node.e) # "null"
  PROVE  ReturnsSet'
<1> DEFINE s == node.scope
           l == Len(returns)
           u == ScopeAt(pc + 1)
<1>1. /\ Walking /\ phase = "type" /\ pc' = pc + 1 /\ pc \in Nodes /\ pc \in Nat
      /\ Tree /\ TreeOK /\ \A k \in Nodes : k \in Nat
      /\ s \in Scope /\ s = ScopeAt(pc) /\ Len(s) \in Nat /\ l = Len(s) + 1
      /\ pc + 1 \in Nodes \cup {here} /\ u \in Scope /\ Len(u) \in Nat
  <2>1. Walking /\ phase = "type" /\ pc' = pc + 1 /\ pc \in Nodes /\ Tree /\ TreeOK
    BY DEF TypeVisits, Walks, Walking, PassInv, ScopeInv, Tree
  <2>2. QED
    BY <2>1, AtNode, NodesAre, PathIs, TypeState
<1>2. /\ program' = program /\ Nodes' = Nodes /\ ScopeAt(pc)' = u
      /\ \A i : Body(i)' = Body(i)
  <2>1. program' = program /\ Nodes' = Nodes /\ \A i : Body(i)' = Body(i)
    BY SameScopes DEF TypeVisits, scopeVars
  <2>2. ScopeAt(pc)' = u
    BY <1>1, <2>1 DEF ScopeAt, TypeVisits, scopeVars
  <2>3. QED
    BY <2>1, <2>2
<1>3. /\ Len(returns') = Len(u) + 1
      /\ \A d \in 1 .. Len(returns') : d \in 1 .. l /\ returns[d] # "null" => returns'[d] # "null"
      /\ Opens(node) => returns'[l + 1] # "null" \/ Undeclared(node)
      /\ node.op = "return" => Len(returns') = l /\ returns'[l] # "null"
  BY ReturnsAre
<1>4. returns'[1] # "null"
  <2>1. 1 \in 1 .. Len(returns') /\ 1 \in 1 .. l
    BY <1>1, <1>3
  <2>2. QED
    BY <1>3, <2>1 DEF ReturnsSet
<1>5. ASSUME NEW d \in 1 .. Len(u), NEW i, i = u[d], Returned(i)'
      PROVE  returns'[d + 1] # "null"
  <2>1. d + 1 \in 1 .. Len(returns')
    BY <1>1, <1>3
  <2>2. CASE d \in 1 .. Len(s) /\ u[d] = s[d]
    <3>1. d + 1 \in 1 .. l
      BY <1>1, <2>2
    <3>2. CASE Returned(s[d])
      BY <1>1, <1>3, <2>1, <2>2, <3>1, <3>2 DEF ReturnsSet
    <3>3. CASE ~Returned(s[d])
      <4>1. PICK o \in Nodes : BodyOf(pc, d, o)
        BY <1>1, <2>2 DEF Tree, Enclosed
      <4>2. s[d] = i /\ Outward(s, d) = Body(i)
        BY <1>1, <1>5, <2>2, <4>1 DEF BodyOf
      <4>3. PICK k \in Nodes : k < pc + 1 /\ program[k].op = "return" /\ program[k].scope = Body(i)
        BY <1>1, <1>2, <1>5, <2>2, <3>3, <4>2 DEF Returned
      <4>4. k = pc
        BY <1>1, <3>3, <4>2, <4>3 DEF Returned
      <4>5. s = Body(i) /\ node.op = "return"
        BY <4>3, <4>4 DEF node
      <4>6. d = Len(s)
        <5>1. d \in 0 .. Len(s)
          BY <1>1, <2>2
        <5>2. Len(Outward(s, d)) = d
          BY <1>1, <5>1, OutwardIs
        <5>3. QED
          BY <4>2, <4>5, <5>2
      <4>7. QED
        BY <1>1, <1>3, <4>5, <4>6
    <3>4. QED
      BY <3>2, <3>3
  <2>3. CASE Opens(node) /\ d = Len(s) + 1 /\ u[d] = pc
    <3>1. ~Undeclared(node)
      <4>1. SUFFICES ASSUME NEW k \in Nodes, k < pc + 1, program[k].op = "return",
                            program[k].scope = Body(pc)
                     PROVE  FALSE
        BY <1>1, <1>2, <1>5, <2>3 DEF Returned, node
      <4>2. k < pc
        <5>1. k # pc
          BY <2>3, <4>1 DEF Opens, node
        <5>2. k \in Nat /\ pc \in Nat /\ k < pc + 1
          BY <1>1, <4>1
        <5>3. QED
          BY <5>1, <5>2
      <4>3. /\ ScopeAt(k) = Body(pc) /\ ScopeAt(k) \in Scope /\ k \in Nodes \cup {here}
            /\ Len(ScopeAt(k)) \in 0 .. Len(ScopeAt(k)) /\ Outward(ScopeAt(k), Len(ScopeAt(k))) = ScopeAt(k)
        BY <1>1, <4>1, NodesAre, PathIs
      <4>4. pc < k
        BY <1>1, <4>3, BodyOnPath DEF Tree
      <4>5. QED
        BY <1>1, <4>2, <4>4
    <3>2. QED
      BY <1>1, <1>3, <2>3, <3>1
  <2>4. QED
    BY <1>1, <2>2, <2>3, NextScope
<1>6. QED
  BY <1>2, <1>4, <1>5 DEF ReturnsSet

\* Without an error, what was visited has its types.
LEMMA WalksTyped ==
  ASSUME PassInv, TypedInv, TypeVisits, Clean, errors' = {}, NamesTyped, ExprsTyped
  PROVE  NamesTyped' /\ ExprsTyped'
<1>1. /\ phase = "type" /\ Walking /\ pc \in Nodes /\ pc \in Nat /\ \A j \in Nodes : j \in Nat
      /\ Tree /\ TreeOK
  BY PcAdvances DEF TypeVisits, Walking, PassInv, ScopeInv, Tree
<1>2. /\ program' = program /\ bindings' = bindings /\ Nodes' = Nodes
      /\ \A i : BoundBy(i)' = BoundBy(i)
      /\ \A i, j : Closes(i, j)' <=> Closes(i, j)
      /\ \A i, b : Deduced(i, b)' <=> Deduced(i, b)
  BY SameScopes DEF TypeVisits, scopeVars, Deduced
<1>3. Walks /\ (Evaluates(node) => TypeOf(node.e) # "null")
  <2>1. CASE Evaluates(node)
    BY <2>1, CleanTypeOf
  <2>2. CASE ~Evaluates(node)
    BY <2>2 DEF TypeVisits, Leaves, Evaluates
  <2>3. QED
    BY <2>1, <2>2
<1>4. pc' = pc + 1 /\ \A j \in Nodes : j < pc' <=> j < pc \/ j = pc
  BY <1>1, <1>3 DEF Walks
<1>5. ExprsTyped'
  <2>1. typed \subseteq typed' /\ (Evaluates(node) => pc \in typed')
    BY <1>3 DEF TypeVisits
  <2>2. QED
    BY <1>2, <1>4, <2>1 DEF ExprsTyped, node
<1>6. \A b \in bindings : IF Given(b) THEN types'[b] # "null" ELSE types'[b] = types[b]
  <2>1. node.op = "var" => TypeOf(node.e) # "null"
    BY <1>3 DEF Evaluates
  <2>2. QED
    BY <1>3, <2>1 DEF Walks, TypesGo
<1>7. ASSUME NEW j \in Nodes, j < pc', NEW b \in BoundBy(j), b \in bindings,
             Deduced(j, b) => ClosedBefore(j)'
      PROVE  types'[b] # "null"
  <2>1. CASE Given(b)
    BY <1>6, <1>7, <2>1
  <2>2. CASE ~Given(b) /\ j = pc
    <3>1. Deduced(pc, b)
      BY <1>7, <2>2 DEF Given, Deduced, node
    <3>2. PICK k \in Nodes : k < pc + 1 /\ Closes(k, pc)
      BY <1>2, <1>4, <1>7, <2>2, <3>1 DEF ClosedBefore
    <3>3. /\ ScopeAt(k) = Body(pc) /\ ScopeAt(k) \in Scope /\ k \in Nodes \cup {here}
          /\ Len(ScopeAt(k)) \in 0 .. Len(ScopeAt(k)) /\ Outward(ScopeAt(k), Len(ScopeAt(k))) = ScopeAt(k)
      BY <1>1, <3>2, NodesAre, PathIs DEF Closes
    <3>4. pc < k
      BY <1>1, <3>3, BodyOnPath DEF Tree
    <3>5. QED
      BY <1>1, <3>2, <3>4
  <2>3. CASE ~Given(b) /\ j < pc
    <3>1. Deduced(j, b) => ClosedBefore(j)
      <4>1. SUFFICES ASSUME Deduced(j, b), NEW k \in Nodes, k < pc + 1, Closes(k, j)
                     PROVE  ClosedBefore(j)
        BY <1>2, <1>4, <1>7 DEF ClosedBefore
      <4>2. k # pc
        BY <2>3, <4>1 DEF Given, Deduced
      <4>3. k < pc
        BY <1>1, <4>1, <4>2
      <4>4. QED
        BY <4>1, <4>3 DEF ClosedBefore
    <3>2. types[b] # "null"
      BY <1>7, <2>3, <3>1 DEF NamesTyped
    <3>3. QED
      BY <1>6, <1>7, <2>3, <3>2
  <2>4. QED
    BY <1>4, <1>7, <2>1, <2>2, <2>3
<1>8. NamesTyped'
  BY <1>2, <1>7 DEF NamesTyped
<1>9. QED
  BY <1>5, <1>8

\* A visit of the type pass keeps the invariant.
LEMMA TypeVisitsClean ==
  ASSUME PassInv, TypedInv, CleanInv, TypeVisits
  PROVE  CleanInv'
<1>1. phase = "type" /\ phase' = "type" /\ errors \subseteq errors' /\ (Clean' <=> Clean)
  BY SameScopes DEF TypeVisits
<1>2. ASSUME errors' = {}, Clean PROVE ReturnsSet' /\ NamesTyped' /\ ExprsTyped'
  <2>1. errors = {} /\ ReturnsSet /\ NamesTyped /\ ExprsTyped
    BY <1>1, <1>2 DEF CleanInv
  <2>2. Walks /\ (node.op = "return" => TypeOf(node.e) # "null")
    <3>1. CASE Evaluates(node)
      BY <1>2, <2>1, <3>1, CleanTypeOf
    <3>2. CASE ~Evaluates(node)
      BY <3>2 DEF TypeVisits, Leaves, Evaluates
    <3>3. QED
      BY <3>1, <3>2
  <2>3. ReturnsSet'
    BY <2>1, <2>2, WalksReturnsSet
  <2>4. NamesTyped' /\ ExprsTyped'
    BY <1>2, <2>1, WalksTyped
  <2>5. QED
    BY <2>3, <2>4
<1>3. QED
  BY <1>1, <1>2 DEF CleanInv, Crash

\* Without an error, a State without a return type belongs to the body of a function
\* that declares none and has not met a return.
LEMMA CopiedNullIs ==
  ASSUME PassInv, ReturnsSet, CopiesNull, Clean
  PROVE  FALSE
<1> DEFINE s == node.scope
           l == Len(s)
<1>1. /\ phase = "type" /\ Walking /\ pc \in Nodes /\ pc \in Nat /\ Opens(node) /\ Tree /\ TreeOK
      /\ returns[Len(returns)] = "null" /\ Len(returns) = l + 1
      /\ s \in Scope /\ s = ScopeAt(pc) /\ l \in Nat /\ Outward(s, l) = s
      /\ Nodes = 1 .. here - 1 /\ here \in Nat
  <2>1. /\ phase = "type" /\ Walking /\ pc \in Nodes /\ Opens(node) /\ Tree /\ TreeOK
        /\ returns[Len(returns)] = "null"
    BY DEF CopiesNull, CopyOfNull, HasReturnType, ReturnType, Walking, PassInv, ScopeInv, Tree
  <2>2. QED
    BY <2>1, AtNode, NodesAre, PathIs, TypeState
<1>3. l # 0
  BY <1>1 DEF ReturnsSet
<1>4. l \in 1 .. Len(ScopeAt(pc))
  BY <1>1, <1>3
<1>5. PICK i \in Nodes : BodyOf(pc, l, i)
  BY <1>1, <1>4 DEF Tree, Enclosed
<1>6. s = Body(i) /\ ScopeAt(pc)[l] = i
  BY <1>1, <1>5 DEF BodyOf
<1>7. ~Returned(i)
  BY <1>1, <1>4, <1>6 DEF ReturnsSet
<1>8. Undeclared(program[i])
  BY <1>7 DEF Returned
<1>9. PICK k \in 1 .. pc - 1 : program[k].op = "return" /\ program[k].scope = Body(i)
  BY <1>1, <1>6, <1>8 DEF Clean, node
<1>10. k \in Nodes /\ k < pc
  BY <1>1
<1>11. QED
  BY <1>7, <1>9, <1>10 DEF Returned

\* So a clean program does not copy one before an error.
LEMMA CopiesNullClean ==
  ASSUME PassInv, CleanInv, CopiesNull
  PROVE  CleanInv'
<1>1. /\ phase = "type" /\ phase' = "copied null" /\ errors' = errors /\ (Clean' <=> Clean)
  BY SameScopes DEF CopiesNull, CopyOfNull
<1>2. errors = {} /\ Clean => FALSE
  BY <1>1, CopiedNullIs DEF CleanInv
<1>3. QED
  BY <1>1, <1>2 DEF CleanInv

\* So does one of the generator: it finds what it looks up.
LEMMA GenVisitsClean ==
  ASSUME PassInv, Naming, CleanInv, GenVisits
  PROVE  CleanInv'
<1>1. /\ phase = "gen" /\ Walking /\ pc \in Nodes /\ (Clean' <=> Clean) /\ typed' = typed
      /\ program' = program /\ Nodes' = Nodes
  BY SameScopes DEF GenVisits, Walking, typeVars, scopeVars
<1>2. CASE phase' = phase
  BY <1>1, <1>2 DEF CleanInv, Crash
<1>3. CASE phase' # phase
  <2>1. /\ phase' \in {"thrown", "read null"} /\ Evaluates(node)
        /\ (node.e \in Ident /\ Meaning(pc) \notin named') \/ pc \notin typed
    BY <1>3 DEF GenVisits
  <2>2. ASSUME Clean PROVE FALSE
    <3>1. pc \in typed
      BY <1>1, <2>1, <2>2 DEF CleanInv, node
    <3>2. Uses(node)
      BY <2>1, <3>1 DEF Uses, Evaluates
    <3>3. PICK j \in Nodes : j < pc /\ Meaning(pc) \in BoundBy(j)
      BY <1>1, <2>2, <3>2, CleanMeaning
    <3>4. Meaning(pc) \in named
      BY <1>1, <2>2, <3>2, <3>3, CleanMeaning DEF Naming
    <3>5. QED
      BY <2>1, <3>1, <3>4 DEF GenVisits
  <2>3. QED
    BY <1>1, <2>1, <2>2 DEF CleanInv
<1>4. QED
  BY <1>2, <1>3

\* So does the end of the type pass
LEMMA TypeEndClean ==
  ASSUME PassInv, CleanInv, TypeEnd
  PROVE  CleanInv'
<1>1. /\ phase = "type" /\ pc > Len(program) /\ UNCHANGED <<scopeVars, program, typed>>
      /\ phase' = IF errors = {} THEN "gen" ELSE "rejected"
  BY DEF TypeEnd, scopeVars, typeVars
<1>2. (Clean' <=> Clean) /\ Nodes' = Nodes
  BY <1>1, SameScopes
<1>3. \A j \in Nodes : j < pc
  <2>1. Len(program) \in Nat /\ pc \in 1 .. Len(program) + 1
    BY LenProperties DEF PassInv, TypeOK
  <2>2. QED
    BY <1>1, <2>1 DEF Nodes
<1>4. QED
  BY <1>1, <1>2, <1>3 DEF CleanInv, ExprsTyped, Crash

\* and that of the scope pass.
LEMMA ScopeEndClean ==
  ASSUME PassInv, PassInv', CleanInv, ScopeEnd
  PROVE  CleanInv'
<1>1. phase = "scope" /\ phase' \in {"type", "rejected"} /\ UNCHANGED <<scopeVars, pc, returns>>
  BY DEF ScopeEnd
<1>2. returns[1] # "null" /\ pc = 1 /\ ScopeAt(1) = TopScope /\ Len(TopScope) = 0
  BY <1>1, EmptySeq DEF PassInv, ScopeInv, Scoping, NotBegun, Tree, Threaded, TopScope
<1>3. Nodes' = Nodes /\ ScopeAt(1)' = ScopeAt(1) /\ pc' = 1 /\ returns' = returns
  BY <1>1, <1>2, SameScopes
<1>4. ReturnsSet'
  BY <1>2, <1>3 DEF ReturnsSet
<1>5. \A j \in Nodes : ~ (j < 1)
  BY DEF Nodes
<1>6. NamesTyped' /\ ExprsTyped'
  BY <1>3, <1>5 DEF NamesTyped, ExprsTyped
<1>7. QED
  BY <1>1, <1>4, <1>6 DEF CleanInv, Crash

\* So does every step.
LEMMA CleanInvKept == PassInv /\ TypedInv /\ Naming /\ CleanInv /\ [Next]_vars => CleanInv'
<1> SUFFICES ASSUME PassInv, TypedInv, Naming, CleanInv, [Next]_vars PROVE CleanInv'
  OBVIOUS
<1>1. CASE UNCHANGED vars
  <2>1. UNCHANGED <<scopeVars, program, bindings, phase, errors, pc, types, returns, typed>>
    BY <1>1 DEF vars, scopeVars
  <2>2. /\ Nodes' = Nodes /\ (Clean' <=> Clean) /\ ScopeAt(pc)' = ScopeAt(pc)
        /\ \A i : Body(i)' = Body(i) /\ BoundBy(i)' = BoundBy(i)
        /\ \A i, j : Closes(i, j)' <=> Closes(i, j)
    BY <2>1, SameScopes DEF ScopeAt, scopeVars
  <2>3. ReturnsSet' <=> ReturnsSet
    BY <2>1, <2>2 DEF ReturnsSet, Returned
  <2>4. NamesTyped' <=> NamesTyped
    BY <2>1, <2>2 DEF NamesTyped, Deduced, ClosedBefore
  <2>5. ExprsTyped' <=> ExprsTyped
    BY <2>1, <2>2 DEF ExprsTyped
  <2>6. QED
    BY <2>1, <2>2, <2>3, <2>4, <2>5 DEF CleanInv
<1>2. ASSUME NEW n, Grows(n) PROVE CleanInv'
  BY <1>2 DEF Grows, CleanInv, Crash
<1>3. CASE ScopeEnd
  BY <1>3, PassInvKept, ScopeEndClean
<1>4. CASE GenEnd
  BY <1>4 DEF GenEnd, CleanInv, Crash
<1>5. QED
  BY <1>1, <1>2, <1>3, <1>4, NextCases, TypeVisitsClean, CopiesNullClean, TypeEndClean, GenVisitsClean

\* Translating a clean program in which no pass reports an error does not stop the
\* compiler: FromNewProgram has a return type to copy, and the generator finds the
\* name and the type of every expression, however deep the blocks and whatever the
\* names hide.
THEOREM CleanCompile == Spec => []CleanProgramsCompile
<1>1. Init => TypedInv /\ Naming
  BY DEF Init, TypedInv, Naming
<1>2. Init => CleanInv
  <2>1. <<"simple">>[1] # "null"
    OBVIOUS
  <2>2. QED
    BY <2>1 DEF Init, CleanInv, Crash
<1>3. CleanInv => CleanProgramsCompile
  BY DEF CleanInv, CleanProgramsCompile
<1>4. QED
  BY <1>1, <1>2, <1>3, InitPassInv, PassInvKept, TypedInvKept, NamingKept, CleanInvKept, PTL DEF Spec
=============================================================================
