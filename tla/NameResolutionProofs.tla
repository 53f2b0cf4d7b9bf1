------------------------ MODULE NameResolutionProofs ------------------------
(***************************************************************************)
(* Theorems about NameResolution for all identifiers and all programs: the *)
(* pointers the later passes dereference without a test are not null, and  *)
(* the scope pass reports exactly the programs that have an error.         *)
(***************************************************************************)
EXTENDS NameResolution, SequenceTheorems, WellFoundedInduction, TLAPS

(***************************************************************************)
(* The inductive invariant: while no error is reported the scope pass has  *)
(* recorded and resolved all it has met, and TransToSushi lets only such a *)
(* program through to the later passes.                                    *)
(***************************************************************************)
AllFound == \A i \in Nodes : Uses(program[i]) => Found(i)

IInv ==
  /\ \E S : program \in Seq(S)
  /\ phase = "scope" /\ errors = {} => AllFound
  /\ phase \in {"type", "gen"} => AllFound

\* A name that resolves still does when there are more bindings.
LEMMA ResolvesMonotone ==
  ASSUME NEW b, NEW c, b \subseteq c, NEW s, NEW x, Resolves(b, s, x)
  PROVE  Resolves(c, s, x)
  BY DEF Resolves

\* Meeting a node whose own use is found keeps every other use found.
LEMMA MeetStep ==
  ASSUME NEW S, program \in Seq(S), NEW n,
         program' = Append(program, n),
         bindings \subseteq bindings', idents \subseteq idents',
         AllFound,
         Uses(n) => here \in idents' /\ Resolves(bindings', n.scope, n.e)
  PROVE  AllFound'
<1>1. /\ program \in Seq(S \cup {n}) /\ n \in S \cup {n}
      /\ Len(program) \in Nat
  BY SeqMonotonic, LenProperties
<1>2. /\ Len(program') = Len(program) + 1
      /\ \A i \in 1 .. Len(program) : program'[i] = program[i]
      /\ program'[Len(program) + 1] = n
  BY <1>1, AppendProperties
<1>3. SUFFICES ASSUME NEW i \in 1 .. Len(program) + 1, Uses(program'[i])
               PROVE  /\ i \in idents'
                      /\ Resolves(bindings', program'[i].scope, program'[i].e)
  BY <1>2 DEF AllFound, Found, Nodes, Uses
<1>4. CASE i = Len(program) + 1
  BY <1>2, <1>3, <1>4 DEF here
<1>5. CASE i # Len(program) + 1
  <2>1. i \in 1 .. Len(program)
    BY <1>1, <1>5
  <2>2. Uses(program[i]) /\ program'[i] = program[i]
    BY <1>2, <1>3, <2>1
  <2>3. Found(i)
    BY <2>1, <2>2 DEF AllFound, Nodes
  <2>4. QED
    BY <2>2, <2>3, ResolvesMonotone DEF Found
<1>6. QED
  BY <1>4, <1>5

\* An appended program is a sequence.
LEMMA StillSequence ==
  ASSUME NEW S, program \in Seq(S), NEW n, program' = Append(program, n)
  PROVE  \E T : program' \in Seq(T)
<1>1. program \in Seq(S \cup {n}) /\ n \in S \cup {n}
  BY SeqMonotonic
<1>2. program' \in Seq(S \cup {n})
  BY <1>1, AppendProperties
<1>3. QED
  BY <1>2

\* A step of the scope pass that meets the node n.
LEMMA ScopeStep ==
  ASSUME IInv, phase = "scope", phase' = phase, NEW n,
         program' = Append(program, n),
         bindings \subseteq bindings', idents \subseteq idents',
         errors \subseteq errors',
         errors' = {} /\ Uses(n) =>
           here \in idents' /\ Resolves(bindings', n.scope, n.e)
  PROVE  IInv'
<1>1. PICK S : program \in Seq(S)
  BY DEF IInv
<1>2. \E T : program' \in Seq(T)
  BY <1>1, StillSequence
<1>3. ASSUME errors' = {} PROVE AllFound'
  <2>1. AllFound
    BY <1>3 DEF IInv
  <2>2. QED
    BY <1>1, <1>3, <2>1, MeetStep
<1>4. QED
  BY <1>2, <1>3 DEF IInv

\* What a visited expression leaves behind.
LEMMA VisitStep ==
  ASSUME NEW e \in Expr, VisitExpr(e), bindings \subseteq bindings'
  PROVE  /\ idents \subseteq idents' /\ errors \subseteq errors'
         /\ errors' = {} /\ e \in Ident =>
              here \in idents' /\ Resolves(bindings', scope, e)
<1>1. CASE e \in Literal
  BY <1>1, NamesAssumption DEF VisitExpr
<1>2. CASE e \notin Literal /\ Resolves(bindings, scope, e)
  BY <1>2, ResolvesMonotone DEF VisitExpr
<1>3. CASE e \notin Literal /\ ~Resolves(bindings, scope, e)
  BY <1>3 DEF VisitExpr
<1>4. QED
  BY <1>1, <1>2, <1>3

\* Every step of the scope pass keeps the invariant.
LEMMA ScopePassInv == IInv /\ ScopePass => IInv'
<1> SUFFICES ASSUME IInv, ScopePass PROVE IInv'
  OBVIOUS
<1>1. ASSUME NEW e \in Ident, ScopeUse(e) PROVE IInv'
  <2> DEFINE n == Node("use", NoIdent, e, FALSE)
  <2>1. /\ phase = "scope" /\ phase' = phase /\ program' = Append(program, n)
        /\ bindings' = bindings /\ VisitExpr(e) /\ e \in Expr
    BY <1>1 DEF ScopeUse, Meet, ScopeOnly, Expr
  <2>2. n.scope = scope /\ n.e = e
    BY DEF Node
  <2> HIDE DEF n
  <2>3. QED
    BY <2>1, <2>2, VisitStep, ScopeStep
<1>2. ASSUME NEW f \in Ident, ScopeCall(f) PROVE IInv'
  <2> DEFINE n == Node("call", NoIdent, f, FALSE)
  <2>1. /\ phase = "scope" /\ phase' = phase /\ program' = Append(program, n)
        /\ bindings' = bindings /\ idents' = idents \cup {here}
        /\ errors' = IF Resolves(bindings, scope, f) THEN errors
                     ELSE errors \cup {"undefined"}
    BY <1>2 DEF ScopeCall, Meet, ScopeOnly
  <2>2. n.scope = scope /\ n.e = f
    BY DEF Node
  <2> HIDE DEF n
  <2>3. QED
    BY <2>1, <2>2, ScopeStep
<1>3. CASE ScopeBlock \/ ScopeClose
  <2>1. PICK op \in Op :
          /\ program' = Append(program, Node(op, NoIdent, "simple", FALSE))
          /\ phase = "scope" /\ phase' = phase
          /\ UNCHANGED <<bindings, idents, errors>>
    BY <1>3 DEF ScopeBlock, ScopeClose, Meet, ScopeOnly, Op
  <2> DEFINE n == Node(op, NoIdent, "simple", FALSE)
  <2>2. ~Uses(n)
    BY NamesAssumption DEF Node, Uses, Literal
  <2> HIDE DEF n
  <2>3. QED
    BY <2>1, <2>2, ScopeStep DEF n
<1>4. ASSUME NEW x, NEW n, ScopeRedefinition(x, n) PROVE IInv'
  <2>1. /\ phase = "scope" /\ phase' = phase /\ program' = Append(program, n)
        /\ errors' = errors \cup {"redefined"}
        /\ UNCHANGED <<bindings, idents>>
    BY <1>4 DEF ScopeRedefinition, Meet, ScopeOnly
  <2>2. QED
    BY <2>1, ScopeStep
<1>5. ASSUME NEW x \in Ident, NEW e \in Expr, ScopeVariableDef(x, e) PROVE IInv'
  <2> DEFINE n == Node("var", x, e, FALSE)
  <2>1. CASE ScopeRedefinition(x, n)
    BY <1>4, <2>1
  <2>2. CASE ~ScopeRedefinition(x, n)
    <3>1. /\ phase = "scope" /\ phase' = phase /\ program' = Append(program, n)
          /\ bindings \subseteq bindings' /\ VisitExpr(e)
      BY <1>5, <2>2 DEF ScopeVariableDef, Meet, ScopeOnly
    <3>2. n.scope = scope /\ n.e = e
      BY DEF Node
    <3> HIDE DEF n
    <3>3. Uses(n) => e \in Ident
      BY <3>2 DEF Uses
    <3>4. QED
      BY <3>1, <3>2, <3>3, VisitStep, ScopeStep
  <2>3. QED
    BY <2>1, <2>2
<1>6. ASSUME NEW f \in Ident, NEW p \in Ident \cup {NoIdent},
             NEW declared \in BOOLEAN, ScopeFunctionDef(f, p, declared)
      PROVE  IInv'
  <2> DEFINE n == Node("func", f, p, declared)
  <2>1. CASE ScopeRedefinition(f, n)
    BY <1>4, <2>1
  <2>2. CASE ~ScopeRedefinition(f, n)
    <3>1. /\ phase = "scope" /\ phase' = phase /\ program' = Append(program, n)
          /\ bindings \subseteq bindings' /\ UNCHANGED <<idents, errors>>
      BY <1>6, <2>2 DEF ScopeFunctionDef, Meet, ScopeOnly
    <3>2. ~Uses(n)
      BY DEF Node, Uses
    <3> HIDE DEF n
    <3>3. QED
      BY <3>1, <3>2, ScopeStep
  <2>3. QED
    BY <2>1, <2>2
<1>7. ASSUME NEW x \in Ident, NEW e \in Expr, ScopeLoop(x, e) PROVE IInv'
  <2> DEFINE n == Node("loop", x, e, FALSE)
  <2>1. /\ phase = "scope" /\ phase' = phase /\ program' = Append(program, n)
        /\ bindings \subseteq bindings' /\ VisitExpr(e)
    BY <1>7 DEF ScopeLoop, Meet, ScopeOnly
  <2>2. n.scope = scope /\ n.e = e
    BY DEF Node
  <2> HIDE DEF n
  <2>3. Uses(n) => e \in Ident
    BY <2>2 DEF Uses
  <2>4. QED
    BY <2>1, <2>2, <2>3, VisitStep, ScopeStep
<1>8. CASE ScopeEnd
  <2>1. /\ phase = "scope" /\ phase' = (IF errors = {} THEN "type" ELSE "rejected")
        /\ UNCHANGED <<program, bindings, idents>>
    BY <1>8 DEF ScopeEnd, scopeVars
  <2>2. (AllFound)' <=> AllFound
    BY <2>1 DEF AllFound, Found, Nodes
  <2>3. QED
    BY <2>1, <2>2 DEF IInv
<1>9. ASSUME NEW e \in Expr, ScopeReturn(e) PROVE IInv'
  <2> DEFINE n == Node("return", NoIdent, e, FALSE)
  <2>1. /\ phase = "scope" /\ phase' = phase /\ program' = Append(program, n)
        /\ bindings' = bindings /\ VisitExpr(e)
    BY <1>9 DEF ScopeReturn, Meet, ScopeOnly
  <2>2. n.scope = scope /\ n.e = e
    BY DEF Node
  <2> HIDE DEF n
  <2>3. Uses(n) => e \in Ident
    BY <2>2 DEF Uses
  <2>4. QED
    BY <2>1, <2>2, <2>3, VisitStep, ScopeStep
<1>10. QED
  BY <1>1, <1>2, <1>3, <1>5, <1>6, <1>7, <1>8, <1>9 DEF ScopePass

\* The two later passes change nothing the scope pass left behind.
LEMMA LaterPassInv == IInv /\ (TypePass \/ GenPass) => IInv'
<1> SUFFICES ASSUME IInv, TypePass \/ GenPass PROVE IInv'
  OBVIOUS
<1>1. UNCHANGED <<program, bindings, idents>>
  BY DEF TypePass, GenPass, TypeUse, TypeCall, TypeVariableDef, TypeReturn,
         TypeFunctionDef, TypeBlock, TypeLoop, TypeClose, TypeEnd, CopyOfNull,
         TypeOnly, GenUse, GenVariableDef, GenFunctionDef, GenLoop, GenBlock,
         GenEnd, GenVisit, scopeVars
<1>2. phase \in {"type", "gen"}
  BY DEF TypePass, GenPass, TypeUse, TypeCall, TypeVariableDef, TypeReturn,
         TypeFunctionDef, TypeBlock, TypeLoop, TypeClose, TypeEnd, CopyOfNull,
         GenUse, GenVariableDef, GenFunctionDef, GenLoop, GenBlock,
         GenEnd, GenVisit, Visit
<1>3. AllFound /\ (AllFound)'
  BY <1>1, <1>2 DEF IInv, AllFound, Found, Nodes
<1>4. QED
  BY <1>1, <1>3 DEF IInv

\* At first nothing is used.
LEMMA InitIInv == Init => IInv
<1> SUFFICES ASSUME Init PROVE IInv
  OBVIOUS
<1>1. program \in Seq({}) /\ Len(program) = 0
  BY EmptySeq DEF Init
<1>2. AllFound
  BY <1>1 DEF AllFound, Nodes
<1>3. QED
  BY <1>1, <1>2 DEF IInv

\* Every step keeps the invariant.
LEMMA IInvKept == IInv /\ [Next]_vars => IInv'
<1>1. IInv /\ UNCHANGED vars => IInv'
  BY DEF vars, IInv, AllFound, Found, Nodes
<1>2. QED
  BY <1>1, ScopePassInv, LaterPassInv DEF Next

\* Once ScopeCheck has let a program through, every identifier the type checker
\* and the generator look up is in idents_ and bound in a scope around it.
THEOREM UsesNeverDangle == Spec => []NeverDangling
<1>1. IInv => NeverDangling
  BY DEF IInv, AllFound, NeverDangling
<1>2. QED
  BY <1>1, InitIInv, IInvKept, PTL DEF Spec

-----------------------------------------------------------------------------
(***************************************************************************)
(* Paths.                                                                  *)
(***************************************************************************)
\* The least of some numbers.
LEMMA Least ==
  ASSUME NEW T \in SUBSET Nat, T # {}
  PROVE  \E m \in T : \A k \in T : m <= k
<1> DEFINE R == OpToRel(<, Nat)
<1>1. IsWellFoundedOn(R, Nat)
  BY NatLessThanWellFounded
<1>2. \A x, y \in Nat : <<x, y>> \in R <=> x < y
  BY DEF OpToRel
<1> HIDE DEF R
<1>3. PICK m \in T : \A y \in T : ~ (<<y, m>> \in R)
  BY <1>1, WFMin
<1>4. ASSUME NEW k \in T PROVE m <= k
  <2>1. k \in Nat /\ m \in Nat
    OBVIOUS
  <2>2. ~ (k < m)
    BY <1>2, <1>3, <2>1
  <2>3. QED
    BY <2>1, <2>2
<1>5. QED
  BY <1>4

\* The scopes around a scope.
LEMMA OutwardIs ==
  ASSUME NEW s \in Scope, NEW n \in 0 .. Len(s)
  PROVE  /\ Outward(s, n) \in Scope /\ Len(Outward(s, n)) = n /\ n \in Nat
         /\ \A i \in 1 .. n : Outward(s, n)[i] = s[i]
<1>1. Len(s) \in Nat /\ \A i \in 1 .. Len(s) : s[i] \in Nat
  BY LenProperties DEF Scope
<1>2. n \in Nat /\ n <= Len(s)
  BY <1>1
<1>3. \A i \in 1 .. n : s[i] \in Nat
  BY <1>1, <1>2
<1>4. /\ SubSeq(s, 1, n) \in Seq(Nat)
      /\ Len(SubSeq(s, 1, n)) = IF 1 <= n THEN n - 1 + 1 ELSE 0
      /\ \A i \in 1 .. n - 1 + 1 : SubSeq(s, 1, n)[i] = s[1 + i - 1]
  BY <1>2, <1>3, SubSeqProperties
<1>5. QED
  BY <1>2, <1>4 DEF Outward, Scope

\* Scopes are paths: equal when their nodes are.
LEMMA SamePath ==
  ASSUME NEW s \in Scope, NEW t \in Scope, Len(s) = Len(t),
         \A i \in 1 .. Len(s) : s[i] = t[i]
  PROVE  s = t
BY SeqEqual DEF Scope

\* A scope is a sequence of nodes.
LEMMA PathIs ==
  ASSUME NEW s \in Scope
  PROVE  /\ Len(s) \in Nat /\ (s = TopScope <=> Len(s) = 0)
         /\ \A i \in 1 .. Len(s) : s[i] \in Nat
         /\ Outward(s, Len(s)) = s
<1>1. Len(s) \in Nat /\ (s = TopScope <=> Len(s) = 0) /\ \A i \in 1 .. Len(s) : s[i] \in Nat
  BY LenProperties, EmptySeq DEF Scope, TopScope
<1>2. Len(s) \in 0 .. Len(s)
  BY <1>1
<1>3. Outward(s, Len(s)) = s
  BY <1>2, OutwardIs, SamePath
<1>4. QED
  BY <1>1, <1>3

\* Going outward twice is going outward.
LEMMA OutwardAgain ==
  ASSUME NEW s \in Scope, NEW n \in 0 .. Len(s), NEW m \in 0 .. n
  PROVE  Outward(Outward(s, n), m) = Outward(s, m)
<1>1. Len(s) \in Nat
  BY PathIs
<1>2. m \in 0 .. Len(s) /\ m \in Nat /\ n \in Nat /\ m <= n
  BY <1>1
<1> DEFINE u == Outward(s, n)
<1>3. u \in Scope /\ Len(u) = n /\ \A i \in 1 .. n : u[i] = s[i]
  BY OutwardIs
<1> HIDE DEF u
<1>4. m \in 0 .. Len(u)
  BY <1>3
<1>5. /\ Outward(u, m) \in Scope /\ Len(Outward(u, m)) = m
      /\ \A i \in 1 .. m : Outward(u, m)[i] = u[i]
  BY <1>3, <1>4, OutwardIs
<1>6. /\ Outward(s, m) \in Scope /\ Len(Outward(s, m)) = m
      /\ \A i \in 1 .. m : Outward(s, m)[i] = s[i]
  BY <1>2, OutwardIs
<1>7. \A i \in 1 .. m : Outward(u, m)[i] = Outward(s, m)[i]
  BY <1>2, <1>3, <1>5, <1>6
<1>8. QED
  BY <1>5, <1>6, <1>7, SamePath DEF u

\* A scope in a scope.
LEMMA Inner ==
  ASSUME NEW s \in Scope, NEW k \in Nat
  PROVE  /\ Append(s, k) \in Scope /\ Len(Append(s, k)) = Len(s) + 1
         /\ Append(s, k) # TopScope
         /\ \A i \in 1 .. Len(s) : Append(s, k)[i] = s[i]
         /\ Append(s, k)[Len(s) + 1] = k
         /\ \A n \in 0 .. Len(s) : Outward(Append(s, k), n) = Outward(s, n)
         /\ Outward(Append(s, k), Len(s) + 1) = Append(s, k)
         /\ Owner(Append(s, k)) = k
<1> DEFINE u == Append(s, k)
<1>1. /\ u \in Scope /\ Len(u) = Len(s) + 1 /\ u # TopScope
      /\ \A i \in 1 .. Len(s) : u[i] = s[i]
      /\ u[Len(s) + 1] = k /\ Len(s) \in Nat
  BY AppendProperties, PathIs DEF Scope, TopScope
<1> HIDE DEF u
<1>2. Outward(u, Len(s) + 1) = u
  BY <1>1, PathIs
<1>3. ASSUME NEW n \in 0 .. Len(s) PROVE Outward(u, n) = Outward(s, n)
  <2>1. n \in 0 .. Len(u) /\ n \in Nat /\ n <= Len(s)
    BY <1>1
  <2>2. /\ Outward(u, n) \in Scope /\ Len(Outward(u, n)) = n
        /\ \A i \in 1 .. n : Outward(u, n)[i] = u[i]
    BY <1>1, <2>1, OutwardIs
  <2>3. /\ Outward(s, n) \in Scope /\ Len(Outward(s, n)) = n
        /\ \A i \in 1 .. n : Outward(s, n)[i] = s[i]
    BY OutwardIs
  <2>4. \A i \in 1 .. n : Outward(u, n)[i] = Outward(s, n)[i]
    BY <1>1, <2>1, <2>2, <2>3
  <2>5. QED
    BY <2>2, <2>3, <2>4, SamePath
<1>4. Owner(u) = k
  BY <1>1 DEF Owner
<1>5. QED
  BY <1>1, <1>2, <1>3, <1>4 DEF u

\* What is found is a binding of a scope around.
LEMMA LookedUp ==
  ASSUME NEW b, NEW s \in Scope, NEW x, Resolves(b, s, x)
  PROVE  \E n \in 0 .. Len(s) :
           /\ LookUp(b, s, x) = Outward(s, n) /\ <<Outward(s, n), x>> \in b
           /\ \A m \in n + 1 .. Len(s) : <<Outward(s, m), x>> \notin b
<1> DEFINE l == Len(s)
           P(n) == /\ <<Outward(s, n), x>> \in b
                   /\ \A m \in n + 1 .. l : <<Outward(s, m), x>> \notin b
           T == {k \in 0 .. l : <<Outward(s, l - k), x>> \in b}
<1>1. l \in Nat
  BY PathIs
<1>2. PICK q \in 0 .. l : <<Outward(s, q), x>> \in b
  BY DEF Resolves
<1> HIDE DEF l
<1>3. T \in SUBSET Nat /\ l - q \in T
  <2>1. l - q \in 0 .. l /\ l - (l - q) = q
    BY <1>1
  <2>2. QED
    BY <1>1, <1>2, <2>1
<1>4. PICK k \in T : \A j \in T : k <= j
  BY <1>3, Least
<1>5. l - k \in 0 .. l /\ k \in 0 .. l
  BY <1>1
<1>6. ASSUME NEW m \in l - k + 1 .. l, <<Outward(s, m), x>> \in b PROVE FALSE
  <2>1. l - m \in 0 .. l /\ l - (l - m) = m /\ ~ (k <= l - m)
    BY <1>1, <1>5
  <2>2. l - m \in T
    BY <1>6, <2>1
  <2>3. QED
    BY <1>4, <2>1, <2>2
<1>7. \E n \in 0 .. l : P(n)
  BY <1>4, <1>5, <1>6
<1>8. LookUp(b, s, x) = Outward(s, CHOOSE n \in 0 .. l : P(n))
  BY DEF LookUp, l
<1>9. (CHOOSE n \in 0 .. l : P(n)) \in 0 .. l /\ P(CHOOSE n \in 0 .. l : P(n))
  BY <1>7
<1> HIDE DEF P
<1>10. \E n \in 0 .. l : LookUp(b, s, x) = Outward(s, n) /\ P(n)
  BY <1>8, <1>9
<1>11. QED
  BY <1>10 DEF P, l

-----------------------------------------------------------------------------
(***************************************************************************)
(* The scope pass.  All its steps but the last add a node to the program:  *)
(* what they do to the scopes is told by the node.                         *)
(***************************************************************************)
Proper(n) ==
  /\ n.op \in {"var", "func", "loop"} => n.x \in Ident
  /\ n.op = "func" => n.e \in Ident \cup {NoIdent}
  /\ n.op # "func" => n.e \in Expr
  /\ n.op \in {"block", "close"} => n.e = "simple"
  /\ n.op \in {"use", "call"} => n.e \in Ident

TreeOK ==
  /\ program \in Seq(NodeType) /\ scope \in Scope /\ bindings \subseteq Scope \X Ident

\* The names node i binds.
Introduces(n, i) ==
  {b \in {<<n.scope, n.x>>} : n.op \in {"var", "func"}} \cup
  {b \in {<<Append(n.scope, i), n.e>>} : n.op = "func" /\ n.e \in Ident} \cup
  {b \in {<<Append(n.scope, i), n.x>>} : n.op = "loop"}

Redefining(n) == n.op \in {"var", "func"} /\ Redefines(n.x)

Goes(n) ==
  IF Opens(n) /\ ~Redefining(n) THEN scope' = Append(scope, here)
  ELSE IF n.op = "close" THEN scope' = Outward(scope, Len(scope) - 1)
  ELSE scope' = scope

Binds(n) ==
  bindings' = IF Redefining(n) THEN bindings ELSE bindings \cup Introduces(n, here)

Reports(n) ==
  errors' = IF Redefining(n) THEN errors \cup {"redefined"}
            ELSE IF Uses(n) /\ ~Resolves(bindings, scope, n.e) THEN errors \cup {"undefined"}
            ELSE errors

Grows(n) ==
  /\ phase = "scope" /\ UNCHANGED <<phase, pc, types, returns, typed, named>>
  /\ program' = Append(program, n)
  /\ n \in NodeType /\ Proper(n) /\ n.scope = scope
  /\ n.def = IF Uses(n) THEN LookUp(bindings, scope, n.e) ELSE NoScope
  /\ n.op = "close" => scope # TopScope
  /\ idents' \subseteq idents \cup {here}
  /\ Goes(n) /\ Binds(n) /\ Reports(n)

\* The node that a step of the scope pass adds.
LEMMA NodeIs ==
  ASSUME TreeOK, NEW op \in Op, NEW x \in Ident \cup {NoIdent}, NEW e \in Expr \cup {NoIdent},
         NEW declared \in BOOLEAN
  PROVE  LET n == Node(op, x, e, declared)
         IN  /\ n \in NodeType /\ n.op = op /\ n.x = x /\ n.e = e
             /\ n.declared = declared /\ n.scope = scope
             /\ n.def = IF Uses(n) THEN LookUp(bindings, scope, e) ELSE NoScope
<1> DEFINE d == IF op # "func" /\ e \in Ident THEN LookUp(bindings, scope, e) ELSE NoScope
           n == Node(op, x, e, declared)
<1>1. NoScope \in Scope
  BY DEF NoScope, Scope
<1>2. LookUp(bindings, scope, e) \in Scope
  <2>1. CASE Resolves(bindings, scope, e)
    <3>1. scope \in Scope
      BY DEF TreeOK
    <3> HIDE DEF d, n
    <3>2. PICK k \in 0 .. Len(scope) :
            /\ LookUp(bindings, scope, e) = Outward(scope, k) /\ <<Outward(scope, k), e>> \in bindings
            /\ \A m \in k + 1 .. Len(scope) : <<Outward(scope, m), e>> \notin bindings
      BY <2>1, <3>1, LookedUp
    <3>3. QED
      BY <3>1, <3>2, OutwardIs
  <2>2. CASE ~Resolves(bindings, scope, e)
    BY <1>1, <2>2 DEF LookUp
  <2>3. QED
    BY <2>1, <2>2
<1>3. d \in Scope
  BY <1>1, <1>2
<1>4. n = [op |-> op, x |-> x, e |-> e, declared |-> declared, scope |-> scope, def |-> d]
  BY DEF Node
<1>5. n.def = IF Uses(n) THEN LookUp(bindings, scope, e) ELSE NoScope
  BY <1>4 DEF Uses
<1> HIDE DEF d, n
<1>6. n \in NodeType
  BY <1>3, <1>4 DEF NodeType, TreeOK
<1>7. QED
  BY <1>4, <1>5, <1>6 DEF n

Undecl(op, x, e) == Node(op, x, e, FALSE)

\* The same for the nodes without a declared type.
LEMMA UndeclaredNodeIs ==
  ASSUME TreeOK, NEW op \in Op, NEW x \in Ident \cup {NoIdent}, NEW e \in Expr \cup {NoIdent}
  PROVE  LET n == Undecl(op, x, e)
         IN  /\ n \in NodeType /\ n.op = op /\ n.x = x /\ n.e = e /\ n.scope = scope
             /\ n.def = IF Uses(n) THEN LookUp(bindings, scope, e) ELSE NoScope
<1> DEFINE no == FALSE
<1>1. no \in BOOLEAN
  OBVIOUS
<1> HIDE DEF no
<1>2. LET n == Node(op, x, e, no)
      IN  /\ n \in NodeType /\ n.op = op /\ n.x = x /\ n.e = e /\ n.scope = scope
          /\ n.def = IF Uses(n) THEN LookUp(bindings, scope, e) ELSE NoScope
  BY <1>1, NodeIs, SMTT(30)
<1>3. QED
  BY <1>2 DEF no, Undecl

\* A node that binds nothing and opens nothing.
LEMMA UseGrows ==
  ASSUME TreeOK, NEW e \in Ident, ScopeUse(e) \/ ScopeCall(e)
  PROVE  \E n : Grows(n)
<1>1. PICK op \in {"use", "call"} :
        /\ program' = Append(program, Node(op, NoIdent, e, FALSE))
        /\ phase = "scope" /\ ScopeOnly /\ UNCHANGED <<scope, bindings>>
        /\ idents' \subseteq idents \cup {here}
        /\ errors' = IF Resolves(bindings, scope, e) THEN errors ELSE errors \cup {"undefined"}
  <2>1. CASE ScopeUse(e)
    BY <2>1, NamesAssumption DEF ScopeUse, Meet, VisitExpr
  <2>2. CASE ScopeCall(e)
    BY <2>2 DEF ScopeCall, Meet
  <2>3. QED
    BY <2>1, <2>2
<1> DEFINE n == Undecl(op, NoIdent, e)
<1>2. /\ n \in NodeType /\ n.op = op /\ n.e = e /\ n.scope = scope
      /\ n.def = IF Uses(n) THEN LookUp(bindings, scope, e) ELSE NoScope
  <2>1. op \in Op /\ e \in Expr
    BY DEF Op, Expr
  <2>2. QED
    BY <2>1, UndeclaredNodeIs
<1>3. program' = Append(program, n)
  BY <1>1 DEF Undecl
<1> HIDE DEF n
<1>4. Proper(n) /\ Uses(n) /\ ~Redefining(n) /\ ~Opens(n) /\ n.op # "close" /\ Introduces(n, here) = {}
  BY <1>2 DEF Proper, Uses, Redefining, Opens, Introduces, Expr
<1>5. Goes(n) /\ Binds(n) /\ Reports(n)
  BY <1>1, <1>2, <1>4 DEF Goes, Binds, Reports
<1>6. Grows(n)
  BY <1>1, <1>2, <1>3, <1>4, <1>5 DEF Grows, ScopeOnly, typeVars
<1>7. QED
  BY <1>6

\* Each action of the scope pass adds a node and binds what the node binds.
LEMMA PlainGrows ==
  ASSUME TreeOK, ScopeBlock \/ ScopeClose
  PROVE  \E n : Grows(n)
<1>1. PICK op \in {"block", "close"} :
        /\ program' = Append(program, Node(op, NoIdent, "simple", FALSE))
        /\ phase = "scope" /\ ScopeOnly /\ UNCHANGED <<bindings, idents, errors>>
        /\ op = "close" => scope # TopScope
        /\ scope' = IF op = "block" THEN Append(scope, here)
                    ELSE Outward(scope, Len(scope) - 1)
  BY DEF ScopeBlock, ScopeClose, Meet, Outward
<1> DEFINE n == Undecl(op, NoIdent, "simple")
<1>2. /\ n \in NodeType /\ n.op = op /\ n.e = "simple" /\ n.scope = scope
      /\ n.def = IF Uses(n) THEN LookUp(bindings, scope, "simple") ELSE NoScope
  <2>1. op \in Op /\ "simple" \in Expr
    BY DEF Op, Expr, Literal
  <2>2. QED
    BY <2>1, UndeclaredNodeIs
<1>3. program' = Append(program, n)
  BY <1>1 DEF Undecl
<1> HIDE DEF n
<1>4. /\ Proper(n) /\ ~Uses(n) /\ ~Redefining(n) /\ (Opens(n) <=> op = "block")
      /\ Introduces(n, here) = {}
  BY <1>2, NamesAssumption DEF Proper, Uses, Redefining, Opens, Introduces, Expr, Literal
<1>5. Goes(n) /\ Binds(n) /\ Reports(n)
  BY <1>1, <1>2, <1>4 DEF Goes, Binds, Reports
<1>6. Grows(n)
  BY <1>1, <1>2, <1>3, <1>4, <1>5 DEF Grows, ScopeOnly, typeVars
<1>7. QED
  BY <1>6

\* What a visited expression reports.
LEMMA Visited ==
  ASSUME NEW e \in Expr, VisitExpr(e)
  PROVE  /\ idents' \subseteq idents \cup {here}
         /\ errors' = IF e \in Ident /\ ~Resolves(bindings, scope, e)
                      THEN errors \cup {"undefined"} ELSE errors
BY NamesAssumption DEF VisitExpr, Expr

\* The return of a value.
LEMMA ReturnGrows ==
  ASSUME TreeOK, NEW e \in Expr, ScopeReturn(e)
  PROVE  \E n : Grows(n)
<1> DEFINE n == Undecl("return", NoIdent, e)
<1>1. /\ program' = Append(program, n) /\ phase = "scope" /\ ScopeOnly
      /\ VisitExpr(e) /\ UNCHANGED <<scope, bindings>>
  BY DEF ScopeReturn, Meet, Undecl
<1>2. /\ n \in NodeType /\ n.op = "return" /\ n.e = e /\ n.scope = scope
      /\ n.def = IF Uses(n) THEN LookUp(bindings, scope, e) ELSE NoScope
  <2>1. "return" \in Op
    BY DEF Op
  <2>2. QED
    BY <2>1, UndeclaredNodeIs
<1> HIDE DEF n
<1>3. /\ Proper(n) /\ (Uses(n) <=> e \in Ident) /\ ~Redefining(n)
      /\ ~Opens(n) /\ Introduces(n, here) = {}
  BY <1>2 DEF Proper, Uses, Redefining, Opens, Introduces
<1>4. Goes(n) /\ Binds(n) /\ Reports(n) /\ idents' \subseteq idents \cup {here}
  BY <1>1, <1>2, <1>3, Visited DEF Goes, Binds, Reports
<1>5. Grows(n)
  BY <1>1, <1>2, <1>3, <1>4 DEF Grows, ScopeOnly, typeVars
<1>6. QED
  BY <1>5

\* The definition of a variable.
LEMMA VariableGrows ==
  ASSUME TreeOK, NEW x \in Ident, NEW e \in Expr, ScopeVariableDef(x, e)
  PROVE  \E n : Grows(n)
<1> DEFINE n == Undecl("var", x, e)
<1>1. \/ ScopeRedefinition(x, n)
      \/ /\ ~Redefines(x) /\ Meet(n, 0) /\ VisitExpr(e)
         /\ bindings' = bindings \cup {<<scope, x>>}
         /\ ScopeOnly /\ UNCHANGED scope
  BY DEF ScopeVariableDef, Undecl
<1>2. /\ n \in NodeType /\ n.op = "var" /\ n.x = x /\ n.e = e /\ n.scope = scope
      /\ n.def = IF Uses(n) THEN LookUp(bindings, scope, e) ELSE NoScope
  <2>1. "var" \in Op
    BY DEF Op
  <2>2. QED
    BY <2>1, UndeclaredNodeIs
<1> HIDE DEF n
<1>3. /\ Proper(n) /\ (Uses(n) <=> e \in Ident) /\ (Redefining(n) <=> Redefines(x))
      /\ ~Opens(n) /\ Introduces(n, here) = {<<scope, x>>}
  BY <1>2 DEF Proper, Uses, Redefining, Opens, Introduces
<1>4. /\ program' = Append(program, n) /\ phase = "scope" /\ ScopeOnly /\ UNCHANGED scope
      /\ idents' \subseteq idents \cup {here}
      /\ bindings' = IF Redefines(x) THEN bindings ELSE bindings \cup {<<scope, x>>}
      /\ errors' = IF Redefines(x) THEN errors \cup {"redefined"}
                   ELSE IF e \in Ident /\ ~Resolves(bindings, scope, e)
                        THEN errors \cup {"undefined"} ELSE errors
  <2>1. CASE ScopeRedefinition(x, n)
    BY <2>1 DEF ScopeRedefinition, Meet
  <2>2. CASE ~ScopeRedefinition(x, n)
    BY <1>1, <2>2, Visited DEF Meet
  <2>3. QED
    BY <2>1, <2>2
<1>5. Goes(n) /\ Binds(n) /\ Reports(n)
  BY <1>2, <1>3, <1>4 DEF Goes, Binds, Reports
<1>6. Grows(n)
  BY <1>2, <1>3, <1>4, <1>5 DEF Grows, ScopeOnly, typeVars
<1>7. QED
  BY <1>6

\* The definition of a function, and its parameter.
LEMMA FunctionGrows ==
  ASSUME TreeOK, NEW f \in Ident, NEW p \in Ident \cup {NoIdent}, NEW declared \in BOOLEAN,
         ScopeFunctionDef(f, p, declared)
  PROVE  \E n : Grows(n)
<1> DEFINE n == Node("func", f, p, declared)
           new == {<<scope, f>>} \cup
                    (IF p = NoIdent THEN {} ELSE {<<Append(scope, here), p>>})
<1>1. \/ ScopeRedefinition(f, n)
      \/ /\ ~Redefines(f) /\ Meet(n, 1)
         /\ scope' = Append(scope, here)
         /\ bindings' = bindings \cup new
         /\ ScopeOnly /\ UNCHANGED <<idents, errors>>
  BY DEF ScopeFunctionDef
<1>2. /\ n \in NodeType /\ n.op = "func" /\ n.x = f /\ n.e = p /\ n.scope = scope
      /\ n.def = IF Uses(n) THEN LookUp(bindings, scope, p) ELSE NoScope
  <2>1. "func" \in Op /\ p \in Expr \cup {NoIdent}
    BY DEF Op, Expr
  <2>2. QED
    BY <2>1, NodeIs
<1> HIDE DEF n
<1>3. /\ Proper(n) /\ ~Uses(n) /\ (Redefining(n) <=> Redefines(f))
      /\ Opens(n) /\ Introduces(n, here) = new
  <2>1. NoIdent \notin Ident
    BY NamesAssumption DEF Expr
  <2>2. QED
    BY <1>2, <2>1 DEF Proper, Uses, Redefining, Opens, Introduces
<1> HIDE DEF new
<1>4. /\ program' = Append(program, n) /\ phase = "scope" /\ ScopeOnly /\ UNCHANGED idents
      /\ scope' = IF Redefines(f) THEN scope ELSE Append(scope, here)
      /\ bindings' = IF Redefines(f) THEN bindings ELSE bindings \cup new
      /\ errors' = IF Redefines(f) THEN errors \cup {"redefined"} ELSE errors
  <2>1. CASE ScopeRedefinition(f, n)
    BY <2>1 DEF ScopeRedefinition, Meet
  <2>2. CASE ~ScopeRedefinition(f, n)
    BY <1>1, <2>2 DEF Meet
  <2>3. QED
    BY <2>1, <2>2
<1>5. Goes(n) /\ Binds(n) /\ Reports(n)
  BY <1>2, <1>3, <1>4 DEF Goes, Binds, Reports
<1>6. Grows(n)
  BY <1>2, <1>3, <1>4, <1>5 DEF Grows, ScopeOnly, typeVars
<1>7. QED
  BY <1>6

\* The loop, and its variable.
LEMMA LoopGrows ==
  ASSUME TreeOK, NEW x \in Ident, NEW e \in Expr, ScopeLoop(x, e)
  PROVE  \E n : Grows(n)
<1> DEFINE n == Undecl("loop", x, e)
<1>1. /\ program' = Append(program, n) /\ phase = "scope" /\ ScopeOnly
      /\ VisitExpr(e) /\ scope' = Append(scope, here)
      /\ bindings' = bindings \cup {<<Append(scope, here), x>>}
  BY DEF ScopeLoop, Meet, Undecl
<1>2. /\ n \in NodeType /\ n.op = "loop" /\ n.x = x /\ n.e = e /\ n.scope = scope
      /\ n.def = IF Uses(n) THEN LookUp(bindings, scope, e) ELSE NoScope
  <2>1. "loop" \in Op
    BY DEF Op
  <2>2. QED
    BY <2>1, UndeclaredNodeIs
<1> HIDE DEF n
<1>3. /\ Proper(n) /\ (Uses(n) <=> e \in Ident) /\ ~Redefining(n)
      /\ Opens(n) /\ Introduces(n, here) = {<<Append(scope, here), x>>}
  BY <1>2 DEF Proper, Uses, Redefining, Opens, Introduces
<1>4. Goes(n) /\ Binds(n) /\ Reports(n) /\ idents' \subseteq idents \cup {here}
  BY <1>1, <1>2, <1>3, Visited DEF Goes, Binds, Reports
<1>5. Grows(n)
  BY <1>1, <1>2, <1>3, <1>4 DEF Grows, ScopeOnly, typeVars
<1>6. QED
  BY <1>5

\* So every step of the pass but its end grows the program.
LEMMA ScopePassGrows ==
  ASSUME TreeOK, ScopePass
  PROVE  ScopeEnd \/ \E n : Grows(n)
BY UseGrows, PlainGrows, ReturnGrows, VariableGrows, FunctionGrows, LoopGrows DEF ScopePass

-----------------------------------------------------------------------------
(***************************************************************************)
(* The tree.  ScopeAt(i) is the scope of the visitor when it is about to   *)
(* visit node i.                                                           *)
(***************************************************************************)
ScopeAt(i) == IF i \in Nodes THEN program[i].scope ELSE scope

OnPath(i, s) == \E m \in 1 .. Len(s) : s[m] = i

\* Does node i open a block that is visited, and does node j end its body?
Enters(i) == Opens(program[i]) /\ ~Duplicate(i)
Closes(j, i) == program[j].op = "close" /\ program[j].scope = Body(i)

\* What a node leaves of the tree before it.
LEMMA GrowsProgram ==
  ASSUME TreeOK, NEW n, Grows(n)
  PROVE  /\ Len(program) \in Nat /\ here \in Nat /\ here \notin Nodes
         /\ here' = here + 1 /\ Nodes' = Nodes \cup {here}
         /\ program' \in Seq(NodeType)
         /\ program'[here] = n /\ \A i \in Nodes : program'[i] = program[i]
         /\ \A i \in Nodes : program[i] \in NodeType
         /\ n \in NodeType /\ n.scope = scope /\ scope \in Scope
         /\ scope' \in Scope
<1>1. Len(program) \in Nat /\ here \in Nat /\ here = Len(program) + 1 /\ n \in NodeType
  BY LenProperties DEF TreeOK, here, Grows
<1>2. /\ program' \in Seq(NodeType) /\ Len(program') = Len(program) + 1
      /\ \A i \in 1 .. Len(program) : program'[i] = program[i]
      /\ program'[Len(program) + 1] = n
  BY <1>1, AppendProperties DEF TreeOK, Grows
<1>3. \A i \in Nodes : program[i] \in NodeType
  BY LenProperties DEF TreeOK, Nodes
<1>4. Nodes' = Nodes \cup {here} /\ here \notin Nodes
  BY <1>1, <1>2 DEF Nodes
<1>5. here' = here + 1
  BY <1>1, <1>2 DEF here
<1>6. scope' \in Scope
  <2>1. scope \in Scope /\ Len(scope) \in Nat
    BY PathIs DEF TreeOK
  <2>2. Append(scope, here) \in Scope
    BY <1>1, <2>1, Inner
  <2>3. scope # TopScope => Outward(scope, Len(scope) - 1) \in Scope
    <3>1. scope # TopScope => Len(scope) - 1 \in 0 .. Len(scope)
      BY <2>1, PathIs
    <3>2. QED
      BY <2>1, <3>1, OutwardIs
  <2>4. QED
    BY <2>1, <2>2, <2>3 DEF Grows, Goes
<1>7. QED
  BY <1>1, <1>2, <1>3, <1>4, <1>5, <1>6 DEF Grows, TreeOK, Nodes, here

\* What was there keeps its scope, its body and its bindings.
LEMMA GrowsTree ==
  ASSUME TreeOK, NEW n, Grows(n)
  PROVE  /\ \A i \in Nodes \cup {here} : ScopeAt(i)' = ScopeAt(i)
         /\ \A i \in {here + 1} : ScopeAt(i)' = scope'
         /\ ScopeAt(here) = scope
         /\ \A i \in Nodes : Body(i)' = Body(i)
         /\ \A i \in {here} : Body(i)' = Append(scope, i)
         /\ \A i \in Nodes : BoundBy(i)' = BoundBy(i)
         /\ \A i \in Nodes \cup {here} : BoundBefore(i)' = BoundBefore(i)
         /\ \A i \in Nodes : /\ Duplicate(i)' <=> Duplicate(i)
                             /\ Undefined(i)' <=> Undefined(i)
                             /\ Enters(i)' <=> Enters(i)
         /\ \A i \in Nodes, j \in Nodes : Closes(j, i)' <=> Closes(j, i)
<1> DEFINE h == here
<1>1. /\ h \in Nat /\ h \notin Nodes /\ Nodes' = Nodes \cup {h} /\ Nodes = 1 .. h - 1
      /\ program'[h] = n /\ \A i \in Nodes : program'[i] = program[i]
      /\ n.scope = scope /\ h + 1 \notin Nodes \cup {h}
  <2>1. Nodes = 1 .. h - 1 /\ h \in Nat
    BY GrowsProgram DEF Nodes, here
  <2>2. QED
    BY <2>1, GrowsProgram
<1> HIDE DEF h
<1>2. \A i \in Nodes \cup {h} : ScopeAt(i)' = ScopeAt(i)
  BY <1>1 DEF ScopeAt
<1>3. (\A i \in {h + 1} : ScopeAt(i)' = scope') /\ ScopeAt(h) = scope
  BY <1>1 DEF ScopeAt
<1>4. (\A i \in Nodes : Body(i)' = Body(i)) /\ \A i \in {h} : Body(i)' = Append(scope, i)
  BY <1>1 DEF Body
<1>5. \A i \in Nodes : BoundBy(i)' = BoundBy(i)
  BY <1>1, <1>4 DEF BoundBy
<1>6. ASSUME NEW i \in Nodes \cup {h} PROVE BoundBefore(i)' = BoundBefore(i)
  <2>1. \A j \in 1 .. i - 1 : j \in Nodes
    BY <1>1
  <2>2. \A j \in 1 .. i - 1 : BoundBy(j)' = BoundBy(j)
    BY <1>5, <2>1
  <2>3. QED
    BY <2>2 DEF BoundBefore
<1>7. ASSUME NEW i \in Nodes
      PROVE  /\ Duplicate(i)' <=> Duplicate(i)
             /\ Undefined(i)' <=> Undefined(i)
             /\ Enters(i)' <=> Enters(i)
  <2>1. program'[i] = program[i] /\ BoundBefore(i)' = BoundBefore(i)
    BY <1>1, <1>6
  <2>2. Duplicate(i)' <=> Duplicate(i)
    BY <2>1 DEF Duplicate
  <2>3. Undefined(i)' <=> Undefined(i)
    BY <2>1, <2>2 DEF Undefined
  <2>4. Enters(i)' <=> Enters(i)
    BY <2>1, <2>2 DEF Enters
  <2>5. QED
    BY <2>2, <2>3, <2>4
<1>8. \A i \in Nodes, j \in Nodes : Closes(j, i)' <=> Closes(j, i)
  BY <1>1, <1>4 DEF Closes
<1>9. QED
  BY <1>2, <1>3, <1>4, <1>5, <1>6, <1>7, <1>8 DEF h

-----------------------------------------------------------------------------
(***************************************************************************)
(* The invariant of the tree.                                              *)
(***************************************************************************)
\* The scopes of successive nodes follow from each other.
Threaded ==
  /\ ScopeAt(1) = TopScope
  /\ \A i \in Nodes :
       /\ program[i].op = "close" => program[i].scope # TopScope
       /\ ScopeAt(i + 1) = IF Enters(i) THEN Body(i)
                           ELSE IF program[i].op = "close"
                                THEN Outward(program[i].scope, Len(program[i].scope) - 1)
                           ELSE program[i].scope

\* A path leads through the bodies of earlier nodes.
BodyOf(i, k, o) ==
  ScopeAt(i)[k] = o /\ o \in Nodes /\ o < i /\ Enters(o) /\ Outward(ScopeAt(i), k) = Body(o)

Enclosed ==
  \A i \in Nodes \cup {here} : \A k \in 1 .. Len(ScopeAt(i)) : \E o \in Nodes : BodyOf(i, k, o)

\* A body that is closed stays closed, and one that is not is open.
ClosedOnce ==
  \A k \in Nodes, j \in Nodes \cup {here} :
    program[k].op = "close" /\ k < j => ~OnPath(Owner(program[k].scope), ScopeAt(j))

OpenOrClosed ==
  \A i \in Nodes, k \in Nodes \cup {here} :
    i < k /\ Enters(i) => OnPath(i, ScopeAt(k)) \/ \E j \in i + 1 .. k - 1 : Closes(j, i)

\* The bindings are those of the nodes, but for the parameter of a function that is
\* defined twice.
BoundThere == bindings \subseteq BoundBefore(here)

BindsAll ==
  \A i \in Nodes : \A b \in BoundBy(i) :
    b[2] \in Ident => b \in bindings \/ (Duplicate(i) /\ b[1] = Body(i))

DefsThere ==
  \A i \in Nodes : Uses(program[i]) =>
    program[i].def = NoScope \/ <<program[i].def, program[i].e>> \in BoundBefore(i)

AllProper == \A i \in Nodes : Proper(program[i])

Tree ==
  /\ TreeOK /\ AllProper
  /\ Threaded /\ Enclosed /\ ClosedOnce /\ OpenOrClosed
  /\ BoundThere /\ BindsAll /\ DefsThere

\* The nodes so far.
LEMMA NodesAre ==
  ASSUME TreeOK
  PROVE  /\ Nodes = 1 .. here - 1 /\ here \in Nat /\ here \notin Nodes
         /\ \A i \in Nodes \cup {here} : i \in Nat /\ ScopeAt(i) \in Scope
         /\ \A i \in Nodes : /\ program[i] \in NodeType /\ program[i].scope = ScopeAt(i)
                             /\ i + 1 \in Nodes \cup {here} /\ i < here
<1>1. Len(program) \in Nat /\ \A i \in 1 .. Len(program) : program[i] \in NodeType
  BY LenProperties DEF TreeOK
<1>2. Nodes = 1 .. here - 1 /\ here \in Nat /\ here \notin Nodes
  BY <1>1 DEF Nodes, here
<1>3. \A i \in Nodes : program[i] \in NodeType /\ program[i].scope = ScopeAt(i)
  BY <1>1 DEF Nodes, ScopeAt
<1>4. \A i \in Nodes : program[i].scope \in Scope
  BY <1>3 DEF NodeType
<1>5. ScopeAt(here) \in Scope
  BY <1>2 DEF ScopeAt, TreeOK
<1>6. \A i \in Nodes : i + 1 \in Nodes \cup {here} /\ i < here /\ i \in Nat
  <2> DEFINE h == here
  <2>1. h \in Nat /\ Nodes = 1 .. h - 1
    BY <1>2
  <2> HIDE DEF h
  <2>2. \A i \in Nodes : i + 1 \in Nodes \cup {h} /\ i < h /\ i \in Nat
    BY <2>1
  <2>3. QED
    BY <2>2 DEF h
<1>7. QED
  BY <1>2, <1>3, <1>4, <1>5, <1>6

\* The body of a node is one step inside its scope.
LEMMA BodyIs ==
  ASSUME TreeOK, NEW i \in Nodes
  PROVE  /\ Body(i) \in Scope /\ Len(Body(i)) = Len(ScopeAt(i)) + 1 /\ Body(i) # TopScope
         /\ \A m \in 1 .. Len(ScopeAt(i)) : Body(i)[m] = ScopeAt(i)[m]
         /\ Body(i)[Len(ScopeAt(i)) + 1] = i
         /\ Owner(Body(i)) = i
<1> DEFINE s == ScopeAt(i)
           u == Append(s, i)
<1>1. Body(i) = u /\ s \in Scope /\ i \in Nat
  BY NodesAre DEF Body
<1> HIDE DEF s
<1>2. /\ u \in Scope /\ Len(u) = Len(s) + 1 /\ u # TopScope
      /\ \A m \in 1 .. Len(s) : u[m] = s[m]
      /\ u[Len(s) + 1] = i /\ Owner(u) = i
  BY <1>1, Inner
<1> HIDE DEF u
<1>3. QED
  BY <1>1, <1>2 DEF s

\* Which body a scope around is.
LEMMA BodyOnPath ==
  ASSUME TreeOK, Enclosed, NEW i \in Nodes \cup {here}, NEW n \in 0 .. Len(ScopeAt(i)),
         NEW j \in Nodes, Outward(ScopeAt(i), n) = Body(j)
  PROVE  /\ n \in 1 .. Len(ScopeAt(i)) /\ ScopeAt(i)[n] = j
         /\ Enters(j) /\ j < i /\ OnPath(j, ScopeAt(i)) /\ n = Len(ScopeAt(j)) + 1
<1> DEFINE s == ScopeAt(i)
<1>1. s \in Scope /\ Len(s) \in Nat /\ ScopeAt(j) \in Scope /\ Len(ScopeAt(j)) \in Nat
  BY NodesAre, PathIs
<1>2. Len(Outward(s, n)) = n /\ \A k \in 1 .. n : Outward(s, n)[k] = s[k]
  BY <1>1, OutwardIs
<1>3. n = Len(ScopeAt(j)) + 1 /\ n \in Nat /\ n >= 1
  BY <1>1, <1>2, BodyIs
<1>4. s[n] = j /\ n \in 1 .. Len(s)
  BY <1>1, <1>2, <1>3, BodyIs
<1>5. Enters(j) /\ j < i
  BY <1>4 DEF Enclosed, BodyOf
<1>6. QED
  BY <1>3, <1>4, <1>5 DEF OnPath

\* Nodes are passed through in their order.
LEMMA PathAscends ==
  ASSUME TreeOK, Enclosed, NEW i \in Nodes \cup {here}, NEW k \in 1 .. Len(ScopeAt(i)),
         NEW m \in 1 .. k - 1
  PROVE  ScopeAt(i)[m] < ScopeAt(i)[k] /\ ScopeAt(ScopeAt(i)[k])[m] = ScopeAt(i)[m]
<1> DEFINE s == ScopeAt(i)
           o == s[k]
<1>1. s \in Scope /\ Len(s) \in Nat
  BY NodesAre, PathIs
<1>2. o \in Nodes /\ Outward(s, k) = Body(o)
  BY DEF Enclosed, BodyOf
<1> HIDE DEF s, o
<1>3. k \in 0 .. Len(s) /\ k \in Nat
  BY <1>1 DEF s
<1>4. Len(Outward(s, k)) = k /\ \A j \in 1 .. k : Outward(s, k)[j] = s[j]
  BY <1>1, <1>3, OutwardIs
<1>5. k = Len(ScopeAt(o)) + 1 /\ Len(ScopeAt(o)) \in Nat
      /\ \A j \in 1 .. Len(ScopeAt(o)) : Body(o)[j] = ScopeAt(o)[j]
  BY <1>2, <1>4, BodyIs, NodesAre, PathIs
<1>6. m \in 1 .. Len(ScopeAt(o)) /\ m \in 1 .. k
  BY <1>5
<1>7. ScopeAt(o)[m] = s[m]
  BY <1>2, <1>4, <1>5, <1>6
<1>8. ScopeAt(o)[m] < o
  BY <1>2, <1>6 DEF Enclosed, BodyOf
<1>9. QED
  BY <1>7, <1>8 DEF s, o

\* The bindings of the scopes around are those the nodes before it make.
LEMMA BoundExactly ==
  ASSUME Tree, NEW n \in 0 .. Len(scope), NEW x \in Ident
  PROVE  <<Outward(scope, n), x>> \in BoundBefore(here) <=> <<Outward(scope, n), x>> \in bindings
<1> DEFINE b == <<Outward(scope, n), x>>
<1>1. b \in bindings => b \in BoundBefore(here)
  BY DEF Tree, BoundThere
<1>2. ASSUME b \in BoundBefore(here) PROVE b \in bindings
  <2>1. PICK j \in Nodes : b \in BoundBy(j)
    BY <1>2, NodesAre DEF BoundBefore, Tree
  <2>2. b[2] \in Ident /\ b[1] = Outward(scope, n)
    OBVIOUS
  <2>3. ScopeAt(here) = scope /\ here \in Nodes \cup {here}
    BY NodesAre DEF ScopeAt, Tree
  <2>4. b[1] = Body(j) => Enters(j)
    BY <2>2, <2>3, BodyOnPath DEF Tree
  <2>5. QED
    BY <2>1, <2>2, <2>4 DEF Tree, BindsAll, Enters
<1>3. QED
  BY <1>1, <1>2

-----------------------------------------------------------------------------
(***************************************************************************)
(* The new node.                                                           *)
(***************************************************************************)
\* The node is a definition of a defined name, or uses an unknown one, just when
\* the pass finds it so in its own tables.
LEMMA GrowsNew ==
  ASSUME Tree, NEW n, Grows(n)
  PROVE  \A h \in {here} :
           /\ Duplicate(h)' <=> Redefining(n)
           /\ Undefined(h)' <=> Uses(n) /\ ~Redefining(n) /\ ~Resolves(bindings, scope, n.e)
           /\ Enters(h)' <=> Opens(n) /\ ~Redefining(n)
           /\ \A b : b[2] \in Ident => (b \in BoundBy(h)' <=> b \in Introduces(n, h))
<1> SUFFICES ASSUME NEW h \in {here}
             PROVE  /\ Duplicate(h)' <=> Redefining(n)
                    /\ Undefined(h)' <=> Uses(n) /\ ~Redefining(n)
                                           /\ ~Resolves(bindings, scope, n.e)
                    /\ Enters(h)' <=> Opens(n) /\ ~Redefining(n)
                    /\ \A b : b[2] \in Ident => (b \in BoundBy(h)' <=> b \in Introduces(n, h))
  OBVIOUS
<1> DEFINE B == BoundBefore(h)
<1>1. /\ program'[h] = n /\ n.scope = scope /\ Proper(n) /\ n \in NodeType
      /\ BoundBefore(h)' = B /\ Body(h)' = Append(scope, h)
  <2>1. BoundBefore(h)' = BoundBefore(h) /\ Body(h)' = Append(scope, h)
    BY GrowsTree DEF Tree
  <2>2. program'[h] = n /\ n.scope = scope /\ n \in NodeType
    BY GrowsProgram DEF Tree
  <2>3. Proper(n)
    BY DEF Grows
  <2>4. QED
    BY <2>1, <2>2, <2>3
<1>2. scope \in Scope /\ Len(scope) \in 0 .. Len(scope) /\ Outward(scope, Len(scope)) = scope
  BY PathIs DEF Tree, TreeOK
<1>3. \A x \in Ident : <<scope, x>> \in B <=> <<scope, x>> \in bindings
  BY <1>2, BoundExactly
<1>4. \A x \in Ident : Resolves(B, scope, x) <=> Resolves(bindings, scope, x)
  BY BoundExactly DEF Resolves
<1>. h = here
  OBVIOUS
<1> HIDE DEF B
<1>5. Duplicate(h)' <=> Redefining(n)
  <2>1. Duplicate(h)' <=> n.op \in {"var", "func"} /\ <<scope, n.x>> \in B
    BY <1>1 DEF Duplicate
  <2>2. n.op \in {"var", "func"} => n.x \in Ident
    BY <1>1 DEF Proper
  <2>3. QED
    BY <1>3, <2>1, <2>2 DEF Redefining, Redefines
<1>6. Undefined(h)' <=> Uses(n) /\ ~Redefining(n) /\ ~Resolves(bindings, scope, n.e)
  <2>1. Undefined(h)' <=> Uses(n) /\ ~Duplicate(h)' /\ ~Resolves(B, scope, n.e)
    BY <1>1 DEF Undefined
  <2>2. QED
    BY <1>4, <1>5, <2>1 DEF Uses
<1>7. Enters(h)' <=> Opens(n) /\ ~Redefining(n)
  BY <1>1, <1>5 DEF Enters
<1>8. ASSUME NEW b, b[2] \in Ident PROVE b \in BoundBy(h)' <=> b \in Introduces(n, h)
  BY <1>1, <1>8 DEF BoundBy, Introduces
<1>9. QED
  BY <1>5, <1>6, <1>7, <1>8

\* Where the visitor is after the node.
LEMMA ScopeGoes ==
  ASSUME TreeOK, NEW n, Grows(n)
  PROVE  /\ \A k \in 1 .. Len(scope') :
              \/ /\ k \in 1 .. Len(scope) /\ scope'[k] = scope[k]
                 /\ Outward(scope', k) = Outward(scope, k)
              \/ /\ Opens(n) /\ ~Redefining(n) /\ scope'[k] = here
                 /\ Outward(scope', k) = Append(scope, here)
         /\ \A k \in 1 .. Len(scope) :
              (n.op = "close" /\ k = Len(scope)) \/ (k \in 1 .. Len(scope') /\ scope'[k] = scope[k])
         /\ n.op = "close" => Len(scope') = Len(scope) - 1
         /\ Opens(n) /\ ~Redefining(n) =>
              Len(scope) + 1 \in 1 .. Len(scope') /\ scope'[Len(scope) + 1] = here
<1> DEFINE l == Len(scope)
           h == here
           u == Append(scope, h)
           v == Outward(scope, l - 1)
<1>1. scope \in Scope /\ l \in Nat /\ h \in Nat
  BY PathIs, NodesAre DEF TreeOK
<1>2. /\ Len(u) = l + 1 /\ \A i \in 1 .. l : u[i] = scope[i]
      /\ u[l + 1] = h /\ \A k \in 0 .. l : Outward(u, k) = Outward(scope, k)
      /\ Outward(u, l + 1) = u
  <2> HIDE DEF h
  <2>1. QED
    BY <1>1, Inner
<1>3. ASSUME scope # TopScope
      PROVE  /\ Len(v) = l - 1 /\ \A i \in 1 .. l - 1 : v[i] = scope[i]
             /\ \A k \in 0 .. l - 1 : Outward(v, k) = Outward(scope, k)
  <2> DEFINE m == l - 1
  <2>1. m \in 0 .. Len(scope)
    BY <1>1, <1>3, PathIs
  <2> HIDE DEF m
  <2>2. QED
    BY <1>1, <2>1, OutwardIs, OutwardAgain DEF m
<1>4. IF Opens(n) /\ ~Redefining(n) THEN scope' = u
      ELSE IF n.op = "close" THEN scope' = v /\ scope # TopScope
      ELSE scope' = scope
  BY DEF Grows, Goes
<1>5. Opens(n) => n.op # "close"
  BY DEF Opens
<1> HIDE DEF l, h, u, v
<1>6. CASE Opens(n) /\ ~Redefining(n)
  <2>1. scope' = u /\ Len(scope') = l + 1 /\ n.op # "close"
    BY <1>2, <1>4, <1>5, <1>6
  <2>2. \A k \in 1 .. l + 1 : k \in 1 .. l \/ k = l + 1
    BY <1>1
  <2>3. \A k \in 1 .. l : k \in 0 .. l /\ k \in 1 .. l + 1
    BY <1>1
  <2>4. l + 1 \in 1 .. l + 1
    BY <1>1
  <2>5. QED
    BY <1>2, <1>6, <2>1, <2>2, <2>3, <2>4 DEF l, h, u
<1>7. CASE ~ (Opens(n) /\ ~Redefining(n)) /\ n.op = "close"
  <2>1. scope' = v /\ Len(scope') = l - 1
    BY <1>3, <1>4, <1>7
  <2>2. \A k \in 1 .. l - 1 : k \in 1 .. l /\ k \in 0 .. l - 1
    BY <1>1
  <2>3. \A k \in 1 .. l : k = l \/ k \in 1 .. l - 1
    BY <1>1
  <2>4. QED
    BY <1>3, <1>4, <1>7, <2>1, <2>2, <2>3 DEF l
<1>8. CASE ~ (Opens(n) /\ ~Redefining(n)) /\ n.op # "close"
  BY <1>4, <1>8
<1>9. QED
  BY <1>6, <1>7, <1>8

-----------------------------------------------------------------------------
(***************************************************************************)
(* A node more: the invariant of the tree, part by part.                   *)
(***************************************************************************)
LEMMA GrowsTreeOK ==
  ASSUME Tree, NEW n, Grows(n)
  PROVE  (TreeOK /\ AllProper)'
<1>1. /\ program' \in Seq(NodeType) /\ scope' \in Scope /\ n \in NodeType
      /\ n.scope = scope /\ scope \in Scope /\ here \in Nat
  BY GrowsProgram DEF Tree
<1>2. Append(scope, here) \in Scope
  BY <1>1, Inner
<1>3. Introduces(n, here) \subseteq Scope \X Ident
  <2>1. Proper(n)
    BY DEF Grows
  <2>2. n.op \in {"var", "func"} => <<n.scope, n.x>> \in Scope \X Ident
    BY <1>1, <2>1 DEF Proper
  <2>3. n.op = "func" /\ n.e \in Ident => <<Append(n.scope, here), n.e>> \in Scope \X Ident
    BY <1>1, <1>2
  <2>4. n.op = "loop" => <<Append(n.scope, here), n.x>> \in Scope \X Ident
    BY <1>1, <1>2, <2>1 DEF Proper
  <2>5. QED
    BY <2>2, <2>3, <2>4 DEF Introduces
<1>4. bindings' \subseteq Scope \X Ident
  BY <1>3 DEF Grows, Binds, Tree, TreeOK
<1>5. AllProper'
  BY GrowsProgram DEF Tree, AllProper, Grows
<1>6. QED
  BY <1>1, <1>4, <1>5 DEF TreeOK

\* The new node is one step away from the last.
LEMMA GrowsThreaded ==
  ASSUME Tree, NEW n, Grows(n)
  PROVE  Threaded'
<1>1. /\ Nodes' = Nodes \cup {here} /\ here \notin Nodes /\ program'[here] = n
      /\ \A i \in Nodes : program'[i] = program[i]
      /\ n.scope = scope
  BY GrowsProgram DEF Tree
<1>2. ScopeAt(1)' = TopScope
  <2>1. 1 \in Nodes \cup {here}
    <3> DEFINE h == here
               l == Len(program)
    <3>1. l \in Nat /\ h = l + 1 /\ Nodes = 1 .. l
      BY GrowsProgram DEF Tree, here, Nodes
    <3> HIDE DEF h, l
    <3>2. 1 \in Nodes \cup {h}
      BY <3>1
    <3>3. QED
      BY <3>2 DEF h
  <2>2. ScopeAt(1)' = ScopeAt(1)
    BY <2>1, GrowsTree DEF Tree
  <2>3. QED
    BY <2>2 DEF Tree, Threaded, TopScope
<1>3. ASSUME NEW i \in Nodes
      PROVE  /\ program'[i].op = "close" => program'[i].scope # TopScope
             /\ ScopeAt(i + 1)' = IF Enters(i)' THEN Body(i)'
                           ELSE IF program'[i].op = "close"
                                THEN Outward(program'[i].scope, Len(program'[i].scope) - 1)
                           ELSE program'[i].scope
  <2>1. i + 1 \in Nodes \cup {here}
    BY NodesAre DEF Tree
  <2>2. ScopeAt(i + 1)' = ScopeAt(i + 1) /\ (Enters(i)' <=> Enters(i)) /\ Body(i)' = Body(i)
    BY <2>1, GrowsTree DEF Tree
  <2>3. program'[i] = program[i]
    BY <1>1
  <2>4. QED
    BY <2>2, <2>3 DEF Tree, Threaded
<1>4. ASSUME NEW h \in {here}
      PROVE  /\ program'[h].op = "close" => program'[h].scope # TopScope
             /\ ScopeAt(h + 1)' = IF Enters(h)' THEN Body(h)'
                           ELSE IF program'[h].op = "close"
                                THEN Outward(program'[h].scope, Len(program'[h].scope) - 1)
                           ELSE program'[h].scope
  <2>1. ScopeAt(h + 1)' = scope' /\ Body(h)' = Append(scope, h)
    <3>1. h + 1 \in {here + 1}
      OBVIOUS
    <3>2. QED
      BY <3>1, GrowsTree DEF Tree
  <2>2. Enters(h)' <=> Opens(n) /\ ~Redefining(n)
    BY GrowsNew
  <2>3. program'[h] = n
    BY <1>1
  <2>4. QED
    BY <1>1, <2>1, <2>2, <2>3 DEF Grows, Goes
<1>5. \A i \in Nodes' : i \in Nodes \/ i \in {here}
  BY <1>1
<1>6. QED
  BY <1>2, <1>3, <1>4, <1>5 DEF Threaded, TopScope

\* The new node is in the bodies that are open.
LEMMA GrowsEnclosed ==
  ASSUME Tree, NEW n, Grows(n)
  PROVE  Enclosed'
<1>1. /\ Nodes' = Nodes \cup {here} /\ here' = here + 1 /\ here \notin Nodes /\ here \in Nat
      /\ \A i \in Nodes : i < here
  BY GrowsProgram, NodesAre DEF Tree
<1>2. ASSUME NEW i \in Nodes \cup {here}, NEW k \in 1 .. Len(ScopeAt(i)')
      PROVE  \E o \in Nodes' : BodyOf(i, k, o)'
  <2>1. ScopeAt(i)' = ScopeAt(i)
    BY GrowsTree DEF Tree
  <2>2. PICK o \in Nodes : BodyOf(i, k, o)
    BY <2>1 DEF Tree, Enclosed
  <2>3. (Enters(o)' <=> Enters(o)) /\ Body(o)' = Body(o)
    BY GrowsTree DEF Tree
  <2>4. BodyOf(i, k, o)'
    BY <1>1, <2>1, <2>2, <2>3 DEF BodyOf
  <2>5. QED
    BY <1>1, <2>4
<1>3. ASSUME NEW h \in {here}, NEW i \in {h + 1}, NEW k \in 1 .. Len(ScopeAt(i)')
      PROVE  \E o \in Nodes' : BodyOf(i, k, o)'
  <2>1. ScopeAt(i)' = scope' /\ ScopeAt(here) = scope
    BY GrowsTree DEF Tree
  <2>2. CASE /\ k \in 1 .. Len(scope) /\ scope'[k] = scope[k]
             /\ Outward(scope', k) = Outward(scope, k)
    <3>1. PICK o \in Nodes : BodyOf(here, k, o)
      BY <2>1, <2>2 DEF Tree, Enclosed
    <3>2. (Enters(o)' <=> Enters(o)) /\ Body(o)' = Body(o) /\ o \in Nat
      BY GrowsTree, NodesAre DEF Tree
    <3>3. o < i
      BY <1>1, <3>1, <3>2
    <3>4. BodyOf(i, k, o)'
      BY <1>1, <2>1, <2>2, <3>1, <3>2, <3>3 DEF BodyOf
    <3>5. QED
      BY <1>1, <3>4
  <2>3. CASE /\ Opens(n) /\ ~Redefining(n) /\ scope'[k] = here
             /\ Outward(scope', k) = Append(scope, here)
    <3>1. Enters(h)' /\ Body(h)' = Append(scope, h)
      BY <2>3, GrowsNew, GrowsTree DEF Tree
    <3>2. h < i /\ h \in Nodes'
      BY <1>1
    <3>3. BodyOf(i, k, h)'
      BY <2>1, <2>3, <3>1, <3>2 DEF BodyOf
    <3>4. QED
      BY <3>2, <3>3
  <2>4. QED
    BY <2>1, <2>2, <2>3, ScopeGoes DEF Tree
<1>4. \A i \in Nodes' \cup {here'} : i \in Nodes \cup {here} \/ i \in {here + 1}
  BY <1>1
<1>5. QED
  BY <1>2, <1>3, <1>4 DEF Enclosed

\* Only an open block is closed.
LEMMA GrowsClosedOnce ==
  ASSUME Tree, NEW n, Grows(n)
  PROVE  ClosedOnce'
<1>1. /\ Nodes' = Nodes \cup {here} /\ here' = here + 1 /\ here \notin Nodes /\ here \in Nat
      /\ \A i \in Nodes : i < here /\ i \in Nat /\ program'[i] = program[i]
      /\ program'[here] = n /\ n.scope = scope /\ scope \in Scope /\ Len(scope) \in Nat
  BY GrowsProgram, NodesAre, PathIs DEF Tree
<1>2. ASSUME NEW k \in Nodes, NEW j \in Nodes \cup {here}, program[k].op = "close", k < j
      PROVE  ~OnPath(Owner(program[k].scope), ScopeAt(j)')
  <2>1. ScopeAt(j)' = ScopeAt(j)
    BY GrowsTree DEF Tree
  <2>2. QED
    BY <1>2, <2>1 DEF Tree, ClosedOnce
<1>3. ASSUME NEW k \in Nodes, program[k].op = "close"
      PROVE  ~OnPath(Owner(program[k].scope), scope')
  <2> DEFINE o == Owner(program[k].scope)
  <2>1. ~OnPath(o, scope)
    <3>1. ScopeAt(here) = scope /\ k < here
      BY <1>1, GrowsTree DEF Tree
    <3>2. QED
      BY <1>3, <3>1 DEF Tree, ClosedOnce
  <2>2. o # here
    <3>1. program[k].scope # TopScope /\ program[k].scope = ScopeAt(k) /\ ScopeAt(k) \in Scope
      BY <1>3, NodesAre DEF Tree, Threaded
    <3>2. Len(ScopeAt(k)) \in 1 .. Len(ScopeAt(k))
      BY <3>1, PathIs
    <3>3. PICK i \in Nodes : BodyOf(k, Len(ScopeAt(k)), i)
      BY <3>2 DEF Tree, Enclosed
    <3>4. QED
      BY <1>1, <3>1, <3>3 DEF BodyOf, Owner
  <2> HIDE DEF o
  <2>3. ASSUME NEW m \in 1 .. Len(scope'), scope'[m] = o PROVE FALSE
    <3>1. m \in 1 .. Len(scope) /\ scope[m] = o
      BY <2>2, <2>3, ScopeGoes DEF Tree
    <3>2. QED
      BY <2>1, <3>1 DEF OnPath
  <2>4. QED
    BY <2>3 DEF OnPath, o
<1>4. ASSUME n.op = "close"
      PROVE  ~OnPath(Owner(scope), scope')
  <2>1. Len(scope') = Len(scope) - 1 /\ scope # TopScope /\ ~Opens(n) /\ ScopeAt(here) = scope
    BY <1>4, ScopeGoes, GrowsTree DEF Tree, Grows, Opens
  <2> DEFINE l == Len(scope)
  <2>2. l \in Nat /\ l \in 1 .. l
    BY <1>1, <2>1, PathIs
  <2> HIDE DEF l
  <2>3. ASSUME NEW m \in 1 .. l - 1, scope'[m] = scope[l] PROVE FALSE
    <3>1. scope[m] = scope[l]
      BY <2>1, <2>3, ScopeGoes DEF Tree, l
    <3>2. scope[m] < scope[l] /\ m \in 1 .. l
      BY <2>1, <2>2, <2>3, PathAscends DEF Tree, l
    <3>3. scope[l] \in Nat
      BY <1>1, <2>2, PathIs DEF l
    <3>4. QED
      BY <3>1, <3>2, <3>3
  <2>4. QED
    BY <2>1, <2>3 DEF OnPath, Owner, l
<1>5. ASSUME NEW k \in Nodes', NEW j \in Nodes' \cup {here'}, program'[k].op = "close", k < j
      PROVE  ~OnPath(Owner(program'[k].scope), ScopeAt(j)')
  <2>1. CASE j \in Nodes \cup {here}
    <3>1. k \in Nodes
      BY <1>1, <1>5, <2>1
    <3>2. QED
      BY <1>1, <1>2, <1>5, <2>1, <3>1
  <2>2. CASE j \in {here + 1}
    <3>1. ScopeAt(j)' = scope'
      BY <2>2, GrowsTree DEF Tree
    <3>2. QED
      BY <1>1, <1>3, <1>4, <1>5, <3>1
  <2>3. QED
    BY <1>1, <2>1, <2>2
<1>6. QED
  BY <1>5 DEF ClosedOnce, OnPath, Owner

\* A body that was begun is open or closed.
LEMMA GrowsOpenOrClosed ==
  ASSUME Tree, NEW n, Grows(n)
  PROVE  OpenOrClosed'
<1>1. /\ Nodes' = Nodes \cup {here} /\ here' = here + 1 /\ here \notin Nodes /\ here \in Nat
      /\ \A i \in Nodes : i < here /\ i \in Nat /\ program'[i] = program[i]
      /\ program'[here] = n /\ n.scope = scope /\ scope \in Scope /\ Len(scope) \in Nat
      /\ Nodes = 1 .. here - 1
  BY GrowsProgram, NodesAre, PathIs DEF Tree
<1>2. ASSUME NEW i \in Nodes, NEW k \in Nodes \cup {here}, i < k, Enters(i)
      PROVE  OnPath(i, ScopeAt(k)') \/ \E j \in i + 1 .. k - 1 : Closes(j, i)'
  <2>1. ScopeAt(k)' = ScopeAt(k)
    BY GrowsTree DEF Tree
  <2>2. CASE OnPath(i, ScopeAt(k))
    BY <2>1, <2>2
  <2>3. CASE \E j \in i + 1 .. k - 1 : Closes(j, i)
    <3>1. PICK j \in i + 1 .. k - 1 : Closes(j, i)
      BY <2>3
    <3> DEFINE h == here
    <3>2. h \in Nat /\ Nodes = 1 .. h - 1 /\ k \in Nodes \cup {h} /\ i \in Nodes
      BY <1>1
    <3> HIDE DEF h
    <3>3. j \in Nodes
      BY <3>2
    <3>4. Closes(j, i)'
      BY <3>1, <3>3, GrowsTree DEF Tree
    <3>5. QED
      BY <3>4
  <2>4. QED
    BY <1>2, <2>2, <2>3 DEF Tree, OpenOrClosed
<1>3. ASSUME NEW i \in Nodes, Enters(i), NEW h \in {here}
      PROVE  OnPath(i, scope') \/ \E j \in i + 1 .. h : Closes(j, i)'
  <2>1. ScopeAt(h)' = scope /\ ScopeAt(h) = scope /\ Body(i)' = Body(i) /\ i < h
    BY <1>1, GrowsTree DEF Tree
  <2>2. CASE \E j \in i + 1 .. h - 1 : Closes(j, i)'
    <3>1. i + 1 .. h - 1 \subseteq i + 1 .. h
      BY <1>1
    <3>2. QED
      BY <2>2, <3>1
  <2>3. CASE OnPath(i, scope)
    <3>1. PICK m \in 1 .. Len(scope) : scope[m] = i
      BY <2>3 DEF OnPath
    <3>2. CASE m \in 1 .. Len(scope') /\ scope'[m] = scope[m]
      BY <3>1, <3>2 DEF OnPath
    <3>3. CASE n.op = "close" /\ m = Len(scope)
      <4>1. PICK o \in Nodes : BodyOf(here, m, o)
        BY <2>1, <3>1 DEF Tree, Enclosed
      <4>2. scope = Body(i)
        BY <1>1, <2>1, <3>1, <3>3, <4>1, PathIs DEF BodyOf
      <4>3. Closes(h, i)' /\ h \in i + 1 .. h
        BY <1>1, <2>1, <3>3, <4>2 DEF Closes
      <4>4. QED
        BY <4>3
    <3>4. QED
      BY <3>2, <3>3, ScopeGoes DEF Tree
  <2>4. OnPath(i, ScopeAt(h)') \/ \E j \in i + 1 .. h - 1 : Closes(j, i)'
    BY <1>2, <1>3, <2>1
  <2>5. QED
    BY <2>1, <2>2, <2>3, <2>4
<1>4. ASSUME NEW h \in {here}, Enters(h)'
      PROVE  OnPath(h, scope')
  <2>1. Len(scope) + 1 \in 1 .. Len(scope') /\ scope'[Len(scope) + 1] = h
    BY <1>4, GrowsNew, ScopeGoes DEF Tree
  <2>2. QED
    BY <2>1 DEF OnPath
<1>5. ASSUME NEW i \in Nodes', NEW k \in Nodes' \cup {here'}, i < k, Enters(i)'
      PROVE  OnPath(i, ScopeAt(k)') \/ \E j \in i + 1 .. k - 1 : Closes(j, i)'
  <2>1. CASE k \in Nodes \cup {here}
    <3>1. i \in Nodes
      BY <1>1, <1>5, <2>1
    <3>2. Enters(i)
      BY <1>5, <3>1, GrowsTree DEF Tree
    <3>3. QED
      BY <1>2, <1>5, <2>1, <3>1, <3>2
  <2>2. CASE k \in {here + 1}
    <3>1. ScopeAt(k)' = scope' /\ k - 1 = here
      BY <1>1, <2>2, GrowsTree DEF Tree
    <3>2. CASE i \in Nodes
      <4>1. Enters(i)
        BY <1>5, <3>2, GrowsTree DEF Tree
      <4>2. QED
        BY <1>3, <3>1, <3>2, <4>1
    <3>3. CASE i \in {here}
      BY <1>4, <1>5, <3>1, <3>3
    <3>4. QED
      BY <1>1, <3>2, <3>3
  <2>3. QED
    BY <1>1, <2>1, <2>2
<1>6. QED
  BY <1>5 DEF OpenOrClosed, OnPath

\* What is bound before the next node.
LEMMA BeforeNext ==
  ASSUME TreeOK, NEW n, Grows(n)
  PROVE  \A h \in {here} : \A b : b \in BoundBefore(h + 1)' <=> b \in BoundBefore(h) \/ b \in BoundBy(h)'
<1> SUFFICES ASSUME NEW h \in {here}, NEW b
             PROVE  b \in BoundBefore(h + 1)' <=> b \in BoundBefore(h) \/ b \in BoundBy(h)'
  OBVIOUS
<1>1. h \in Nat /\ Nodes = 1 .. h - 1 /\ h + 1 - 1 = h /\ 1 .. h = Nodes \cup {h}
  <2>1. h \in Nat /\ Nodes = 1 .. h - 1 /\ h = Len(program) + 1 /\ Len(program) \in Nat
    BY GrowsProgram, NodesAre DEF here
  <2>2. QED
    BY <2>1
<1>2. \A j \in Nodes : BoundBy(j)' = BoundBy(j)
  BY GrowsTree
<1>3. b \in BoundBefore(h + 1)' <=> \E j \in Nodes \cup {h} : b \in BoundBy(j)'
  BY <1>1 DEF BoundBefore
<1>4. b \in BoundBefore(h) <=> \E j \in Nodes : b \in BoundBy(j)
  BY <1>1 DEF BoundBefore
<1>5. QED
  BY <1>2, <1>3, <1>4

\* What is bound is bound by a node before this one.
LEMMA GrowsBoundThere ==
  ASSUME Tree, NEW n, Grows(n)
  PROVE  BoundThere'
<1> SUFFICES ASSUME NEW h \in {here}, NEW b \in bindings'
             PROVE  b \in BoundBefore(h + 1)'
  BY GrowsProgram DEF Tree, BoundThere
<1>1. b \in bindings \/ b \in Introduces(n, h)
  BY DEF Grows, Binds
<1>2. b[2] \in Ident
  BY GrowsTreeOK DEF TreeOK
<1>3. b \in BoundBefore(h) \/ b \in BoundBy(h)'
  <2>1. b \in bindings => b \in BoundBefore(h)
    BY DEF Tree, BoundThere
  <2>2. b \in Introduces(n, h) => b \in BoundBy(h)'
    BY <1>2, GrowsNew
  <2>3. QED
    BY <1>1, <2>1, <2>2
<1>4. QED
  BY <1>3, BeforeNext DEF Tree

\* What a node binds is bound.
LEMMA GrowsBindsAll ==
  ASSUME Tree, NEW n, Grows(n)
  PROVE  BindsAll'
<1>1. Nodes' = Nodes \cup {here} /\ program'[here] = n /\ n.scope = scope
  BY GrowsProgram DEF Tree
<1>2. ASSUME NEW i \in Nodes, NEW b \in BoundBy(i)', b[2] \in Ident
      PROVE  b \in bindings' \/ (Duplicate(i)' /\ b[1] = Body(i)')
  <2>1. b \in BoundBy(i) /\ (Duplicate(i)' <=> Duplicate(i)) /\ Body(i)' = Body(i)
    BY GrowsTree DEF Tree
  <2>2. bindings \subseteq bindings'
    BY DEF Grows, Binds
  <2>3. QED
    BY <1>2, <2>1, <2>2 DEF Tree, BindsAll
<1>3. ASSUME NEW h \in {here}, NEW b \in BoundBy(h)', b[2] \in Ident
      PROVE  b \in bindings' \/ (Duplicate(h)' /\ b[1] = Body(h)')
  <2>1. b \in Introduces(n, h) /\ (Duplicate(h)' <=> Redefining(n)) /\ Body(h)' = Append(scope, h)
    BY <1>3, GrowsNew, GrowsTree DEF Tree
  <2>2. CASE ~Redefining(n)
    BY <2>1, <2>2 DEF Grows, Binds
  <2>3. CASE Redefining(n)
    <3>1. n.op \in {"var", "func"} /\ <<scope, n.x>> \in bindings /\ n.op # "loop"
      BY <2>3 DEF Redefining, Redefines
    <3>2. b = <<scope, n.x>> \/ b = <<Append(scope, h), n.e>>
      BY <1>1, <2>1, <3>1 DEF Introduces
    <3>3. QED
      BY <2>1, <2>3, <3>1, <3>2 DEF Grows, Binds
  <2>4. QED
    BY <2>2, <2>3
<1>4. \A i \in Nodes' : i \in Nodes \/ i \in {here}
  BY <1>1
<1>5. QED
  BY <1>2, <1>3, <1>4 DEF BindsAll

\* What a use refers to is bound.
LEMMA GrowsDefsThere ==
  ASSUME Tree, NEW n, Grows(n)
  PROVE  DefsThere'
<1>1. /\ Nodes' = Nodes \cup {here} /\ program'[here] = n /\ n.scope = scope
      /\ \A i \in Nodes : program'[i] = program[i]
  BY GrowsProgram DEF Tree
<1>2. ASSUME NEW i \in Nodes, Uses(program'[i])
      PROVE  program'[i].def = NoScope \/ <<program'[i].def, program'[i].e>> \in BoundBefore(i)'
  <2>1. program'[i] = program[i] /\ BoundBefore(i)' = BoundBefore(i)
    BY <1>1, GrowsTree DEF Tree
  <2>2. QED
    BY <1>2, <2>1 DEF Tree, DefsThere
<1>3. ASSUME NEW h \in {here}, Uses(program'[h])
      PROVE  program'[h].def = NoScope \/ <<program'[h].def, program'[h].e>> \in BoundBefore(h)'
  <2>1. program'[h] = n /\ BoundBefore(h)' = BoundBefore(h)
    BY <1>1, GrowsTree DEF Tree
  <2>2. n.def = LookUp(bindings, scope, n.e)
    BY <1>3, <2>1 DEF Grows
  <2>3. CASE ~Resolves(bindings, scope, n.e)
    BY <2>1, <2>2, <2>3 DEF LookUp
  <2>4. CASE Resolves(bindings, scope, n.e)
    <3>1. <<n.def, n.e>> \in bindings
      BY <2>2, <2>4, LookedUp DEF Tree, TreeOK
    <3>2. QED
      BY <2>1, <3>1 DEF Tree, BoundThere
  <2>5. QED
    BY <2>3, <2>4
<1>4. \A i \in Nodes' : i \in Nodes \/ i \in {here}
  BY <1>1
<1>5. QED
  BY <1>2, <1>3, <1>4 DEF DefsThere, NoScope, Uses

\* All of this together.
LEMMA GrowsKeepsTree ==
  ASSUME Tree, NEW n, Grows(n)
  PROVE  Tree'
BY GrowsTreeOK, GrowsThreaded, GrowsEnclosed, GrowsClosedOnce, GrowsOpenOrClosed, GrowsBoundThere,
   GrowsBindsAll, GrowsDefsThere DEF Tree

\* Nothing else changes the tree.
LEMMA SameTree ==
  ASSUME Tree, UNCHANGED <<program, scope, bindings>>
  PROVE  /\ Tree' /\ Nodes' = Nodes
         /\ \A i \in Nodes : /\ Duplicate(i)' <=> Duplicate(i)
                             /\ Undefined(i)' <=> Undefined(i)
<1>1. Nodes' = Nodes /\ here' = here
  BY DEF Nodes, here
<1>2. \A i : Body(i)' = Body(i) /\ ScopeAt(i)' = ScopeAt(i)
  BY <1>1 DEF Body, ScopeAt
<1>3. \A i : BoundBy(i)' = BoundBy(i)
  BY <1>2 DEF BoundBy
<1>4. \A i : BoundBefore(i)' = BoundBefore(i)
  BY <1>3 DEF BoundBefore
<1>5. \A i : (Duplicate(i)' <=> Duplicate(i))
  BY <1>4 DEF Duplicate
<1>6. \A i : /\ Undefined(i)' <=> Undefined(i)
             /\ Enters(i)' <=> Enters(i)
  BY <1>4, <1>5 DEF Undefined, Enters
<1>7. \A i, j : Closes(i, j)' <=> Closes(i, j)
  BY <1>2 DEF Closes
<1>8. TreeOK' /\ AllProper' /\ DefsThere' /\ BoundThere'
  BY <1>1, <1>4 DEF Tree, TreeOK, AllProper, DefsThere, BoundThere
<1>9. Threaded' /\ ClosedOnce'
  BY <1>1, <1>2, <1>6 DEF Tree, Threaded, ClosedOnce, OnPath, Owner
<1>10. Enclosed'
  BY <1>1, <1>2, <1>6 DEF Tree, Enclosed, BodyOf
<1>11. OpenOrClosed'
  BY <1>1, <1>2, <1>6, <1>7 DEF Tree, OpenOrClosed, OnPath
<1>12. BindsAll'
  BY <1>1, <1>2, <1>3, <1>5 DEF Tree, BindsAll
<1>13. QED
  BY <1>1, <1>5, <1>6, <1>8, <1>9, <1>10, <1>11, <1>12 DEF Tree

\* The later passes leave the program and its scopes alone.
LEMMA LaterPassesKeepTree ==
  ASSUME TypePass \/ GenPass \/ ScopeEnd
  PROVE  UNCHANGED <<program, scope, bindings, idents>>
BY DEF TypePass, GenPass, TypeUse, TypeCall, TypeVariableDef, TypeReturn, TypeFunctionDef, TypeBlock,
       TypeLoop, TypeClose, TypeEnd, CopyOfNull, TypeOnly, GenUse, GenVariableDef, GenFunctionDef,
       GenLoop, GenBlock, GenEnd, GenVisit, ScopeEnd, scopeVars

\* At first there is the top scope.
LEMMA InitTree == Init => Tree
<1> SUFFICES ASSUME Init PROVE Tree
  OBVIOUS
<1>1. program = <<>> /\ scope = TopScope /\ bindings = {} /\ Len(program) = 0
  BY EmptySeq DEF Init
<1>2. TreeOK
  BY <1>1 DEF TreeOK, TopScope, Scope
<1>3. Nodes = {} /\ here = 1
  BY <1>1 DEF Nodes, here
<1>4. ScopeAt(1) = TopScope /\ Len(TopScope) = 0
  BY <1>1, <1>3, EmptySeq DEF ScopeAt, TopScope
<1>5. QED
  BY <1>1, <1>2, <1>3, <1>4 DEF Tree, AllProper, Threaded, Enclosed, ClosedOnce, OpenOrClosed,
     BoundThere, BindsAll, DefsThere

-----------------------------------------------------------------------------
(***************************************************************************)
(* The errors of the scope pass.                                           *)
(***************************************************************************)
ErrorsExact ==
  /\ "undefined" \in errors <=> \E i \in Nodes : Undefined(i)
  /\ "redefined" \in errors <=> \E i \in Nodes : Duplicate(i)
  /\ errors \subseteq {"undefined", "redefined"}

NotBegun ==
  /\ pc = 1 /\ typed = {} /\ named = {}
  /\ returns \in Seq(Type \cup {"null"}) /\ Len(returns) = 1 /\ returns[1] # "null"

Scoping == phase = "scope" => ErrorsExact /\ NotBegun

Accepted ==
  phase \notin {"scope", "rejected"} =>
    scope = TopScope /\ \A i \in Nodes : ~Duplicate(i) /\ ~Undefined(i)

ScopeInv == Tree /\ Scoping /\ Accepted

\* A step adds the errors of its own node, and those are the reference's.
LEMMA GrowsErrors ==
  ASSUME Tree, ErrorsExact, NEW n, Grows(n)
  PROVE  ErrorsExact'
<1>1. Nodes' = Nodes \cup {here}
  BY GrowsProgram DEF Tree
<1>2. \A i \in Nodes : (Duplicate(i)' <=> Duplicate(i)) /\ (Undefined(i)' <=> Undefined(i))
  BY GrowsTree DEF Tree
<1>3. \A h \in {here} :
        /\ Duplicate(h)' <=> Redefining(n)
        /\ Undefined(h)' <=> Uses(n) /\ ~Redefining(n) /\ ~Resolves(bindings, scope, n.e)
  BY GrowsNew
<1>4. (\E i \in Nodes' : Duplicate(i)') <=> (\E i \in Nodes : Duplicate(i)) \/ Redefining(n)
  BY <1>1, <1>2, <1>3
<1>5. (\E i \in Nodes' : Undefined(i)') <=>
        (\E i \in Nodes : Undefined(i)) \/
        (Uses(n) /\ ~Redefining(n) /\ ~Resolves(bindings, scope, n.e))
  BY <1>1, <1>2, <1>3
<1>6. /\ "redefined" \in errors' <=> "redefined" \in errors \/ Redefining(n)
      /\ "undefined" \in errors' <=> "undefined" \in errors \/
           (Uses(n) /\ ~Redefining(n) /\ ~Resolves(bindings, scope, n.e))
      /\ errors' \subseteq errors \cup {"undefined", "redefined"}
  BY DEF Grows, Reports
<1>7. QED
  BY <1>4, <1>5, <1>6 DEF ErrorsExact

\* At first there are no errors.
LEMMA InitScopeInv == Init => ScopeInv
<1> SUFFICES ASSUME Init PROVE ScopeInv
  OBVIOUS
<1>1. Nodes = {}
  <2>1. program = <<>> /\ Len(program) = 0
    BY EmptySeq DEF Init
  <2>2. QED
    BY <2>1 DEF Nodes
<1>2. NotBegun
  <2>1. returns = <<"simple">> /\ "simple" \in Type
    BY DEF Init, Type, Literal
  <2>2. returns \in Seq(Type \cup {"null"}) /\ Len(returns) = 1 /\ returns[1] # "null"
    BY <2>1
  <2>3. QED
    BY <2>2 DEF NotBegun, Init
<1>3. QED
  BY <1>1, <1>2, InitTree DEF ScopeInv, Scoping, Accepted, ErrorsExact, Init

\* Behind the scope pass its errors stay what they are.
LEMMA LaterScopeInv ==
  ASSUME ScopeInv, phase \notin {"scope", "rejected"}, phase' # "scope",
         UNCHANGED <<program, scope, bindings>>
  PROVE  ScopeInv'
BY SameTree DEF ScopeInv, Scoping, Accepted

\* So they do at its end.
LEMMA ScopeEndInv ==
  ASSUME ScopeInv, ScopeEnd
  PROVE  ScopeInv'
<1>1. /\ phase = "scope" /\ scope = TopScope /\ UNCHANGED <<program, scope, bindings>>
      /\ phase' = IF errors = {} THEN "type" ELSE "rejected"
  BY DEF ScopeEnd, scopeVars
<1>2. errors = {} => \A i \in Nodes : ~Duplicate(i) /\ ~Undefined(i)
  BY <1>1 DEF ScopeInv, Scoping, ErrorsExact
<1>3. QED
  BY <1>1, <1>2, SameTree DEF ScopeInv, Scoping, Accepted

\* The later passes never go back to the first.
LEMMA LaterPhases ==
  /\ TypePass \/ GenPass => phase \in {"type", "gen"} /\ phase' # "scope"
<1>1. TypePass => phase = "type" /\ phase' # "scope"
  BY DEF TypePass, TypeUse, TypeCall, TypeVariableDef, TypeReturn, TypeFunctionDef, TypeBlock,
         TypeLoop, TypeClose, TypeEnd, CopyOfNull, TypeOnly, Visit, Step
<1>2. GenPass => phase = "gen" /\ phase' # "scope"
  BY DEF GenPass, GenUse, GenVariableDef, GenFunctionDef, GenLoop, GenBlock, GenEnd, GenVisit, Visit,
         GenExpr, Generates, Step
<1>3. QED
  BY <1>1, <1>2

\* Every step keeps the invariant.
LEMMA ScopeInvKept == ScopeInv /\ [Next]_vars => ScopeInv'
<1> SUFFICES ASSUME ScopeInv, [Next]_vars PROVE ScopeInv'
  OBVIOUS
<1>1. CASE UNCHANGED vars
  <2>1. UNCHANGED <<program, scope, bindings, phase, errors, pc, returns, typed, named>>
    BY <1>1 DEF vars
  <2>2. QED
    BY <2>1, SameTree DEF ScopeInv, Scoping, Accepted, ErrorsExact, NotBegun
<1>2. CASE ScopeEnd
  BY <1>2, ScopeEndInv
<1>3. ASSUME NEW n, Grows(n) PROVE ScopeInv'
  <2>1. phase = "scope" /\ phase' = "scope" /\ UNCHANGED <<pc, returns, typed, named>>
    BY <1>3 DEF Grows
  <2>2. ErrorsExact' /\ Tree'
    BY <1>3, <2>1, GrowsErrors, GrowsKeepsTree DEF ScopeInv, Scoping
  <2>3. QED
    BY <2>1, <2>2 DEF ScopeInv, Scoping, Accepted, NotBegun
<1>4. CASE TypePass \/ GenPass
  <2>1. phase \in {"type", "gen"} /\ phase' # "scope" /\ UNCHANGED <<program, scope, bindings>>
    BY <1>4, LaterPhases, LaterPassesKeepTree
  <2>2. QED
    BY <2>1, LaterScopeInv
<1>5. QED
  BY <1>1, <1>2, <1>3, <1>4, ScopePassGrows DEF Next, ScopeInv, Tree

\* ScopeCheck reports an undefined name just when some expression uses a name no node
\* before it binds in a scope around it, and a redefinition just when some node
\* defines a name that is bound in its scope.
THEOREM ScopeErrorsAreExact == Spec => []ScopeErrorsExact
<1>1. ScopeInv => ScopeErrorsExact
  BY DEF ScopeInv, Scoping, ErrorsExact, ScopeErrorsExact
<1>2. QED
  BY <1>1, InitScopeInv, ScopeInvKept, PTL DEF Spec
=============================================================================
