------------------------------- MODULE Script -------------------------------
(***************************************************************************)
(* The bash that StmtVisitor writes for the statements of Semantics, and   *)
(* bash running it.  What an expression needs before its value can be      *)
(* read, its code_before, stands in front of the statement that uses it:   *)
(*   <<"eval", c>>             the command c; its result is in a temporary *)
(*   <<"assign", x, c>>        x=${temporary of c}                         *)
(*   <<"test", e, a, b>>       if [[ e -ne 0 ]]; then a else b fi          *)
(*   <<"while", e, a>>         while [[ e -ne 0 ]]; do a done              *)
(*   <<"for", e, a>>           for i in "${...}"; do a done                *)
(*   <<"chain", e, s, d>>      if [[ s1 -eq e ]]; then ... elif ... else d *)
(*   <<"else", e, s, d>>       else d fi, after no if                      *)
(*   <<"break", n>>, <<"continue", n>>, <<"return">>                       *)
(* The bodies a, b and d stay the statements they were translated from and *)
(* are translated when the script gets to them: a CodeGenerator of its own *)
(* writes each.  A command has one place in the program, so its name names *)
(* the temporary.                                                          *)
(***************************************************************************)
EXTENDS Naturals, Sequences, SequencesExt

CONSTANTS
  Program, Variable, MaxElements, MaxEvents,   \* as in Semantics
  Command      \* the commands

ASSUME ScriptAssumption == MaxElements \in Nat /\ MaxEvents \in Nat

VARIABLES
  script,      \* what is left of the script, with the loops that are under way
  temps,       \* the temporaries
  store, event \* as in Semantics

vars == <<script, temps, store, event>>

Truth == {0, 1}
IsCmd(e) == e[1] = "cmd"

-----------------------------------------------------------------------------
(***************************************************************************)
(* The generator.                                                          *)
(***************************************************************************)
Before(e) == IF IsCmd(e) THEN <<<<"eval", e[2]>>>> ELSE <<>>

\* Of all the cases, whichever is chosen.
BeforeCases(cases) == FlattenSeq([i \in DOMAIN cases |-> Before(cases[i][1])])

\* With an else the code of the condition is there twice.
IfStmt(s) ==
  Before(s[2]) \o (IF s[4] = <<>> THEN <<>> ELSE Before(s[2]))
    \o <<<<"test", s[2], s[3], s[4]>>>>

\* In front of the loop, where it runs once.
ForStmt(s) ==
  Before(s[2]) \o <<<<IF s[1] = "each" THEN "for" ELSE "while", s[2], s[3]>>>>

\* The code of the switched expression is left out, and there is no if without
\* a case.
SwitchStmt(s) ==
  BeforeCases(s[3])
    \o <<<<IF s[3] = <<>> THEN "else" ELSE "chain", s[2], s[3], s[4]>>>>

\* A mutant: the level is not written.
LoopControlStmt_One(s) == <<<<s[1], 1>>>>

LoopControlStmt(s) == <<<<s[1], s[2]>>>>

Translation(s) ==
  CASE s[1] = "set" -> Before(s[3]) \o <<<<"assign", s[2], s[3]>>>>
    [] s[1] = "if" -> IfStmt(s)
    [] s[1] \in {"while", "each"} -> ForStmt(s)
    [] s[1] = "switch" -> SwitchStmt(s)
    [] s[1] \in {"break", "continue"} -> LoopControlStmt(s)
    [] s[1] = "return" -> <<s>>

GenCode(body) == FlattenSeq([i \in DOMAIN body |-> Translation(body[i])])

-----------------------------------------------------------------------------
(***************************************************************************)
(* Bash.  It does not read an else after no if: a script that has one does *)
(* not go on.                                                              *)
(***************************************************************************)
Underway(s) == s[1] \in {"again", "left"}
Rest == Tail(script)
Now(op) == script # <<>> /\ script[1][1] = op
Go(code) == script' = code \o Rest

\* ${...}: a temporary that has not been set is 0 where a number is expected.
ValueOf(e) ==
  CASE e[1] = "cmd" -> temps[e[2]]
    [] e[1] = "var" -> store[e[2]]
    [] e[1] = "val" -> e[2]

FromLoop(n) ==
  LET i == CHOOSE i \in DOMAIN script :
             /\ Underway(script[i])
             /\ Cardinality({j \in 1..i : Underway(script[j])}) = n
  IN SubSeq(script, i, Len(script))

Iterates(c) == \E i \in DOMAIN script : script[i][1] = "for" /\ script[i][2] = <<"cmd", c>>

Eval ==
  /\ Now("eval") /\ event.number < MaxEvents
  /\ LET c == script[1][2]
     IN \E v \in IF Iterates(c) THEN 0..MaxElements ELSE Truth :
          /\ temps' = [temps EXCEPT ![c] = v]
          /\ event' = [command |-> c, value |-> v, number |-> event.number + 1]
  /\ Go(<<>>) /\ UNCHANGED store

Assign ==
  /\ Now("assign")
  /\ store' = [store EXCEPT ![script[1][2]] = ValueOf(script[1][3])]
  /\ Go(<<>>) /\ UNCHANGED <<temps, event>>

Test ==
  /\ Now("test")
  /\ Go(GenCode(IF ValueOf(script[1][2]) # 0 THEN script[1][3] ELSE script[1][4]))
  /\ UNCHANGED <<temps, store, event>>

While ==
  /\ Now("while") \/ Now("again")
  /\ LET e == script[1][2]
         body == script[1][3]
     IN Go(IF ValueOf(e) # 0 THEN Append(GenCode(body), <<"again", e, body>>) ELSE <<>>)
  /\ UNCHANGED <<temps, store, event>>

\* The words of "${...}": one for each element of "${array[@]}", which is what an
\* array of the program is; the array a call returns is "${temporary}", one word.
Words(e) == IF IsCmd(e) THEN 1 ELSE ValueOf(e)

For ==
  /\ Now("for")
  /\ Go(<<<<"left", Words(script[1][2]), script[1][3]>>>>)
  /\ UNCHANGED <<temps, store, event>>

Iterate ==
  /\ Now("left")
  /\ LET k == script[1][2]
         body == script[1][3]
     IN Go(IF k = 0 THEN <<>> ELSE Append(GenCode(body), <<"left", k - 1, body>>))
  /\ UNCHANGED <<temps, store, event>>

Chain ==
  /\ Now("chain")
  /\ LET cases == script[1][3]
     IN Go(IF cases = <<>> THEN GenCode(script[1][4])
           ELSE IF ValueOf(cases[1][1]) = ValueOf(script[1][2]) THEN GenCode(cases[1][2])
           ELSE <<[script[1] EXCEPT ![3] = Tail(@)]>>)
  /\ UNCHANGED <<temps, store, event>>

Break ==
  Now("break") /\ script' = Tail(FromLoop(script[1][2])) /\ UNCHANGED <<temps, store, event>>
Continue ==
  Now("continue") /\ script' = FromLoop(script[1][2]) /\ UNCHANGED <<temps, store, event>>
Return == Now("return") /\ script' = <<>> /\ UNCHANGED <<temps, store, event>>

Init ==
  /\ \E body \in Program : script = GenCode(body)
  /\ temps = [c \in Command |-> 0]
  /\ store = [x \in Variable |-> 0]
  /\ event = [command |-> "", value |-> 0, number |-> 0]

Next ==
  \/ Eval \/ Assign \/ Test \/ While \/ For \/ Iterate \/ Chain
  \/ Break \/ Continue \/ Return

\* A command returns, so bash goes on to the next.
Spec == Init /\ [][Next]_vars /\ WF_vars(Next)

-----------------------------------------------------------------------------
(***************************************************************************)
(* The programs whose meaning the translation keeps.  bodies[n] are bodies *)
(* with n loops around them.  What a command returns is assigned, or is    *)
(* the condition of an if without an else, or the first case of a switch.  *)
(* A range is an array of the program, a switch has a case, and no body is *)
(* empty: bash wants a command after then and after do.                    *)
(***************************************************************************)
Plain == ({"var"} \X Variable) \cup ({"val"} \X Truth)
Array == {"val"} \X (0..MaxElements)

BodiesAt(bodies, n) == IF n \in DOMAIN bodies THEN bodies[n] ELSE {}

KeptStmt(bodies, n) ==
  LET result == {"cmd"} \X Command
      body == BodiesAt(bodies, n) \ {<<>>}
      inner == BodiesAt(bodies, n + 1) \ {<<>>}
      other == body \cup {<<>>}
  IN  ({"set"} \X Variable \X result)
        \cup ({"if"} \X Plain \X body \X other)
        \cup ({"if"} \X result \X body \X {<<>>})
        \cup ({"while"} \X Plain \X inner)
        \cup ({"each"} \X Array \X inner)
        \cup {s \in {"switch"} \X Plain \X Seq((Plain \cup result) \X body) \X other :
                 s[3] # <<>> /\ \A i \in 2..Len(s[3]) : s[3][i][1] \in Plain}
        \cup ({"break", "continue"} \X (1..n))
        \cup {<<"return">>}

KeptPrograms(bodies) ==
  /\ \A n \in DOMAIN bodies :
       n \in Nat /\ bodies[n] \subseteq Seq(KeptStmt(bodies, n))
  /\ Program \subseteq BodiesAt(bodies, 0)

-----------------------------------------------------------------------------
(***************************************************************************)
(* The refinement.  The code before a statement and the statement are one; *)
(* once that code has run, and the statement is the first of the script,   *)
(* what it does is settled: it is the body it will choose.                 *)
(***************************************************************************)
Meant(s) ==
  CASE s[1] = "eval" -> <<>>
    [] s[1] = "assign" -> <<<<"set", s[2], s[3]>>>>
    [] s[1] = "test" -> <<[s EXCEPT ![1] = "if"]>>
    [] s[1] = "again" -> <<[s EXCEPT ![1] = "next"]>>
    [] s[1] = "for" -> <<[s EXCEPT ![1] = "each"]>>
    [] s[1] = "chain" -> <<[s EXCEPT ![1] = "switch"]>>
    [] OTHER -> <<s>>

Settled(s) ==
  CASE s[1] = "assign" /\ IsCmd(s[3]) -> <<>>
    [] s[1] = "test" /\ IsCmd(s[2]) -> IF ValueOf(s[2]) # 0 THEN s[3] ELSE s[4]
    [] s[1] = "while" /\ IsCmd(s[2]) ->
         IF ValueOf(s[2]) # 0 THEN Append(s[3], <<"next", s[2], s[3]>>) ELSE <<>>
    [] s[1] = "for" /\ IsCmd(s[2]) -> <<<<"left", ValueOf(s[2]), s[3]>>>>
    [] s[1] = "chain" /\ s[3] # <<>> /\ IsCmd(s[3][1][1]) ->
         IF ValueOf(s[3][1][1]) = ValueOf(s[2]) THEN s[3][1][2]
         ELSE <<[s EXCEPT ![1] = "switch", ![3] = Tail(@)]>>
    [] OTHER -> Meant(s)

MeantTodo ==
  IF script = <<>> THEN <<>>
  ELSE Settled(script[1]) \o FlattenSeq([i \in DOMAIN Rest |-> Meant(Rest[i])])

MeantStore ==
  IF Now("assign") THEN [store EXCEPT ![script[1][2]] = ValueOf(script[1][3])] ELSE store

Sushi == INSTANCE Semantics WITH todo <- MeantTodo, store <- MeantStore

\* The script runs the commands the program says, in its order, and goes where
\* their results take it: what StmtVisitor writes implements 4.7.12 to 4.7.14.
ImplementsSemantics == Sushi!Spec
=============================================================================
