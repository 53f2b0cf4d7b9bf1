----------------------------- MODULE Semantics -----------------------------
(***************************************************************************)
(* What running a program of sushiscript means: the commands it runs, in   *)
(* what order, and where the result of each takes it.  The specification   *)
(* promises this in 4.7.11 to 4.7.14 of the language specification;        *)
(* Script shows what of it the generated bash keeps.                       *)
(*                                                                         *)
(* An expression is a variable, a command or a value.  A statement is      *)
(*   <<"set", x, c>>           x = c                                       *)
(*   <<"if", e, a, b>>         if e: a else: b, b may be empty             *)
(*   <<"while", e, a>>         for e: a                                    *)
(*   <<"each", e, a>>          for i in e: a, e an array: <<"val", k>> is   *)
(*                             one of k elements the program holds          *)
(*   <<"switch", e, s, d>>     switch e, the cases s, default: d, or empty  *)
(*   <<"break", n>>, <<"continue", n>>, <<"return">>                       *)
(* and a body is a sequence of statements.                                 *)
(***************************************************************************)
EXTENDS Naturals, Sequences, SequencesExt

CONSTANTS
  Program,     \* the bodies a run chooses from
  Variable,    \* the variables, all Bool
  MaxElements, \* bound on the length of the array of a range
  MaxEvents    \* bound on the commands a run executes

VARIABLES
  todo,        \* what is to be done: statements, and loops that are under way
  store,       \* the values of the variables
  event        \* the last command that ran: which one, its result, its number

vars == <<todo, store, event>>

\* false and true.
Truth == {0, 1}

Var(x) == <<"var", x>>
Cmd(c) == <<"cmd", c>>
Val(v) == <<"val", v>>

\* <<"next", e, a>> and <<"left", k, a>> are loops whose body is being done.
Underway(s) == s[1] \in {"next", "left"}

Rest == Tail(todo)
Now(op) == todo # <<>> /\ todo[1][1] = op
Go(body) == todo' = body \o Rest

\* e has the value v; a command runs to get it, with any result.
Runs(c, v) ==
  /\ event.number < MaxEvents
  /\ event' = [command |-> c, value |-> v, number |-> event.number + 1]
Evaluates(e, v) ==
  IF e[1] = "cmd" THEN Runs(e[2], v)
  ELSE v = (IF e[1] = "var" THEN store[e[2]] ELSE e[2]) /\ UNCHANGED event

\* What is left after leaving n - 1 loops, from the n-th one on.
FromLoop(n) ==
  LET i == CHOOSE i \in DOMAIN todo :
             /\ Underway(todo[i])
             /\ Cardinality({j \in 1..i : Underway(todo[j])}) = n
  IN SubSeq(todo, i, Len(todo))

-----------------------------------------------------------------------------
Set ==
  /\ Now("set")
  /\ \E v \in Truth :
       Runs(todo[1][3][2], v) /\ store' = [store EXCEPT ![todo[1][2]] = v]
  /\ Go(<<>>)

If ==
  /\ Now("if")
  /\ \E v \in Truth :
       Evaluates(todo[1][2], v) /\ Go(IF v = 1 THEN todo[1][3] ELSE todo[1][4])
  /\ UNCHANGED store

\* The loop condition is checked before every iteration.
While ==
  /\ Now("while") \/ Now("next")
  /\ LET e == todo[1][2]
         body == todo[1][3]
     IN \E v \in Truth :
          Evaluates(e, v) /\ Go(IF v = 1 THEN Append(body, <<"next", e, body>>) ELSE <<>>)
  /\ UNCHANGED store

\* The body is done for each element of the array.
Each ==
  /\ Now("each")
  /\ \E k \in 0..MaxElements :
       Evaluates(todo[1][2], k) /\ Go(<<<<"left", k, todo[1][3]>>>>)
  /\ UNCHANGED store

Iterate ==
  /\ Now("left")
  /\ LET k == todo[1][2]
         body == todo[1][3]
     IN Go(IF k = 0 THEN <<>> ELSE Append(body, <<"left", k - 1, body>>))
  /\ UNCHANGED <<store, event>>

\* The switched expression is evaluated first, the cases in order up to the
\* first that is equal.
Switch ==
  /\ Now("switch") /\ todo[1][2][1] = "cmd"
  /\ \E v \in Truth :
       Evaluates(todo[1][2], v) /\ Go(<<[todo[1] EXCEPT ![2] = Val(v)]>>)
  /\ UNCHANGED store

Case ==
  /\ Now("switch") /\ todo[1][2][1] # "cmd" /\ todo[1][3] # <<>>
  /\ LET e == todo[1][2]
         v == IF e[1] = "var" THEN store[e[2]] ELSE e[2]
         case == todo[1][3][1]
     IN \E w \in Truth :
          /\ Evaluates(case[1], w)
          /\ Go(IF v = w THEN case[2] ELSE <<[todo[1] EXCEPT ![3] = Tail(@)]>>)
  /\ UNCHANGED store

Default ==
  /\ Now("switch") /\ todo[1][2][1] # "cmd" /\ todo[1][3] = <<>>
  /\ Go(todo[1][4])
  /\ UNCHANGED <<store, event>>

Break == Now("break") /\ todo' = Tail(FromLoop(todo[1][2])) /\ UNCHANGED <<store, event>>
Continue == Now("continue") /\ todo' = FromLoop(todo[1][2]) /\ UNCHANGED <<store, event>>
Return == Now("return") /\ todo' = <<>> /\ UNCHANGED <<store, event>>

Init ==
  /\ todo \in Program
  /\ store = [x \in Variable |-> 0]
  /\ event = [command |-> "", value |-> 0, number |-> 0]

Next ==
  \/ Set \/ If \/ While \/ Each \/ Iterate \/ Switch \/ Case \/ Default
  \/ Break \/ Continue \/ Return

Spec == Init /\ [][Next]_vars
=============================================================================
