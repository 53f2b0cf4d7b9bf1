------------------------------ MODULE MCTyping ------------------------------
\* The type checker over one variable and two functions: f takes a boolean and a
\* string and returns an array, g takes a number and returns a boolean.
EXTENDS Typing

MCParams == [f |-> <<kBool, kString>>, g |-> <<kInt>>]
MCResult == [f |-> Array("Bool"), g |-> kBool]

\* What follows an error, in a body of two statements: the numbers and what has no
\* type, which is enough to take a null type for the type of the other.
StopsAtErrors ==
  errors => /\ statements < 2
            /\ \A i \in 1..Size : operands[i].type \in {None, kInt} /\ Closed(operands[i])
            /\ \A i \in 1..Size : ~operands[i].empty /\ operands[i].root \notin Untyped

\* Arrays and maps of paths, and bodies that return nothing, in bodies of one
\* statement only.
OfPaths ==
  {Array("Path"), Map("Path", "Path"), Map("Path", "ExitCode"), Map("ExitCode", "Path")}

LongBodies ==
  statements > 0 =>
    /\ returns # kUnit
    /\ {operands[i].type : i \in 1..Size} \cap OfPaths = {}
    /\ {types[n] : n \in DOMAIN types} \cap OfPaths = {}
=============================================================================
