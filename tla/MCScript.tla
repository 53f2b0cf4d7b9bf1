------------------------------ MODULE MCScript ------------------------------
\* Small programs: two statements, nested once or twice.
EXTENDS Script

x == <<"var", "x">>
y == <<"var", "y">>
a == <<"cmd", "a">>
b == <<"cmd", "b">>
arrays == {<<"val", 0>>, <<"val", 2>>}

Simple == {<<<<"set", "x", b>>>>, <<<<"return">>>>}
InLoop == Simple \cup {<<<<"set", "x", b>>, s>> : s \in {<<"break", 1>>, <<"continue", 1>>}}
InLoops == InLoop \cup {<<s>> : s \in {<<"break", 2>>, <<"continue", 2>>}}

\* The statements that use the value of a variable, and those that use what a
\* command returns the way the translation keeps.
Branches(body) ==
  {<<"if", e, s, t>> : e \in {x, y}, s \in body, t \in body \cup {<<>>}}
    \cup {<<"if", a, s, <<>>>> : s \in body}
    \cup {<<"switch", x, <<<<e, s>>>>, t>> : e \in {y, a}, s \in body, t \in body \cup {<<>>}}
    \cup {<<"switch", x, <<<<y, s>>, <<<<"val", 1>>, t>>>>, <<>>>> : s, t \in body}

Loops(body) ==
  {<<"while", x, s>> : s \in body} \cup {<<"each", e, s>> : e \in arrays, s \in body}

\* The bodies inside no loop, one and two.
Bodies ==
  [n \in 0..2 |->
     CASE n = 0 ->
            Simple
              \cup {<<<<"set", "x", a>>, s>> : s \in Branches(Simple) \cup Loops(InLoop)}
              \cup {<<l, <<"set", "y", a>>>> : l \in Loops({<<s>> : s \in Branches(InLoop)})}
              \cup {<<l>> : l \in Loops({<<m, <<"set", "y", a>>>> : m \in Loops(InLoops)})}
       [] n = 1 ->
            InLoop
              \cup {<<s>> : s \in Branches(InLoop)}
              \cup {<<m, <<"set", "y", a>>>> : m \in Loops(InLoops)}
       [] n = 2 -> InLoops]

Programs == Bodies[0] \ Simple

\* What a command returns, used as the condition of a loop.
WhilePrograms == {<<<<"while", a, s>>>> : s \in InLoop}

ASSUME ProgramsAreKept == Program = Programs => KeptPrograms(Bodies)
=============================================================================
