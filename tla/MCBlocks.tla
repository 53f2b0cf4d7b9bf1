------------------------------ MODULE MCBlocks ------------------------------
\* The parser on small sources: the lines the runs choose from.
EXTENDS Blocks

\* The beginnings of the statements that have a block, and what may stand in one.
Headers ==
  {<<"If", "One", "Colon">>, <<"Else">>, <<"For", "One", "Colon">>, <<"Switch", "One">>,
   <<"Case", "One">>, <<"Default">>, <<"Define", "Ident", "Unit", "SingleEq">>}
Controls == Headers \cup
  {<<"One">>, <<"Return">>, <<"Break">>, <<"Break", "Two">>,
   <<"If", "One", "Colon", "One">>, <<"For", "One", "Colon", "Break">>}

\* Every form of a statement, right or wrong.
Forms ==
  {<<"Ident">>, <<"If", "One">>, <<"If">>, <<"Else", "If", "One", "Colon">>, <<"Else", "Colon", "One">>,
   <<"For", "Ident", "In", "Ident", "Colon">>, <<"Switch", "One">>, <<"Case", "One", "Colon", "Break">>,
   <<"Case">>, <<"Default", "Colon">>, <<"Break", "One", "Semicolon", "Break", "Ident">>,
   <<"Export", "Define", "Ident", "Unit", "Colon", "Unit", "SingleEq", "Return", "Minus", "One">>,
   <<"Define", "Ident", "Colon", "Unit", "SingleEq", "Ident", "Ident", "Unit">>,
   <<"Define", "Ident", "Colon", "Unit">>, <<"Define", "Ident", "Colon", "One">>, <<"Define", "Unit">>,
   <<"Return", "Semicolon", "One">>,
   <<"Ident", "SingleEq", "One", "Minus", "One">>, <<"Ident", "SingleEq", "Colon">>,
   <<"Unknown", "Unit">>, <<"Minus", "Minus", "In">>, <<"Minus">>, <<"Colon", "Minus">>,
   <<"Case", "Colon">>, <<"For", "Break">>}
=============================================================================
