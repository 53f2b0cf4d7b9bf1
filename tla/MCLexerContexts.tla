--------------------------- MODULE MCLexerContexts ---------------------------
EXTENDS LexerContexts

\* All kinds of pieces in the first seven; strings and variables in the four after
\* them, which is room to close what strings three deep have opened.
LongSourcesClose == left < 4 => next \in {"word", "quote", "dollar", "brace", "eof"}
=============================================================================
