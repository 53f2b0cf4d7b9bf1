------------------------ MODULE LexerContextsProofs ------------------------
(***************************************************************************)
(* Theorems about LexerContexts for sources of any length and any pieces:  *)
(* type correctness, and that no part of a program is dropped without an   *)
(* error.                                                                  *)
(***************************************************************************)
EXTENDS LexerContexts, SequenceTheorems, TLAPS

\* A sequence without its last element.
LEMMA WithoutLast ==
  ASSUME NEW S, NEW s \in Seq(S), s # <<>>
  PROVE  /\ Without(s) \in Seq(S)
         /\ Len(Without(s)) = Len(s) - 1
         /\ \A i \in 1 .. Len(s) - 1 : Without(s)[i] = s[i]
<1>1. /\ Len(s) \in Nat \ {0}
      /\ \A i \in 1 .. Len(s) : s[i] \in S
  BY EmptySeq, LenProperties
<1>2. PICK n \in Nat : Len(s) = n + 1 /\ n = Len(s) - 1
  BY <1>1
<1>3. Without(s) = SubSeq(s, 1, n)
  BY <1>2 DEF Without
<1>4. \A i \in 1 .. n : s[i] \in S
  BY <1>1, <1>2
<1>5. /\ SubSeq(s, 1, n) \in Seq(S)
      /\ Len(SubSeq(s, 1, n)) = IF 1 <= n THEN n - 1 + 1 ELSE 0
      /\ \A i \in 1 .. n - 1 + 1 : SubSeq(s, 1, n)[i] = s[1 + i - 1]
  BY <1>4, SubSeqProperties
<1>6. Len(SubSeq(s, 1, n)) = n
  BY <1>5
<1>7. \A i \in 1 .. n : SubSeq(s, 1, n)[i] = s[i]
  BY <1>5
<1>8. QED
  BY <1>2, <1>3, <1>5, <1>6, <1>7

-----------------------------------------------------------------------------
(***************************************************************************)
(* The stack of methods, over any set S of frames.                         *)
(***************************************************************************)
\* What the operations on the stack return.
LEMMA StackOps ==
  ASSUME NEW S, stack \in Seq(S), stack # <<>>
  PROVE  /\ top \in S
         /\ Without(stack) \in Seq(S)
         /\ \A m \in S : GoOn(m) \in Seq(S)
         /\ \A m \in S, n \in S : Append(GoOn(m), n) \in Seq(S)
         /\ \A m \in S, n \in S, o \in S : GoOn(m) \o <<n, o>> \in Seq(S)
<1>1. /\ Len(stack) \in Nat \ {0}
      /\ \A i \in 1 .. Len(stack) : stack[i] \in S
  BY EmptySeq, LenProperties
<1>2. top \in S
  BY <1>1 DEF top
<1>3. Without(stack) \in Seq(S)
  BY WithoutLast
<1>4. ASSUME NEW m \in S PROVE GoOn(m) \in Seq(S)
  BY <1>1, ExceptSeq DEF GoOn
<1>5. ASSUME NEW m \in S, NEW n \in S PROVE Append(GoOn(m), n) \in Seq(S)
  BY <1>4, AppendProperties
<1>6. ASSUME NEW m \in S, NEW n \in S, NEW o \in S
      PROVE  GoOn(m) \o <<n, o>> \in Seq(S)
  <2>1. <<n, o>> \in Seq(S)
    OBVIOUS
  <2>2. QED
    BY <1>4, <2>1, ConcatProperties
<1>7. QED
  BY <1>2, <1>3, <1>4, <1>5, <1>6

\* What the parser does to its cache leaves a sequence of tokens.
LEMMA CacheOps ==
  ASSUME cache \in Seq(Token)
  PROVE  /\ \A t \in Token : Append(cache, t) \in Seq(Token)
         /\ \A skip \in BOOLEAN : Takes(skip) => cache' \in Seq(Token)
         /\ \A skip \in BOOLEAN : \A t : Optional(t, skip) => cache' \in Seq(Token)
<1>1. \A t \in Token : Append(cache, t) \in Seq(Token)
  BY AppendProperties
<1>2. ASSUME NEW skip \in BOOLEAN, Takes(skip) PROVE cache' \in Seq(Token)
  <2>1. PICK i \in DOMAIN cache : cache' = SubSeq(cache, i + 1, Len(cache))
    BY <1>2 DEF Takes, Solid
  <2>2. /\ i \in Nat /\ Len(cache) \in Nat
        /\ \A j \in i + 1 .. Len(cache) : cache[j] \in Token
    BY LenProperties
  <2>3. QED
    BY <2>1, <2>2, SubSeqProperties
<1>3. ASSUME NEW skip \in BOOLEAN, NEW t, Optional(t, skip)
      PROVE  cache' \in Seq(Token)
  BY <1>2, <1>3 DEF Optional
<1>4. QED
  BY <1>1, <1>2, <1>3

\* The frames the parser makes.
LEMMA Frames ==
  /\ \A p \in Point : Method(p) \in Frame
  /\ \A f \in Frame, p \in Point : [f EXCEPT !.at = p] \in Frame
  /\ \A f \in Frame, b \in BOOLEAN, p \in Point :
       /\ [f EXCEPT !.fail = b] \in Frame
       /\ [f EXCEPT !.at = p, !.fail = b] \in Frame
  /\ \A f \in Frame, b \in BOOLEAN, c \in BOOLEAN, p \in Point :
       [f EXCEPT !.at = p, !.fail = b, !.some = c] \in Frame
BY DEF Frame, Method

\* The points, by their names.
LEMMA PointNames ==
  /\ "program" \in Point /\ "block" \in Point /\ "statement" \in Point
  /\ "statement end" \in Point /\ "skip end" \in Point
  /\ "recover statement" \in Point /\ "expression" \in Point
  /\ "indices" \in Point /\ "climb" \in Point /\ "redirections" \in Point
  /\ "arguments" \in Point /\ "argument" \in Point /\ "command end" \in Point
  /\ "parameters" \in Point /\ "parameter" \in Point
  /\ "interpolation" \in Point /\ "destroy" \in Point /\ "brace" \in Point
  /\ "skip brace" \in Point /\ "recover brace" \in Point
BY DEF Point

-----------------------------------------------------------------------------
(***************************************************************************)
(* Type correctness.                                                       *)
(***************************************************************************)
LexerTypeOK ==
  /\ next \in Piece \cup {"eof"} /\ left \in 0 .. MaxPieces
  /\ line_start \in BOOLEAN
  /\ contexts \in Seq(Context) /\ contexts # <<>>

ParserTypeOK ==
  /\ cache \in Seq(Token)
  /\ stack \in Seq(Frame)
  /\ result \in BOOLEAN /\ failed \in BOOLEAN

\* Entering and leaving keep a context.
LEMMA ContextOps ==
  ASSUME contexts \in Seq(Context), contexts # <<>>
  PROVE  /\ \A c \in Context : Enter(c) => contexts' \in Seq(Context) /\ contexts' # <<>>
         /\ Exit => contexts' \in Seq(Context) /\ contexts' # <<>>
         /\ Append(Without(contexts), "unclosed") \in Seq(Context)
         /\ Append(Without(contexts), "unclosed") # <<>>
<1>1. Len(contexts) \in Nat \ {0} /\ \A i \in 1 .. Len(contexts) : contexts[i] \in Context
  BY EmptySeq, LenProperties
<1>2. /\ Without(contexts) \in Seq(Context)
      /\ Len(Without(contexts)) = Len(contexts) - 1
  BY WithoutLast
<1>3. ASSUME NEW c \in Context, Enter(c)
      PROVE  contexts' \in Seq(Context) /\ contexts' # <<>>
  BY <1>3, AppendProperties DEF Enter
<1>4. ASSUME Exit PROVE contexts' \in Seq(Context) /\ contexts' # <<>>
  <2>1. CASE Len(contexts) = 1
    BY <1>4, <2>1 DEF Exit
  <2>2. CASE Len(contexts) # 1
    <3>1. contexts' = Without(contexts) /\ Len(contexts') # 0
      BY <1>1, <1>2, <1>4, <2>2 DEF Exit
    <3>2. QED
      BY <1>2, <3>1, EmptySeq
  <2>3. QED
    BY <2>1, <2>2
<1>5. "unclosed" \in Context
  BY DEF Context
<1>6. QED
  BY <1>2, <1>3, <1>4, <1>5, AppendProperties

\* A step of the lexer.
LEMMA LexTypeOK ==
  ASSUME LexerTypeOK, ParserTypeOK, Lex
  PROVE  LexerTypeOK' /\ ParserTypeOK'
<1> USE PiecesAssumption DEF LexerTypeOK, Consumes
<1>1. ASSUME NEW t \in Token, Emit(t) PROVE ParserTypeOK'
  BY <1>1, CacheOps DEF Emit, ParserTypeOK
<1>2. LexicalError => ParserTypeOK'
  BY DEF LexicalError, ParserTypeOK
<1>3. Take => next' \in Piece \cup {"eof"} /\ left' \in 0 .. MaxPieces
  BY DEF Take
<1>4. CASE StartOfLine
  <2>1. ParserTypeOK'
    BY <1>1, <1>4 DEF StartOfLine, ParserTypeOK, Token
  <2>2. QED
    BY <1>3, <1>4, <2>1 DEF StartOfLine, Keep
<1>5. CASE LexNormal
  <2>1. \A p \in DOMAIN NormalToken : NormalToken[p] \in Token
    BY DEF NormalToken, Token
  <2>2. ParserTypeOK'
    BY <1>1, <1>2, <1>5, <2>1 DEF LexNormal
  <2>3. contexts' \in Seq(Context) /\ contexts' # <<>>
    BY <1>5, ContextOps DEF LexNormal, Context
  <2>4. QED
    BY <1>3, <1>5, <2>2, <2>3 DEF LexNormal
<1>6. CASE CharLiteral
  <2>1. ParserTypeOK'
    BY <1>1, <1>2, <1>6 DEF CharLiteral, Token
  <2>2. QED
    BY <1>3, <1>6, <2>1 DEF CharLiteral
<1>7. CASE LexRaw
  <2>1. \A p \in DOMAIN RawExitSignal : RawExitSignal[p] \in Token
    BY DEF RawExitSignal, Token
  <2>2. ParserTypeOK'
    BY <1>1, <1>7, <2>1 DEF LexRaw, Token
  <2>3. contexts' \in Seq(Context) /\ contexts' # <<>>
    BY <1>7, ContextOps DEF LexRaw, Context
  <2>4. QED
    BY <1>3, <1>7, <2>2, <2>3 DEF LexRaw, Keep
<1>8. CASE LexRawToken
  <2>1. ParserTypeOK'
    BY <1>1, <1>8 DEF LexRawToken, Token
  <2>2. contexts' \in Seq(Context) /\ contexts' # <<>>
    BY <1>8, ContextOps DEF LexRawToken, Context
  <2>3. QED
    BY <1>3, <1>8, <2>1, <2>2 DEF LexRawToken, Keep
<1>9. CASE LexString
  <2>1. ParserTypeOK'
    BY <1>1, <1>2, <1>9 DEF LexString, Token
  <2>2. contexts' \in Seq(Context) /\ contexts' # <<>>
    BY <1>9, ContextOps DEF LexString, Context
  <2>3. QED
    BY <1>3, <1>9, <2>1, <2>2 DEF LexString, Keep
<1>10. CASE LexUnclosed
  BY <1>1, <1>10, ContextOps DEF LexUnclosed, Keep, Token
<1>11. QED
  BY <1>4, <1>5, <1>6, <1>7, <1>8, <1>9, <1>10 DEF Lex

\* A step of the parser.
LEMMA ParseTypeOK ==
  ASSUME LexerTypeOK, ParserTypeOK, Parse
  PROVE  LexerTypeOK' /\ ParserTypeOK'
<1>1. LexerTypeOK'
  <2>1. CASE DestoryContext
    BY <2>1, ContextOps DEF DestoryContext, LexerTypeOK
  <2>2. CASE UNCHANGED lexer
    BY <2>2 DEF lexer, LexerTypeOK
  <2>3. QED
    BY <2>1, <2>2
       DEF Parse, Program, Block, Statement, StatementEnd, SkipStatementEnd,
           RecoverFromStatement, RecoverFromExpression, Recover,
           Variable, FunctionCall, Command, StringLiteral, CharLit, NoExpression,
           Indices, NothingFollows, CommandArg, AppendArg, EndOfArgs, CommandEnd,
           Parameter, AppendParameter, EndOfParameters, InterStart, InterDone,
           Segment, ClosingBrace, NoInterExpr, SkipBrace
<1>2. stack # <<>>
  BY DEF Parse, Program, Block, Statement, StatementEnd, SkipStatementEnd,
         RecoverFromStatement, RecoverFromExpression, Recover,
         Variable, FunctionCall, Command, StringLiteral, CharLit, NoExpression,
         Indices, NothingFollows, CommandArg, AppendArg, EndOfArgs, CommandEnd,
         Parameter, AppendParameter, EndOfParameters, InterStart, InterDone,
         Segment, ClosingBrace, NoInterExpr, SkipBrace, DestoryContext, Runs, At
<1>3. /\ top \in Frame /\ Without(stack) \in Seq(Frame)
      /\ \A m \in Frame : GoOn(m) \in Seq(Frame)
      /\ \A m \in Frame, n \in Frame : Append(GoOn(m), n) \in Seq(Frame)
      /\ \A m \in Frame, n \in Frame, o \in Frame : GoOn(m) \o <<n, o>> \in Seq(Frame)
  BY <1>2, StackOps DEF ParserTypeOK
<1>4. top.fail \in BOOLEAN /\ top.some \in BOOLEAN
  BY <1>3 DEF Frame
<1>5. /\ \A p \in Point : GoTo(p) => stack' \in Seq(Frame)
      /\ \A p \in Point, q \in Point : Call(p, q) => stack' \in Seq(Frame)
      /\ \A p \in Point, q \in Point, r \in Point :
           stack' = GoOn([top EXCEPT !.at = p]) \o <<Method(q), Method(r)>>
             => stack' \in Seq(Frame)
      /\ \A b \in BOOLEAN : Return(b) => stack' \in Seq(Frame) /\ result' \in BOOLEAN
  <2>1. \A p \in Point : [top EXCEPT !.at = p] \in Frame /\ Method(p) \in Frame
    BY <1>3, Frames
  <2>2. \A p \in Point : GoTo(p) => stack' \in Seq(Frame)
    BY <1>3, <2>1 DEF GoTo
  <2>3. \A p \in Point, q \in Point : Call(p, q) => stack' \in Seq(Frame)
    BY <1>3, <2>1 DEF Call
  <2>4. ASSUME NEW p \in Point, NEW q \in Point, NEW r \in Point,
               stack' = GoOn([top EXCEPT !.at = p]) \o <<Method(q), Method(r)>>
        PROVE  stack' \in Seq(Frame)
    <3> DEFINE m == [top EXCEPT !.at = p]
    <3>1. m \in Frame /\ Method(q) \in Frame /\ Method(r) \in Frame
      BY <2>1
    <3>2. stack' = GoOn(m) \o <<Method(q), Method(r)>>
      BY <2>4
    <3> HIDE DEF m
    <3>3. QED
      BY <1>3, <3>1, <3>2
  <2>5. \A b \in BOOLEAN : Return(b) => stack' \in Seq(Frame) /\ result' \in BOOLEAN
    BY <1>3 DEF Return
  <2>6. QED
    BY <2>2, <2>3, <2>4, <2>5
<1>6. <<>> \in Seq(Frame)
  BY EmptySeq
<1> SUFFICES ParserTypeOK'
  BY <1>1
<1> USE CacheOps, PointNames DEF ParserTypeOK
<1>7. CASE Program
  BY <1>5, <1>6, <1>7 DEF Program
<1>8. CASE Block
  BY <1>5, <1>6, <1>8 DEF Block
<1>9. CASE Statement
  BY <1>5, <1>9 DEF Statement
<1>10. CASE StatementEnd
  BY <1>5, <1>10 DEF StatementEnd
<1>11. CASE SkipStatementEnd
  BY <1>5, <1>11 DEF SkipStatementEnd
<1>12. CASE RecoverFromStatement \/ RecoverFromExpression
  <2>1. ASSUME NEW point \in Point, NEW stops, Recover(point, stops)
        PROVE  ParserTypeOK'
    <3>1. CASE Ahead(FALSE) \in stops \cup {"Eof"}
      BY <1>5, <2>1, <3>1 DEF Recover
    <3>2. CASE Ahead(FALSE) \notin stops \cup {"Eof"}
      <4>1. SkipToken(point) /\ UNCHANGED <<lexer, failed>>
        BY <2>1, <3>2 DEF Recover
      <4>2. cache' \in Seq(Token) /\ result' \in BOOLEAN /\ failed' \in BOOLEAN
        BY <4>1 DEF SkipToken
      <4>3. stack' \in Seq(Frame)
        BY <1>5, <4>1 DEF SkipToken
      <4>4. QED
        BY <4>2, <4>3
    <3>3. QED
      BY <3>1, <3>2
  <2>2. QED
    BY <1>12, <2>1 DEF RecoverFromStatement, RecoverFromExpression
<1>13. CASE Variable
  BY <1>5, <1>13 DEF Variable
<1>14. CASE FunctionCall
  BY <1>5, <1>14 DEF FunctionCall
<1>15. CASE Command
  BY <1>5, <1>15 DEF Command
<1>16. CASE StringLiteral
  BY <1>5, <1>16 DEF StringLiteral
<1>17. CASE CharLit
  BY <1>5, <1>17 DEF CharLit
<1>18. CASE NoExpression
  BY <1>5, <1>18 DEF NoExpression
<1>19. CASE Indices
  BY <1>5, <1>19 DEF Indices
<1>20. CASE NothingFollows
  BY <1>5, <1>20 DEF NothingFollows
<1>21. CASE CommandArg
  <2>1. CASE Ahead(FALSE) \in IsInterpolatable
    BY <1>5, <1>21, <2>1 DEF CommandArg
  <2>2. CASE Ahead(FALSE) \notin IsInterpolatable
    <3>1. [top EXCEPT !.fail = TRUE] \in Frame
      BY <1>3 DEF Frame
    <3>2. /\ stack' = GoOn([top EXCEPT !.fail = TRUE])
          /\ UNCHANGED <<cache, result, failed>>
      BY <1>21, <2>2 DEF CommandArg
    <3>3. QED
      BY <1>3, <3>1, <3>2
  <2>3. QED
    BY <2>1, <2>2
<1>22. CASE AppendArg
  BY <1>3, <1>4, Frames, <1>22 DEF AppendArg
<1>23. CASE EndOfArgs
  BY <1>5, <1>23 DEF EndOfArgs
<1>24. CASE CommandEnd
  BY <1>4, <1>5, <1>24 DEF CommandEnd
<1>25. CASE Parameter
  BY <1>5, <1>25 DEF Parameter
<1>26. CASE AppendParameter
  BY <1>3, <1>4, Frames, <1>26 DEF AppendParameter
<1>27. CASE EndOfParameters
  BY <1>4, <1>5, <1>27 DEF EndOfParameters
<1>28. CASE InterStart
  BY <1>5, <1>28 DEF InterStart
<1>29. CASE InterDone
  BY <1>4, <1>5, <1>29 DEF InterDone
<1>30. CASE Segment
  BY <1>5, <1>30 DEF Segment
<1>return. CASE ClosingBrace
  BY <1>5, <1>return DEF ClosingBrace
<1>32. CASE NoInterExpr
  BY <1>5, <1>32 DEF NoInterExpr
<1>33. CASE SkipBrace
  BY <1>5, <1>33 DEF SkipBrace
<1>34. CASE DestoryContext
  BY <1>3, <1>4, Frames, <1>34 DEF DestoryContext
<1>35. QED
  BY <1>7, <1>8, <1>9, <1>10, <1>11, <1>12, <1>13, <1>14, <1>15, <1>16, <1>17, <1>18, <1>19, <1>20, <1>21, <1>22, <1>23, <1>24, <1>25, <1>26, <1>27, <1>28, <1>29, <1>30, <1>return, <1>32, <1>33, <1>34 DEF Parse

\* The lexer and the parser keep their types: what the lexer gives the parser is
\* always a token and never an error, and Lexer::contexts_ is never empty.
THEOREM TypeCorrect == Spec => []TypeOK
<1>1. Init => TypeOK
  <2> SUFFICES ASSUME Init PROVE TypeOK
    OBVIOUS
  <2>1. <<Method("program")>> \in Seq(Frame)
    <3>1. "program" \in Point
      BY DEF Point
    <3>2. Method("program") \in Frame
      BY <3>1, Frames
    <3>3. QED
      BY <3>2
  <2>2. <<"normal">> \in Seq(Context) /\ <<"normal">> # <<>> /\ <<>> \in Seq(Token)
    BY DEF Context
  <2>3. next \in Piece \cup {"eof"} /\ left \in 0 .. MaxPieces
    BY PiecesAssumption DEF Init
  <2>4. /\ line_start \in BOOLEAN /\ result \in BOOLEAN /\ failed \in BOOLEAN
        /\ contexts = <<"normal">> /\ cache = <<>> /\ stack = <<Method("program")>>
    BY DEF Init
  <2>5. QED
    BY <2>1, <2>2, <2>3, <2>4 DEF TypeOK
<1>2. TypeOK /\ [Next]_vars => TypeOK'
  <2>1. TypeOK <=> LexerTypeOK /\ ParserTypeOK
    BY DEF TypeOK, LexerTypeOK, ParserTypeOK
  <2>2. TypeOK' <=> LexerTypeOK' /\ ParserTypeOK'
    BY DEF TypeOK, LexerTypeOK, ParserTypeOK
  <2>3. CASE UNCHANGED vars
    BY <2>3 DEF vars, TypeOK
  <2>4. QED
    BY <2>1, <2>2, <2>3, LexTypeOK, ParseTypeOK DEF Next
<1>3. QED
  BY <1>1, <1>2, PTL DEF Spec

-----------------------------------------------------------------------------
(***************************************************************************)
(* No part of a program is dropped without an error.  While there is none, *)
(* no method that is running has failed or skips tokens, but for a command *)
(* that can take no token and will never return.                           *)
(***************************************************************************)
Blameless ==
  {m \in Frame : ~m.fail /\ m.at \notin {"recover statement", "recover brace", "skip brace"}}

Clean == result /\ stack \in Seq(Blameless)

StuckClean ==
  /\ result /\ stack # <<>> /\ StuckInCommand
  /\ \A i \in 1 .. Len(stack) - 1 : stack[i] \in Blameless

\* An error is never forgotten.
LEMMA ErrorsStay ==
  ASSUME Next, failed
  PROVE  failed'
<1>1. CASE Lex
  BY <1>1 DEF Lex, StartOfLine, LexNormal, CharLiteral, LexRaw, LexRawToken, LexString,
              LexUnclosed, Emit, LexicalError
<1>2. CASE Parse
  BY <1>2 DEF Parse, Program, Block, Statement, StatementEnd, SkipStatementEnd,
              RecoverFromStatement, RecoverFromExpression, Recover,
              Variable, FunctionCall, Command, StringLiteral, CharLit, NoExpression,
              Indices, NothingFollows, CommandArg, AppendArg, EndOfArgs, CommandEnd,
              Parameter, AppendParameter, EndOfParameters, InterStart, InterDone,
              Segment, ClosingBrace, NoInterExpr, SkipBrace, DestoryContext
<1>3. QED
  BY <1>1, <1>2 DEF Next

\* The lexer leaves the parser where it is.
LEMMA LexClean ==
  ASSUME Lex, Clean
  PROVE  failed' \/ Clean'
<1>1. failed' \/ UNCHANGED <<stack, result>>
  BY DEF Lex, StartOfLine, LexNormal, CharLiteral, LexRaw, LexRawToken, LexString,
         LexUnclosed, Emit, LexicalError
<1>2. QED
  BY <1>1 DEF Clean

\* A stuck command stays stuck.
LEMMA StuckStays ==
  ASSUME TypeOK, StuckClean, Next
  PROVE  failed' \/ StuckClean'
<1>1. /\ At("arguments") /\ Ahead(FALSE) = cache[1] /\ Sighted
      /\ Ahead(FALSE) \notin IsRawExit \cup IsInterpolatable \cup {"Eof"}
  <2>1. Len(cache) \in Nat \ {0} /\ cache[1] \in Token
    BY EmptySeq, LenProperties DEF TypeOK, StuckClean, StuckInCommand
  <2>2. "Eof" \notin Token
    BY DEF Token
  <2>3. Sees(FALSE, 1) /\ Ahead(FALSE) = cache[1]
    BY <2>1 DEF Sees, Ahead
  <2>4. QED
    BY <2>1, <2>2, <2>3 DEF StuckClean, StuckInCommand, Sighted, At
<1>2. ~Lex
  BY <1>1 DEF Lex, StartOfLine, LexNormal, CharLiteral, LexRaw, LexRawToken, LexString,
              LexUnclosed, Consumes
<1>3. CommandArg
  BY <1>1, <1>2
     DEF Next, Parse, Program, Block, Statement, StatementEnd, SkipStatementEnd,
         RecoverFromStatement, RecoverFromExpression, Recover,
         Variable, FunctionCall, Command, StringLiteral, CharLit, NoExpression,
         Indices, NothingFollows, AppendArg, EndOfArgs, CommandEnd,
         Parameter, AppendParameter, EndOfParameters, InterStart, InterDone,
         Segment, ClosingBrace, NoInterExpr, SkipBrace, DestoryContext, Runs, At
<1>4. /\ stack' = GoOn([top EXCEPT !.fail = TRUE])
      /\ UNCHANGED <<cache, result>>
  BY <1>1, <1>3 DEF CommandArg
<1>5. /\ stack \in Seq(Frame) /\ stack # <<>> /\ top \in Frame
      /\ Len(stack) \in Nat \ {0}
  BY StackOps, EmptySeq DEF TypeOK, StuckClean
<1>6. [top EXCEPT !.fail = TRUE] \in Frame /\ [top EXCEPT !.fail = TRUE].at = top.at
  BY <1>5 DEF Frame
<1>7. /\ stack' \in Seq(Frame) /\ Len(stack') = Len(stack)
      /\ \A i \in 1 .. Len(stack) - 1 : stack'[i] = stack[i]
      /\ stack'[Len(stack)] = [top EXCEPT !.fail = TRUE]
  BY <1>4, <1>5, <1>6, ExceptSeq DEF GoOn
<1>8. stack' # <<>> /\ At("arguments")'
  BY <1>1, <1>5, <1>6, <1>7, EmptySeq DEF At, top
<1>9. QED
  BY <1>4, <1>5, <1>7, <1>8 DEF StuckClean, StuckInCommand

\* What the operations on a blameless stack leave.
LEMMA BlamelessOps ==
  ASSUME stack \in Seq(Blameless), stack # <<>>
  PROVE  /\ top \in Blameless /\ Without(stack) \in Seq(Blameless)
         /\ \A m \in Blameless : GoOn(m) \in Seq(Blameless)
         /\ \A p \in Point \ {"recover statement", "recover brace", "skip brace"} :
              /\ [top EXCEPT !.at = p] \in Blameless
              /\ GoTo(p) => stack' \in Seq(Blameless)
              /\ \A q \in Point \ {"recover statement", "recover brace", "skip brace"} :
                   Call(p, q) => stack' \in Seq(Blameless)
              /\ \A q, r \in Point \ {"recover statement", "recover brace", "skip brace"} :
                   stack' = GoOn([top EXCEPT !.at = p]) \o <<Method(q), Method(r)>>
                     => stack' \in Seq(Blameless)
         /\ \A b : Return(b) => stack' \in Seq(Blameless) /\ result' = b
<1> DEFINE P == Point \ {"recover statement", "recover brace", "skip brace"}
<1>1. /\ top \in Blameless /\ Without(stack) \in Seq(Blameless)
      /\ \A m \in Blameless : GoOn(m) \in Seq(Blameless)
      /\ \A m \in Blameless, n \in Blameless : Append(GoOn(m), n) \in Seq(Blameless)
      /\ \A m \in Blameless, n \in Blameless, o \in Blameless :
           GoOn(m) \o <<n, o>> \in Seq(Blameless)
  BY StackOps
<1>2. ASSUME NEW p \in P PROVE [top EXCEPT !.at = p] \in Blameless /\ Method(p) \in Blameless
  BY <1>1 DEF Blameless, Frame, Method
<1>3. ASSUME NEW p \in P, GoTo(p) PROVE stack' \in Seq(Blameless)
  BY <1>1, <1>2, <1>3 DEF GoTo
<1>4. ASSUME NEW p \in P, NEW q \in P, Call(p, q) PROVE stack' \in Seq(Blameless)
  BY <1>1, <1>2, <1>4 DEF Call
<1>5. ASSUME NEW p \in P, NEW q \in P, NEW r \in P,
             stack' = GoOn([top EXCEPT !.at = p]) \o <<Method(q), Method(r)>>
      PROVE  stack' \in Seq(Blameless)
  <2> DEFINE m == [top EXCEPT !.at = p]
  <2>1. m \in Blameless /\ Method(q) \in Blameless /\ Method(r) \in Blameless
    BY <1>2
  <2>2. stack' = GoOn(m) \o <<Method(q), Method(r)>>
    BY <1>5
  <2> HIDE DEF m
  <2>3. QED
    BY <1>1, <2>1, <2>2
<1>6. ASSUME NEW b, Return(b) PROVE stack' \in Seq(Blameless) /\ result' = b
  BY <1>1, <1>6 DEF Return
<1>7. QED
  BY <1>1, <1>2, <1>3, <1>4, <1>5, <1>6

\* The parser drops nothing without an error.
LEMMA ParseClean ==
  ASSUME TypeOK, Clean, Parse
  PROVE  failed' \/ Clean' \/ StuckClean'
<1>1. stack # <<>>
  BY DEF Parse, Program, Block, Statement, StatementEnd, SkipStatementEnd,
         RecoverFromStatement, RecoverFromExpression, Recover,
         Variable, FunctionCall, Command, StringLiteral, CharLit, NoExpression,
         Indices, NothingFollows, CommandArg, AppendArg, EndOfArgs, CommandEnd,
         Parameter, AppendParameter, EndOfParameters, InterStart, InterDone,
         Segment, ClosingBrace, NoInterExpr, SkipBrace, DestoryContext, Runs, At
<1> DEFINE P == Point \ {"recover statement", "recover brace", "skip brace"}
<1>2. /\ top \in Blameless
      /\ \A m \in Blameless : GoOn(m) \in Seq(Blameless)
      /\ \A p \in P : [top EXCEPT !.at = p] \in Blameless
      /\ \A p \in P : GoTo(p) => stack' \in Seq(Blameless)
      /\ \A p \in P, q \in P : Call(p, q) => stack' \in Seq(Blameless)
      /\ \A p \in P, q \in P, r \in P :
           stack' = GoOn([top EXCEPT !.at = p]) \o <<Method(q), Method(r)>>
             => stack' \in Seq(Blameless)
      /\ \A b : Return(b) => stack' \in Seq(Blameless) /\ result' = b
  BY <1>1, BlamelessOps DEF Clean
<1>return. ASSUME NEW b, Return(b), b PROVE Clean'
  <2>1. stack' \in Seq(Blameless) /\ result' = b
    BY <1>2, <1>return
  <2>2. QED
    BY <2>1, <1>return DEF Clean
<1>3. /\ result /\ ~top.fail /\ top.some \in BOOLEAN
      /\ top.at \notin {"recover statement", "recover brace", "skip brace"}
  BY <1>2 DEF Clean, Blameless, Frame
<1>4. CASE Program
  BY <1>2, EmptySeq, <1>4 DEF Program, Clean, Point
<1>5. CASE Block
  BY <1>2, EmptySeq, <1>5 DEF Block, Clean, Point
<1>6. CASE Statement
  BY <1>2, <1>6 DEF Statement, Clean, Point
<1>7. CASE StatementEnd
  BY <1>2, <1>7 DEF StatementEnd, Clean, Point
<1>8. CASE SkipStatementEnd
  BY <1>2, <1>8 DEF SkipStatementEnd, Clean, Point
<1>9. ~RecoverFromStatement /\ ~RecoverFromExpression /\ ~NoInterExpr /\ ~SkipBrace
  BY <1>3 DEF RecoverFromStatement, RecoverFromExpression, Recover, NoInterExpr, SkipBrace, Runs, At
<1>10. CASE Variable
  BY <1>2, <1>10 DEF Variable, Clean, Point
<1>11. CASE FunctionCall
  BY <1>2, <1>11 DEF FunctionCall, Clean, Point
<1>12. CASE Command
  BY <1>2, <1>12 DEF Command, Clean, Point
<1>13. CASE StringLiteral
  BY <1>2, <1>13 DEF StringLiteral, Clean, Point
<1>14. CASE CharLit
  BY <1>2, <1>14 DEF CharLit, Clean, Point
<1>15. CASE NoExpression
  BY <1>2, <1>15 DEF NoExpression, Clean, Point
<1>16. CASE Indices
  BY <1>2, <1>3, <1>16 DEF Indices, Clean, Point
<1>17. CASE NothingFollows
  <2>1. Return(result) /\ result
    BY <1>3, <1>17 DEF NothingFollows
  <2>2. QED
    BY <1>return, <2>1
<1>18. CASE CommandArg
  <2>1. CASE Ahead(FALSE) \in IsInterpolatable
    BY <1>2, <1>18, <2>1 DEF CommandArg, Clean, Point
  <2>2. CASE Ahead(FALSE) \notin IsInterpolatable
    <3>1. /\ stack' = GoOn([top EXCEPT !.fail = TRUE]) /\ UNCHANGED <<cache, result>>
          /\ At("arguments") /\ Ahead(FALSE) \notin IsRawExit \cup IsInterpolatable \cup {"Eof"}
      BY <1>18, <2>2 DEF CommandArg, Runs
    <3>2. cache # <<>> /\ cache[1] \notin IsRawExit \cup IsInterpolatable
      <4>1. Sees(FALSE, 1) /\ Ahead(FALSE) = cache[1]
        BY <3>1 DEF Ahead
      <4>2. Len(cache) >= 1
        BY <4>1, LenProperties DEF Sees, TypeOK
      <4>3. cache # <<>>
        BY <4>2
      <4>4. QED
        BY <3>1, <4>1, <4>3
    <3>3. Len(stack) \in Nat \ {0} /\ stack \in Seq(Frame) /\ stack \in Seq(Blameless)
      BY <1>1, EmptySeq DEF TypeOK, Clean
    <3>4. [top EXCEPT !.fail = TRUE] \in Frame /\ [top EXCEPT !.fail = TRUE].at = top.at
      BY <1>2 DEF Blameless, Frame
    <3>5. /\ stack' \in Seq(Frame) /\ Len(stack') = Len(stack)
          /\ \A i \in 1 .. Len(stack) - 1 : stack'[i] = stack[i]
          /\ stack'[Len(stack)] = [top EXCEPT !.fail = TRUE]
      BY <3>1, <3>3, <3>4, ExceptSeq DEF GoOn
    <3>6. stack' # <<>> /\ At("arguments")'
      BY <3>1, <3>3, <3>4, <3>5, EmptySeq DEF At, top
    <3>7. \A i \in 1 .. Len(stack) : stack[i] \in Blameless
      BY <3>3, LenProperties
    <3>8. StuckClean'
      <4>1. StuckInCommand'
        BY <3>1, <3>2, <3>6 DEF StuckInCommand
      <4>2. \A i \in 1 .. Len(stack') - 1 : stack'[i] \in Blameless
        BY <3>3, <3>5, <3>7
      <4>3. QED
        BY <1>3, <3>1, <3>6, <4>1, <4>2 DEF StuckClean
    <3>9. QED
      BY <3>8
  <2>3. QED
    BY <2>1, <2>2
<1>19. CASE AppendArg
  <2>1. stack' = GoOn([top EXCEPT !.at = "arguments", !.fail = @ \/ ~result, !.some = @ \/ result])
        /\ UNCHANGED result
    BY <1>19 DEF AppendArg
  <2>2. [top EXCEPT !.at = "arguments", !.fail = @ \/ ~result, !.some = @ \/ result] \in Blameless
    <3> DEFINE m == [top EXCEPT !.at = "arguments", !.fail = @ \/ ~result, !.some = @ \/ result]
    <3>1. top \in Frame
      BY <1>2 DEF Blameless
    <3>2. m \in Frame /\ m.at = "arguments"
      BY <3>1 DEF Frame, Point
    <3>3. m.fail <=> top.fail \/ ~result
      BY <3>1 DEF Frame
    <3>4. QED
      BY <1>3, <3>2, <3>3 DEF Blameless
  <2>3. QED
    BY <1>2, <2>1, <2>2 DEF Clean
<1>20. CASE EndOfArgs
  BY <1>2, <1>20 DEF EndOfArgs, Clean, Point
<1>21. CASE CommandEnd
  <2>1. CASE top.some
    <3>1. Return(top.some /\ ~top.fail) /\ (top.some /\ ~top.fail)
      BY <1>3, <1>21, <2>1 DEF CommandEnd
    <3>2. QED
      BY <1>return, <3>1
  <2>2. CASE ~top.some
    BY <1>3, <1>21, <2>2 DEF CommandEnd
  <2>3. QED
    BY <2>1, <2>2
<1>22. CASE Parameter
  BY <1>2, <1>22 DEF Parameter, Clean, Point
<1>23. CASE AppendParameter
  <2>1. stack' = GoOn([top EXCEPT !.at = "parameters", !.fail = @ \/ ~result])
        /\ UNCHANGED result
    BY <1>23 DEF AppendParameter
  <2>2. [top EXCEPT !.at = "parameters", !.fail = @ \/ ~result] \in Blameless
    <3>1. top \in Frame /\ ~top.fail /\ (top.fail \/ ~result) = FALSE /\ "parameters" \in Point
      BY <1>2, <1>3, PointNames DEF Blameless
    <3>2. [top EXCEPT !.at = "parameters", !.fail = FALSE] \in Blameless
      BY <3>1 DEF Blameless, Frame
    <3>3. QED
      BY <3>1, <3>2
  <2>3. QED
    BY <1>2, <2>1, <2>2 DEF Clean
<1>24. CASE EndOfParameters
  <2>1. Return(~top.fail) /\ ~top.fail
    BY <1>3, <1>24 DEF EndOfParameters
  <2>2. QED
    BY <1>return, <2>1
<1>25. CASE InterStart
  BY <1>2, <1>25 DEF InterStart, Clean, Point
<1>26. CASE InterDone
  <2>1. Return(~top.fail) /\ ~top.fail
    BY <1>3, <1>26 DEF InterDone
  <2>2. QED
    BY <1>return, <2>1
<1>27. CASE Segment
  BY <1>2, <1>27 DEF Segment, Clean, Point
<1>28. CASE ClosingBrace
  <2>1. CASE Ahead(FALSE) = "RBrace"
    <3>1. Return(Ahead(FALSE) = "RBrace")
      BY <1>28 DEF ClosingBrace
    <3>2. QED
      BY <1>return, <2>1, <3>1
  <2>2. CASE Ahead(FALSE) # "RBrace"
    BY <1>28, <2>2 DEF ClosingBrace
  <2>3. QED
    BY <2>1, <2>2
<1>29. CASE DestoryContext
  <2>1. stack' = GoOn([top EXCEPT !.at = "interpolation", !.fail = @ \/ ~result])
        /\ UNCHANGED result
    BY <1>29 DEF DestoryContext
  <2>2. [top EXCEPT !.at = "interpolation", !.fail = @ \/ ~result] \in Blameless
    <3>1. top \in Frame /\ ~top.fail /\ (top.fail \/ ~result) = FALSE /\ "interpolation" \in Point
      BY <1>2, <1>3, PointNames DEF Blameless
    <3>2. [top EXCEPT !.at = "interpolation", !.fail = FALSE] \in Blameless
      BY <3>1 DEF Blameless, Frame
    <3>3. QED
      BY <3>1, <3>2
  <2>3. QED
    BY <1>2, <2>1, <2>2 DEF Clean
<1>30. QED
  BY <1>4, <1>5, <1>6, <1>7, <1>8, <1>9, <1>10, <1>11, <1>12, <1>13, <1>14, <1>15, <1>16, <1>17, <1>18, <1>19, <1>20, <1>21, <1>22, <1>23, <1>24, <1>25, <1>26, <1>27, <1>28, <1>29 DEF Parse

\* A part of a program is dropped only with an error: whatever the source, a
\* method returns nothing only after an error is recorded.
THEOREM NothingDropped == Spec => []NothingWithoutError
<1>1. Init => Clean
  <2> SUFFICES ASSUME Init PROVE Clean
    OBVIOUS
  <2>1. Method("program") \in Blameless
    BY DEF Method, Blameless, Frame, Point
  <2>2. stack = <<Method("program")>> /\ result
    BY DEF Init
  <2>3. QED
    BY <2>1, <2>2 DEF Clean
<1>2. TypeOK /\ (failed \/ Clean \/ StuckClean) /\ [Next]_vars
        => (failed \/ Clean \/ StuckClean)'
  <2>1. CASE UNCHANGED vars
    BY <2>1 DEF vars, Clean, StuckClean, StuckInCommand, At, top
  <2>2. QED
    BY <2>1, ErrorsStay, LexClean, StuckStays, ParseClean DEF Next
<1>3. failed \/ Clean \/ StuckClean => NothingWithoutError
  BY DEF Clean, StuckClean, NothingWithoutError
<1>4. QED
  BY <1>1, <1>2, <1>3, TypeCorrect, PTL DEF Spec
=============================================================================
