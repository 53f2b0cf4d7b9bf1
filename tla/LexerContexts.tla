---------------------------- MODULE LexerContexts ----------------------------
(***************************************************************************)
(* The stack of lexical contexts, and the recursive descent that drives it.*)
(*                                                                         *)
(* Lexer::Consume asks the context on top of its stack for a token, and    *)
(* the context may enter another one or leave.  It leaves on its own at    *)
(* the end of a literal or of a command.  But only the parser knows which  *)
(* } closes a ${, so it is the parser that leaves the context of the       *)
(* expression in between, by DestoryContext; and the parser reads tokens   *)
(* ahead, each lexed in the context that is on top when it is asked for.   *)
(*                                                                         *)
(* The source is a sequence of pieces that is chosen as it is read.  Of    *)
(* the grammar there are names, strings, characters, function calls and    *)
(* commands: the expressions whose parsing depends on a context.  There are*)
(* no spaces, comments or joined lines; two arguments of a command are told*)
(* apart by their quotes.                                                  *)
(***************************************************************************)
EXTENDS Integers, Sequences, FiniteSets

CONSTANTS
  Piece,      \* the kinds of pieces the source is made of
  MaxPieces   \* bound on how many pieces follow the first

(***************************************************************************)
(* A word, a double quote, a dollar (in a literal ${, elsewhere $ alone),  *)
(* a closing brace, an exclamation mark, a comma, a single quote (in the   *)
(* normal context with the character that it begins), the end of a line.   *)
(***************************************************************************)
ASSUME PiecesAssumption ==
  /\ Piece \subseteq {"word", "quote", "dollar", "brace", "bang", "comma",
                      "tick", "newline"}
  /\ MaxPieces \in Nat

VARIABLES
  next,        \* the next piece of the source, or "eof"
  left,        \* how many pieces may follow it
  line_start,  \* LexerState::line_start
  contexts,    \* Lexer::contexts_, the top last
  cache,       \* LookaheadStream<Token>::cache_
  stack,       \* the methods of Parser that are running, the innermost last
  result,      \* did the last one that returned return something
  failed       \* is there an error in ParserState::errors

lexer == <<next, left, line_start, contexts>>
vars == <<next, left, line_start, contexts, cache, stack, result, failed>>

Context == {"normal", "raw", "raw token", "string", "unclosed"}
Token == {"Ident", "StringLit", "CharLit", "RBrace", "Exclamation", "Comma", "LineBreak",
          "Indent", "RawString", "Segment", "InterStart", "InterDone"}

context == contexts[Len(contexts)]
Without(s) == SubSeq(s, 1, Len(s) - 1)

-----------------------------------------------------------------------------
(***************************************************************************)
(* Methods of the parser.  at is the point where the method goes on; fail  *)
(* and some are its local variables.                                       *)
(***************************************************************************)
Point ==
  {"program", "block", "statement", "statement end", "skip end",
   "recover statement", "expression", "indices", "climb", "redirections",
   "arguments", "argument", "command end", "parameters", "parameter",
   "interpolation", "destroy", "brace", "skip brace", "recover brace"}

Method(at) == [at |-> at, fail |-> FALSE, some |-> FALSE]

top == stack[Len(stack)]
At(point) == stack # <<>> /\ top.at = point
GoOn(m) == [stack EXCEPT ![Len(stack)] = m]
GoTo(point) == stack' = GoOn([top EXCEPT !.at = point])
Call(point, callee) == stack' = Append(GoOn([top EXCEPT !.at = point]), Method(callee))
Return(something) == stack' = Without(stack) /\ result' = something

-----------------------------------------------------------------------------
(***************************************************************************)
(* Lookahead.  A step that looks n tokens ahead, over spaces or not, runs  *)
(* when the cache holds them or the lexer has no more; until then the lexer*)
(* is asked for another token.                                             *)
(***************************************************************************)
Space == {"LineBreak", "Indent"}

Solid == {i \in DOMAIN cache : cache[i] \notin Space}
First == CHOOSE i \in Solid : \A j \in Solid : i <= j

\* Lookahead, SkipSpaceLookahead: is the n-th token there?
Sees(skip, n) ==
  IF skip THEN Solid # {} /\ First + n - 1 <= Len(cache) ELSE n <= Len(cache)

Ahead(skip) == IF Sees(skip, 1) THEN cache[IF skip THEN First ELSE 1] ELSE "Eof"
Second == IF Sees(TRUE, 2) THEN cache[First + 1] ELSE "Eof"

\* Next, SkipSpaceNext.
Takes(skip) ==
  \E i \in IF skip THEN Solid ELSE {1} \cap DOMAIN cache :
    /\ \A j \in Solid : skip => i <= j
    /\ cache' = SubSeq(cache, i + 1, Len(cache))

Optional(token, skip) == IF Ahead(skip) = token THEN Takes(skip) ELSE UNCHANGED cache

\* Does the step the parser is at see what it looks at?
Sighted ==
  IF top.at \in {"statement", "redirections", "command end"} THEN Sees(TRUE, 1)
  ELSE IF top.at = "expression" THEN Sees(TRUE, IF Ahead(TRUE) = "Ident" THEN 2 ELSE 1)
  ELSE IF top.at = "climb" THEN result => Sees(TRUE, 1)
  ELSE IF top.at = "brace" THEN result => Sees(FALSE, 1)
  ELSE top.at \in {"argument", "destroy"} \/ Sees(FALSE, 1)

Exhausted == next = "eof" /\ context \in {"normal", "raw"}

Runs(point) == At(point) /\ (Sighted \/ Exhausted)

Consumes(ctx) == stack # <<>> /\ ~Sighted /\ ~Exhausted /\ context = ctx

-----------------------------------------------------------------------------
(***************************************************************************)
(* Lexer::Consume, by the context on top.                                  *)
(***************************************************************************)
Take ==
  /\ next' \in IF left = 0 THEN {"eof"} ELSE Piece \cup {"eof"}
  /\ left' = IF left = 0 THEN 0 ELSE left - 1

Keep == UNCHANGED <<next, left>>

Emit(token) == cache' = Append(cache, token) /\ UNCHANGED <<stack, result, failed>>

\* Mutant: the parser sees the error as a token.
LexicalError_Seen ==
  failed' = TRUE /\ cache' = Append(cache, "UnknownChar") /\ UNCHANGED <<stack, result>>

\* ErrorRecordLexer::Consume: an error is recorded and the next token asked for.
LexicalError == failed' = TRUE /\ UNCHANGED <<cache, stack, result>>

\* Lexer::ExecuteAction.  DestoryContext never leaves the last context.
Enter(ctx) == contexts' = Append(contexts, ctx)
Exit == contexts' = IF Len(contexts) = 1 THEN contexts ELSE Without(contexts)

\* NormalContext::StartOfLine: empty lines are skipped, then the indent.
StartOfLine ==
  /\ Consumes("normal") /\ line_start
  /\ \/ next = "newline" /\ Take
        /\ UNCHANGED <<line_start, contexts, cache, stack, result, failed>>
     \/ next # "newline" /\ Keep
        /\ line_start' = FALSE /\ Emit("Indent") /\ UNCHANGED contexts

\* NormalDispatch.
NormalToken ==
  [word |-> "Ident", brace |-> "RBrace", comma |-> "Comma", newline |-> "LineBreak",
   quote |-> "StringLit", bang |-> "Exclamation"]

\* Mutant: the lexer leaves at a brace by itself.
LexNormal_LeavesAtBrace ==
  /\ Consumes("normal") /\ ~line_start /\ next # "tick"
  /\ Take
  /\ line_start' = (next = "newline")
  /\ IF next \in DOMAIN NormalToken THEN Emit(NormalToken[next]) ELSE LexicalError
  /\ \/ next = "quote" /\ Enter("string")
     \/ next = "bang" /\ Enter("raw")
     \/ next = "brace" /\ Exit
     \/ next \notin {"quote", "bang", "brace"} /\ UNCHANGED contexts

LexNormal ==
  /\ Consumes("normal") /\ ~line_start /\ next # "tick"
  /\ Take
  /\ line_start' = (next = "newline")
  /\ IF next \in DOMAIN NormalToken THEN Emit(NormalToken[next]) ELSE LexicalError
  /\ \/ next = "quote" /\ Enter("string")
     \/ next = "bang" /\ Enter("raw")
     \/ next \notin {"quote", "bang"} /\ UNCHANGED contexts

\* CharLiteral: one character, too many of them, or all of the line when it is
\* not closed.
CharLiteral ==
  /\ Consumes("normal") /\ ~line_start /\ next = "tick"
  /\ \/ Take /\ (Emit("CharLit") \/ LexicalError)
     \/ next' \in ({"newline"} \cap Piece) \cup {"eof"} /\ UNCHANGED left /\ LexicalError
  /\ UNCHANGED <<line_start, contexts>>

RawExitSignal ==
  [newline |-> "LineBreak", comma |-> "Comma", brace |-> "RBrace"]

\* RawDispatch: an exit signal, a string, or the start of a raw token, which
\* takes nothing yet.
LexRaw ==
  /\ Consumes("raw")
  /\ line_start' = (next = "newline")
  /\ \/ /\ next \in DOMAIN RawExitSignal
        /\ Take /\ Emit(RawExitSignal[next]) /\ Exit
     \/ /\ next = "quote"
        /\ Take /\ Emit("StringLit") /\ Enter("string")
     \/ /\ next \notin DOMAIN RawExitSignal \cup {"quote"}
        /\ Keep /\ Emit("RawString") /\ Enter("raw token")

\* InterpolateContext::Lex with RawConfig: a segment, ${, or the end, which
\* takes nothing.
LexRawToken ==
  /\ Consumes("raw token")
  /\ UNCHANGED line_start
  /\ \/ /\ next \in {"word", "bang"}
        /\ Take /\ Emit("Segment") /\ UNCHANGED contexts
     \/ /\ next = "dollar"
        /\ Take /\ Emit("InterStart") /\ Enter("normal")
     \/ /\ next \notin {"word", "bang", "dollar"}
        /\ Keep /\ Emit("InterDone") /\ Exit

\* The same with StringConfig: at the end of a line or of the source the string
\* is unclosed, which is an error before it is the end.
LexString ==
  /\ Consumes("string")
  /\ UNCHANGED line_start
  /\ \/ /\ next = "quote"
        /\ Take /\ Emit("InterDone") /\ Exit
     \/ /\ next = "dollar"
        /\ Take /\ Emit("InterStart") /\ Enter("normal")
     \/ /\ next \in {"newline", "eof"}
        /\ Keep /\ LexicalError /\ contexts' = Append(Without(contexts), "unclosed")
     \/ /\ next \notin {"quote", "dollar", "newline", "eof"}
        /\ Take /\ Emit("Segment") /\ UNCHANGED contexts

LexUnclosed ==
  /\ Consumes("unclosed")
  /\ Keep /\ Emit("InterDone") /\ Exit
  /\ UNCHANGED line_start
-----------------------------------------------------------------------------
(***************************************************************************)
(* Statements.  All of them begin in the first column.                     *)
(***************************************************************************)
Init ==
  /\ next \in Piece \cup {"eof"} /\ left = MaxPieces
  /\ line_start = TRUE
  /\ contexts = <<"normal">> /\ cache = <<>>
  /\ stack = <<Method("program")>>
  /\ result = TRUE /\ failed = FALSE

\* Program: one without a token is an error, and one whose statements are all
\* dropped has errors already.
Program ==
  /\ Runs("program")
  /\ IF Sees(FALSE, 1) THEN GoTo("block") /\ UNCHANGED failed
                       ELSE stack' = <<>> /\ failed' = TRUE
  /\ UNCHANGED <<lexer, cache, result>>

\* CurrentBlockStatement.
Block ==
  /\ Runs("block")
  /\ IF Sees(FALSE, 1) THEN GoTo("statement") ELSE stack' = <<>>
  /\ Optional("Indent", FALSE)
  /\ UNCHANGED <<lexer, result, failed>>

\* Statement: without a token it returns, and Block goes on.
Statement ==
  /\ Runs("statement")
  /\ IF Sees(TRUE, 1) THEN Call("statement end", "expression") ELSE GoTo("block")
  /\ UNCHANGED <<lexer, cache, result, failed>>

\* ExpressionOrAssignment, after the expression: AssertStatementEnd.
StatementEnd ==
  /\ Runs("statement end")
  /\ IF Ahead(FALSE) \in {"LineBreak", "Eof"}
     THEN GoTo("skip end") /\ UNCHANGED failed
     ELSE Call("skip end", "recover statement") /\ failed' = TRUE
  /\ UNCHANGED <<lexer, cache, result>>

SkipStatementEnd ==
  /\ Runs("skip end")
  /\ Optional("LineBreak", FALSE)
  /\ GoTo("block")
  /\ UNCHANGED <<lexer, result, failed>>

-----------------------------------------------------------------------------
(***************************************************************************)
(* Recover, until a stop.  SkipToken skips a literal as a whole.           *)
(***************************************************************************)
Stops == [statement |-> {"LineBreak", "Indent"}, brace |-> {"LineBreak", "RBrace"}]

IsInterpolatable == {"RawString", "StringLit"}

\* Mutant: Recover looks and never skips.
SkipToken_NoNext(point) ==
  /\ IF Ahead(FALSE) \in IsInterpolatable THEN Call(point, "interpolation")
                                          ELSE UNCHANGED stack
  /\ UNCHANGED <<result, cache>>

SkipToken(point) ==
  /\ Takes(FALSE)
  /\ IF Ahead(FALSE) \in IsInterpolatable THEN Call(point, "interpolation")
                                          ELSE UNCHANGED stack
  /\ UNCHANGED result

Recover(point, stops) ==
  /\ Runs(point)
  /\ IF Ahead(FALSE) \in stops \cup {"Eof"}
     THEN Return(FALSE) /\ UNCHANGED cache
     ELSE SkipToken(point)
  /\ UNCHANGED <<lexer, failed>>

RecoverFromStatement == Recover("recover statement", Stops.statement)
RecoverFromExpression == Recover("recover brace", Stops.brace)

-----------------------------------------------------------------------------
(***************************************************************************)
(* Expressions.                                                            *)
(***************************************************************************)
IsAtomExprLookahead == {"Ident", "StringLit", "CharLit"}

Variable ==
  /\ Runs("expression") /\ Ahead(TRUE) = "Ident"
  /\ Second \notin IsAtomExprLookahead
  /\ Takes(TRUE)
  /\ GoTo("climb") /\ result' = TRUE
  /\ UNCHANGED <<lexer, failed>>

FunctionCall ==
  /\ Runs("expression") /\ Ahead(TRUE) = "Ident"
  /\ Second \in IsAtomExprLookahead
  /\ Takes(TRUE)
  /\ stack' = GoOn([top EXCEPT !.at = "climb"])
                \o <<Method("redirections"), Method("parameters")>>
  /\ UNCHANGED <<lexer, result, failed>>

Command ==
  /\ Runs("expression") /\ Ahead(TRUE) = "Exclamation"
  /\ Takes(TRUE)
  /\ stack' = GoOn([top EXCEPT !.at = "climb"])
                \o <<Method("redirections"), Method("arguments")>>
  /\ UNCHANGED <<lexer, result, failed>>

StringLiteral ==
  /\ Runs("expression") /\ Ahead(TRUE) = "StringLit"
  /\ Takes(TRUE)
  /\ Call("indices", "interpolation")
  /\ UNCHANGED <<lexer, result, failed>>

CharLit ==
  /\ Runs("expression") /\ Ahead(TRUE) = "CharLit"
  /\ Takes(TRUE)
  /\ GoTo("indices") /\ result' = TRUE
  /\ UNCHANGED <<lexer, failed>>

NoExpression ==
  /\ Runs("expression")
  /\ Ahead(TRUE) \notin IsAtomExprLookahead \cup {"Exclamation"}
  /\ failed' = TRUE
  /\ Return(FALSE)
  /\ UNCHANGED <<lexer, cache>>

\* AtomExpr, after the literal: it looks for an index, and there is none.
Indices ==
  /\ Runs("indices")
  /\ IF result THEN GoTo("climb") /\ UNCHANGED result ELSE Return(FALSE)
  /\ UNCHANGED <<lexer, cache, failed>>

\* PrecedenceClimb looks for an operator, CommandLike for redirections and a
\* pipe; there is none.
NothingFollows ==
  /\ Runs("climb") \/ Runs("redirections")
  /\ Return(result)
  /\ UNCHANGED <<lexer, cache, failed>>

-----------------------------------------------------------------------------
(***************************************************************************)
(* Arguments of commands and parameters of function calls.                 *)
(***************************************************************************)
IsRawExit == {"LineBreak", "Comma"}

\* CommandArg: Interpolatable passes over the quote itself, and any other token is left where it is, and the loop goes on.
CommandArg ==
  /\ Runs("arguments") /\ Ahead(FALSE) \notin IsRawExit \cup {"Eof"}
  /\ IF Ahead(FALSE) \in IsInterpolatable
     THEN Takes(FALSE) /\ Call("argument", "interpolation")
     ELSE stack' = GoOn([top EXCEPT !.fail = TRUE]) /\ UNCHANGED cache
  /\ UNCHANGED <<lexer, result, failed>>

AppendArg ==
  /\ Runs("argument")
  /\ stack' = GoOn([top EXCEPT !.at = "arguments", !.fail = @ \/ ~result,
                               !.some = @ \/ result])
  /\ UNCHANGED <<lexer, cache, result, failed>>

EndOfArgs ==
  /\ Runs("arguments") /\ Ahead(FALSE) \in IsRawExit \cup {"Eof"}
  /\ GoTo("command end")
  /\ UNCHANGED <<lexer, cache, result, failed>>

CommandEnd ==
  /\ Runs("command end")
  /\ Optional("Comma", TRUE)
  /\ Return(top.some /\ ~top.fail)
  /\ failed' = (failed \/ (~top.some /\ ~top.fail))
  /\ UNCHANGED lexer

Parameter ==
  /\ Runs("parameters") /\ Ahead(FALSE) \in IsAtomExprLookahead
  /\ Takes(FALSE)
  /\ IF Ahead(FALSE) = "StringLit" THEN Call("parameter", "interpolation")
                                   ELSE UNCHANGED stack
  /\ UNCHANGED <<lexer, result, failed>>

AppendParameter ==
  /\ Runs("parameter")
  /\ stack' = GoOn([top EXCEPT !.at = "parameters", !.fail = @ \/ ~result])
  /\ UNCHANGED <<lexer, cache, result, failed>>

EndOfParameters ==
  /\ Runs("parameters") /\ Ahead(FALSE) \notin IsAtomExprLookahead
  /\ Return(~top.fail)
  /\ UNCHANGED <<lexer, cache, failed>>
-----------------------------------------------------------------------------
(***************************************************************************)
(* Interpolatable: the tokens of a literal, up to its InterDone.           *)
(***************************************************************************)
InterStart ==
  /\ Runs("interpolation") /\ Ahead(FALSE) = "InterStart"
  /\ Takes(FALSE)
  /\ stack' = GoOn([top EXCEPT !.at = "destroy"])
                \o <<Method("brace"), Method("expression")>>
  /\ UNCHANGED <<lexer, result, failed>>

InterDone ==
  /\ Runs("interpolation") /\ Ahead(FALSE) \in {"InterDone", "Eof"}
  /\ IF Ahead(FALSE) = "Eof" THEN UNCHANGED cache ELSE Takes(FALSE)
  /\ Return(~top.fail)
  /\ UNCHANGED <<lexer, failed>>

\* A segment is appended; any other token is passed over.
Segment ==
  /\ Runs("interpolation")
  /\ Ahead(FALSE) \notin {"InterStart", "InterDone", "Eof"}
  /\ Takes(FALSE)
  /\ UNCHANGED <<lexer, stack, result, failed>>

\* Mutant: the brace is only looked at.
ClosingBrace_Kept ==
  /\ Runs("brace") /\ result
  /\ Return(Ahead(FALSE) = "RBrace")
  /\ failed' = (failed \/ Ahead(FALSE) # "RBrace")
  /\ UNCHANGED <<lexer, cache>>

\* Mutant: a brace that is missing is no error.
ClosingBrace_Silent ==
  /\ Runs("brace") /\ result
  /\ Optional("RBrace", FALSE)
  /\ Return(Ahead(FALSE) = "RBrace")
  /\ UNCHANGED <<lexer, failed>>

\* InterExpr, after the expression.
ClosingBrace ==
  /\ Runs("brace") /\ result
  /\ Optional("RBrace", FALSE)
  /\ Return(Ahead(FALSE) = "RBrace")
  /\ failed' = (failed \/ Ahead(FALSE) # "RBrace")
  /\ UNCHANGED lexer

NoInterExpr ==
  /\ Runs("brace") /\ ~result
  /\ Call("skip brace", "recover brace")
  /\ UNCHANGED <<lexer, cache, result, failed>>

SkipBrace ==
  /\ Runs("skip brace")
  /\ Optional("RBrace", FALSE)
  /\ Return(FALSE)
  /\ UNCHANGED <<lexer, failed>>

\* Mutant: InterpolateAction relies on the lexer to leave the context.
DestoryContext_Never ==
  /\ Runs("destroy")
  /\ stack' = GoOn([top EXCEPT !.at = "interpolation", !.fail = @ \/ ~result])
  /\ UNCHANGED <<next, left, line_start, contexts, cache, result, failed>>

\* InterpolateAction, after the expression: whatever context is on top is left.
DestoryContext ==
  /\ Runs("destroy")
  /\ Exit
  /\ stack' = GoOn([top EXCEPT !.at = "interpolation", !.fail = @ \/ ~result])
  /\ UNCHANGED <<next, left, line_start, cache, result, failed>>

-----------------------------------------------------------------------------
Lex == StartOfLine \/ LexNormal \/ CharLiteral \/ LexRaw \/ LexRawToken \/ LexString \/ LexUnclosed

Parse ==
  \/ Program \/ Block \/ Statement \/ StatementEnd \/ SkipStatementEnd
  \/ RecoverFromStatement \/ RecoverFromExpression
  \/ Variable \/ FunctionCall \/ Command \/ StringLiteral \/ CharLit \/ NoExpression
  \/ Indices \/ NothingFollows
  \/ CommandArg \/ AppendArg \/ EndOfArgs \/ CommandEnd
  \/ Parameter \/ AppendParameter \/ EndOfParameters
  \/ InterStart \/ InterDone \/ Segment
  \/ ClosingBrace \/ NoInterExpr \/ SkipBrace \/ DestoryContext

Next == Lex \/ Parse

\* One thread, and reading the source never blocks it.
Spec == Init /\ [][Next]_vars /\ WF_vars(Next)
-----------------------------------------------------------------------------
(***************************************************************************)
(* Properties.                                                             *)
(***************************************************************************)
Frame == [at : Point, fail : BOOLEAN, some : BOOLEAN]

TypeOK ==
  /\ next \in Piece \cup {"eof"} /\ left \in 0 .. MaxPieces
  /\ line_start \in BOOLEAN /\ result \in BOOLEAN /\ failed \in BOOLEAN
  /\ contexts \in Seq(Context) /\ contexts # <<>>
  /\ cache \in Seq(Token)
  /\ stack \in Seq(Frame)

\* "Then lexer enters the normal context [...], until the parser recognizes a
\* matching } for ${, the interpolation context is resumed": as long as there is
\* no error, what runs in the parser and the contexts of the lexer nest alike,
\* whenever no token is waiting.  A literal reads in its context, the expression
\* after ${ in a normal context above that, a command in a raw one, which only an
\* exit signal leaves and the end of the source does not.
ContextOf(point) ==
  IF point \in {"interpolation", "destroy"} THEN {"raw token", "string"}
  ELSE IF point = "brace" THEN {"normal"}
  ELSE IF point \in {"arguments", "argument"} THEN {"raw"}
  ELSE {}

\* How many of the first n methods of a stack have a context of their own.
Depth(s, n) == Cardinality({i \in 1 .. n : ContextOf(s[i].at) # {}})

ContextsFollowParser ==
  ~failed /\ cache = <<>> /\ ~At("destroy") /\ ~(Exhausted /\ context = "raw") =>
    /\ Len(contexts) = Depth(stack, Len(stack)) + 1
    /\ contexts[1] = "normal"
    /\ \A i \in DOMAIN stack : ContextOf(stack[i].at) # {} =>
         contexts[Depth(stack, i) + 1] \in ContextOf(stack[i].at)

\* As long as there is no error a literal meets only its own tokens, and the
\* context left for a } is the normal one its ${ entered, in which nothing was
\* read ahead.
LiteralsReadTheirOwn ==
  ~failed =>
    /\ At("interpolation") /\ cache # <<>> =>
         cache[1] \in {"Segment", "InterStart", "InterDone"}
    /\ At("destroy") =>
         /\ cache = <<>> /\ context = "normal"
         /\ Len(contexts) = Depth(stack, Len(stack)) + 2

\* Whatever errors there are and whatever is skipped, there is a context above the
\* first one for every ${ whose expression is being parsed: DestoryContext never
\* meets the last context and does nothing.
ContextToDestroy ==
  Cardinality({i \in DOMAIN stack : stack[i].at = "destroy"}) <
    Cardinality({i \in DOMAIN contexts : contexts[i] = "normal"})

\* Nothing is dropped in silence: a method that returns nothing has left an
\* error, so a program that lost a part is never translated.
NothingWithoutError == ~result => failed

\* The loops of the parser that take no token: a command at a token that is no
\* argument and no exit, a raw token that begins with a single quote, and a block
\* whose last line holds only errors.
StuckInCommand ==
  At("arguments") /\ cache # <<>> /\ cache[1] \notin IsRawExit \cup IsInterpolatable
StuckInRawToken == next = "tick" /\ context \in {"raw", "raw token"}
StuckInBlock == Exhausted /\ cache # <<>> /\ Solid = {} /\ stack # <<>>

\* Whatever the source, and whatever errors and recoveries, the parser ends,
\* unless it is in one of these loops.
EndsOrKnownLoop ==
  <>[](stack = <<>>) \/ <>[](StuckInCommand \/ StuckInRawToken \/ StuckInBlock)

=============================================================================
