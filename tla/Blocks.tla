------------------------------- MODULE Blocks -------------------------------
(***************************************************************************)
(* How the parser finds the blocks of a program: by indentation.           *)
(*                                                                         *)
(* ParserState keeps the indents of the open blocks and the number of      *)
(* loops around the statement being parsed.  Both are restored by guards   *)
(* when a method returns, on whatever path.  The methods look ahead over   *)
(* line breaks and indents in most places, and at them in a few; whether a *)
(* line goes to the right block depends on each method leaving the tokens  *)
(* where the next one expects them, after an error too.                    *)
(*                                                                         *)
(* The source is chosen line by line as the lexer is asked for more.  A    *)
(* token is one column wide.  Operands are names, integers and (), calls   *)
(* take operands, and - stands for the operators; the other expressions are*)
(* parsed within one line or in LexerContexts.  The only type that is      *)
(* written is ().  A character no token begins with is a lexical error.    *)
(***************************************************************************)
EXTENDS Integers, Sequences, FiniteSets

CONSTANTS
  Line,      \* the lines the source is made of, sequences of kinds of tokens
  Indent,    \* the lengths of indents
  MaxLines   \* bound on the number of lines

\* The integer literals, by their values.
IntLit == [Zero |-> 0, One |-> 1, Two |-> 2]

Kind == {"Ident", "Unit", "Minus", "Colon", "SingleEq", "Semicolon", "In", "Export", "Define",
         "Return", "If", "Else", "For", "Switch", "Case", "Default", "Break"}

ASSUME SourceAssumption ==
  /\ Line \subseteq Seq(Kind \cup DOMAIN IntLit \cup {"Unknown"}) \ {<<>>}
  /\ Indent \subseteq Nat /\ MaxLines \in Nat

VARIABLES
  left,        \* how many lines may still be read
  ended,       \* has the lexer come to the end of the source
  cache,       \* LookaheadStream<Token>::cache_
  indents,     \* ParserState::indents, the top last
  loop_level,  \* ParserState::loop_level
  stack,       \* the methods of Parser that are running, the innermost last
  result,      \* did the last one that returned return something
  failed       \* is there an error in ParserState::errors

lexer == <<left, ended>>
state == <<indents, loop_level>>
vars == <<left, ended, cache, indents, loop_level, stack, result, failed>>

\* at is the column of a token, for an indent its length, and line the indent
\* of its line.
Token ==
  [is : Kind \cup {"IntLit", "Indent", "LineBreak"}, at : Nat, line : Nat, number : Nat]

-----------------------------------------------------------------------------
(***************************************************************************)
(* Methods.  at is the point where one goes on, ok and some its locals,    *)
(* use the argument it was called with, guards the guards it has built, old*)
(* LoopGuard::old.  line is the indent of the line where the statement     *)
(* begins that a method parses; for a block of that statement it is -1 when*)
(* the block begins on the same line.                                      *)
(***************************************************************************)
Point ==
  {"program", "program end", "block", "append", "statement", "end", "recover",
   "expression", "parameters", "unary", "climb", "crashed",
   "check", "stop", "condition", "line break or", "line break",
   "if", "then", "if end", "else?", "else", "colon",
   "for", "for body", "for end", "switch", "cases?", "switch end", "cases",
   "append case", "case", "case body", "case end", "loop control", "level?",
   "export", "define", "name", "signature", "type?", "type", "typed", "equals",
   "function end", "variable end", "return", "after return", "return value",
   "assign?", "assigned"}

Method(at) ==
  [at |-> at, ok |-> TRUE, some |-> FALSE, use |-> "", guards |-> {}, old |-> 0, line |-> -1]

top == stack[Len(stack)]
At(point) == stack # <<>> /\ top.at = point
Without(s) == SubSeq(s, 1, Len(s) - 1)
GoOn(m) == [stack EXCEPT ![Len(stack)] = m]
GoTo(point) == stack' = GoOn([top EXCEPT !.at = point])
Call(point, callee) == stack' = Append(GoOn([top EXCEPT !.at = point]), callee)

CurrentIndent == indents[Len(indents)]

\* A method returns, and its guards are destroyed.
Return(something) ==
  /\ stack' = Without(stack) /\ result' = something
  /\ indents' = IF "block" \in top.guards THEN Without(indents) ELSE indents
  /\ loop_level' = IF "function" \in top.guards THEN top.old
                   ELSE IF "loop" \in top.guards THEN loop_level - 1
                   ELSE loop_level

\* A mutant: the guard is built without pushing the indent.
WithBlock_Unpushed(point, indent, callee) ==
  /\ Call(point, [callee EXCEPT !.guards = @ \cup {"block"}])
  /\ UNCHANGED <<indents, loop_level>>

\* WithBlock.
WithBlock(point, indent, callee) ==
  /\ Call(point, [callee EXCEPT !.guards = @ \cup {"block"}])
  /\ indents' = Append(indents, indent)
  /\ UNCHANGED loop_level

-----------------------------------------------------------------------------
(***************************************************************************)
(* Lookahead and Next, over spaces or not.                                 *)
(***************************************************************************)
Space == {"LineBreak", "Indent"}
Eof == [is |-> "Eof", at |-> -1, line |-> -1, number |-> 0]

Solid == {i \in DOMAIN cache : cache[i].is \notin Space}
First == CHOOSE i \in Solid : \A j \in Solid : i <= j

Sees(skip, n) == IF skip THEN Solid # {} /\ First + n - 1 <= Len(cache) ELSE n <= Len(cache)
Ahead(skip) == IF Sees(skip, 1) THEN cache[IF skip THEN First ELSE 1] ELSE Eof
Second == IF Sees(TRUE, 2) THEN cache[First + 1] ELSE Eof

From(i) == SubSeq(cache, i, Len(cache))
Takes(skip) == cache' = From(IF skip THEN First + 1 ELSE 2)

Dropped(tokens, kind) ==
  IF tokens # <<>> /\ tokens[1].is = kind THEN Tail(tokens) ELSE tokens

\* SkipStatementEnd.
SkipStatementEnd == cache' = Dropped(Dropped(cache, "Semicolon"), "LineBreak")

\* NextStatementIndent takes a line break.
AfterBreak == Dropped(cache, "LineBreak")
StatementIndent == IF AfterBreak = <<>> THEN -1 ELSE AfterBreak[1].at

\* How far the step that the parser is at looks.
BreakSighted == Sees(FALSE, IF Ahead(FALSE).is = "LineBreak" THEN 2 ELSE 1)
Sighted ==
  CASE top.at \in {"statement", "unary", "climb", "stop", "line break or", "check",
                   "colon", "case", "define", "name", "signature", "type?", "type", "typed", "equals"} ->
         Sees(TRUE, 1)
    [] top.at = "expression" -> Sees(TRUE, IF Ahead(TRUE).is = "Ident" THEN 2 ELSE 1)
    [] top.at = "for" -> Sees(TRUE, 3)
    [] top.at \in {"program", "cases?", "cases", "else?"} ->
         BreakSighted /\ (top.at # "program" => Sees(TRUE, 1))
    [] top.at \in {"end", "level?", "after return"} ->
         Sees(FALSE, IF Ahead(FALSE).is = "Semicolon" THEN 2 ELSE 1)
    [] OTHER -> Sees(FALSE, 1)

Runs(point) == At(point) /\ (Sighted \/ ended)

-----------------------------------------------------------------------------
(***************************************************************************)
(* The lexer.  It gives an indent at the start of each line that is not    *)
(* empty, the tokens of the line, and a line break.  Nothing depends on how*)
(* far ahead of the parser it is, so it reads a line at a time.            *)
(***************************************************************************)
Consumes == stack # <<>> /\ ~At("crashed") /\ ~Sighted /\ ~ended

\* The k-th of the characters that begin a token.
Place(line, k) ==
  LET known == {i \in DOMAIN line : line[i] # "Unknown"}
  IN  CHOOSE i \in known : Cardinality({j \in known : j <= i}) = k

Tokens(line, n) ==
  LET token(i) == [is |-> IF line[i] \in DOMAIN IntLit THEN "IntLit" ELSE line[i],
                   at |-> n + i - 1, line |-> n,
                   number |-> IF line[i] \in DOMAIN IntLit THEN IntLit[line[i]] ELSE 0]
  IN  [k \in 1 .. Cardinality({i \in DOMAIN line : line[i] # "Unknown"}) |-> token(Place(line, k))]

Break(kind, n, at) == [is |-> kind, at |-> at, line |-> n, number |-> 0]

\* A line, with a line break or at the end of the source.
ReadLine ==
  /\ Consumes /\ left > 0
  /\ left' = left - 1
  /\ \E n \in Indent, line \in Line :
       /\ \/ /\ cache' = cache \o <<Break("Indent", n, n)>> \o Tokens(line, n)
                            \o <<Break("LineBreak", n, n + Len(line))>>
             /\ UNCHANGED ended
          \/ /\ cache' = cache \o <<Break("Indent", n, n)>> \o Tokens(line, n)
             /\ ended' = TRUE
       /\ failed' = (failed \/ \E i \in DOMAIN line : line[i] = "Unknown")
  /\ UNCHANGED <<state, stack, result>>

EndOfSource ==
  /\ Consumes
  /\ ended' = TRUE
  /\ UNCHANGED <<left, cache, state, stack, result, failed>>

Lex == ReadLine \/ EndOfSource

-----------------------------------------------------------------------------
(***************************************************************************)
(* Blocks.                                                                 *)
(***************************************************************************)
Init ==
  /\ left = MaxLines /\ ended = FALSE
  /\ cache = <<>>
  /\ indents = <<-1>> /\ loop_level = 0
  /\ stack = <<Method("program")>>
  /\ result = TRUE /\ failed = FALSE

\* A mutant: a block may stand at the indent of the one around it.
Program_SameIndent ==
  /\ Runs("program")
  /\ cache' = AfterBreak
  /\ IF StatementIndent >= CurrentIndent
     THEN /\ WithBlock("program end", StatementIndent, Method("block"))
          /\ UNCHANGED <<result, failed>>
     ELSE Return(FALSE) /\ failed' = (failed \/ top.use # "emptyable")
  /\ UNCHANGED lexer

\* Program(emptyable): a block if the next line is indented more.  The indents of
\* Parse are -1.
Program ==
  /\ Runs("program")
  /\ cache' = AfterBreak
  /\ IF StatementIndent > CurrentIndent
     THEN /\ WithBlock("program end", StatementIndent,
               [Method("block") EXCEPT
                  !.line = IF AfterBreak[1].is = "Indent" THEN top.line ELSE -1])
          /\ UNCHANGED <<result, failed>>
     ELSE Return(FALSE) /\ failed' = (failed \/ top.use # "emptyable")
  /\ UNCHANGED lexer

ProgramEnd ==
  /\ Runs("program end")
  /\ Return(result)
  /\ failed' = (failed \/ (~result /\ top.use # "emptyable"))
  /\ UNCHANGED <<lexer, cache>>

\* Block, with CurrentBlockStatement.
BlockEnd ==
  /\ Runs("block")
  /\ \/ Ahead(FALSE) = Eof
     \/ Ahead(FALSE).is = "Indent" /\ Ahead(FALSE).at < CurrentIndent
  /\ Return(top.some)
  /\ UNCHANGED <<lexer, cache, failed>>

CurrentBlockStatement ==
  /\ Runs("block") /\ Ahead(FALSE) # Eof
  /\ Ahead(FALSE).is = "Indent" => Ahead(FALSE).at = CurrentIndent
  /\ cache' = Dropped(cache, "Indent")
  /\ Call("append", Method("statement"))
  /\ UNCHANGED <<lexer, state, result, failed>>

UnexpectIndent ==
  /\ Runs("block")
  /\ Ahead(FALSE).is = "Indent" /\ Ahead(FALSE).at > CurrentIndent
  /\ Takes(FALSE)
  /\ WithBlock("block", Ahead(FALSE).at, Method("statement"))
  /\ failed' = TRUE
  /\ UNCHANGED <<lexer, result>>

AppendStatement ==
  /\ Runs("append")
  /\ stack' = GoOn([top EXCEPT !.at = "block", !.some = @ \/ result])
  /\ UNCHANGED <<lexer, cache, state, result, failed>>

\* Statement: by the next token, on this line or a later one.
Dispatch ==
  [Export |-> "export", Define |-> "export", Return |-> "return", If |-> "if", For |-> "for",
   Switch |-> "switch", Break |-> "loop control"]

Statement ==
  /\ Runs("statement")
  /\ IF Ahead(TRUE) = Eof
     THEN Return(FALSE)
     ELSE /\ stack' =
               IF Ahead(TRUE).is \in DOMAIN Dispatch
               THEN GoOn([top EXCEPT !.at = Dispatch[Ahead(TRUE).is], !.line = Ahead(TRUE).line])
               ELSE Append(GoOn([top EXCEPT !.at = "assign?"]), Method("expression"))
          /\ UNCHANGED <<state, result>>
  /\ UNCHANGED <<lexer, cache, failed>>

-----------------------------------------------------------------------------
(***************************************************************************)
(* The end of a statement, and recovery.                                   *)
(***************************************************************************)
IsStatementEnd == {"Semicolon", "LineBreak", "Eof"}

AssertStatementEnd ==
  /\ Runs("end")
  /\ IF Ahead(FALSE).is \in IsStatementEnd
     THEN SkipStatementEnd /\ Return(top.ok) /\ UNCHANGED failed
     ELSE GoTo("recover") /\ failed' = TRUE /\ UNCHANGED <<cache, state, result>>
  /\ UNCHANGED lexer

\* A mutant: the token that is skipped is not taken.
RecoverFromStatement_NoNext ==
  /\ Runs("recover")
  /\ IF Ahead(FALSE).is \in Space \cup {"Eof"}
     THEN SkipStatementEnd /\ Return(FALSE)
     ELSE UNCHANGED <<cache, stack, state, result>>
  /\ UNCHANGED <<lexer, failed>>

RecoverFromStatement ==
  /\ Runs("recover")
  /\ IF Ahead(FALSE).is \in Space \cup {"Eof"}
     THEN SkipStatementEnd /\ Return(FALSE)
     ELSE Takes(FALSE) /\ UNCHANGED <<stack, state, result>>
  /\ UNCHANGED <<lexer, failed>>

\* WithRecovery, of an expression or a type that must be followed by one of
\* nexts.  The callers are Condition, Switch and OptionalTypeInDef.
Nexts ==
  [condition |-> {"Colon", "LineBreak"}, switched |-> {"Case", "Default"}, type |-> {"SingleEq"}]
Skips == [condition |-> FALSE, switched |-> TRUE, type |-> TRUE]

WithRecovery(use, parse) == <<[Method("check") EXCEPT !.use = use], Method(parse)>>

Recovered == Ahead(Skips[top.use]).is \in Nexts[top.use]
\* A mutant: nothing is recorded at the end of the source.
FinalRecord_Never == UNCHANGED failed

FinalRecord == failed' = (failed \/ (top.use # "type" /\ ~Recovered))

CheckNext ==
  /\ Runs("check")
  /\ \/ ~result /\ GoTo("stop") /\ UNCHANGED <<state, result, failed>>
     \/ result /\ Recovered /\ Return(TRUE) /\ UNCHANGED failed
     \/ /\ result /\ ~Recovered
        /\ IF Ahead(Skips[top.use]) = Eof
           THEN Return(FALSE) /\ FinalRecord
           ELSE GoTo("stop") /\ failed' = TRUE /\ UNCHANGED <<state, result>>
  /\ UNCHANGED <<lexer, cache>>

Recover ==
  /\ Runs("stop")
  /\ IF Ahead(FALSE).is \in Nexts[top.use] \cup {"LineBreak", "Eof"}
     THEN Return(FALSE) /\ FinalRecord /\ UNCHANGED cache
     ELSE Takes(FALSE) /\ UNCHANGED <<stack, state, result, failed>>
  /\ UNCHANGED lexer

-----------------------------------------------------------------------------
(***************************************************************************)
(* Expressions.  some tells that there is a left operand.                  *)
(***************************************************************************)
IsAtomExprLookahead == {"IntLit", "Unit", "Ident"}

\* PrimaryExpr finds none: Expression returns, PrecedenceClimb goes on.
NoOperand ==
  IF top.some
  THEN /\ stack' = GoOn([top EXCEPT !.at = "climb", !.ok = FALSE])
       /\ UNCHANGED <<state, result>>
  ELSE Return(FALSE)

PrimaryExpr ==
  /\ Runs("expression")
  /\ \/ /\ Ahead(TRUE).is \in IsAtomExprLookahead
        /\ Takes(TRUE)
        /\ GoTo(IF Ahead(TRUE).is = "Ident" /\ Second.is \in IsAtomExprLookahead
                THEN "parameters" ELSE "climb")
        /\ UNCHANGED <<state, result, failed>>
     \/ /\ Ahead(TRUE).is = "Minus"
        /\ Takes(TRUE) /\ GoTo("unary") /\ UNCHANGED <<state, result, failed>>
     \/ /\ Ahead(TRUE).is \notin IsAtomExprLookahead \cup {"Minus"}
        /\ NoOperand /\ failed' = TRUE /\ UNCHANGED cache
  /\ UNCHANGED lexer

\* FunctionCall, and the end of it: no redirection and no pipe follows.
Parameter ==
  /\ Runs("parameters")
  /\ IF Ahead(FALSE).is \in IsAtomExprLookahead
     THEN Takes(FALSE) /\ UNCHANGED stack
     ELSE GoTo("climb") /\ UNCHANGED cache
  /\ UNCHANGED <<lexer, state, result, failed>>

\* UnaryOperation.  AtomExpr reads the type of the next token without asking
\* whether there is one.
UnaryOperation ==
  /\ Runs("unary")
  /\ \/ /\ Ahead(TRUE).is = "Minus"
        /\ Takes(TRUE) /\ UNCHANGED <<stack, state, result, failed>>
     \/ /\ Ahead(TRUE).is \in IsAtomExprLookahead
        /\ Takes(TRUE) /\ GoTo("climb") /\ UNCHANGED <<state, result, failed>>
     \/ /\ Ahead(TRUE) = Eof
        /\ GoTo("crashed") /\ UNCHANGED <<cache, state, result, failed>>
     \/ /\ Ahead(TRUE).is \notin IsAtomExprLookahead \cup {"Minus", "Eof"}
        /\ NoOperand /\ failed' = TRUE /\ UNCHANGED cache
  /\ UNCHANGED lexer

\* PrecedenceClimb: one operator after the other, whatever the tree.
PrecedenceClimb ==
  /\ Runs("climb")
  /\ IF Ahead(TRUE).is = "Minus"
     THEN /\ Takes(TRUE)
          /\ stack' = GoOn([top EXCEPT !.at = "expression", !.some = TRUE])
          /\ UNCHANGED <<state, result>>
     ELSE Return(top.ok) /\ UNCHANGED cache
  /\ UNCHANGED <<lexer, failed>>

\* ExpressionOrAssignment.
Assignment ==
  /\ Runs("assign?")
  /\ cache' = Dropped(cache, "SingleEq")
  /\ LET statement == GoOn([top EXCEPT !.at = IF cache' # cache THEN "assigned" ELSE "end",
                                       !.ok = result])
     IN  stack' = IF cache' # cache THEN Append(statement, Method("expression")) ELSE statement
  /\ UNCHANGED <<lexer, state, result, failed>>

Assigned ==
  /\ Runs("assigned")
  /\ stack' = GoOn([top EXCEPT !.at = "end", !.ok = @ /\ result])
  /\ UNCHANGED <<lexer, cache, state, result, failed>>

-----------------------------------------------------------------------------
(***************************************************************************)
(* Conditions, If, For, Switch, break and continue.                        *)
(***************************************************************************)
\* A method goes on at a point after the one it has called.
Then(point, callees) ==
  /\ stack' = GoOn([top EXCEPT !.at = point, !.ok = @ /\ result]) \o callees
  /\ UNCHANGED <<state, result>>

Condition ==
  /\ Runs("condition")
  /\ stack' = GoOn([top EXCEPT !.at = "line break or"]) \o WithRecovery("condition", "expression")
  /\ UNCHANGED <<lexer, cache, state, result, failed>>

\* LineBreakOr(kColon).
LineBreakOr ==
  /\ Runs("line break or")
  /\ IF Ahead(TRUE).is = "Colon"
     THEN /\ Takes(TRUE)
          /\ stack' = GoOn([top EXCEPT !.at = "line break", !.ok = result])
          /\ UNCHANGED <<state, result, failed>>
     ELSE /\ cache' = AfterBreak
          /\ failed' = (failed \/ Ahead(FALSE).is # "LineBreak")
          /\ Return(result)
  /\ UNCHANGED lexer

LineBreak ==
  /\ Runs("line break")
  /\ cache' = AfterBreak
  /\ Return(top.ok)
  /\ UNCHANGED <<lexer, failed>>

Body == [Method("program") EXCEPT !.line = top.line]

If ==
  /\ Runs("if")
  /\ Takes(TRUE)
  /\ Call("then", Method("condition"))
  /\ UNCHANGED <<lexer, state, result, failed>>

TrueBody ==
  /\ Runs("then")
  /\ Then("else?", <<Body>>)
  /\ UNCHANGED <<lexer, cache, failed>>

\* OptionalElse: the else of this indent, or of a larger one with an error.
OptionalElse ==
  /\ Runs("else?")
  /\ IF Ahead(TRUE).is = "Else" /\ StatementIndent >= CurrentIndent
     THEN LET else == [Method("else") EXCEPT !.line = Ahead(TRUE).line]
              statement == GoOn([top EXCEPT !.at = "if end", !.ok = @ /\ result])
          IN  /\ Takes(TRUE)
              /\ stack' = Append(statement,
                            IF StatementIndent > CurrentIndent
                            THEN [else EXCEPT !.guards = {"block"}] ELSE else)
              /\ IF StatementIndent > CurrentIndent
                 THEN indents' = Append(indents, StatementIndent) /\ failed' = TRUE
                 ELSE UNCHANGED <<indents, failed>>
              /\ UNCHANGED <<loop_level, result>>
     ELSE /\ cache' = IF Ahead(TRUE).is = "Else" THEN AfterBreak ELSE cache
          /\ Return(top.ok /\ result)
          /\ UNCHANGED failed
  /\ UNCHANGED lexer

Else ==
  /\ Runs("else")
  /\ GoTo(IF Ahead(FALSE).is = "If" THEN "if" ELSE "colon")
  /\ UNCHANGED <<lexer, cache, state, result, failed>>

\* The colon after else and default.
OptionalColon ==
  /\ Runs("colon")
  /\ IF Ahead(TRUE).is = "Colon" THEN Takes(TRUE) ELSE UNCHANGED cache
  /\ GoTo("program")
  /\ UNCHANGED <<lexer, state, result, failed>>

IfEnd ==
  /\ Runs("if end")
  /\ Return(top.ok)
  /\ UNCHANGED <<lexer, cache, failed>>

\* For, with LoopCondition: the form with a variable takes two more tokens.
For ==
  /\ Runs("for")
  /\ LET variable == /\ First + 2 \in DOMAIN cache
                     /\ cache[First + 1].is = "Ident" /\ cache[First + 2].is = "In"
     IN  cache' = From(First + IF variable THEN 3 ELSE 1)
  /\ loop_level' = loop_level + 1
  /\ stack' = Append(GoOn([top EXCEPT !.at = "for body", !.guards = @ \cup {"loop"}]),
                     Method("condition"))
  /\ UNCHANGED <<lexer, indents, result, failed>>

ForBody ==
  /\ Runs("for body")
  /\ Then("for end", <<Body>>)
  /\ UNCHANGED <<lexer, cache, failed>>

\* For, Switch and Case return: all of their parts are there.
BodyEnd ==
  /\ Runs("for end") \/ Runs("switch end")
  /\ Return(top.ok /\ result)
  /\ UNCHANGED <<lexer, cache, failed>>

Switch ==
  /\ Runs("switch")
  /\ Takes(TRUE)
  /\ stack' = GoOn([top EXCEPT !.at = "cases?"]) \o WithRecovery("switched", "expression")
  /\ UNCHANGED <<lexer, state, result, failed>>

IsCase == Ahead(TRUE).is \in {"Case", "Default"}

SwitchCases ==
  /\ Runs("cases?")
  /\ \/ ~IsCase /\ Return(FALSE) /\ UNCHANGED <<cache, failed>>
     \/ /\ IsCase /\ StatementIndent < CurrentIndent
        /\ cache' = AfterBreak /\ Return(FALSE) /\ failed' = TRUE
     \/ /\ IsCase /\ StatementIndent >= CurrentIndent
        /\ cache' = AfterBreak
        /\ stack' = Append(GoOn([top EXCEPT !.at = "switch end", !.ok = result]),
                           [Method("cases") EXCEPT !.guards = {"block"}])
        /\ indents' = Append(indents, StatementIndent)
        /\ UNCHANGED <<loop_level, result, failed>>
  /\ UNCHANGED lexer

\* A mutant: a case at a smaller indent is taken for one of this switch.
Cases_SmallerIndent ==
  /\ Runs("cases")
  /\ LET indent == StatementIndent IN
     \/ ~IsCase /\ Return(top.some) /\ UNCHANGED <<cache, failed>>
     \/ /\ IsCase /\ indent > CurrentIndent
        /\ cache' = AfterBreak
        /\ WithBlock("cases", indent, Method("case"))
        /\ failed' = TRUE /\ UNCHANGED result
     \/ /\ IsCase /\ indent <= CurrentIndent
        /\ cache' = AfterBreak
        /\ Call("append case", Method("case"))
        /\ UNCHANGED <<state, result, failed>>
  /\ UNCHANGED lexer

Cases ==
  /\ Runs("cases")
  /\ LET indent == StatementIndent IN
     \/ ~IsCase /\ Return(top.some) /\ UNCHANGED <<cache, failed>>
     \/ /\ IsCase /\ indent < CurrentIndent
        /\ cache' = AfterBreak /\ Return(top.some) /\ UNCHANGED failed
     \/ /\ IsCase /\ indent > CurrentIndent
        /\ cache' = AfterBreak
        /\ WithBlock("cases", indent, Method("case"))
        /\ failed' = TRUE /\ UNCHANGED result
     \/ /\ IsCase /\ indent = CurrentIndent
        /\ cache' = AfterBreak
        /\ Call("append case", Method("case"))
        /\ UNCHANGED <<state, result, failed>>
  /\ UNCHANGED lexer

AppendCase ==
  /\ Runs("append case")
  /\ stack' = GoOn([top EXCEPT !.at = "cases", !.some = @ \/ result])
  /\ UNCHANGED <<lexer, cache, state, result, failed>>

Case ==
  /\ Runs("case")
  /\ Takes(TRUE)
  /\ LET case == [top EXCEPT !.at = IF Ahead(TRUE).is = "Default" THEN "colon" ELSE "case body",
                             !.line = Ahead(TRUE).line]
     IN  stack' = IF Ahead(TRUE).is = "Default"
                  THEN GoOn(case) ELSE Append(GoOn(case), Method("condition"))
  /\ UNCHANGED <<lexer, state, result, failed>>

CaseBody ==
  /\ Runs("case body")
  /\ IF result THEN Then("case end", <<[Body EXCEPT !.use = "emptyable"]>>) ELSE Return(FALSE)
  /\ UNCHANGED <<lexer, cache, failed>>

CaseEnd ==
  /\ Runs("case end")
  /\ Return(TRUE)
  /\ UNCHANGED <<lexer, cache, failed>>

\* break and continue.  LoopControlStmt is at the keyword; the level that it
\* reads must not be larger than the loop level.
LoopControl ==
  /\ Runs("loop control")
  /\ Takes(TRUE)
  /\ GoTo("level?")
  /\ UNCHANGED <<lexer, state, result, failed>>

\* OptionalStatementEnd is a level of 1.
LoopLevel ==
  /\ Runs("level?")
  /\ LET level == Ahead(FALSE).number IN
     \/ /\ Ahead(FALSE).is \in IsStatementEnd
        /\ SkipStatementEnd /\ Return(loop_level >= 1) /\ failed' = (failed \/ loop_level < 1)
     \/ /\ Ahead(FALSE).is = "IntLit"
        /\ Takes(FALSE)
        /\ stack' = GoOn([top EXCEPT !.at = "end", !.ok = level <= loop_level])
        /\ failed' = (failed \/ level > loop_level)
        /\ UNCHANGED <<state, result>>
     \/ /\ Ahead(FALSE).is \notin IsStatementEnd \cup {"IntLit"}
        /\ GoTo("recover") /\ failed' = TRUE /\ UNCHANGED <<cache, state, result>>
  /\ UNCHANGED lexer

-----------------------------------------------------------------------------
(***************************************************************************)
(* Definitions and return.                                                 *)
(***************************************************************************)
\* AssertLookahead(kind), and on to a point.
Assert(kind, point) ==
  /\ IF Ahead(TRUE).is = kind THEN Takes(TRUE) ELSE UNCHANGED cache
  /\ failed' = (failed \/ Ahead(TRUE).is # kind)
  /\ stack' = GoOn([top EXCEPT !.at = point, !.ok = @ /\ Ahead(TRUE).is = kind])
  /\ UNCHANGED <<lexer, state, result>>

\* Definition.
Definition ==
  /\ Runs("export")
  /\ IF Ahead(TRUE).is = "Export" THEN Takes(TRUE) ELSE UNCHANGED cache
  /\ GoTo("define")
  /\ UNCHANGED <<lexer, state, result, failed>>

Define == Runs("define") /\ Assert("Define", "name")
Name == Runs("name") /\ Assert("Ident", "signature")

\* A mutant: the body of a function is in the loops around it.
Signature_InLoops ==
  /\ Runs("signature")
  /\ IF Ahead(TRUE).is = "Unit"
     THEN /\ Takes(TRUE)
          /\ stack' = GoOn([top EXCEPT !.at = "type?", !.guards = @ \cup {"function"},
                                       !.old = loop_level])
     ELSE GoTo("type?") /\ UNCHANGED cache
  /\ UNCHANGED <<lexer, loop_level, indents, result, failed>>

\* FunctionDef leaves the loops around it; its parameter list is ().
Signature ==
  /\ Runs("signature")
  /\ IF Ahead(TRUE).is = "Unit"
     THEN /\ Takes(TRUE)
          /\ stack' = GoOn([top EXCEPT !.at = "type?", !.guards = @ \cup {"function"},
                                       !.old = loop_level])
          /\ loop_level' = 0
     ELSE GoTo("type?") /\ UNCHANGED <<cache, loop_level>>
  /\ UNCHANGED <<lexer, indents, result, failed>>

\* OptionalTypeInDef and TypeExpression.
OptionalTypeInDef ==
  /\ Runs("type?")
  /\ IF Ahead(TRUE).is = "Colon"
     THEN /\ Takes(TRUE)
          /\ stack' = GoOn([top EXCEPT !.at = "typed"]) \o WithRecovery("type", "type")
     ELSE GoTo("equals") /\ UNCHANGED cache
  /\ UNCHANGED <<lexer, state, result, failed>>

TypeExpression ==
  /\ Runs("type")
  /\ IF Ahead(TRUE).is = "Unit" THEN Takes(TRUE) ELSE UNCHANGED cache
  /\ failed' = (failed \/ Ahead(TRUE).is # "Unit")
  /\ Return(Ahead(TRUE).is = "Unit")
  /\ UNCHANGED lexer

Typed ==
  /\ Runs("typed")
  /\ Then("equals", <<>>)
  /\ UNCHANGED <<lexer, cache, failed>>

FunctionDef ==
  /\ Runs("equals") /\ "function" \in top.guards
  /\ Assert("SingleEq", "function end")

FunctionBody ==
  /\ Runs("function end") /\ ~top.some
  /\ stack' = Append(GoOn([top EXCEPT !.some = TRUE]), Body)
  /\ UNCHANGED <<lexer, cache, state, result, failed>>

FunctionEnd ==
  /\ Runs("function end") /\ top.some
  /\ Return(top.ok)
  /\ UNCHANGED <<lexer, cache, failed>>

VariableDef ==
  /\ Runs("equals") /\ "function" \notin top.guards
  /\ LET equals == Ahead(TRUE).is = "SingleEq" IN
     /\ IF equals THEN Takes(TRUE) /\ Call("variable end", Method("expression"))
                  ELSE UNCHANGED cache /\ GoTo("recover")
     /\ failed' = (failed \/ ~equals)
  /\ UNCHANGED <<lexer, state, result>>

\* The value of a definition or of a return: without one, recovery.
ValueEnd ==
  /\ Runs("variable end") \/ Runs("return value")
  /\ GoTo(IF result THEN "end" ELSE "recover")
  /\ UNCHANGED <<lexer, cache, state, result, failed>>

\* Return takes the next token, which is the keyword if no space is before it.
ReturnStmt ==
  /\ Runs("return")
  /\ Takes(FALSE)
  /\ GoTo("after return")
  /\ UNCHANGED <<lexer, state, result, failed>>

ReturnValue ==
  /\ Runs("after return")
  /\ IF Ahead(FALSE).is \in IsStatementEnd
     THEN SkipStatementEnd /\ Return(TRUE)
     ELSE /\ Call("return value", Method("expression"))
          /\ UNCHANGED <<cache, state, result>>
  /\ UNCHANGED <<lexer, failed>>

-----------------------------------------------------------------------------
Blocks ==
  Program \/ ProgramEnd \/ BlockEnd \/ CurrentBlockStatement \/ UnexpectIndent
    \/ AppendStatement \/ Statement \/ AssertStatementEnd \/ RecoverFromStatement
    \/ CheckNext \/ Recover

Expressions ==
  PrimaryExpr \/ Parameter \/ UnaryOperation \/ PrecedenceClimb \/ Assignment \/ Assigned

Control ==
  Condition \/ LineBreakOr \/ LineBreak \/ If \/ TrueBody \/ OptionalElse \/ Else
    \/ OptionalColon \/ IfEnd \/ For \/ ForBody \/ BodyEnd \/ Switch \/ SwitchCases \/ Cases
    \/ AppendCase \/ Case \/ CaseBody \/ CaseEnd \/ LoopControl \/ LoopLevel

Definitions ==
  Definition \/ Define \/ Name \/ Signature \/ OptionalTypeInDef \/ TypeExpression \/ Typed
    \/ FunctionDef \/ FunctionBody \/ FunctionEnd \/ VariableDef \/ ValueEnd \/ ReturnStmt
    \/ ReturnValue

Next == Lex \/ Blocks \/ Expressions \/ Control \/ Definitions

Spec == Init /\ [][Next]_vars /\ WF_vars(Next)

-----------------------------------------------------------------------------
TypeOK ==
  /\ left \in Nat
  /\ ended \in BOOLEAN /\ result \in BOOLEAN /\ failed \in BOOLEAN
  /\ cache \in Seq(Token)
  /\ indents \in Seq(Nat \cup {-1}) /\ indents # <<>>
  /\ loop_level \in Nat
  /\ stack \in Seq([at : Point, ok : BOOLEAN, some : BOOLEAN,
                    use : {"", "emptyable"} \cup DOMAIN Nexts,
                    guards : SUBSET {"block", "loop", "function"},
                    old : Nat, line : Nat \cup {-1}])

\* The loop level is the number of loops around the statement in its function, so
\* that a break it admits leaves no more than those, whatever paths were taken.
LoopLevelCounts ==
  loop_level =
    Cardinality({i \in DOMAIN stack : /\ "loop" \in stack[i].guards
                                      /\ \A j \in i .. Len(stack) : "function" \notin stack[j].guards})

\* How many of the first k methods have pushed an indent.
Opened(s, k) == Cardinality({i \in 1 .. k : "block" \in s[i].guards})

\* The indents are those of the blocks whose methods are running, each larger than
\* that of the block around it; only the cases of a switch may stand at its own.
BlocksNest ==
  /\ Len(indents) = Opened(stack, Len(stack)) + 1
  /\ \A i \in DOMAIN stack : "block" \in stack[i].guards =>
       LET n == Opened(stack, i) IN
       /\ indents[n] <= indents[n + 1]
       /\ indents[n] = indents[n + 1] => stack[i].at \in {"cases", "append case"}

\* While there is no error, a statement or a case that begins a line stands at the
\* indent of the block it is parsed in, although Statement jumps over indents.
StatementsInTheirBlock ==
  ~failed /\ (Runs("statement") \/ Runs("case")) /\ Ahead(TRUE) # Eof
    => (Ahead(TRUE).at = Ahead(TRUE).line => CurrentIndent = Ahead(TRUE).at)

\* WithRecovery has no result at the end of the source, though the type before it was
\* there; the definition goes on for its = then, and reports that it is missing.
TypeAtEnd == (At("typed") \/ At("equals")) /\ ended /\ Ahead(TRUE) = Eof

\* A part of the program that is missing when its method returns was reported: the
\* tree is complete if there is no error.  A type the source ends with is lost a step
\* before the error that follows it.
NothingWithoutError ==
  ~failed /\ ~TypeAtEnd =>
    /\ \A i \in DOMAIN stack : stack[i].ok
    /\ stack # <<>> /\ top.at \in
         {"append", "then", "else?", "for body", "for end", "switch end", "case body",
          "append case", "check", "line break or", "variable end", "return value",
          "assign?", "assigned", "program end", "typed"}
       => result

\* Block sees a line break that no method took and nothing behind it: Statement
\* returns without having taken it, and Block calls it again.
StuckAtLineBreak ==
  /\ At("block") \/ At("append") \/ At("statement")
  /\ cache # <<>> /\ Solid = {} /\ cache[1].is = "LineBreak" /\ ended

\* The parser ends, whatever the source, or is stuck in that one loop, or has read a
\* token behind the end of the source.
EndsOrKnownLoop == <>(stack = <<>> \/ At("crashed") \/ []StuckAtLineBreak)
=============================================================================
