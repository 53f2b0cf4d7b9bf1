# A formal model of the Sushiscript compiler

Sushiscript is a small statically typed shell language. This repository is its
compiler: one process, one thread, which reads a `.sus` file and writes a bash
script. Nothing in it is concurrent. What makes it hard to get right is that
several passes walk the same program and have to agree: on where a lexical
context ends, on the block a line belongs to, on what a name means, on which bash
name is still in use. Each pass keeps a little state (a stack, a counter, a
table) that a long sequence of legal program constructs drives to places no test
visits. The modules here model that state and the steps that change it.

Paths below are relative to the repository.

## 1. Inventory

| component | state it keeps | operations | what makes it correct |
|---|---|---|---|
| lexer (`lexer/*`) | the characters, a stack of lexical contexts, a cache of looked-ahead tokens, `line_start` | `Consume`, `Lookahead`, `Next`, `DestoryContext`, one `Lex` per context | every token consumes input or changes the stack; a context is popped by whoever ends it; a token is lexed in the context the parser is in |
| parser (`parser/*`) | the error list, a stack of indents, the loop level | one method per construct, `Recover*`, `WithBlock`, `LoopGuard` | it ends; a missing result means a recorded error; a block belongs to its indent; `break n` leaves at most the loops of its function |
| syntax tree (`ast/*`) | the program | visitors | data only |
| scope pass (`scope/*`) | one `Scope` per block, the use of each identifier | `Insert`, `LookUp`, one `Visit` per construct | undefined and redefined names are reported exactly; later lookups find what this pass found |
| type pass (`type-system/*`) | the type of each definition and expression, the return type of the function body | `Deduce`, `RequireSatisfy`, `InsertType`, one `Visit` per statement | every expression the generator asks about has a type; no null type is used |
| code generator (`code-generation/*`) | `ScopeManager`: counters and names; per block the names to unset | `GetNewTemp`, `GetNewName`, `Unset`, `FindNewName`, one `Visit` per construct | names in use at the same time differ; each definition has its name before its uses |
| pipeline (`pipeline/*`) | none | `TransToSushi`, `BuildSingleFile`, `ExecSingleFile` | no pass runs after one that reported an error |

The parser pulls tokens from the lexer and pushes back into it: after `${` it
parses an expression and, on the `}`, tells the lexer to drop the context it was
reading in (`DestoryContext`). The other passes run one after the other over the
finished tree and share the `Environment` the scope pass fills; each of them looks
every name up again. The generator's visitors recurse into `GenCode` with one
shared `ScopeManager`.

The hard behaviour, with its lines, is the list `hazards` of `PROJECT.json`.

## 2. Modules

### ScopeManager, GenCode: names in the script

`ScopeManager` is the class of the same name, as operators on a record: the
counter of temporaries and the counters of the program's identifiers, which are
one string map in the code. `Unset` takes the whole `new_ids` of a block at once
(the set is unset element by element, and the order does not matter because each
element has its own entry).

`GenCode` is the recursion `GenCode` / `StmtVisitor` / `GenCode`. `frames` is the
stack of activations with what each remembers: the names given in its scope (the
rows of `new_names_map`), and `new_ids`, split into temporaries and identifiers.
`live` is a history variable: the temporaries handed out inside the open blocks.
One action stands for one construct of the program: `LocalTemp`, `BareTemp` and
`DroppedTemp` for an expression, by what the visitor does with its temporary
(assigns it with `local`, without it, or forgets it in `new_ids`), `Statement`,
`VariableDef`, `FunctionDef`, `OpenBlock`, `OpenRangeLoop`, and `CloseBlock` for
the loop over `new_ids`. The program is not fixed in advance: whatever sequence of
constructs the earlier passes accept is a behaviour. Which expression takes how
many temporaries is abstracted to any number of any kind, so that every order the
visitors can produce is included; text templates are left out.

### Scopes, NameResolution: three passes over one program

`Scopes` is class `Scope`: a scope is the path of blocks around it, and `LookUp`
walks the path outwards. `NameResolution` runs `ScopeCheck`, `type::Check` and
`GenCode` over the same program with the gates of `TransToSushi` between them.
The scope pass chooses the program, one node per action; the other two walk it
with `pc`. Types are abstracted to "simple", "array", "function" and "null"; what
is kept exactly is which lookup each pass does, in which scope, and what happens
when it finds nothing: an error, a silent failure, a C++ exception, or a null
pointer. These three ends are the phases `copied null`, `thrown`, `read null`.
Calls pass arguments that fit and their values are not used; parameters and declared
return types are simple, and definitions carry no declared type (a declared type
only makes the value's type known, which the literals already do). What is returned is
a literal or a name, so the first `return` of a body can be one whose value has no
type, and the next one is then the first.

### LexerContexts: the lexer's contexts and the parser that drives them

`LexerContexts` puts `Lexer`, `LookaheadStream` and the methods of `Parser` that
depend on a context into one machine. `contexts` is `Lexer::contexts_`, `cache` the
looked-ahead tokens, `stack` the C++ call stack of the parser, one frame per
running method with the point it goes on from and its local flags (`fail`, and
`some` for "there is an argument"). Tokens are lexed one at a time, when the step
the parser is at looks further than the cache reaches (`Sighted`); so what is read
ahead is lexed in the context of that moment, as in the code. One action stands
for one `Lex` of a context or for the stretch of a parser method between two looks
or calls.

The source is not fixed: its pieces are chosen as they are read, and how a piece is
read depends on the context (`$` is `${` in a literal and an unknown character
elsewhere; a single quote begins a character in the normal context only). That
covers every source over these pieces. Statements begin in the first column.
Names, strings, characters, function calls and commands are the expressions;
operators, indices, redirections, pipes and paths are not, and at the points where
the code looks for them it looks and finds none. "unclosed" is a string context
with `suspended_finish` set.

### Blocks: indentation, loop levels and recovery

`Blocks` is the part of `Parser` above expressions: `Program`, `Block`,
`Statement` and the statements, `SwitchStmt` with its cases, function definitions,
loop controls, and every `Recover*`. `indents` and `loop_level` are the fields of
`ParserState`; the destructors of its guards are in `Return`, through which every
method leaves. `stack` is the C++ call stack as in `LexerContexts`, with the locals
of each method. The lexer is reduced to lines: the source is chosen line by line
out of `Line`, each with an indent of `Indent`, when a look goes beyond what is in
`cache`; `Ahead(TRUE)` and `Ahead(FALSE)` are the looks over line breaks and
indents and at them. `Eof` read as a token is the point "crashed": the optional of
the lookahead is dereferenced without a test. Expressions are a name, a number, a
call or a `-`, enough for each of their ends and each of their errors.

### Types, Typing: the rules of the checker and what the generator makes of them

`Types` has the types, `DeduceResult` and its methods (`SolveRequirement`,
`RequireOneOf`, `UnambiguousDeduce`) and the rules of the operators as plain
operators. `Typing` visits the body of one function. Both visitors recurse over the
tree and need of a subexpression only what its visit left behind, so `operands` is
a stack of such results: the `DeduceResult`, and `holds`, the type whose values the
`val` of the generator expands to. A tree is the order its nodes are visited in, and
every tree whose visit needs at most `MaxOperands` pending results is a behaviour.
An expression is then one action: the requirements the checker puts on its parts,
the errors it reports (`errors`), the null pointers it goes through (`crashed`), the
assertions the generator would hit (`stuck`), and the values its templates read as
something they are not (`misread`). The scopes are finished when the checker looks a
name up, so what it finds may be a definition it has not visited: in a block, in
front of an inner definition of the name, or in the body of a function that has no
declared return type, which is then a name of `Untyped`. `Early` is such a read. It
fails and reports nothing, and `early` keeps the name; `NameResolution` says which
programs do this, with the scopes that `Typing` does not have. Types nest once: arrays and maps are of simple
types, and `NextElement` and its like do not force the elements of an inner literal.

### Semantics, Script: the program and the bash that is written for it

`Semantics` is an abstract specification: the meaning that sections 4.7.11 to 4.7.14
of `docs/language-specification.md` give to branches, loops, jumps and `switch`, as
the commands that run and the values of the variables. It is written from the
document and translates no code. `Script` is the code: `Translation` is `StmtVisitor`, `Before`
the `code_before` of an expression, and the actions are bash running the lines it
writes. `FromLoop` of both finds the loop a jump leaves by counting those underway.
`KeptPrograms` describes the programs that the translation keeps the meaning of; the
others are the finding `condition` and the list under "Known behaviours". `ImplementsSemantics` is the refinement, `INSTANCE Semantics WITH todo <-
MeantTodo, store <- MeantStore`. The step of `Semantics` that evaluates and decides
is the script's `eval`; the `test` or `assign` behind it stutters. `Words` is the number of
words the range of a loop is for bash, and an `else` after no `if` ends the script. So the mapping
gives, for the script left after the `eval`, the branch it is going to choose
(`Settled`), and for a store an `assign` is about to write, the value it will have.

## 3. Runs

| run | module, cfg | bounds | shows |
|---|---|---|---|
| gencode | MCGenCode | 1 identifier, depth 3, 3 blocks, 3 temporaries | `TypeOK`, `LiveTempsDistinct`, `TempNamesWellFormed` and the inductive `TempDiscipline` |
| shadow | MCGenCodeShadow | depth 2 | violated: an inner definition gets the bash name of the outer one |
| call | MCGenCodeCall | 2 blocks | violated: a call overwrites a temporary of its caller |
| names | MCNameResolution | programs of up to 5 nodes, 2 identifiers | scope errors are exact, nothing dangles, clean programs are translated, definitions are named where they were bound, no type is replaced |
| deduced_return | MCNameResolutionReturn | 4 nodes | violated: a block before the first `return` copies a null type |
| contexts | MCLexerContexts | sources of up to 7 pieces of every kind, of up to 11 if the others are words, quotes and `${`, `}` | contexts and methods nest alike, literals read their own tokens, `DestoryContext` never meets the last context, nothing is dropped without an error, the parser ends but for three loops |
| blocks | MCBlocks | 4 lines of statements with blocks and loop controls, indents 0, 1, 2 | indents and blocks are the same, the loop level is right, every line accepted is in the block its indent says |
| forms | MCBlocksForms | 3 lines of every form of statement, right and wrong, indents 0, 1, 2 | the guards hold on the paths of recovery, nothing is dropped without an error, the parser ends but for one loop and one read behind the end |
| typing | MCTyping | 2 statements, 2 pending expressions, 3 stages of a pipeline, 1 variable, 2 functions and the one whose body it is, containers of exit codes and of paths | nothing fails in silence but a name read before it has a type, null types are used only after an error or such a read, the generator has code for what is accepted but for three constructs, and reads values as what they are but for the listed conversions |
| conversions | MCTypingConversion | the same, with containers of exit codes | violated: a `Bool` holds an exit code, a `Path` a relative path |
| script | MCScript | 2 statements nested twice, 2 variables, 2 commands, arrays of 0 and 2, 8 commands run | the script implements the semantics, for programs `KeptPrograms` allows |
| condition | MCScriptCondition | a loop while a command is true, 5 commands run | violated: the condition is a command that runs once |

Bounds. One identifier suffices for clashes in `GenCode`, since the counters of
different identifiers are independent; three nested blocks give a block that is
neither first nor last in the stack; three temporaries are enough for the plain
one, one of the enclosing statement and one of an inner block. Five nodes hold a
definition, a function or loop with its end, an inner definition and a use, in any
order; the clashes found need at most that. Two identifiers matter where one name
is defined by another (`define b = a`). `EndsSoonAfterErrors` lets a program the scope
pass has reported an error of end within the next node or two, since the later
passes do not see it. Seven pieces hold an interpolation in a
command or a string with an error in it, the recovery and a statement after it; eleven
hold a string in an expression in a string in an expression, closed, and
`LongSourcesClose` keeps the last four to what closes them. Four lines hold a
`switch` with a case, its block and the line that leaves both; three are a
statement, its continuation or block and the line after, which is where recovery
stops. Two statements are a definition and its use; two pending expressions are the
two sides of an operator, and the parts of a construct under way; a pipeline of
three is the first with a middle. `StopsAtErrors` follows an error only in a body of two statements,
with operands that are numbers or have no type: enough to assign to a name whose
definition failed, or to switch on an expression that did, the two places that go
through a null type. `TypingProofs` has the properties behind errors without this
bound. `LongBodies` keeps containers of paths
and bodies that return nothing to one statement, which is enough for the literals,
the indexing and the returns of such types; the theorems have them without this
bound. The programs of `MCScript` put
every statement into a branch and into a loop, and every jump into both of two
loops. The theorems below remove the bounds for the properties they prove. Deadlock
is not checked: the compiler stops at the end of its program, the parser at the end
of its source and bash at the end of the script.

The violated properties are sentences of `docs/language-specification.md` or of a
comment in the code; `findings` quotes them. `CleanProgramsCompile` is the other
side of `deduced_return` and of the third point below: a program is `Clean` if every name still
means at the end what it meant where it was used, if no function without a declared type
is a value in its own body, and if no such function opens a block in front of its first
`return`; and then, as long as no error is reported, no null type is copied and
the generator finds what it looks up. After a reported error the type pass goes on and
may still copy a null type, for instance behind a `return` of a name whose definition failed.

Fairness. `LexerContexts`, `Blocks` and `Script` have `WF_vars(Next)`: one thread runs
the parser and nothing blocks it, and a command the script runs returns. Only the
first two are claimed to end. `GenCode`, `NameResolution` and `Typing` state no
fairness, and no liveness is claimed of them.

### Known behaviours

Properties are stated up to these; each is what the code does and the model does the
same.

- `StuckInCommand`, `StuckInRawToken`, `StuckInBlock` of `LexerContexts`: the parser
  loops at a `}` or another token that `CommandArg` does not know, at a single quote
  among the parameters of a command, and at a last line of nothing but lexical
  errors. `StuckAtLineBreak` of `Blocks` is the last of them again, and a switch
  without cases at the end of the source. The runs show that there are no others.
- "crashed" in `Blocks`: `parser.cpp:572` reads the token behind the end.
- A use before an inner definition of the same name finds the inner one when it is
  looked up again, and that has no type yet. The checker fails at it and reports
  nothing (`Early`), and the generator reads a null type. The same
  happens to a function without a declared type that is used as a value in its own
  body. An assignment to such a name, or a `switch` on it, goes through the null type
  in the checker itself (`crashed`).
- An identifier that is defined in three sibling blocks is written `a_scope_-2`:
  `Unset` lowers a counter `GetNewName` has not raised.
- `break 0` and `continue 0` are accepted everywhere (`parser.cpp:291`).
- An expression goes on at the operator the next line begins with, whatever its
  indent (`parser.cpp:331`).
- `stuck` in `Typing`: the generator has no code for a call at the end of a pipeline of
  three or more, a `return` without a value and a second `default`.
- `KnownMisreadings` in `Typing`: an exit code, 0 for success, or a relative path is
  copied as it is into a variable, an element or a parameter of another type; a
  boolean is compared with an exit code as a number; a string is repeated by an
  arithmetic product; an exit code is divided by a relative path; an array or a map
  is indexed by an exit code, and a map of paths by a relative path, as they are; a
  `switch` on a
  string, a path, a character or an array compares with `-eq`.
- In `Script`: the code before the condition of an `if` with an `else` is written
  twice (`stmt-visitor.cpp:313` and `:319`), so a command there runs twice; the code
  before a switched expression is not written (`:429`), so a command there never
  runs; the code of all cases runs before the first test; a switch with nothing but a
  default is written as `else ... fi` without an `if`, and one with nothing at all as
  `fi`; an empty body is no command where bash wants one; the array a call returns is
  the one word `"${temporary}"` as a range (`Words`, `stmt-visitor.cpp:452`), so the body
  runs once whatever the array, where line 1414 of the language specification has an
  iteration for each element. `KeptPrograms` leaves these out, with the loops
  while a command is true, which `condition` is about, and with jumps of level 0.
- `OperandsFit` counts a conversion once, where it is left out: a variable, or a
  literal with elements of several kinds (`Mixed`), that holds something else than its
  type for this reason is not counted again where it is read (`Sound`).

## 4. Proofs

`GenCodeProofs` proves, for every set of identifiers and all bounds,
`TypeOK`, `TempDiscipline`, `LiveTempsDistinct` and `TempNamesWellFormed`. That
live temporaries are distinct is not inductive: `Unset` lowers the counter, and
one has to know that nothing below it is still live. The inductive invariant
`IInv` (`TypeOK` and `TempDiscipline`) says that live temporaries are sorted and
below the counter, that the spans the open blocks own in `live` are nested, and
that the block whose `new_ids` hold the plain temporary owns the first live one:
when it closes, nothing is live, and the counter may drop. The proof has one step
per action and lemmas on sequences below it. It uses only `BoundsAssumption`.

`NameResolutionProofs` is about the scope pass. `NeverDangling`: the three passes do
not dereference a missing scope or definition in any program the scope pass lets
through. The invariant behind it: while the scope pass runs, a use is recorded and
resolves or an error of the kind "undefined" or "redefined" is on the list; bindings
only grow and what resolves keeps resolving. `ScopeErrorsExact`: the errors are those
of a reference that reads the finished program. The reference knows blocks by
their paths, the pass by the scope it stands in, so the invariant `ScopeInv` first
says what tree the scopes are (`Tree`): each scope is the body of one node
(`TreeOK`, `BodyOf`), consecutive nodes are one step apart in the tree (`Threaded`), what stands
between a node that opens a block and the one that closes it is in its body
(`Enclosed`), a block closes once (`ClosedOnce`) and a body that was begun is closed
or around the node that is visited (`OpenOrClosed`). With that, what is bound is what nodes
before this one bind (`BoundThere`, `BindsAll`), a step can only add errors of its own
node (`Grows`), and looking up from scope to scope finds the innermost binding: the
least element of the levels that have one, for which the well-foundedness of the
naturals stands in for an induction (`WFMin`). Both use only `NamesAssumption`.

`TypePassProofs` goes on with the type pass and the generator: `TypeOK` (with
`Returning`: one state of the pass per block that is open, which is why
`states.back()` and `pop_back` find one), `TypedOnce` (an action property: a type that is
there stays; the invariant `TypedInv` says that what has a type is bound by a node
already visited, and left if its type is deduced from its body),
`DefinitionsNamed` (what the generator has passed is named, and what is named is
bound; as every binding is a node's, at the end the two are the same) and
`CleanProgramsCompile`. The invariant `CleanInv` of the last: while the type pass runs over
a clean program and has reported nothing, every body that was left has a return type, and
every name defined and every expression visited has a type, so that the generator
finds what it looks up. A `return` of a name uses this to give its body a type.

`LexerContextsProofs` proves `TypeOK` and `NothingWithoutError` for sources of any
length. The second is not inductive: a method may know that it has failed and
return much later. Its invariant: while there is no error, the last result is
something and every running method is `Blameless` (has no failed part and is no
recovery), or a command is stuck at a token it cannot take, which is the one place
where a method fails without an error, and from which it never returns. It uses
only `PiecesAssumption`, for the types.

`ContextNestingProofs` proves `ContextsFollowParser` and `LiteralsReadTheirOwn`. What a
run sees when the cache is empty and nothing failed says nothing of the states in
between, in which tokens were read ahead that opened or closed contexts the
parser knows nothing of yet. The invariant `Nested` covers them: the methods below
the top one are a chain of calls the parser can make (`Chain`), each in the
context it was called in (`BelowHome`), and for each point of a method `TopFits` says which
tokens can be in the cache there and which contexts they have left on top (`Normal`,
`Arguments`, `Literal`). As `Lookahead` stops at the first token that opens something, the
cache holds at most one such token, and it is the last.

It also proves `ContextToDestroy`, which holds of any source, with errors and skipped
tokens as well. The inductive invariant is a count, `Balance`: the `${` that are being
parsed and those that wait in the cache are fewer than the normal contexts on the
stack. All three use only `PiecesAssumption`.

`TypingProofs` proves `TypeOK`, `FailuresAreReported`, `CrashesExplained`,
`AcceptedProgramsTranslate` and `OperandsFit` of bodies of any length, with any functions, variables
and element types. The argument has two parts. The first is about the rules alone:
where `LeftType` gives the left operand of an operator a type, `Reads` has a case for
it (`OperatorsHaveCode`), and what `RequireOneOf` accepts as a redirection is a path
or a descriptor (`RedirectionsHaveCode`); both follow from what
`ImplicitConvertible` relates. The second is the inductive invariant `IInv`: the
properties themselves, and for `TypeOK` that an empty literal has no type and lacks
at most the value of its first key, which is why the type `FirstValue` makes is a
map. An operand that has failed has been reported when it failed, or was read early
(`Explained`), so a requirement may fail on it in silence. `AcceptedProgramsTranslate` and
`OperandsFit` are about the bodies the generator gets a type for everywhere, those
without an error and without an early read (`Accepted`). There is one lemma for each way the stack changes
(`UsePreserves`, `VisitPreserves`, `ExpressionPreserves`, `PartPreserves`, `StatementPreserves`) and
one step for each action. `OperandsFit` is of both parts: for each template, what the
checker accepts there and `Misread` calls another type is on the list; and `misread`
grows by such pairs only (`Fit`, kept by every action). Its proof failed at the
index of a map of paths: a relative path passes for the key, and `Indexing` writes it
as it is. The run had no paths in its containers then and had not met this; it has
now, and the pair is one of `KnownMisreadings`. The proofs use `FunctionsAssumption` and
`TypingAssumption`.

`BlocksProofs` is about sources of any lines and any length and uses no assumption. It
has two inductive invariants. The first, `IInv`, is for `LoopLevelCounts`. The level of the
method on top says nothing about what a `LoopGuard` restores when the body of a
function ends, so it is about the level of every running method: a function that
begins keeps in `old` the level of the methods below it, and a method has built the
guard of a loop or of a function at certain points only, and never both. `NextLevel`
says how a guard changes the level; the actions are steps that go on, call or return
(`GoOnPreserves`, `ReturnPreserves`), but for the two that build a guard (`LoopBegins`,
`FunctionBegins`).

The second, `Standing`, adds `Stands` and proves `TypeOK`, `BlocksNest`, `NothingWithoutError` and
`StatementsInTheirBlock`. One part of it holds on every path, `Formed`: the state has its types,
and every block a method has opened has its indent, at its place (`Nested`, which is
`BlocksNest` said of any stack). The other, `Clean`, holds until the first error. A block
is chosen when a line break is taken, and the statement begins some steps later, when
the indent in front of it has been dropped, so `Clean` has to say what the cache can hold
in between: lines that are whole, with indents before and line breaks after what they
hold (`Lines`); for each point of a method, where in a line the cache may begin and what
has been compared with the indent by then (`Placed`); and that the methods below are
a chain of calls the parser can make, with no part missing (`Called`, `Complete`). The lemmas
on `Ahead` and `Takes` say what is left of such lines when a token is taken with its
spaces or without; there is one lemma for each kind of step (`GoStands`, `CallStands`,
`ReturnStands`, `AssertStands`), and one step of the proof for each action.
`NothingWithoutError` was first stated without its exception, and the proof failed in one place:
where the source ends with the type of a definition (`define x : ()` on the last line),
`WithRecovery` returns nothing although there is no error yet. The definition reports the
`=` that is missing in the next step. The exception `TypeAtEnd` names those states, and
`Forms` now has such a line.

`ScriptProofs` proves the refinement: `Script` implements `Semantics`, for any variables,
commands and bounds and for every program that satisfies `KeptPrograms`. A
definition by recursion over programs is out of the prover's reach, so the
programs are given by the bodies they are made of: `bodies[n]` are sets of bodies with `n`
loops around them, closed in that every statement of such a body is made of
bodies of the same sets. What they leave out is a hypothesis of the theorem and listed
under "Known behaviours": the statements whose translation runs a command twice, too
early, once for all iterations or not at all, or is one bash does not read. A `break` or `continue` names a loop that is around it, which the parser
sees to by its loop level (`LoopLevelCounts`), but for level 0. `MCScript` gives its own bodies, and TLC evaluates that they
satisfy the hypothesis (`ProgramsAreKept`).

The properties of a state of the script are its lines, and `Semantics` has statements; the
inductive invariant `ScriptInv` says how they belong together. The script is `Gen(t)`, the code
of the items `t`: statements, and the loops that are underway with what is left of
them. Or a command has run whose result the first item needs, and the line that uses it
is next (`Pending`): the code before a statement is a step of its own. Each item is one
that may stand there: its jumps leave no more loops than the items behind it
have underway (`Placed`), and a body that is put in front of them keeps this (`PlacedBody`).
`MeantTodo` is then `t`, or what `t` is after the decision the result already makes
(`MeantFreshNext`, `MeantPending`). The steps are in three groups. The step that
runs a command is the step of `Semantics` that evaluates and decides (`NeedingStep`); the
line behind it stutters (`PendingStep`); a line that needs no command is the step of its
statement (`ReadingStep`, one lemma for each line). For `break` and `continue` both sides look for
the loop with a number; the k-th loop of the lines and that of the items are the
same, as a loop that is underway is one line and one item (`ScriptFromLoop`,
`SushiFromLoop`). Below this are lemmas on what `FlattenSeq` gives for a concatenation,
by induction over the naturals as a set without a least element (`AllNumbers`). It uses
`KeptPrograms` and no other assumption but those of `Script`.

Only model-checked: the liveness properties, which are outside what the prover
handles. The invariants that the proofs are by were checked by TLC first, on
the bounds of the runs.

## 5. Not modelled, and the plan

Left out for good: the printing of the syntax tree, the wording of messages, the
templates of `util`, the files and the process the pipeline starts (pure I/O), the
lexemes' characters (the widths of integers with them), the quoting of text in the
script, and the bash helper functions the output relies on. `export`, and arrays of
arrays, are left out of `Typing`, which has one function at a time.

What could follow:

1. `PrecedenceClimb` against the grammar's table of operators, and `TypeExpr`.
2. Paths and comments in `LexerContexts`.
3. Recursive functions in `Script`, with the temporaries of `GenCode` (`call` is the
   finding that they clash).
4. The phases of `TransToSushi` as an abstract specification, which `NameResolution`
   refines.
