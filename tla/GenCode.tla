------------------------------ MODULE GenCode ------------------------------
(***************************************************************************)
(* How CodeGenerator::GenCode and the visitors it starts hand out bash     *)
(* names while they walk the blocks of a program, and what the script they *)
(* write does with these names.                                            *)
(*                                                                         *)
(* The walk is recursive: a StmtVisitor that meets a block calls GenCode   *)
(* for it with the same ScopeManager.  frames is the stack of these        *)
(* activations.  The program is whatever the walk meets: each action is    *)
(* one node of it, chosen among those the earlier passes accept.           *)
(***************************************************************************)
EXTENDS ScopeManager, Sequences

CONSTANTS
  MaxDepth,    \* bound on the nesting of blocks
  MaxBlocks,   \* bound on the blocks of a program
  MaxTemps     \* bound on the counter of temporaries

ASSUME BoundsAssumption ==
  MaxDepth \in Nat \ {0} /\ MaxBlocks \in Nat \ {0} /\ MaxTemps \in Nat

VARIABLES
  manager,     \* the ScopeManager all activations share
  frames,      \* the GenCode activations, outermost first
  live,        \* the temporaries handed out inside the open blocks, in order
  opened       \* how many blocks were opened

vars == <<manager, frames, live, opened>>

-----------------------------------------------------------------------------
(***************************************************************************)
(* An activation of GenCode.                                               *)
(*   func      the block is the body of a function                         *)
(*   names     the rows of new_names_map for the scope of the block: the   *)
(*             name of each identifier defined in it                         *)
(*   temps,    GenCode's new_ids: the temporaries and the names of         *)
(*   ids       identifiers that are unset at the end of the block.  The    *)
(*             visitors collect them and GenCode merges them after each    *)
(*             statement, always before it unsets them.                    *)
(*   base      how many temporaries were live when the block began         *)
(*   stmt      the same for the current statement                          *)
(*   assigned  the temporaries the block assigns without "local"           *)
(*   callees   what each function defined in the block assigns so          *)
(***************************************************************************)
TempId == Int

FrameType(n) ==
  [func : BOOLEAN, names : SUBSET Name, temps : SUBSET TempId, ids : SUBSET Name,
   base : 0 .. n, stmt : 0 .. n,
   assigned : SUBSET TempId, callees : SUBSET SUBSET TempId]

Open(func, names) ==
  [func |-> func, names |-> names, temps |-> {}, ids |-> {},
   base |-> Len(live), stmt |-> Len(live), assigned |-> {}, callees |-> {}]

Top == frames[Len(frames)]
SetTop(f) == [frames EXCEPT ![Len(frames)] = f]
InFunction == \E d \in DOMAIN frames : frames[d].func

Defined(f, x) == \E n \in f.names : n.id = x

Init ==
  /\ manager = NewManager
  /\ live = <<>>
  /\ frames = <<Open(FALSE, {})>>
  /\ opened = 1

-----------------------------------------------------------------------------
(***************************************************************************)
(* Temporaries.  GetNewTemp adds one; keep says whether the visitor puts   *)
(* it into new_ids, bare whether the template assigns it without "local".  *)
(***************************************************************************)
GetNewTemp(keep, bare) ==
  /\ frames # <<>>
  /\ manager.temp < MaxTemps
  /\ LET t == NewTemp(manager)
     IN  /\ live' = Append(live, t)
         /\ frames' = SetTop([Top EXCEPT
                        !.temps = IF keep THEN @ \cup {t} ELSE @,
                        !.assigned = IF bare /\ InFunction
                                     THEN @ \cup {t} ELSE @])
  /\ manager' = AfterTemp(manager)
  /\ UNCHANGED opened

\* Literals, calls and commands, arithmetic, maps: kept and local.
LocalTemp == GetNewTemp(TRUE, FALSE)

\* Unary operators, comparisons, "and" and "or": kept, assigned bare.
BareTemp == GetNewTemp(TRUE, TRUE)

\* The expressions of an interpolation, and whatever the two sides of an
\* indexing need: dropped from new_ids.
DroppedTemp == \E bare \in BOOLEAN : GetNewTemp(FALSE, bare)

-----------------------------------------------------------------------------
(***************************************************************************)
(* Statements.                                                             *)
(***************************************************************************)
\* Assignment, Expression, ReturnStmt, and the conditions of the others.
Statement ==
  /\ frames # <<>>
  /\ Top.stmt # Len(live)
  /\ frames' = SetTop([Top EXCEPT !.stmt = Len(live)])
  /\ UNCHANGED <<manager, live, opened>>

\* The frame after a definition: new_names_map gets the name, and new_ids too
\* unless the definition is exported.
Define(n, export) ==
  [Top EXCEPT !.stmt = Len(live), !.names = @ \cup {n},
              !.ids = IF export THEN @ ELSE @ \cup {n}]

\* VariableDef: the name is made before the value is visited; an exported
\* variable is not unset.
VariableDef(x, export) ==
  /\ frames # <<>>
  /\ ~Defined(Top, x)
  /\ frames' = SetTop(Define(NewName(manager, x), export))
  /\ manager' = AfterName(manager, x)
  /\ UNCHANGED <<live, opened>>

CanOpen == frames # <<>> /\ Len(frames) < MaxDepth /\ opened < MaxBlocks

\* FunctionDef: a name for the function, one for its parameter (if it has one)
\* in the scope of the body, then GenCode on the body with the same manager.
FunctionDef(f, params, export) ==
  /\ CanOpen
  /\ ~Defined(Top, f)
  /\ LET n == NewName(manager, f)
         m == AfterName(manager, f)
     IN  /\ frames' = Append(SetTop(Define(n, export)),
                             Open(TRUE, {NewName(m, p) : p \in params}))
         /\ manager' = [m EXCEPT !.count =
                          [p \in Ident |-> IF p \in params
                                           THEN AfterName(m, p).count[p]
                                           ELSE m.count[p]]]
  /\ opened' = opened + 1
  /\ UNCHANGED live

\* A body of IfStmt, of a case of SwitchStmt or of a ForStmt with a condition.
OpenBlock ==
  /\ CanOpen
  /\ frames' = Append(frames, Open(FALSE, {}))
  /\ opened' = opened + 1
  /\ UNCHANGED <<manager, live>>

\* ForStmt over a range: the loop variable is named in the scope of the body,
\* but it is the enclosing block that unsets it.
OpenRangeLoop(x) ==
  /\ CanOpen
  /\ LET n == NewName(manager, x)
     IN  frames' = Append(SetTop([Top EXCEPT !.ids = @ \cup {n}]),
                          Open(FALSE, {n}))
  /\ manager' = AfterName(manager, x)
  /\ opened' = opened + 1
  /\ UNCHANGED live

-----------------------------------------------------------------------------
(***************************************************************************)
(* The end of a block: every name of new_ids is unset, in the script and   *)
(* in the manager.                                                         *)
(***************************************************************************)
Leave(outer, inner) ==
  IF inner.func THEN [outer EXCEPT !.callees = @ \cup {inner.assigned}]
                ELSE [outer EXCEPT !.assigned = @ \cup inner.assigned]

CloseBlock ==
  /\ frames # <<>>
  /\ manager' = Unset(manager, Top.temps, Top.ids)
  /\ live' = SubSeq(live, 1, Top.base)
  /\ frames' = LET rest == SubSeq(frames, 1, Len(frames) - 1)
               IN  IF rest = <<>> THEN rest
                   ELSE [rest EXCEPT ![Len(rest)] = Leave(@, Top)]
  /\ UNCHANGED opened

Next ==
  \/ LocalTemp \/ BareTemp \/ DroppedTemp
  \/ Statement
  \/ \E x \in Ident, export \in BOOLEAN : VariableDef(x, export)
  \/ \E f \in Ident, params \in SUBSET Ident, export \in BOOLEAN :
       FunctionDef(f, params, export)
  \/ OpenBlock
  \/ \E x \in Ident : OpenRangeLoop(x)
  \/ CloseBlock

Spec == Init /\ [][Next]_vars

-----------------------------------------------------------------------------
(***************************************************************************)
(* Properties.                                                             *)
(***************************************************************************)
\* Every variable has its type, and what a frame remembers of live fits it.
TypeOK ==
  /\ manager \in Manager
  /\ live \in Seq(TempId)
  /\ frames \in Seq(FrameType(Len(live)))
  /\ opened \in Nat

\* Two temporaries handed out inside open blocks never have the same name: the
\* value a statement keeps in one survives the code of every expression and
\* block nested in it, although Unset gives "_sushi_t_" back to the counter.
LiveTempsDistinct == \A i, j \in DOMAIN live : i # j => live[i] # live[j]

\* The counter never drops below -1, where GetNewTemp would write a name with a
\* minus sign in it, which bash does not take: Unset lowers it at most once
\* for each time "_sushi_t_" was handed out.
TempNamesWellFormed == manager.temp >= -1

\* The inductive invariant behind the two: live temporaries are numbered in the
\* order they were handed out and below the counter, the spans of the open
\* blocks in live are nested, and the block that will give "_sushi_t_" back owns
\* the first live temporary, so that nothing is live once it has closed.
LiveSorted == \A i, j \in 1 .. Len(live) : i < j => live[i] < live[j]

LiveBelowCounter ==
  \A i \in 1 .. Len(live) : Plain <= live[i] /\ live[i] < manager.temp

SpansNested ==
  /\ \A d \in 1 .. Len(frames) : frames[d].base <= frames[d].stmt
  /\ \A d, e \in 1 .. Len(frames) : d < e => frames[d].stmt <= frames[e].base

PlainOwnedByFirst ==
  \A d \in 1 .. Len(frames) : Plain \in frames[d].temps =>
    /\ live # <<>> /\ frames[d].base = 0
    /\ \A e \in d + 1 .. Len(frames) : frames[e].base >= 1

TempDiscipline ==
  /\ TempNamesWellFormed
  /\ LiveSorted /\ LiveBelowCounter
  /\ SpansNested
  /\ PlainOwnedByFirst

\* "If there are identifiers having the same name, sushi will translate them
\* into different names": a definition does not get the bash name of one that
\* is visible around it, in the same function.
ShadowedNamesDiffer ==
  \A d, e \in DOMAIN frames :
    d < e /\ (\A k \in d + 1 .. e : ~frames[k].func) =>
      frames[d].names \cap frames[e].names = {}

\* "variables are scoped by bash": what a function assigns when it is called
\* from the current statement is no temporary this statement is using.
CallSparesTemps ==
  frames # <<>> =>
    \A d \in DOMAIN frames : \A assigned \in frames[d].callees :
      \A i \in Top.stmt + 1 .. Len(live) : live[i] \notin assigned
=============================================================================
