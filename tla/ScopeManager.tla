---------------------------- MODULE ScopeManager ----------------------------
(***************************************************************************)
(* The name generator of the code generator: class ScopeManager of         *)
(* include/sushi/code-generation/scope-manager.h.                          *)
(*                                                                         *)
(* A bash name is a record [id, num].  For an identifier x of the program  *)
(* num = -1 is the plain name "x" and any other num is "x_scope_<num>".    *)
(* For a temporary only num is kept: -1 is "_sushi_t_", any other number   *)
(* is "_sushi_t_<num>_".                                                   *)
(*                                                                         *)
(* origin_name_to_int is one map from strings to counters.  Its entry      *)
(* "_sushi_t_" is the field temp, and its entries for the identifiers of   *)
(* the program are the fields known (which keys exist) and count.  Unset   *)
(* also creates entries under generated names; nothing ever reads those    *)
(* back, so they are left out.  Identifiers that are spelled like a        *)
(* generated name are left out too.                                        *)
(***************************************************************************)
EXTENDS Integers

CONSTANT Ident          \* the identifiers the program defines

Plain == -1

Name == [id : Ident, num : Int]

Manager == [temp : Int, known : SUBSET Ident, count : [Ident -> Int]]

\* ScopeManager(): only "_sushi_t_" has an entry.
NewManager == [temp |-> -1, known |-> {}, count |-> [x \in Ident |-> 0]]

\* GetNewTemp: the name handed out, and the manager afterwards.
NewTemp(m) == m.temp

\* Mutant: the plain name does not count, as in GetNewName.
AfterTemp_PlainFree(m) == IF m.temp = Plain THEN m ELSE [m EXCEPT !.temp = @ + 1]

AfterTemp(m) == [m EXCEPT !.temp = @ + 1]

\* Mutant: the name is built from the prefix of the temporaries.
NewName_TempPrefix(m, x) ==
  [id |-> "_sushi_t_", num |-> IF x \in m.known THEN m.count[x] ELSE Plain]

\* GetNewName: a first definition and a counter of -1 give the plain name and
\* leave the counters alone; any other counter is used and incremented.
NewName(m, x) == [id |-> x, num |-> IF x \in m.known THEN m.count[x] ELSE Plain]

AfterName(m, x) ==
  IF NewName(m, x).num = Plain THEN m ELSE [m EXCEPT !.count[x] = @ + 1]

\* Mutant: one decrement per block, whatever it unsets.
Unset_EveryBlock(m, temps, names) == [m EXCEPT !.temp = @ - 1]

\* Unset, called once for every name of a block's new_ids: temps and names are
\* that set.  Only "_sushi_t_" and plain names reach a counter that is read;
\* a key that is missing starts from 0.
Unset(m, temps, names) ==
  LET plain == {n.id : n \in {n \in names : n.num = Plain}}
  IN  [temp  |-> IF Plain \in temps THEN m.temp - 1 ELSE m.temp,
       known |-> m.known \cup plain,
       count |-> [x \in Ident |->
                    IF x \in plain THEN m.count[x] - 1 ELSE m.count[x]]]
=============================================================================
