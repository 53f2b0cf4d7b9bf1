------------------------------- MODULE Scopes -------------------------------
(***************************************************************************)
(* Lexical scopes: class Scope of include/sushi/scope/scope.h.             *)
(*                                                                         *)
(* A scope is named by the path of the blocks around it, outermost first,  *)
(* so its outer scope is the path without its last element and the scope   *)
(* of the whole program is <<>>.  bindings_ of all scopes together is a    *)
(* set of pairs <<scope, identifier>>; the pair stands for the IdentInfo,  *)
(* whose defined_scope is the scope it is in.                              *)
(***************************************************************************)
EXTENDS Integers, Sequences

TopScope == <<>>

\* No block has number 0: the null pointer of a LookUp that finds nothing.
NoScope == <<0>>

\* The scope that is n blocks deep on the path s.
Outward(s, n) == SubSeq(s, 1, n)

Resolves(bindings, s, x) ==
  \E n \in 0 .. Len(s) : <<Outward(s, n), x>> \in bindings

\* LookUp: the innermost scope on the path that binds x.
LookUp(bindings, s, x) ==
  IF Resolves(bindings, s, x)
  THEN Outward(s, CHOOSE n \in 0 .. Len(s) :
                    /\ <<Outward(s, n), x>> \in bindings
                    /\ \A m \in n + 1 .. Len(s) :
                         <<Outward(s, m), x>> \notin bindings)
  ELSE NoScope
=============================================================================
