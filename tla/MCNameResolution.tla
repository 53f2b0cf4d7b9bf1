-------------------------- MODULE MCNameResolution --------------------------
(* Two identifiers show the shadowing, aliases of functions, and loops over *)
(* other variables.                                                         *)
EXTENDS NameResolution

\* After its first error a program ends soon.
EndsSoonAfterErrors ==
  phase = "scope" /\ errors # {} => Len(program) + Len(scope) < MaxNodes - 1
=============================================================================
