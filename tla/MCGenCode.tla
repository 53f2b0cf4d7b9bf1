----------------------------- MODULE MCGenCode -----------------------------
(* One identifier is enough to reuse a name in nested and sibling blocks.   *)
EXTENDS GenCode
=============================================================================
