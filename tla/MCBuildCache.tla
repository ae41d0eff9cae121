---------------------------- MODULE MCBuildCache ----------------------------
(***************************************************************************)
(* Small workspaces for the model checker: a script that imports another,  *)
(* and may specialize a template of it; two scripts that import each       *)
(* other; a chain of three.                                                *)
(***************************************************************************)
EXTENDS BuildCache, TLC

CONSTANTS main, lib, base, inst

Two == {main, lib}
Three == {main, lib, base}
OnlyLib == {lib}
NoTemplate == {}
OneTemplate == {inst}
NoOrigin == [t \in {} |-> main]
LibOrigin == [t \in {inst} |-> lib]

AllQualities == {"sound", "unparsable", "ill_typed"}
Sound == {"sound"}

Imports(a, b) == (main :> a) @@ (lib :> b)
SmallGraphs == {Imports(<<lib>>, <<>>), Imports(<<lib>>, <<main>>), Imports(<<lib, inst>>, <<>>)}
PlainGraphs == {Imports(<<lib>>, <<>>), Imports(<<lib>>, <<main>>)}
LongChain == {(main :> <<lib>>) @@ (lib :> <<base>>) @@ (base :> <<>>)}
=============================================================================
