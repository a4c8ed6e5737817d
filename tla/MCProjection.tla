---------------------------- MODULE MCProjection ----------------------------
(* Small instances of Projection: two folders of one identity whose callers *)
(* disagree about the second decision, the owner of a newer schema, and one *)
(* of another repository.                                                   *)
EXTENDS Projection, TLC

CONSTANTS a, b, c, d, d1, d2, x2, here, there

Id(source, schema) == [source |-> source, schema |-> schema, build |-> "current"]

Owners == (a :> Id(here, 1)) @@ (b :> Id(here, 1)) @@ (c :> Id(here, 2)) @@ (d :> Id(there, 2))
Histories == (a :> <<d1, d2>>) @@ (b :> <<d1, x2>>) @@ (c :> <<d1>>) @@ (d :> << >>)
==============================================================================
