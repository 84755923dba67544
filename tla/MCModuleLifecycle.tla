-------------------------- MODULE MCModuleLifecycle --------------------------
(* Model-checking instance of ModuleLifecycle: a chain with a synthetic    *)
(* module at its end, two roots that share their imports, a cycle.         *)
EXTENDS ModuleLifecycle, TLC

CONSTANTS a, b, c, s

GraphShapes ==
  { (a :> {b} @@ b :> {c} @@ c :> {s} @@ s :> {}),
    (a :> {b, s} @@ b :> {} @@ c :> {b, s} @@ s :> {}),
    (a :> {b} @@ b :> {c} @@ c :> {b, s} @@ s :> {}) }
=============================================================================
