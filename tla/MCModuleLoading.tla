---------------------------- MODULE MCModuleLoading ---------------------------
(***************************************************************************)
(* Two files; an application and a library that it depends on, the library *)
(* in two versions, one with a dependency of its own, and in one that      *)
(* depends on the application; an application that depends on both.        *)
(***************************************************************************)
EXTENDS ModuleLoading

CONSTANTS app, lib, base, f, g

Meta(n, v, d) == [name |-> n, version |-> v, needs |-> d]
Need(n, vs) == [name |-> n, versions |-> vs]

OldLib == Meta(lib, 1, {})
NewLib == Meta(lib, 2, {Need(base, {1})})
Loop == Meta(lib, 1, {Need(app, {1})})
App == Meta(app, 1, {Need(lib, {1, 2})})
Top == Meta(app, 2, {Need(lib, {1, 2}), Need(base, {1})})
Base == Meta(base, 1, {})

MCMetas == {OldLib, NewLib, Loop, App, Top, Base}

MCCatalogues == {{App, NewLib, Base}, {App, OldLib, NewLib, Base},
                 {Top, NewLib, Base}}
=============================================================================
