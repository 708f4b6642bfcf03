---------------------------- MODULE MCPluginRuntime ----------------------------
(***************************************************************************)
(* An instance of PluginRuntime for TLC: one plugin.                       *)
(***************************************************************************)
EXTENDS PluginRuntime

CONSTANTS j1, j2, c1, o1, o2

Nothing == [e \in EventKinds |-> 0]
MCMaxEvents ==
  [Nothing EXCEPT !["due"] = 2, !["trigger"] = 1, !["enable"] = 1, !["disable"] = 1,
                  !["restart"] = 2, !["exit"] = 3, !["reject"] = 1, !["crash"] = 1]
=============================================================================
