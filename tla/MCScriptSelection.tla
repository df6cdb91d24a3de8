------------------------- MODULE MCScriptSelection -------------------------
(***************************************************************************)
(* ScriptSelection for model checking: a stack with three candidates for   *)
(* order 1 and two for order 2, one of them a YAML file of four contents,  *)
(* and a library directory with YAML files of its own.                     *)
(***************************************************************************)
EXTENDS ScriptSelection

Plain(dir, name, order, quals) ==
  [dir |-> dir, name |-> name, order |-> order, quals |-> quals,
   yaml |-> FALSE, lists |-> << >>, path |-> << >>]

Yaml(dir, name, order, quals, lists) ==
  [dir |-> dir, name |-> name, order |-> order, quals |-> quals,
   yaml |-> TRUE, lists |-> lists, path |-> <<"lib">>]

MCFiles ==
  {Plain("stack", 1, 1, {"a", "b"}), Plain("stack", 2, 1, {"a"}), Plain("stack", 3, 1, {}),
   Plain("stack", 4, 2, {"b"}), Plain("lib", 2, -1, {}), Plain("lib", 6, -1, {})}
  \cup {Yaml("stack", 5, 2, {}, l) : l \in {<<6>>, <<7>>, <<2, 6>>, <<5>>}}
  \cup {Yaml("lib", 7, -1, {}, l) : l \in {<<6, 2>>, <<5>>, <<8>>}}
  \cup {Yaml("lib", 8, -1, {}, <<6, 6>>)}

MCPlugins == {{}, {"a"}, {"a", "b"}}
=============================================================================
