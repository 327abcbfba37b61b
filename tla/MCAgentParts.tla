---------------------------- MODULE MCAgentParts ----------------------------
(* A small instance of AgentParts; the values of each part are listed in   *)
(* the README.                                                             *)
EXTENDS AgentParts

\* Delegation: root spawns a1 and a2, a1, in meta mode, a3 and a4; a4 may not
\* spawn a5.
AParent == "a1" :> "root" @@ "a2" :> "root" @@ "a3" :> "a1" @@ "a4" :> "a1" @@ "a5" :> "a4"
Mock(form, sticky, fixtures) ==
    [form |-> form, sticky |-> sticky, fixtures |-> fixtures, on_no_match |-> "error"]
AMocks == "x" :> Mock("list", <<FALSE, TRUE, FALSE>>, 0) @@ "y" :> Mock("list", <<FALSE>>, 0)
          @@ "z" :> Mock("semantic", <<>>, 1)

\* SharedTools: two agents that sign with the same empty name.
ASignature == "a" :> "a" @@ "c" :> "" @@ "d" :> ""

\* ToolSurface: the reviewer, its investigator, and a kind in meta mode.
ABaseTools == "rev" :> {"reflect", "done", "agent_spawn"} @@ "inv" :> {"done"} @@ "met" :> {"done", "agent_await"}
AUserTools == "rev" :> {"agent_await"} @@ "inv" :> {"reflect"} @@ "met" :> {"agent_spawn"}

\* AgentLoop: the model answers with one or two calls of every shape.
Plain(body) == [shape |-> "plain", body |-> body]
Shaped(shape) == [shape |-> shape, body |-> "valid"]
CallOf(tool, args) == [tool |-> tool, args |-> args]

Search == CallOf("search", Plain("valid"))
Reflect == CallOf("reflect", Plain("valid"))
BadReflect == CallOf("reflect", Plain("missing"))
DoneOf(args) == CallOf("done", args)

MCReply ==
    {<<Search>>, <<Search, Search>>, <<Reflect>>, <<Reflect, Search>>, <<BadReflect, Search>>,
     <<CallOf("reflect", Shaped("broken"))>>,
     <<Search, Reflect>>, <<CallOf("agent_spawn", Plain("valid"))>>,
     <<DoneOf(Plain("valid"))>>, <<DoneOf(Plain("missing"))>>, <<DoneOf(Shaped("broken"))>>,
     <<Search, DoneOf(Shaped("truncated"))>>, <<DoneOf(Shaped("stringified"))>>,
     <<CallOf("answer", Shaped("broken"))>>, <<CallOf("answer", Plain("valid"))>>}

MCUsage == {[prompt |-> 1, paid |-> 1], [prompt |-> 2, paid |-> 2]}
MCChain == <<"truncated_json", "over_escaped_keys", "python_literals", "stringified_args">>
==============================================================================
