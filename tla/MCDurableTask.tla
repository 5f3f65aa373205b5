--------------------------- MODULE MCDurableTask ----------------------------
(* Instances of DurableTask for TLC. *)
EXTENDS DurableTask

(* An integration in the source tree, and a document on a database          *)
(* migration.                                                               *)
SomeTasks == {[signals |-> {2}, change |-> TRUE, code |-> TRUE],
              [signals |-> {0, 3}, change |-> FALSE, code |-> FALSE]}

AnySelector == [prefix |-> "any", value |-> "default"]
RoleSelector == [prefix |-> "any", value |-> "role"]

WriterRegistry == <<builtin(claude), builtin(codex), builtin(grok)>>
WriterPrefers == <<"grok">>
Writes == {"code", "filesystem", "git"}

(* Executors of plugins that need no checkout, beside one of the CLIs. *)
Plugin(id, provider) ==
  [scripted EXCEPT !.id = id, !.provider = provider, !.capabilities = {"code", "remote"}]
ParallelRegistry ==
  <<[builtin(grok) EXCEPT !.capabilities = @ \cup {"remote"}],
    Plugin("remote-a", "remote-a"), Plugin("remote-b", "remote-b")>>
ParallelPrefers == <<"remote-b">>
Thinks == {"code", "remote"}

(* "unless a headless Codex/managed backend plugin is installed": its id    *)
(* cannot be "codex", which is taken.                                       *)
PluginRegistry ==
  <<builtin(claude), builtin(codex),
    [scripted EXCEPT !.id = "codex-headless", !.provider = "codex"]>>
PluginPrefers == <<"codex">>
=============================================================================
