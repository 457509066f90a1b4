----------------------------- MODULE MCRecorder -----------------------------
EXTENDS Recorder

Relayed == [EmptyDoc EXCEPT !.root.model_provider = "relay",
                            !.providers["relay"] =
                              [base_url |-> "relay.one", requires |-> FALSE, env_key |-> "KEY"]]

Profiled == [Relayed EXCEPT !.profile = "work", !.work = NoTable]
Chatgpt == [key |-> "none", tokens |-> "set", declared |-> "chatgpt"]
Key == [key |-> "set", tokens |-> "none", declared |-> "none"]

\* A login of its own, and a profile that inherits a relay with a key.
MCHomes == {<<EmptyDoc, Chatgpt>>, <<Profiled, Key>>}
MCNames == Acceptable \cup {"other", "KEY", "OTHER", Base}
=============================================================================
