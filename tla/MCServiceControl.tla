--------------------------- MODULE MCServiceControl ---------------------------
EXTENDS ServiceControl

Provider(base, requires, key) == [base_url |-> base, requires |-> requires, env_key |-> key]
Relayed == [EmptyDoc EXCEPT !.root.model_provider = "relay"]

\* A login of its own, a relay with a key, one that wants the login, one without an
\* address, and a profile that inherits the provider at the root.
Plain == [EmptyDoc EXCEPT !.root.model = "mine"]
Keyed == [Relayed EXCEPT !.providers["relay"] = Provider("relay.one", FALSE, "KEY")]
Trusted == [Relayed EXCEPT !.providers["relay"] = Provider("relay.one", TRUE, Absent)]
Homeless == [Relayed EXCEPT !.providers["relay"] = Provider(Absent, FALSE, "KEY")]
Profiled == [Keyed EXCEPT !.profile = "work", !.work = [NoTable EXCEPT !.model = "mine"]]

MCOriginals == {Plain, Trusted, Homeless, Profiled}
Chatgpt == [key |-> "none", tokens |-> "set", declared |-> "chatgpt"]
Key == [key |-> "set", tokens |-> "none", declared |-> "none"]
Both == [key |-> "set", tokens |-> "set", declared |-> "none"]
MCLogins == {Chatgpt, Key, Both}
MCNames == Acceptable \cup {"mine", "other", "astra", "sol", "KEY", "OTHER", Base}

\* What the theorem about KeepsPromise supposes holds here.
ASSUME OwnModelsHold == OwnModels
=============================================================================
