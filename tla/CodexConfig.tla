----------------------------- MODULE CodexConfig -----------------------------
(***************************************************************************)
(* internal/codexconfig: what the package computes from a Codex            *)
(* configuration.  A document keeps what those computations look at: the   *)
(* active profile, the three owned keys at the root and in the one profile *)
(* there may be, the providers, and everything else as one value.  A file  *)
(* that is not valid TOML is Garbage, one that is not there is Missing.    *)
(***************************************************************************)
EXTENDS Integers

CONSTANTS
  Names,     \* models, addresses and names of keys there may be in a file
  Absent,    \* a key, table, provider or receipt that is not there
  Missing,   \* no such file
  Garbage,   \* a file that is not valid TOML or JSON
  Refused    \* the computation ended in an error

Managed == "ccodex-sleep-state"
Ids == {"openai", "relay", Managed}

\* Addresses a provider may have.  The last one is not acceptable (plain HTTP to
\* another host), and neither is a provider of another protocol.
Official == "chatgpt.com"
OpenAI == "api.openai.com"
Local == "127.0.0.1"
Acceptable == {Official, OpenAI, Local, "relay.one", "relay.two"}

NoTable == [model |-> Absent, model_provider |-> Absent, openai_base_url |-> Absent]
NoFields == [base_url |-> Absent, requires |-> Absent, env_key |-> Absent]

EmptyDoc ==
  [profile |-> Absent, root |-> NoTable, work |-> Absent,
   providers |-> [id \in Ids |-> Absent], inline |-> FALSE, rest |-> 0]

\* Kinds of values.
Texts == Names \cup {Absent}
Profiles == {Absent, "work"}
Tables == [model : Texts, model_provider : Ids \cup {Absent}, openai_base_url : Texts]
Providers == [base_url : Texts, requires : BOOLEAN \cup {Absent}, env_key : Texts]
Docs ==
  [profile : Profiles, root : Tables, work : Tables \cup {Absent},
   providers : [Ids -> Providers \cup {Absent}], inline : BOOLEAN, rest : Nat]
Contents == Docs \cup {Missing, Garbage}

\* What a transaction was made from and to (Manifest).
Receipts == [before : Docs \cup {Missing}, installed : Docs, profile : Profiles]

\* What Codex sends to (ProviderSelection).
Selections ==
  [profile : Profiles, id : Ids, upstream : Acceptable, official : BOOLEAN,
   env_key : Texts, requires : BOOLEAN, kind : {"chatgpt", "api_key"}]

ASSUME NamesAssumption == Acceptable \subseteq Names

\* The marks are none of those values, and differ.
Marks == {Absent, Missing, Garbage, Refused}
ASSUME MarksAssumption ==
  /\ \A mark \in Marks :
       /\ mark \notin Names \cup Ids /\ mark \notin BOOLEAN
       /\ mark \notin Tables /\ mark \notin Providers /\ mark \notin Docs
       /\ mark \notin Receipts /\ mark \notin Selections
  /\ Absent \notin {Missing, Garbage, Refused}
  /\ Missing \notin {Garbage, Refused} /\ Garbage # Refused

\* digest: a file that is not there reads as an empty one.
Bytes(file) == IF file = Missing THEN EmptyDoc ELSE file

OrElse(x, y) == IF x = Absent THEN y ELSE x

-----------------------------------------------------------------------------
(* Documents *)

SelectedTable(doc, profile) ==
  IF profile = Absent THEN doc.root ELSE OrElse(doc.work, NoTable)

WithTable(doc, profile, t) ==
  IF profile = Absent THEN [doc EXCEPT !.root = t] ELSE [doc EXCEPT !.work = t]

\* What Codex uses: the profile's keys before those at the root.
Overlay(doc, profile) ==
  [key \in DOMAIN NoTable |-> OrElse(SelectedTable(doc, profile)[key], doc.root[key])]

ReferencesManaged(doc) ==
  \/ doc.root.model_provider = Managed
  \/ doc.work # Absent /\ doc.work.model_provider = Managed

-----------------------------------------------------------------------------
(* Authentication: the category of auth.json.  Of it are kept the key and the tokens,  *)
(* "set" or "none" (blank counts as none), and the declared mode; "bad" is unreadable. *)

\* Mutant: the first credential found decides.
ClassifyFirst(auth) ==
  IF auth = Garbage THEN "ambiguous"
  ELSE IF auth.key = "set" THEN "api_key"
  ELSE IF auth.tokens = "set" THEN "chatgpt" ELSE "unknown"

ClassifyAuth(auth) ==
  IF auth = Garbage THEN "ambiguous"
  ELSE LET key == auth.key = "set"
           oauth == auth.tokens = "set"
           unreadable == "bad" \in {auth.key, auth.tokens, auth.declared}
       IN IF unreadable \/ (key /\ oauth) THEN "ambiguous"
          ELSE IF key
               THEN IF auth.declared \in {"none", "apikey"} THEN "api_key" ELSE "ambiguous"
               ELSE IF oauth
                    THEN IF auth.declared \in {"none", "chatgpt"} THEN "chatgpt" ELSE "ambiguous"
                    ELSE "unknown"

\* A login kept elsewhere (keychain) leaves no file.
ReadAuthMode(auth) == IF auth = Missing THEN "unknown" ELSE ClassifyAuth(auth)

-----------------------------------------------------------------------------
(* Endpoint and credential of the selected provider *)

\* Mutant: a relay may ask for the login of the account.
ResolveTrusting(file, wanted, mode) ==
  IF file = Garbage THEN Refused
  ELSE LET doc == Bytes(file)
           profile == OrElse(wanted, doc.profile)
           table == Overlay(doc, profile)
           id == OrElse(table.model_provider, "openai")
           fields == OrElse(doc.providers[id], NoFields)
           upstream == OrElse(OrElse(fields.base_url, table.openai_base_url),
                              IF id = "openai" THEN Official ELSE Absent)
       IN IF id = Managed \/ upstream \notin Acceptable THEN Refused
          ELSE [profile |-> profile, id |-> id, upstream |-> upstream,
                official |-> upstream = Official, env_key |-> fields.env_key,
                requires |-> OrElse(fields.requires, id = "openai"),
                kind |-> IF OrElse(fields.requires, id = "openai") /\ mode # "api_key"
                         THEN "chatgpt" ELSE "api_key"]

\* ResolveWithAuth.
Resolve(file, wanted, mode) ==
  IF file = Garbage THEN Refused
  ELSE LET doc == Bytes(file)
           profile == OrElse(wanted, doc.profile)
           table == Overlay(doc, profile)
           id == OrElse(table.model_provider, "openai")
           defined == doc.providers[id] # Absent
           fields == OrElse(doc.providers[id], NoFields)
           default == IF id # "openai" THEN Absent
                      ELSE IF mode = "api_key" THEN OpenAI ELSE Official
           upstream == OrElse(OrElse(fields.base_url, table.openai_base_url), default)
           official == upstream = Official
           requires == OrElse(fields.requires, id = "openai" /\ (official \/ mode = "api_key"))
           refused ==
             \/ profile # Absent /\ doc.work = Absent
             \/ id = Managed
             \/ ~defined /\ id # "openai"
             \/ upstream \notin Acceptable
             \/ /\ id = "openai" /\ ~official /\ mode # "api_key"
                /\ fields.requires = Absent /\ fields.env_key = Absent
             \/ requires /\ ~official /\ mode # "api_key"
             \/ requires /\ mode = "ambiguous"
       IN IF refused THEN Refused
          ELSE [profile |-> profile, id |-> id, upstream |-> upstream,
                official |-> official, env_key |-> fields.env_key, requires |-> requires,
                kind |-> IF requires /\ mode # "api_key" THEN "chatgpt" ELSE "api_key"]

-----------------------------------------------------------------------------
(* Installing and undoing *)

\* PatchWithOptions: base is the address of the service, model Absent when the
\* model is preserved, expected the document the caller resolved, if it did.  A
\* providers table written inline takes no further entry.
Patch(file, base, wanted, mode, model, expected) ==
  LET selected == Resolve(file, wanted, mode)
      doc == Bytes(file)
  IN IF \/ expected # Absent /\ doc # expected
        \/ selected = Refused
     THEN Refused
     ELSE IF ReferencesManaged(doc) \/ doc.providers[Managed] # Absent \/ doc.inline
     THEN Refused
     ELSE LET t == SelectedTable(doc, selected.profile)
              table == [t EXCEPT !.model = OrElse(model, @),
                                 !.model_provider = Managed,
                                 !.openai_base_url = base]
              provider == [base_url |-> base, requires |-> selected.requires,
                           env_key |-> selected.env_key]
          IN [WithTable(doc, selected.profile, table) EXCEPT !.providers[Managed] = provider]

\* Mutant: only what the service wrote is guarded.
OwnershipOfOurs(original, installed, current, profile) ==
  /\ current # Garbage
  /\ current.profile = installed.profile
  /\ SelectedTable(current, profile) = SelectedTable(installed, profile)
  /\ current.providers[Managed] = installed.providers[Managed]

\* checkOwnership: no error.
CheckOwnership(original, installed, current, profile) ==
  /\ current # Garbage
  /\ current.profile = installed.profile
  /\ SelectedTable(current, profile) = SelectedTable(installed, profile)
  /\ current.providers[Managed] = installed.providers[Managed]
  /\ LET before == SelectedTable(original, profile)
         id == OrElse(OrElse(before.model_provider, original.root.model_provider), "openai")
     IN /\ profile # Absent =>
             \A key \in {"model_provider", "openai_base_url"} :
               before[key] = Absent => current.root[key] = installed.root[key]
        /\ current.providers[id] = installed.providers[id]

\* locateSettings: our provider can be cut out of the text, unless the providers
\* were rewritten as one inline table.
Locatable(doc) == doc.providers[Managed] = Absent \/ ~doc.inline

\* Mutant: a setting the user has changed meanwhile is put back as well.
MergeAll(original, installed, current, profile, preserve) ==
  IF current = Garbage THEN Refused
  ELSE [WithTable(current, profile, SelectedTable(original, profile))
          EXCEPT !.providers[Managed] = Absent]

\* mergeRestore: of the settings that still are what was installed, each becomes
\* what it was before.
MergeRestore(original, installed, current, profile, preserve) ==
  IF current = Garbage THEN Refused
  ELSE LET a == SelectedTable(current, profile)
           b == SelectedTable(original, profile)
           e == SelectedTable(installed, profile)
           managed == current.providers[Managed]
           ours == {key \in DOMAIN a : a[key] = e[key]}
           merged == [key \in DOMAIN a |-> IF key \in ours THEN b[key] ELSE a[key]]
           result == [(IF merged = a THEN current ELSE WithTable(current, profile, merged))
                        EXCEPT !.providers[Managed] = Absent]
       IN IF \/ managed # Absent /\ managed # installed.providers[Managed]
             \/ ~Locatable(current)
             \/ ~preserve /\ ours # DOMAIN a
             \/ ReferencesManaged(result)
          THEN Refused ELSE result

\* PatchMissingEndpoint: the relay's address, when that is all that is missing.
PatchMissingEndpoint(file, wanted, endpoint, mode) ==
  IF file = Garbage THEN Refused
  ELSE LET doc == Bytes(file)
           profile == OrElse(wanted, doc.profile)
           id == OrElse(Overlay(doc, profile).model_provider, "openai")
       IN IF \/ id \in {"openai", Managed}
             \/ doc.providers[id] = Absent
             \/ doc.inline
          THEN Refused
          ELSE LET result == [doc EXCEPT !.providers[id].base_url = endpoint]
               IN IF \/ doc.providers[id].base_url # Absent
                     \/ Resolve(result, profile, mode) = Refused
                  THEN Refused ELSE result
=============================================================================
