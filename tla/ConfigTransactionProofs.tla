----------------------- MODULE ConfigTransactionProofs -----------------------
(***************************************************************************)
(* Lemmas about the Codex configuration (CodexConfig) and the transaction  *)
(* that changes it (ConfigTransaction), for the programs that use them:    *)
(* what Patch, MergeRestore and UserPart do to a document, and the         *)
(* invariant TxInv that each operation and each access preserves, whoever  *)
(* calls it: a receipt is there whenever something of a program may be in  *)
(* the file, and says how to take it out.                                  *)
(***************************************************************************)
EXTENDS ConfigTransaction, TLAPS

Keys == {"model", "model_provider", "openai_base_url"}

\* The table that is not the selected one holds no address of the service and does not
\* refer to it.
Aside(file, profile) ==
  file \in Docs =>
    IF profile = Absent
    THEN file.work # Absent =>
           file.work.openai_base_url # Base /\ file.work.model_provider # Managed
    ELSE file.root.openai_base_url # Base /\ file.root.model_provider # Managed

\* A receipt of an installation: what was installed is what was there, but for the
\* selected table and our provider.
ReceiptOK(r) ==
  /\ r \in Receipts
  /\ ~Ours(r.before)
  /\ r.profile # Absent => Bytes(r.before).work # Absent
  /\ LET put == SelectedTable(r.installed, r.profile)
         provider == r.installed.providers[Managed]
     IN /\ put.model_provider = Managed /\ put.openai_base_url = Base
        /\ put.model = Absent => SelectedTable(Bytes(r.before), r.profile).model = Absent
        /\ provider # Absent
        /\ r.installed = [WithTable(Bytes(r.before), r.profile, put)
                            EXCEPT !.providers[Managed] = provider]

Installing == {"backup", "journal", "compare", "write"}
Replacing == {"archive", "recompare", "replace"}
Undoing == {"restore", "keep_current", "restore_backup"}

TxTypes ==
  /\ target \in Contents
  /\ intact \in BOOLEAN /\ failed \in BOOLEAN /\ raced \in BOOLEAN
  /\ step \in {"done", "unjournal"} \cup Installing \cup Replacing
  /\ edits \in 0..MaxEdits /\ faults \in 0..MaxFaults

\* A receipt is there while something of a program may be in the file.
Receipted ==
  /\ journal = Absent => ~Ours(target)
  /\ journal # Absent => ReceiptOK(journal) /\ Aside(target, journal.profile)

\* What the transaction under way has in memory at each access.
UnderWay ==
  /\ step = "done" => op = "none"
  /\ step \in Installing => op = "install" /\ ReceiptOK(made) /\ read = made.before
  /\ step \in {"backup", "journal"} => journal = Absent
  /\ step \in {"compare", "write"} => journal = made
  /\ step \in Replacing =>
       /\ op \in Undoing \cup {"rebuild"}
       /\ made \in Docs \cup {Missing} /\ ~Ours(made)
       /\ IF op = "rebuild" THEN journal = Absent ELSE journal # Absent
  /\ step = "unjournal" => op \in Undoing /\ journal # Absent /\ ~Ours(target)
  /\ step = "archive" => op # "restore"

TxInv == TxTypes /\ Receipted /\ UnderWay

-----------------------------------------------------------------------------
(* Documents *)

\* The marks are no documents, tables or providers.
LEMMA MarkFacts ==
  /\ Absent \notin Names /\ Absent \notin Ids /\ Absent \notin BOOLEAN
  /\ Absent \notin Tables /\ Absent \notin Providers /\ Absent \notin Docs
  /\ Absent \notin Receipts /\ Absent \notin Selections
  /\ Missing \notin Docs /\ Garbage \notin Docs /\ Refused \notin Docs
  /\ Refused \notin Selections
  /\ Absent \notin {Missing, Garbage, Refused}
  /\ Missing \notin {Garbage, Refused} /\ Garbage # Refused
  BY MarksAssumption DEF Marks

LEMMA EmptyTypes == NoTable \in Tables /\ NoFields \in Providers /\ EmptyDoc \in Docs
  <1>1. NoTable \in Tables /\ NoFields \in Providers
    BY DEF Tables, Texts, NoTable, Providers, NoFields
  <1> QED BY <1>1 DEF EmptyDoc, Docs, Profiles

LEMMA BytesType ==
  ASSUME NEW file \in Docs \cup {Missing}
  PROVE  Bytes(file) \in Docs /\ (file \in Docs => Bytes(file) = file)
  BY EmptyTypes, MarkFacts DEF Bytes

LEMMA SelectedType ==
  ASSUME NEW doc \in Docs, NEW profile \in Profiles
  PROVE  SelectedTable(doc, profile) \in Tables
  BY EmptyTypes, MarkFacts DEF SelectedTable, OrElse, Docs, Profiles

LEMMA OverlayType ==
  ASSUME NEW doc \in Docs, NEW profile \in Profiles
  PROVE  /\ Overlay(doc, profile) \in Tables
         /\ \A key \in Keys : Overlay(doc, profile)[key] =
              OrElse(SelectedTable(doc, profile)[key], doc.root[key])
  <1>1. SelectedTable(doc, profile) \in Tables /\ doc.root \in Tables
    BY SelectedType DEF Docs
  <1> QED BY <1>1 DEF Overlay, OrElse, Tables, NoTable, Keys

\* Writing a table changes that table only.
LEMMA WithTableFacts ==
  ASSUME NEW doc \in Docs, NEW profile \in Profiles, NEW t \in Tables
  PROVE  LET result == WithTable(doc, profile, t)
         IN /\ result \in Docs
            /\ SelectedTable(result, profile) = t
            /\ result.profile = doc.profile /\ result.inline = doc.inline
            /\ result.rest = doc.rest /\ result.providers = doc.providers
            /\ profile = Absent => result.root = t /\ result.work = doc.work
            /\ profile # Absent => result.root = doc.root /\ result.work = t
  BY MarkFacts DEF WithTable, Docs, SelectedTable, OrElse, Profiles

LEMMA WithProviderFacts ==
  ASSUME NEW doc \in Docs, NEW id \in Ids, NEW v \in Providers \cup {Absent}
  PROVE  LET result == [doc EXCEPT !.providers[id] = v]
         IN /\ result \in Docs
            /\ result.providers = [doc.providers EXCEPT ![id] = v]
            /\ result.providers[id] = v
            /\ \A other \in Ids \ {id} : result.providers[other] = doc.providers[other]
            /\ result.profile = doc.profile /\ result.inline = doc.inline
            /\ result.rest = doc.rest /\ result.root = doc.root /\ result.work = doc.work
            /\ \A profile : SelectedTable(result, profile) = SelectedTable(doc, profile)
  BY DEF Docs, SelectedTable

\* Two documents are the same when their fields are.
LEMMA SameDoc ==
  ASSUME NEW a \in Docs, NEW b \in Docs,
         a.profile = b.profile, a.inline = b.inline, a.rest = b.rest,
         a.root = b.root, a.work = b.work, a.providers = b.providers
  PROVE  a = b
  BY DEF Docs

LEMMA SameTable ==
  ASSUME NEW a \in Tables, NEW b \in Tables, \A key \in Keys : a[key] = b[key]
  PROVE  a = b
  BY DEF Tables, Keys
-----------------------------------------------------------------------------
(* Resolve and Patch *)

\* Ours, for a document.
LEMMA OursDoc ==
  ASSUME NEW doc \in Docs
  PROVE  Ours(doc) <=>
           \/ doc.root.model_provider = Managed
           \/ doc.work # Absent /\ doc.work.model_provider = Managed
           \/ doc.providers[Managed] # Absent
           \/ doc.root.openai_base_url = Base
           \/ doc.work # Absent /\ doc.work.openai_base_url = Base
  BY MarkFacts DEF Ours, ReferencesManaged

LEMMA NoFileOurs == ~Ours(Missing) /\ ~Ours(Garbage) /\ ~Ours(EmptyDoc)
  <1>1. ~Ours(EmptyDoc)
    BY OursDoc, EmptyTypes, MarkFacts, WrittenAssumption DEF EmptyDoc, NoTable, Ids, Managed
  <1> QED BY <1>1 DEF Ours

LEMMA OursBytes ==
  ASSUME NEW file \in Docs \cup {Missing}
  PROVE  Ours(Bytes(file)) <=> Ours(file)
  BY NoFileOurs, BytesType DEF Bytes

\* A provider is resolved to a selection, unless it is refused.
LEMMA ResolveType ==
  ASSUME NEW file \in Contents, NEW wanted \in Profiles, NEW mode,
         Resolve(file, wanted, mode) # Refused
  PROVE  LET selection == Resolve(file, wanted, mode)
         IN /\ selection \in Selections
            /\ file # Garbage
            /\ selection.profile = OrElse(wanted, Bytes(file).profile)
            /\ selection.profile # Absent => Bytes(file).work # Absent
            /\ selection.official <=> selection.upstream = Official
            /\ selection.requires /\ ~selection.official => mode = "api_key"
  <1>1. file # Garbage /\ file \in Docs \cup {Missing}
    BY DEF Resolve, Contents
  <1> DEFINE doc == Bytes(file)
             profile == OrElse(wanted, doc.profile)
             table == Overlay(doc, profile)
             id == OrElse(table.model_provider, "openai")
             defined == doc.providers[id] # Absent
             fields == OrElse(doc.providers[id], NoFields)
             default == IF id # "openai" THEN Absent
                        ELSE IF mode = "api_key" THEN OpenAI ELSE Official
             upstream == OrElse(OrElse(fields.base_url, table.openai_base_url), default)
             official == upstream = Official
             requires == OrElse(fields.requires, id = "openai" /\ (official \/ mode = "api_key"))
             kind == IF requires /\ mode # "api_key" THEN "chatgpt" ELSE "api_key"
             selection == [profile |-> profile, id |-> id, upstream |-> upstream,
                           official |-> official, env_key |-> fields.env_key,
                           requires |-> requires, kind |-> kind]
  <1>2. /\ Resolve(file, wanted, mode) = selection
        /\ ~(profile # Absent /\ doc.work = Absent)
        /\ upstream \in Acceptable
        /\ ~(requires /\ ~official /\ mode # "api_key")
    BY <1>1 DEF Resolve
  <1>3. doc \in Docs /\ profile \in Profiles
    BY <1>1, BytesType DEF OrElse, Docs
  <1>4. id \in Ids
    BY <1>3, OverlayType DEF Tables, OrElse, Ids
  <1>5. fields \in Providers
    BY <1>3, <1>4, EmptyTypes DEF OrElse, Docs
  <1>6. requires \in BOOLEAN /\ official \in BOOLEAN
    BY <1>5 DEF OrElse, Providers
  <1>7. selection \in Selections
    BY <1>2, <1>3, <1>4, <1>5, <1>6 DEF Selections, Providers
  <1>8. /\ selection.profile = profile /\ selection.upstream = upstream
        /\ selection.official = official /\ selection.requires = requires
    OBVIOUS
  <1>9. /\ profile = OrElse(wanted, Bytes(file).profile)
        /\ profile # Absent => Bytes(file).work # Absent
        /\ official = (upstream = Official)
    BY <1>2
  <1> HIDE DEF selection, profile, upstream, official, requires
  <1> QED BY <1>1, <1>2, <1>7, <1>8, <1>9

\* A file that is not there resolves as an empty one.
LEMMA ResolveBytes ==
  ASSUME NEW a, NEW b, NEW wanted, NEW mode,
         a # Garbage, b # Garbage, Bytes(a) = Bytes(b)
  PROVE  Resolve(a, wanted, mode) = Resolve(b, wanted, mode)
  BY Zenon DEF Resolve

LEMMA ResolveWanted ==
  ASSUME NEW file, NEW a, NEW b, NEW mode,
         OrElse(a, Bytes(file).profile) = OrElse(b, Bytes(file).profile)
  PROVE  Resolve(file, a, mode) = Resolve(file, b, mode)
  BY Zenon DEF Resolve

\* Resolve looks at nothing else.
LEMMA ResolveSame ==
  ASSUME NEW a \in Docs, NEW b \in Docs, NEW wanted \in Profiles, NEW mode,
         OrElse(wanted, a.profile) = OrElse(wanted, b.profile),
         NEW profile \in Profiles, profile = OrElse(wanted, a.profile),
         \A key \in {"model_provider", "openai_base_url"} :
           Overlay(a, profile)[key] = Overlay(b, profile)[key],
         profile # Absent => (a.work = Absent <=> b.work = Absent),
         LET id == OrElse(Overlay(a, profile).model_provider, "openai")
         IN a.providers[id] = b.providers[id]
  PROVE  Resolve(a, wanted, mode) = Resolve(b, wanted, mode)
  <1>1. a # Garbage /\ b # Garbage /\ Bytes(a) = a /\ Bytes(b) = b
    BY BytesType, MarkFacts
  <1>2. /\ Overlay(a, profile).model_provider = Overlay(b, profile).model_provider
        /\ Overlay(a, profile).openai_base_url = Overlay(b, profile).openai_base_url
    OBVIOUS
  <1> HIDE DEF OrElse
  <1> QED BY <1>1, <1>2 DEF Resolve

\* PatchWithOptions writes the selected table and our provider.
LEMMA PatchFacts ==
  ASSUME NEW file \in Contents, NEW wanted \in Profiles, NEW mode, NEW model \in Texts,
         NEW expected, Patch(file, Base, wanted, mode, model, expected) # Refused
  PROVE  LET updated == Patch(file, Base, wanted, mode, model, expected)
             profile == Resolve(file, wanted, mode).profile
             before == SelectedTable(Bytes(file), profile)
             put == SelectedTable(updated, profile)
             provider == updated.providers[Managed]
         IN /\ file \in Docs \cup {Missing}
            /\ Resolve(file, wanted, mode) # Refused
            /\ expected # Absent => Bytes(file) = expected
            /\ updated \in Docs /\ profile \in Profiles
            /\ ~ReferencesManaged(Bytes(file)) /\ Bytes(file).providers[Managed] = Absent
            /\ put.model_provider = Managed /\ put.openai_base_url = Base
            /\ put.model = OrElse(model, before.model)
            /\ provider \in Providers
            /\ provider.requires = Resolve(file, wanted, mode).requires
            /\ updated = [WithTable(Bytes(file), profile, put) EXCEPT !.providers[Managed] = provider]
  <1> DEFINE selected == Resolve(file, wanted, mode)
             doc == Bytes(file)
             t == SelectedTable(doc, selected.profile)
             table == [t EXCEPT !.model = OrElse(model, @),
                                !.model_provider = Managed,
                                !.openai_base_url = Base]
             fields == [base_url |-> Base, requires |-> selected.requires,
                        env_key |-> selected.env_key]
             written == WithTable(doc, selected.profile, table)
             updated == [written EXCEPT !.providers[Managed] = fields]
  <1>1. /\ selected # Refused
        /\ expected # Absent => doc = expected
        /\ ~ReferencesManaged(doc) /\ doc.providers[Managed] = Absent
        /\ Patch(file, Base, wanted, mode, model, expected) = updated
    BY DEF Patch
  <1>2. selected \in Selections /\ file # Garbage /\ selected.profile \in Profiles
    BY <1>1, ResolveType DEF Selections
  <1>3. file \in Docs \cup {Missing} /\ doc \in Docs
    BY <1>2, BytesType DEF Contents
  <1>4. t \in Tables
    BY <1>2, <1>3, SelectedType
  <1>5. /\ table \in Tables
        /\ table.model_provider = Managed /\ table.openai_base_url = Base
        /\ table.model = OrElse(model, t.model)
    BY <1>4, WrittenAssumption DEF Tables, Texts, OrElse, Ids
  <1>6. fields \in Providers /\ fields.requires = selected.requires
    BY <1>2, WrittenAssumption DEF Providers, Selections, Texts
  <1>7. written \in Docs /\ SelectedTable(written, selected.profile) = table
    BY <1>2, <1>3, <1>5, WithTableFacts
  <1>8. /\ updated \in Docs /\ updated.providers[Managed] = fields
        /\ SelectedTable(updated, selected.profile) = table
    BY <1>6, <1>7, WithProviderFacts DEF Ids
  <1> HIDE DEF selected, doc, t, table, fields, written, updated
  <1> QED BY <1>1, <1>2, <1>3, <1>5, <1>6, <1>8 DEF selected, doc, t, written, updated

\* A receipt of what Patch has made.
LEMMA PatchReceipt ==
  ASSUME NEW file \in Contents, NEW wanted \in Profiles, NEW mode, NEW model \in Texts,
         NEW expected, Patch(file, Base, wanted, mode, model, expected) # Refused, ~Ours(file)
  PROVE  ReceiptOK([before |-> file,
                    installed |-> Patch(file, Base, wanted, mode, model, expected),
                    profile |-> Resolve(file, wanted, mode).profile])
  <1> DEFINE profile == Resolve(file, wanted, mode).profile
             updated == Patch(file, Base, wanted, mode, model, expected)
             r == [before |-> file, installed |-> updated, profile |-> profile]
  <1>1. profile # Absent => Bytes(file).work # Absent
    BY PatchFacts, ResolveType
  <1>2. /\ file \in Docs \cup {Missing} /\ updated \in Docs /\ profile \in Profiles
        /\ SelectedTable(updated, profile).model_provider = Managed
        /\ SelectedTable(updated, profile).openai_base_url = Base
        /\ SelectedTable(updated, profile).model = Absent
             => SelectedTable(Bytes(file), profile).model = Absent
        /\ updated.providers[Managed] \in Providers
        /\ updated = [WithTable(Bytes(file), profile, SelectedTable(updated, profile))
                        EXCEPT !.providers[Managed] = updated.providers[Managed]]
    BY PatchFacts, MarkFacts DEF OrElse
  <1> HIDE DEF profile, updated
  <1>3. r \in Receipts
    BY <1>2 DEF Receipts
  <1>4. ReceiptOK(r)
    BY <1>1, <1>2, <1>3, MarkFacts DEF ReceiptOK
  <1> QED BY <1>4 DEF profile, updated

-----------------------------------------------------------------------------
(* Receipts: what is the user's, and what is put back *)

\* The parts of a receipt.
LEMMA ReceiptFacts ==
  ASSUME NEW r, ReceiptOK(r)
  PROVE  /\ r # Absent /\ r.before \in Docs \cup {Missing} /\ Bytes(r.before) \in Docs
         /\ r.installed \in Docs /\ r.profile \in Profiles
         /\ r.installed.providers[Managed] \in Providers
         /\ SelectedTable(Bytes(r.before), r.profile) \in Tables
         /\ SelectedTable(r.installed, r.profile) \in Tables
         /\ ~Ours(Bytes(r.before))
  <1>1. /\ r.before \in Docs \cup {Missing} /\ r.installed \in Docs /\ r.profile \in Profiles
        /\ r \in Receipts
    BY DEF ReceiptOK, Receipts
  <1>2. Bytes(r.before) \in Docs /\ ~Ours(Bytes(r.before))
    BY <1>1, BytesType, OursBytes DEF ReceiptOK
  <1>3. r.installed.providers[Managed] \in Providers
    BY <1>1 DEF ReceiptOK, Docs, Ids
  <1> QED BY <1>1, <1>2, <1>3, SelectedType, MarkFacts

\* What differs between the installed document and the original.
LEMMA InstalledFacts ==
  ASSUME NEW r, ReceiptOK(r)
  PROVE  LET doc == Bytes(r.before) IN
         /\ r.installed.profile = doc.profile /\ r.installed.inline = doc.inline
         /\ r.installed.rest = doc.rest
         /\ \A id \in Ids \ {Managed} : r.installed.providers[id] = doc.providers[id]
         /\ r.profile = Absent => r.installed.work = doc.work
         /\ r.profile # Absent => r.installed.root = doc.root /\ r.installed.work # Absent
         /\ doc.providers[Managed] = Absent
  <1> DEFINE doc == Bytes(r.before)
             put == SelectedTable(r.installed, r.profile)
             provider == r.installed.providers[Managed]
             written == WithTable(doc, r.profile, put)
  <1>1. doc \in Docs /\ put \in Tables /\ r.profile \in Profiles /\ provider \in Providers
    BY ReceiptFacts
  <1>2. written \in Docs /\ r.installed = [written EXCEPT !.providers[Managed] = provider]
    BY <1>1, WithTableFacts DEF ReceiptOK
  <1>3. doc.providers[Managed] = Absent
    BY <1>1, ReceiptFacts, OursDoc
  <1>4. /\ written.profile = doc.profile /\ written.inline = doc.inline
        /\ written.rest = doc.rest /\ written.providers = doc.providers
        /\ r.profile = Absent => written.work = doc.work
        /\ r.profile # Absent => written.root = doc.root /\ written.work # Absent
    BY <1>1, WithTableFacts, MarkFacts
  <1> HIDE DEF doc, put, provider, written
  <1>5. /\ r.installed.profile = written.profile /\ r.installed.inline = written.inline
        /\ r.installed.rest = written.rest /\ r.installed.root = written.root
        /\ r.installed.work = written.work
        /\ \A id \in Ids \ {Managed} : r.installed.providers[id] = written.providers[id]
    BY <1>1, <1>2, WithProviderFacts DEF Ids
  <1> QED BY <1>3, <1>4, <1>5 DEF doc

\* UserPart, setting by setting.
LEMMA UserPartFacts ==
  ASSUME NEW doc \in Docs, NEW r, ReceiptOK(r)
  PROVE  LET u == UserPart(doc, r)
             now == SelectedTable(doc, r.profile)
             put == SelectedTable(r.installed, r.profile)
             before == SelectedTable(Bytes(r.before), r.profile)
         IN /\ u \in Docs
            /\ u.profile = doc.profile /\ u.inline = doc.inline /\ u.rest = doc.rest
            /\ SelectedTable(u, r.profile) \in Tables
            /\ \A key \in Keys : SelectedTable(u, r.profile)[key] =
                                   IF now[key] = put[key] THEN before[key] ELSE now[key]
            /\ r.profile = Absent => u.work = doc.work
            /\ r.profile # Absent => u.root = doc.root /\ (u.work = Absent <=> doc.work = Absent)
            /\ \A id \in Ids \ {Managed} : u.providers[id] = doc.providers[id]
            /\ u.providers[Managed] = IF doc.providers[Managed] = r.installed.providers[Managed]
                                      THEN Absent ELSE doc.providers[Managed]
  <1> DEFINE now == SelectedTable(doc, r.profile)
             put == SelectedTable(r.installed, r.profile)
             before == SelectedTable(Bytes(r.before), r.profile)
             table == [key \in DOMAIN now |-> IF now[key] = put[key] THEN before[key] ELSE now[key]]
             base == IF table = now THEN doc ELSE WithTable(doc, r.profile, table)
             provider == IF doc.providers[Managed] = r.installed.providers[Managed]
                         THEN Absent ELSE doc.providers[Managed]
             u == [base EXCEPT !.providers[Managed] = provider]
  <1>1. UserPart(doc, r) = u
    BY ReceiptFacts, MarkFacts DEF UserPart
  <1>2. now \in Tables /\ put \in Tables /\ before \in Tables /\ r.profile \in Profiles
    BY ReceiptFacts, SelectedType
  <1>3. /\ table \in Tables
        /\ \A key \in Keys : table[key] = IF now[key] = put[key] THEN before[key] ELSE now[key]
    BY <1>2 DEF Tables, Keys
  <1>4. r.profile # Absent /\ doc.work = Absent => table = now
    <2> SUFFICES ASSUME r.profile # Absent, doc.work = Absent PROVE table = now
      OBVIOUS
    <2>1. now = NoTable
      BY DEF SelectedTable, OrElse
    <2>2. /\ put.model_provider = Managed /\ put.openai_base_url = Base
          /\ put.model = Absent => before.model = Absent
      BY DEF ReceiptOK
    <2>3. Managed # Absent /\ Base # Absent
      BY MarkFacts, WrittenAssumption DEF Ids
    <2> HIDE DEF now, put, before, table
    <2>4. \A key \in Keys : table[key] = now[key]
      BY <1>3, <2>1, <2>2, <2>3 DEF NoTable, Keys
    <2> QED BY <2>4, <1>2, <1>3, SameTable
  <1>5. /\ base \in Docs /\ SelectedTable(base, r.profile) = table
        /\ base.profile = doc.profile /\ base.inline = doc.inline /\ base.rest = doc.rest
        /\ base.providers = doc.providers
        /\ r.profile = Absent => base.work = doc.work
        /\ r.profile # Absent => base.root = doc.root /\ (base.work = Absent <=> doc.work = Absent)
    <2>1. CASE table = now
      BY <2>1
    <2>2. CASE table # now
      <3>1. base = WithTable(doc, r.profile, table)
        BY <2>2
      <3> HIDE DEF base, table, now, put, before
      <3> QED BY <3>1, <2>2, <1>2, <1>3, <1>4, WithTableFacts, MarkFacts
    <2> QED BY <2>1, <2>2
  <1>6. provider \in Providers \cup {Absent}
    BY DEF Docs, Ids
  <1> HIDE DEF base, table, provider
  <1>7. /\ u \in Docs /\ SelectedTable(u, r.profile) = table
        /\ u.profile = doc.profile /\ u.inline = doc.inline /\ u.rest = doc.rest
        /\ r.profile = Absent => u.work = doc.work
        /\ r.profile # Absent => u.root = doc.root /\ (u.work = Absent <=> doc.work = Absent)
        /\ \A id \in Ids \ {Managed} : u.providers[id] = doc.providers[id]
        /\ u.providers[Managed] = provider
    BY <1>5, <1>6, WithProviderFacts DEF Ids
  <1> HIDE DEF u, now, put, before
  <1> QED BY <1>1, <1>3, <1>7 DEF now, put, before, provider

\* Two user's parts are the same when settings, providers and the rest are.
LEMMA SameUserPart ==
  ASSUME NEW a \in Docs, NEW b \in Docs, NEW profile \in Profiles,
         a.profile = b.profile, a.inline = b.inline, a.rest = b.rest,
         \A key \in Keys : SelectedTable(a, profile)[key] = SelectedTable(b, profile)[key],
         profile = Absent => a.work = b.work,
         profile # Absent => a.root = b.root /\ (a.work = Absent <=> b.work = Absent),
         \A id \in Ids : a.providers[id] = b.providers[id]
  PROVE  a = b
  <1>1. SelectedTable(a, profile) = SelectedTable(b, profile)
    BY SelectedType, SameTable
  <1>2. a.root = b.root /\ a.work = b.work
    BY <1>1 DEF SelectedTable, OrElse, Docs
  <1>3. a.providers = b.providers
    BY DEF Docs
  <1> QED BY <1>2, <1>3, SameDoc

\* Undoing an untouched installation gives the user his file, and so does none.
LEMMA UserPartOfInstalled ==
  ASSUME NEW r, ReceiptOK(r)
  PROVE  UserPart(r.installed, r) = Bytes(r.before)
  <1> DEFINE a == UserPart(r.installed, r)
             b == Bytes(r.before)
  <1>1. /\ a \in Docs /\ a.profile = r.installed.profile /\ a.inline = r.installed.inline
        /\ a.rest = r.installed.rest
        /\ \A key \in Keys : SelectedTable(a, r.profile)[key] = SelectedTable(b, r.profile)[key]
        /\ r.profile = Absent => a.work = r.installed.work
        /\ r.profile # Absent =>
             a.root = r.installed.root /\ (a.work = Absent <=> r.installed.work = Absent)
        /\ \A id \in Ids \ {Managed} : a.providers[id] = r.installed.providers[id]
        /\ a.providers[Managed] = Absent
    BY ReceiptFacts, UserPartFacts
  <1>2. /\ b \in Docs /\ r.profile \in Profiles /\ b.providers[Managed] = Absent
        /\ r.installed.profile = b.profile /\ r.installed.inline = b.inline
        /\ r.installed.rest = b.rest
        /\ \A id \in Ids \ {Managed} : r.installed.providers[id] = b.providers[id]
        /\ r.profile = Absent => r.installed.work = b.work
        /\ r.profile # Absent => r.installed.root = b.root /\ r.installed.work # Absent
        /\ r.profile # Absent => b.work # Absent
    BY ReceiptFacts, InstalledFacts DEF ReceiptOK
  <1> HIDE DEF a, b
  <1>3. \A id \in Ids : a.providers[id] = b.providers[id]
    BY <1>1, <1>2
  <1>4. a = b
    BY <1>1, <1>2, <1>3, SameUserPart
  <1> QED BY <1>4 DEF a, b

\* A document none of whose settings are what was installed, unless they already were.
Untouched(doc, r) ==
  LET now == SelectedTable(doc, r.profile)
  IN /\ now.model = SelectedTable(r.installed, r.profile).model =>
          now.model = SelectedTable(Bytes(r.before), r.profile).model
     /\ ~Ours(doc)

LEMMA UserPartOfUntouched ==
  ASSUME NEW doc \in Docs, NEW r, ReceiptOK(r), Untouched(doc, r)
  PROVE  UserPart(doc, r) = doc
  <1> DEFINE a == UserPart(doc, r)
  <1>0. r.profile \in Profiles /\ r.installed.providers[Managed] \in Providers
    BY ReceiptFacts
  <1>1. /\ doc.providers[Managed] = Absent /\ doc.root.openai_base_url # Base
        /\ doc.root.model_provider # Managed
        /\ doc.work # Absent => doc.work.openai_base_url # Base /\ doc.work.model_provider # Managed
    BY OursDoc DEF Untouched
  <1>2. /\ SelectedTable(doc, r.profile).openai_base_url # Base
        /\ SelectedTable(doc, r.profile).model_provider # Managed
    <2>1. NoTable.openai_base_url # Base /\ NoTable.model_provider # Managed
      BY MarkFacts, WrittenAssumption DEF NoTable, Ids
    <2> QED BY <1>1, <2>1 DEF SelectedTable, OrElse
  <1>3. /\ SelectedTable(r.installed, r.profile).openai_base_url = Base
        /\ SelectedTable(r.installed, r.profile).model_provider = Managed
    BY DEF ReceiptOK
  <1>4. /\ a \in Docs /\ a.profile = doc.profile /\ a.inline = doc.inline /\ a.rest = doc.rest
        /\ \A key \in Keys : SelectedTable(a, r.profile)[key] =
             IF SelectedTable(doc, r.profile)[key] = SelectedTable(r.installed, r.profile)[key]
             THEN SelectedTable(Bytes(r.before), r.profile)[key]
             ELSE SelectedTable(doc, r.profile)[key]
        /\ r.profile = Absent => a.work = doc.work
        /\ r.profile # Absent => a.root = doc.root /\ (a.work = Absent <=> doc.work = Absent)
        /\ \A id \in Ids \ {Managed} : a.providers[id] = doc.providers[id]
        /\ a.providers[Managed] = Absent
    <2> DEFINE provider == r.installed.providers[Managed]
    <2>1. a.providers[Managed] = IF doc.providers[Managed] = provider
                                 THEN Absent ELSE doc.providers[Managed]
      BY UserPartFacts
    <2>2. a.providers[Managed] = Absent
      BY <1>1, <2>1
    <2> HIDE DEF a
    <2> QED BY <2>2, UserPartFacts DEF a
  <1> HIDE DEF a
  <1>5. \A key \in Keys : SelectedTable(a, r.profile)[key] = SelectedTable(doc, r.profile)[key]
    BY <1>2, <1>3, <1>4 DEF Keys, Untouched
  <1>6. \A id \in Ids : a.providers[id] = doc.providers[id]
    <2>1. a.providers[Managed] = doc.providers[Managed]
      BY <1>1, <1>4
    <2> QED BY <1>4, <2>1
  <1>7. a = doc
    BY <1>0, <1>4, <1>5, <1>6, SameUserPart
  <1> QED BY <1>7 DEF a

\* Restoring field by field gives the user's part, with nothing of a program in it.
LEMMA MergeFacts ==
  ASSUME NEW current \in Contents, NEW r, ReceiptOK(r), Aside(current, r.profile), NEW preserve,
         MergeRestore(Bytes(r.before), r.installed, current, r.profile, preserve) # Refused,
         current # Missing
  PROVE  LET result == MergeRestore(Bytes(r.before), r.installed, current, r.profile, preserve)
         IN /\ current \in Docs
            /\ result = UserPart(current, r) /\ result \in Docs
            /\ Untouched(result, r)
  <1> DEFINE now == SelectedTable(current, r.profile)
             put == SelectedTable(r.installed, r.profile)
             before == SelectedTable(Bytes(r.before), r.profile)
             u == UserPart(current, r)
  <1>1. current \in Docs
    BY DEF MergeRestore, Contents
  <1>2. /\ now \in Tables /\ put \in Tables /\ before \in Tables /\ r.profile \in Profiles
        /\ r.installed.providers[Managed] \in Providers
    BY <1>1, ReceiptFacts, SelectedType
  <1>3. /\ MergeRestore(Bytes(r.before), r.installed, current, r.profile, preserve) = u
        /\ ~ReferencesManaged(u)
        /\ current.providers[Managed] \in {Absent, r.installed.providers[Managed]}
    <2> DEFINE ours == {key \in DOMAIN now : now[key] = put[key]}
               merged == [key \in DOMAIN now |-> IF key \in ours THEN before[key] ELSE now[key]]
               result == [(IF merged = now THEN current ELSE WithTable(current, r.profile, merged))
                            EXCEPT !.providers[Managed] = Absent]
    <2>1. /\ MergeRestore(Bytes(r.before), r.installed, current, r.profile, preserve) = result
          /\ ~ReferencesManaged(result)
          /\ current.providers[Managed] \in {Absent, r.installed.providers[Managed]}
      BY DEF MergeRestore
    <2>2. merged = [key \in DOMAIN now |-> IF now[key] = put[key] THEN before[key] ELSE now[key]]
      OBVIOUS
    <2>3. u = [(IF merged = now THEN current ELSE WithTable(current, r.profile, merged))
                 EXCEPT !.providers[Managed] =
                   IF current.providers[Managed] = r.installed.providers[Managed]
                   THEN Absent ELSE current.providers[Managed]]
      BY <1>1, <2>2, ReceiptFacts, MarkFacts DEF UserPart
    <2> HIDE DEF merged, u
    <2>4. u = result
      BY <2>1, <2>3
    <2> HIDE DEF result
    <2> QED BY <2>1, <2>4
  <1>4. /\ u \in Docs
        /\ \A key \in Keys : SelectedTable(u, r.profile)[key] =
                               IF now[key] = put[key] THEN before[key] ELSE now[key]
        /\ r.profile = Absent => u.work = current.work
        /\ r.profile # Absent => u.root = current.root
        /\ u.providers[Managed] = Absent
    BY <1>1, <1>3, UserPartFacts
  <1>5. before.openai_base_url # Base
    BY ReceiptFacts, OursDoc, MarkFacts, WrittenAssumption DEF SelectedTable, OrElse, NoTable
  <1>6. put.openai_base_url = Base
    BY DEF ReceiptOK
  <1> HIDE DEF now, put, before, u
  <1>7. /\ SelectedTable(u, r.profile).openai_base_url # Base
        /\ SelectedTable(u, r.profile).model = put.model
             => SelectedTable(u, r.profile).model = before.model
    BY <1>4, <1>5, <1>6 DEF Keys
  <1>8. /\ u.root.openai_base_url # Base
        /\ u.work # Absent => u.work.openai_base_url # Base
    BY <1>1, <1>4, <1>7 DEF SelectedTable, OrElse, Aside
  <1>9. ~Ours(u)
    BY <1>3, <1>4, <1>8, OursDoc DEF ReferencesManaged
  <1> QED BY <1>1, <1>3, <1>4, <1>7, <1>9 DEF Untouched, u, put, before

\* What has been undone counts as it is.
LEMMA BeforeUntouched ==
  ASSUME NEW r, ReceiptOK(r)
  PROVE  Untouched(Bytes(r.before), r) /\ UserPart(r.before, r) = Bytes(r.before)
  <1>1. Bytes(r.before) \in Docs /\ Untouched(Bytes(r.before), r)
    BY ReceiptFacts DEF Untouched
  <1>2. UserPart(r.before, r) = Bytes(r.before)
    <2>1. CASE r.before \in Docs
      BY <1>1, <2>1, BytesType, UserPartOfUntouched
    <2>2. CASE r.before = Missing
      BY <2>2 DEF UserPart
    <2> QED BY <2>1, <2>2, ReceiptFacts
  <1> QED BY <1>1, <1>2

\* As long as nothing has changed that decides where Codex sends to, the user's part
\* resolves to what the original did.
LEMMA ResolvedAsBefore ==
  ASSUME NEW r, ReceiptOK(r), NEW file \in Docs, NEW wanted \in Profiles, NEW mode,
         r.profile = OrElse(wanted, Bytes(r.before).profile),
         Resolve(r.before, wanted, mode) # Refused,
         \/ file = r.installed
         \/ CheckOwnership(Bytes(r.before), r.installed, file, r.profile)
  PROVE  Resolve(UserPart(file, r), wanted, mode) = Resolve(r.before, wanted, mode)
  <1> DEFINE a == UserPart(file, r)
             b == Bytes(r.before)
             profile == r.profile
             before == SelectedTable(b, profile)
             id == OrElse(Overlay(b, profile).model_provider, "openai")
  <1>0. Resolve(r.before, wanted, mode) = Resolve(b, wanted, mode)
    <2>1. r.before \in Docs \cup {Missing} /\ b \in Docs
      BY ReceiptFacts
    <2>2. r.before # Garbage /\ b # Garbage /\ Bytes(r.before) = Bytes(b)
      BY <2>1, BytesType, MarkFacts
    <2> QED BY <2>2, ResolveBytes
  <1>1. CASE file = r.installed
    BY <1>0, <1>1, UserPartOfInstalled
  <1>2. CASE CheckOwnership(b, r.installed, file, profile)
    <2>1. /\ b \in Docs /\ profile \in Profiles /\ before \in Tables
          /\ r.installed.profile = b.profile
          /\ \A i \in Ids \ {Managed} : r.installed.providers[i] = b.providers[i]
          /\ profile # Absent => r.installed.root = b.root
          /\ profile # Absent => b.work # Absent
      BY ReceiptFacts, InstalledFacts DEF ReceiptOK
    <2>2. id = OrElse(OrElse(before.model_provider, b.root.model_provider), "openai")
      BY <2>1, OverlayType DEF Keys
    <2>3. /\ file.profile = r.installed.profile
          /\ SelectedTable(file, profile) = SelectedTable(r.installed, profile)
          /\ profile # Absent =>
               \A key \in {"model_provider", "openai_base_url"} :
                 before[key] = Absent => file.root[key] = r.installed.root[key]
          /\ file.providers[id] = r.installed.providers[id]
      <3> HIDE DEF id
      <3> QED BY <1>2, <2>2 DEF CheckOwnership
    <2>4. id # Managed /\ id \in Ids
      <3>1. id # Managed
        BY <1>0, <2>1, BytesType, MarkFacts DEF Resolve
      <3>2. Overlay(b, profile) \in Tables
        BY <2>1, OverlayType
      <3> QED BY <3>1, <3>2 DEF OrElse, Tables, Ids
    <2>5. /\ a \in Docs /\ a.profile = file.profile
          /\ SelectedTable(a, profile) \in Tables
          /\ \A key \in Keys : SelectedTable(a, profile)[key] =
               IF SelectedTable(file, profile)[key] = SelectedTable(r.installed, profile)[key]
               THEN before[key] ELSE SelectedTable(file, profile)[key]
          /\ profile # Absent => a.root = file.root /\ (a.work = Absent <=> file.work = Absent)
          /\ a.providers[id] = file.providers[id]
      <3> HIDE DEF id
      <3> QED BY <2>4, UserPartFacts
    <2> HIDE DEF a, b, profile, before, id
    <2>6. SelectedTable(a, profile) = before
      BY <2>1, <2>3, <2>5, SameTable
    <2>7. /\ Overlay(a, profile).model_provider = Overlay(b, profile).model_provider
          /\ Overlay(a, profile).openai_base_url = Overlay(b, profile).openai_base_url
      <3>1. \A key \in {"model_provider", "openai_base_url"} :
              /\ Overlay(a, profile)[key] = OrElse(before[key], a.root[key])
              /\ Overlay(b, profile)[key] = OrElse(before[key], b.root[key])
        BY <2>1, <2>5, <2>6, OverlayType DEF Keys, before
      <3>2. CASE profile = Absent
        <4>1. a.root = before /\ b.root = before
          BY <2>6, <3>2 DEF SelectedTable, before
        <4> QED BY <3>1, <4>1
      <3>3. CASE profile # Absent
        BY <2>1, <2>3, <2>5, <3>1, <3>3 DEF OrElse
      <3> QED BY <3>2, <3>3
    <2>8. profile # Absent => (a.work = Absent <=> b.work = Absent)
      <3>1. profile # Absent => file.work # Absent
        <4>1. SelectedTable(r.installed, profile).model_provider = Managed
          BY DEF ReceiptOK, profile
        <4> QED BY <2>3, <4>1, MarkFacts DEF SelectedTable, OrElse, NoTable, Ids
      <3> QED BY <2>1, <2>5, <3>1
    <2>9. a.profile = b.profile /\ profile = OrElse(wanted, a.profile) /\ a.providers[id] = b.providers[id]
      BY <2>1, <2>3, <2>4, <2>5 DEF b, profile
    <2>10. Resolve(a, wanted, mode) = Resolve(b, wanted, mode)
      BY <2>1, <2>5, <2>7, <2>8, <2>9, ResolveSame DEF id
    <2> QED BY <1>0, <2>10 DEF a, b
  <1> QED BY <1>1, <1>2

-----------------------------------------------------------------------------
(* The user's edits *)

\* Files the user may put where there is none.
OthersOK(others) == \A file \in others : file \in Docs /\ ~Ours(file)

\* What was put in for the model differs from what the user may write there.
Distinct(r, others) ==
  LET put == SelectedTable(r.installed, r.profile).model
  IN put # SelectedTable(Bytes(r.before), r.profile).model =>
       /\ put # "other"
       /\ \A file \in others : SelectedTable(file, r.profile).model # put

\* An edit of a document: the same but for one respect, none of them ours.
LEMMA EditedDoc ==
  ASSUME TxTypes, NEW file \in Docs, NEW others, NEW saved \in Edited(file, others)
  PROVE  \/ saved \in {Missing, Garbage}
         \/ /\ saved \in Docs
            /\ \/ saved.root = file.root
               \/ \E t \in Tables :
                    /\ saved.root = t
                    /\ t.model \in {file.root.model, "other"}
                    /\ t.model_provider \in {file.root.model_provider, "openai"}
                    /\ t.openai_base_url \in {file.root.openai_base_url, "relay.two"}
            /\ \/ saved.work = file.work
               \/ /\ file.work # Absent
                  /\ saved.work \in Tables
                  /\ saved.work.model \in {file.work.model, "other"}
                  /\ saved.work.model_provider \in {file.work.model_provider, "openai"}
                  /\ saved.work.openai_base_url = file.work.openai_base_url
            /\ file.providers[Managed] = Absent => saved.providers[Managed] = Absent
  <1> DEFINE profile == IF file.work = Absent THEN Absent ELSE file.profile
             table == SelectedTable(file, profile)
             relay == file.providers["relay"]
             managed == file.providers[Managed]
  <1>1. /\ profile \in Profiles /\ table \in Tables
        /\ profile # Absent => file.work # Absent
        /\ profile = Absent => table = file.root
        /\ profile # Absent => table = file.work
    BY SelectedType DEF Docs, Profiles, SelectedTable, OrElse
  <1>2. file # Missing /\ file # Garbage /\ edits \in Nat /\ file.root \in Tables
    BY MarkFacts DEF TxTypes, Docs
  <1>3. ASSUME NEW t \in Tables, saved = WithTable(file, profile, t),
               t \in {[table EXCEPT !.model = "other"], [table EXCEPT !.model_provider = "openai"]}
        PROVE  /\ saved \in Docs
               /\ \/ saved.root = file.root
                  \/ \E x \in Tables :
                       /\ saved.root = x
                       /\ x.model \in {file.root.model, "other"}
                       /\ x.model_provider \in {file.root.model_provider, "openai"}
                       /\ x.openai_base_url \in {file.root.openai_base_url, "relay.two"}
               /\ \/ saved.work = file.work
                  \/ /\ file.work # Absent
                     /\ saved.work \in Tables
                     /\ saved.work.model \in {file.work.model, "other"}
                     /\ saved.work.model_provider \in {file.work.model_provider, "openai"}
                     /\ saved.work.openai_base_url = file.work.openai_base_url
               /\ saved.providers = file.providers
    <2>1. /\ t.model \in {table.model, "other"}
          /\ t.model_provider \in {table.model_provider, "openai"}
          /\ t.openai_base_url = table.openai_base_url
      BY <1>1, <1>3 DEF Tables
    <2>2. /\ saved \in Docs /\ saved.providers = file.providers
          /\ profile = Absent => saved.root = t /\ saved.work = file.work
          /\ profile # Absent => saved.root = file.root /\ saved.work = t
      BY <1>1, <1>3, WithTableFacts
    <2> HIDE DEF profile, table
    <2> QED BY <1>1, <2>1, <2>2
  <1>4. /\ [table EXCEPT !.model = "other"] \in Tables
        /\ [table EXCEPT !.model_provider = "openai"] \in Tables
    BY <1>1, WrittenAssumption DEF Tables, Texts, Ids
  <1>5. CASE saved = WithTable(file, profile, [table EXCEPT !.model = "other"])
    BY <1>3, <1>4, <1>5
  <1>6. CASE saved = WithTable(file, profile, [table EXCEPT !.model_provider = "openai"])
    BY <1>3, <1>4, <1>6
  <1>7. CASE saved = [file EXCEPT !.rest = edits + 1]
    BY <1>2, <1>7 DEF Docs
  <1>8. CASE saved = [file EXCEPT !.root.openai_base_url = "relay.two"]
    <2> DEFINE t == [file.root EXCEPT !.openai_base_url = "relay.two"]
    <2>1. /\ t \in Tables /\ t.model = file.root.model /\ t.model_provider = file.root.model_provider
          /\ t.openai_base_url = "relay.two"
      BY <1>2, NamesAssumption DEF Tables, Texts, Acceptable
    <2>2. saved = [file EXCEPT !.root = t]
      BY <1>8
    <2> HIDE DEF t
    <2>3. /\ saved \in Docs /\ saved.root = t /\ saved.work = file.work
          /\ saved.providers = file.providers
      BY <2>1, <2>2 DEF Docs
    <2> QED BY <2>1, <2>3
  <1>9. CASE saved = [file EXCEPT !.inline = TRUE]
    BY <1>9 DEF Docs
  <1>10. CASE relay # Absent /\ saved = [file EXCEPT !.providers["relay"].base_url = "relay.two"]
    <2> DEFINE fields == [relay EXCEPT !.base_url = "relay.two"]
    <2>1. fields \in Providers
      BY <1>10, NamesAssumption DEF Docs, Ids, Providers, Texts, Acceptable
    <2>2. saved = [file EXCEPT !.providers["relay"] = fields]
      BY <1>10
    <2> HIDE DEF fields
    <2> QED BY <2>1, <2>2, WithProviderFacts DEF Ids, Managed
  <1>11. CASE managed # Absent /\ saved = [file EXCEPT !.providers[Managed].env_key = "OTHER"]
    <2> DEFINE fields == [managed EXCEPT !.env_key = "OTHER"]
    <2>1. fields \in Providers
      BY <1>11, WrittenAssumption DEF Docs, Ids, Providers, Texts
    <2>2. saved = [file EXCEPT !.providers[Managed] = fields]
      BY <1>11
    <2> HIDE DEF fields
    <2> QED BY <2>1, <2>2, <1>11, WithProviderFacts DEF Ids
  <1>12. CASE saved = [file EXCEPT !.profile = IF @ = Absent THEN "work" ELSE Absent]
    BY <1>12 DEF Docs, Profiles
  <1>13. \/ saved \in {Missing, Garbage}
         \/ saved = WithTable(file, profile, [table EXCEPT !.model = "other"])
         \/ saved = WithTable(file, profile, [table EXCEPT !.model_provider = "openai"])
         \/ saved = [file EXCEPT !.rest = edits + 1]
         \/ saved = [file EXCEPT !.root.openai_base_url = "relay.two"]
         \/ saved = [file EXCEPT !.inline = TRUE]
         \/ relay # Absent /\ saved = [file EXCEPT !.providers["relay"].base_url = "relay.two"]
         \/ managed # Absent /\ saved = [file EXCEPT !.providers[Managed].env_key = "OTHER"]
         \/ saved = [file EXCEPT !.profile = IF @ = Absent THEN "work" ELSE Absent]
    BY <1>2 DEF Edited
  <1> HIDE DEF profile, table, relay, managed
  <1> QED BY <1>5, <1>6, <1>7, <1>8, <1>9, <1>10, <1>11, <1>12, <1>13

\* No edit puts anything of a program into the file, nor what a program has put there.
LEMMA EditedFacts ==
  ASSUME TxTypes, NEW file \in Contents, NEW others, OthersOK(others),
         NEW saved \in Edited(file, others)
  PROVE  /\ saved \in Contents
         /\ Ours(saved) => Ours(file)
         /\ \A profile \in Profiles : Aside(file, profile) => Aside(saved, profile)
         /\ \A r : /\ ReceiptOK(r) /\ Distinct(r, others)
                   /\ file \in Docs => Untouched(file, r)
                   => (saved \in Docs => Untouched(saved, r))
  <1>1. CASE file \in {Missing, Garbage}
    <2>1. saved \in others
      BY <1>1 DEF Edited
    <2>2. saved \in Docs /\ ~Ours(saved)
      BY <2>1 DEF OthersOK
    <2>3. ASSUME NEW r, ReceiptOK(r), Distinct(r, others) PROVE Untouched(saved, r)
      BY <2>1, <2>2, <2>3 DEF Untouched, Distinct
    <2> QED BY <2>2, <2>3, OursDoc DEF Contents, Aside
  <1>2. CASE file \in Docs
    <2>1. CASE saved \in {Missing, Garbage}
      BY <2>1, NoFileOurs, MarkFacts DEF Contents, Aside
    <2>2. CASE saved \in Docs
      <3>1. /\ \/ saved.root = file.root
               \/ \E t \in Tables :
                    /\ saved.root = t
                    /\ t.model \in {file.root.model, "other"}
                    /\ t.model_provider \in {file.root.model_provider, "openai"}
                    /\ t.openai_base_url \in {file.root.openai_base_url, "relay.two"}
            /\ \/ saved.work = file.work
               \/ /\ file.work # Absent
                  /\ saved.work \in Tables
                  /\ saved.work.model \in {file.work.model, "other"}
                  /\ saved.work.model_provider \in {file.work.model_provider, "openai"}
                  /\ saved.work.openai_base_url = file.work.openai_base_url
            /\ file.providers[Managed] = Absent => saved.providers[Managed] = Absent
        BY <1>2, <2>2, EditedDoc, MarkFacts
      <3>2. /\ saved.root.model \in {file.root.model, "other"}
            /\ saved.root.model_provider \in {file.root.model_provider, "openai"}
            /\ saved.root.openai_base_url \in {file.root.openai_base_url, "relay.two"}
            /\ saved.work = Absent <=> file.work = Absent
            /\ file.work # Absent =>
                 /\ saved.work.model \in {file.work.model, "other"}
                 /\ saved.work.model_provider \in {file.work.model_provider, "openai"}
                 /\ saved.work.openai_base_url = file.work.openai_base_url
        BY <3>1, MarkFacts
      <3>3. Ours(saved) => Ours(file)
        BY <1>2, <2>2, <3>1, <3>2, OursDoc DEF Managed, Base
      <3>4. \A profile \in Profiles : Aside(file, profile) => Aside(saved, profile)
        BY <1>2, <2>2, <3>2 DEF Aside, Base, Managed
      <3>5. ASSUME NEW r, ReceiptOK(r), Distinct(r, others), Untouched(file, r)
            PROVE  Untouched(saved, r)
        <4>1. SelectedTable(saved, r.profile).model \in {SelectedTable(file, r.profile).model, "other"}
          BY <3>2 DEF SelectedTable, OrElse
        <4>2. ~Ours(saved)
          BY <3>3, <3>5 DEF Untouched
        <4> QED BY <3>5, <4>1, <4>2 DEF Untouched, Distinct
      <3> QED BY <1>2, <2>2, <3>3, <3>4, <3>5 DEF Contents
    <2> QED BY <1>2, <2>1, <2>2, EditedDoc
  <1> QED BY <1>1, <1>2 DEF Contents

-----------------------------------------------------------------------------
(* What the operations and accesses do, as far as their callers look at it *)

LEMMA RestoreDoes ==
  ASSUME BeginRestore
  PROVE  /\ step = "done" /\ journal' = journal
         /\ step' \in {"done", "recompare", "unjournal"}
  BY DEF BeginRestore, End, Start, files

LEMMA RecoverDoes ==
  ASSUME NEW mode, NEW shown, BeginRecover(mode, shown)
  PROVE  /\ step = "done" /\ journal' = journal
         /\ step' \in {"done", "archive"}
  BY DEF BeginRecover, End, Start, files

LEMMA ResetDoes ==
  ASSUME NEW replacement, NEW mode, NEW shown, BeginReset(replacement, mode, shown)
  PROVE  /\ step = "done" /\ journal' = journal
         /\ step' \in {"done", "archive"}
  BY DEF BeginReset, End, Start, files

LEMMA InstallDoes ==
  ASSUME NEW wanted, NEW mode, NEW model, NEW expected,
         BeginInstall(wanted, mode, model, expected)
  PROVE  LET updated == Patch(target, Base, wanted, mode, model, expected)
         IN /\ step = "done" /\ journal' = journal
            /\ \/ step' = "done" /\ failed'
               \/ /\ step' = "backup"
                  /\ updated # Refused
                  /\ made' = [before |-> target, installed |-> updated,
                              profile |-> Resolve(target, wanted, mode).profile]
  BY DEF BeginInstall, End, Start, files

LEMMA AccessDoes ==
  ASSUME TxInv, Access
  PROVE  /\ step # "done"
         /\ step \in Installing =>
              \/ step' \in Installing /\ made' = made
              \/ step' = "done" /\ failed'
              \/ step' = "done" /\ ~failed' /\ journal' = made
         /\ step \in Replacing \cup {"unjournal"} =>
              /\ step' \in (Replacing \ {"archive"}) \cup {"unjournal", "done"}
              /\ journal' # journal => step' = "done" /\ ~failed'
  BY DEF TxInv, UnderWay, Installing, Replacing, Access, Backup, WriteJournal, Compare, WriteTarget,
         Archive, Recompare, Replace, RemoveJournal, Fails, End, GoTo, files

-----------------------------------------------------------------------------
(* The invariant *)

LEMMA EndKeeps ==
  ASSUME TxInv, NEW error \in BOOLEAN, End(error),
         UNCHANGED <<target, journal, intact, edits>>, faults' \in 0..MaxFaults
  PROVE  TxInv'
  BY DEF TxInv, TxTypes, Receipted, UnderWay, End, Aside, Installing, Replacing, Undoing

LEMMA InitTx ==
  ASSUME Init, target \in Contents, ~Ours(target)
  PROVE  TxInv
  <1>1. 0 \in 0..MaxEdits /\ 0 \in 0..MaxFaults
    BY EditsAssumption
  <1> QED BY <1>1 DEF Init, TxInv, TxTypes, Receipted, UnderWay, Installing, Replacing

LEMMA InstallKeeps ==
  ASSUME TxInv, NEW wanted \in Profiles, NEW mode, NEW model \in Texts, NEW expected,
         BeginInstall(wanted, mode, model, expected)
  PROVE  TxInv'
  <1> DEFINE updated == Patch(target, Base, wanted, mode, model, expected)
             receipt == [before |-> target, installed |-> updated,
                         profile |-> Resolve(target, wanted, mode).profile]
  <1>1. CASE journal # Absent \/ updated = Refused
    BY <1>1, EndKeeps DEF BeginInstall, files, TxInv, TxTypes
  <1>2. CASE journal = Absent /\ updated # Refused
    <2>1. ReceiptOK(receipt)
      BY <1>2, PatchReceipt DEF TxInv, TxTypes, Receipted
    <2>2. /\ step' = "backup" /\ op' = "install" /\ read' = target /\ made' = receipt
          /\ UNCHANGED <<failed, raced, files, edits, faults>>
      BY <1>2 DEF BeginInstall, Start
    <2>3. receipt.before = target
      OBVIOUS
    <2> HIDE DEF receipt
    <2> QED BY <1>2, <2>1, <2>2, <2>3
         DEF TxInv, TxTypes, Receipted, UnderWay, files, Installing, Replacing
  <1> QED BY <1>1, <1>2

\* Restore, Recover and ResetConfig: what the file is to be replaced by.
LEMMA ReplacingKeeps ==
  ASSUME TxInv, NEW operation \in Undoing \cup {"rebuild"}, NEW first \in Replacing, NEW content,
         step = "done", Start(operation, first, content), UNCHANGED <<files, edits, faults>>,
         content \in Docs \cup {Missing}, ~Ours(content),
         IF operation = "rebuild" THEN journal = Absent ELSE journal # Absent,
         first = "archive" => operation # "restore"
  PROVE  TxInv'
  BY DEF TxInv, TxTypes, Receipted, UnderWay, Start, files, Installing, Replacing, Aside, Undoing

LEMMA RestoreKeeps ==
  ASSUME TxInv, BeginRestore
  PROVE  TxInv'
  <1> DEFINE original == Bytes(journal.before)
             merged == MergeRestore(original, journal.installed, target, journal.profile, FALSE)
  <1>0. step = "done" /\ UNCHANGED <<files, edits, faults>> /\ UNCHANGED <<target, journal, intact>>
    BY DEF BeginRestore, files
  <1>1. CASE \E error \in BOOLEAN : End(error)
    BY <1>0, <1>1, EndKeeps DEF TxInv, TxTypes
  <1>2. ASSUME journal # Absent
        PROVE  ReceiptOK(journal) /\ Aside(target, journal.profile)
               /\ journal.before \in Docs \cup {Missing} /\ ~Ours(journal.before)
    BY <1>2, ReceiptFacts DEF TxInv, Receipted, ReceiptOK
  <1>3. CASE journal # Absent /\ target = journal.before /\ Start("restore", "unjournal", Absent)
    BY <1>0, <1>2, <1>3
       DEF TxInv, TxTypes, Receipted, UnderWay, Start, Installing, Replacing, Undoing, Aside
  <1>4. CASE journal # Absent /\ Start("restore", "recompare", journal.before)
    BY <1>0, <1>2, <1>4, ReplacingKeeps DEF Undoing, Replacing
  <1>5. CASE /\ journal # Absent /\ target # Missing
             /\ merged # Refused /\ Start("restore", "recompare", merged)
    <2>1. merged \in Docs /\ ~Ours(merged)
      BY <1>2, <1>5, MergeFacts DEF TxInv, TxTypes, Untouched
    <2> HIDE DEF merged
    <2> QED BY <1>0, <1>5, <2>1, ReplacingKeeps DEF Undoing, Replacing
  <1> QED BY <1>1, <1>3, <1>4, <1>5 DEF BeginRestore

\* What Recover may replace the file by.
LEMMA RecoverContent ==
  ASSUME TxInv, journal # Absent, CanKeepCurrent
  PROVE  LET merged == MergeRestore(Bytes(journal.before), journal.installed, Bytes(target),
                                    journal.profile, TRUE)
         IN /\ merged \in Docs /\ Untouched(merged, journal)
            /\ merged = UserPart(target, journal)
  <1>1. ReceiptOK(journal) /\ Aside(target, journal.profile) /\ target \in Contents
    BY DEF TxInv, TxTypes, Receipted
  <1>2. MergeRestore(Bytes(journal.before), journal.installed, Bytes(target), journal.profile, TRUE)
          # Refused
    BY DEF CanKeepCurrent
  <1>3. CASE target # Missing
    BY <1>1, <1>2, <1>3, MergeFacts DEF Bytes
  <1>4. CASE target = Missing
    <2>1. EmptyDoc \in Docs /\ EmptyDoc \in Contents /\ EmptyDoc # Missing /\ Bytes(target) = EmptyDoc
      BY <1>4, EmptyTypes, MarkFacts DEF Bytes, Contents
    <2>2. Aside(EmptyDoc, journal.profile)
      BY <2>1, NoFileOurs, OursDoc DEF Aside
    <2>3. LET merged == MergeRestore(Bytes(journal.before), journal.installed, EmptyDoc,
                                     journal.profile, TRUE)
          IN /\ merged \in Docs /\ Untouched(merged, journal)
             /\ merged = UserPart(EmptyDoc, journal)
      BY <1>1, <1>2, <2>1, <2>2, MergeFacts
    <2>4. UserPart(EmptyDoc, journal) = EmptyDoc
      <3>1. Untouched(EmptyDoc, journal)
        <4>1. SelectedTable(EmptyDoc, journal.profile).model = Absent
          BY DEF EmptyDoc, SelectedTable, OrElse, NoTable
        <4> QED BY <1>1, <4>1, NoFileOurs DEF Untouched, ReceiptOK
      <3> QED BY <1>1, <2>1, <3>1, UserPartOfUntouched
    <2>5. UserPart(target, journal) = EmptyDoc
      BY <1>4, <2>1 DEF UserPart
    <2> QED BY <2>1, <2>3, <2>4, <2>5
  <1> QED BY <1>3, <1>4

LEMMA RecoverKeeps ==
  ASSUME TxInv, NEW mode \in {"keep_current", "restore_backup"}, NEW shown, BeginRecover(mode, shown)
  PROVE  TxInv'
  <1> DEFINE merged == MergeRestore(Bytes(journal.before), journal.installed, Bytes(target),
                                    journal.profile, TRUE)
             content == IF mode = "restore_backup" THEN journal.before ELSE merged
  <1>0. step = "done" /\ UNCHANGED <<files, edits, faults>> /\ UNCHANGED <<target, journal, intact>>
    BY DEF BeginRecover, files
  <1>1. CASE End(TRUE)
    BY <1>0, <1>1, EndKeeps DEF TxInv, TxTypes
  <1>2. CASE /\ journal # Absent /\ (mode = "keep_current" => CanKeepCurrent)
             /\ Start(mode, "archive", content)
    <2>1. content \in Docs \cup {Missing} /\ ~Ours(content)
      <3>1. CASE mode = "restore_backup"
        BY <1>2, <3>1, ReceiptFacts DEF TxInv, Receipted, ReceiptOK
      <3>2. CASE mode = "keep_current"
        BY <1>2, <3>2, RecoverContent DEF Untouched
      <3> QED BY <3>1, <3>2
    <2> HIDE DEF content
    <2> QED BY <1>0, <1>2, <2>1, ReplacingKeeps DEF Undoing, Replacing
  <1> QED BY <1>1, <1>2 DEF BeginRecover

LEMMA ResetKeeps ==
  ASSUME TxInv, NEW replacement \in Docs \cup {Refused}, NEW mode, NEW shown,
         BeginReset(replacement, mode, shown),
         journal = Absent /\ replacement \in Docs =>
           /\ replacement.root.openai_base_url # Base
           /\ replacement.work # Absent => replacement.work.openai_base_url # Base
  PROVE  TxInv'
  <1>0. step = "done" /\ UNCHANGED <<files, edits, faults>> /\ UNCHANGED <<target, journal, intact>>
    BY DEF BeginReset, files
  <1>1. CASE End(TRUE)
    BY <1>0, <1>1, EndKeeps DEF TxInv, TxTypes
  <1>2. CASE /\ journal = Absent /\ replacement # Refused
             /\ ~ReferencesManaged(replacement) /\ replacement.providers[Managed] = Absent
             /\ Start("rebuild", "archive", replacement)
    <2>1. ~Ours(replacement)
      BY <1>2, OursDoc DEF ReferencesManaged
    <2> QED BY <1>0, <1>2, <2>1, ReplacingKeeps DEF Undoing, Replacing
  <1> QED BY <1>1, <1>2 DEF BeginReset

LEMMA AccessKeeps ==
  ASSUME TxInv, Access
  PROVE  TxInv'
  <1> USE DEF Installing, Replacing, Undoing
  <1>1. CASE Backup
    BY <1>1 DEF TxInv, TxTypes, Receipted, UnderWay, Backup, GoTo
  <1>2. CASE WriteJournal
    <2>1. ReceiptOK(made) /\ ~Ours(target) /\ step = "journal"
      BY <1>2 DEF WriteJournal, TxInv, Receipted, UnderWay
    <2>2. made # Absent /\ made.profile \in Profiles
      BY <2>1, ReceiptFacts
    <2>3. Aside(target, made.profile)
      BY <2>1, OursDoc DEF Aside
    <2> QED BY <1>2, <2>1, <2>2, <2>3 DEF TxInv, TxTypes, Receipted, UnderWay, WriteJournal, GoTo, Aside
  <1>3. CASE Compare
    <2>1. CASE End(TRUE)
      BY <1>3, <2>1, EndKeeps DEF Compare, files, TxInv, TxTypes
    <2>2. CASE GoTo("write") /\ UNCHANGED raced
      BY <1>3, <2>2 DEF TxInv, TxTypes, Receipted, UnderWay, Compare, GoTo, files, Aside
    <2> QED BY <1>3, <2>1, <2>2 DEF Compare
  <1>4. CASE WriteTarget
    <2>1. ReceiptOK(made) /\ journal = made /\ step = "write"
      BY <1>4 DEF WriteTarget, TxInv, UnderWay
    <2>2. /\ made.installed \in Docs /\ made # Absent
          /\ made.profile = Absent => made.installed.work = Bytes(made.before).work
          /\ made.profile # Absent => made.installed.root = Bytes(made.before).root
          /\ ~Ours(Bytes(made.before)) /\ Bytes(made.before) \in Docs
      BY <2>1, ReceiptFacts, InstalledFacts
    <2>3. Aside(made.installed, made.profile)
      BY <2>2, OursDoc DEF Aside
    <2> QED BY <1>4, <2>1, <2>2, <2>3
         DEF TxInv, TxTypes, Receipted, UnderWay, WriteTarget, End, Contents, Aside
  <1>5. CASE Archive
    BY <1>5 DEF TxInv, TxTypes, Receipted, UnderWay, Archive, GoTo, Aside
  <1>6. CASE Recompare
    <2>1. CASE End(TRUE)
      BY <1>6, <2>1, EndKeeps DEF Recompare, files, TxInv, TxTypes
    <2>2. CASE GoTo("replace") /\ UNCHANGED raced
      BY <1>6, <2>2 DEF TxInv, TxTypes, Receipted, UnderWay, Recompare, GoTo, files, Aside
    <2> QED BY <1>6, <2>1, <2>2 DEF Recompare
  <1>7. CASE Replace
    <2>1. /\ step = "replace" /\ made \in Docs \cup {Missing} /\ ~Ours(made)
          /\ op \in Undoing \cup {"rebuild"}
          /\ IF op = "rebuild" THEN journal = Absent ELSE journal # Absent
      BY <1>7 DEF Replace, TxInv, UnderWay
    <2>2. \A profile \in Profiles : Aside(made, profile)
      BY <2>1, OursDoc DEF Aside
    <2>3. journal # Absent => journal.profile \in Profiles
      BY ReceiptFacts DEF TxInv, Receipted
    <2>4. CASE op = "rebuild"
      BY <1>7, <2>1, <2>4 DEF TxInv, TxTypes, Receipted, UnderWay, Replace, End, Contents
    <2>5. CASE op # "rebuild"
      <3>1. /\ step' = "unjournal" /\ target' = made
            /\ UNCHANGED <<op, read, made, failed, raced, journal, intact, archive, edits, faults>>
        BY <1>7, <2>5 DEF Replace, GoTo
      <3> QED BY <2>1, <2>2, <2>3, <2>5, <3>1 DEF TxInv, TxTypes, Receipted, UnderWay, Contents, Aside
    <2> QED BY <2>4, <2>5
  <1>8. CASE RemoveJournal
    BY <1>8 DEF TxInv, TxTypes, Receipted, UnderWay, RemoveJournal, End
  <1>9. ASSUME NEW s, Fails(s) PROVE TxInv'
    <2>1. faults' \in 0..MaxFaults
      BY <1>9, EditsAssumption DEF Fails, TxInv, TxTypes
    <2> QED BY <1>9, <2>1, EndKeeps DEF Fails, files
  <1> QED BY <1>1, <1>2, <1>3, <1>4, <1>5, <1>6, <1>7, <1>8, <1>9 DEF Access

LEMMA EditKeeps ==
  ASSUME TxInv, NEW others, OthersOK(others), EditTarget(others)
  PROVE  TxInv'
  <1>1. /\ target \in Contents /\ target' \in Edited(target, others)
        /\ UNCHANGED <<journal, intact, archive, faults>> /\ UNCHANGED <<step, op, read, made, failed>>
        /\ edits' = edits + 1 /\ edits < MaxEdits
        /\ raced' = (raced \/ step \in {"write", "replace"})
    BY DEF EditTarget, TxInv, TxTypes, run
  <1>2. /\ target' \in Contents /\ (Ours(target') => Ours(target))
        /\ \A profile \in Profiles : Aside(target, profile) => Aside(target', profile)
    BY <1>1, EditedFacts DEF TxInv
  <1>3. edits' \in 0..MaxEdits
    BY <1>1, EditsAssumption DEF TxInv, TxTypes
  <1>4. TxTypes'
    BY <1>1, <1>2, <1>3 DEF TxInv, TxTypes
  <1>5. journal # Absent => journal.profile \in Profiles
    BY ReceiptFacts DEF TxInv, Receipted
  <1>6. Receipted'
    BY <1>1, <1>2, <1>5 DEF TxInv, Receipted, Aside
  <1>7. UnderWay'
    BY <1>1, <1>2 DEF TxInv, UnderWay
  <1> QED BY <1>4, <1>6, <1>7 DEF TxInv

LEMMA DamageKeeps ==
  ASSUME TxInv, DamageBackup
  PROVE  TxInv'
  <1>1. faults' \in 0..MaxFaults
    BY EditsAssumption DEF DamageBackup, TxInv, TxTypes
  <1> QED BY <1>1 DEF DamageBackup, TxInv, TxTypes, Receipted, UnderWay, run, Aside

LEMMA CrashKeeps ==
  ASSUME TxInv, Crash
  PROVE  TxInv'
  <1>1. faults' \in 0..MaxFaults
    BY EditsAssumption DEF Crash, TxInv, TxTypes
  <1> QED BY <1>1, EndKeeps DEF Crash, files

\* Nothing of the transaction changes.
\* Steps of others that count towards a bound.
LEMMA CountKeeps ==
  ASSUME TxInv, UNCHANGED <<files, run, raced>>, edits' \in 0..MaxEdits, faults' \in 0..MaxFaults
  PROVE  TxInv'
  BY DEF files, run, TxInv, TxTypes, Receipted, UnderWay, Aside

LEMMA AsideKeeps ==
  ASSUME TxInv, UNCHANGED transaction
  PROVE  TxInv'
  BY DEF transaction, files, run, TxInv, TxTypes, Receipted, UnderWay, Aside

-----------------------------------------------------------------------------
(* The promise: each step of a transaction is a step of Takeover *)

Taken == INSTANCE Takeover WITH
  user <- UserPart(target, journal),
  held <- Ours(target),
  receipt <- journal # Absent,
  excused <- raced \/ (op \in {"restore_backup", "rebuild"} /\ archive = target)

\* What is the user's can be told from what was installed, and the content that the
\* file is replaced by has the same user's part, unless the user has given it up.
Separate(others) ==
  /\ step \in Installing => Distinct(made, others)
  /\ journal # Absent => Distinct(journal, others)
  /\ step \in {"backup", "journal"} /\ target \in Docs => Untouched(target, made)
  /\ step = "unjournal" /\ target \in Docs => Untouched(target, journal)
  /\ step \in {"write", "replace"} /\ ~raced => target = read
  /\ step \in Replacing /\ op \in {"restore", "keep_current"} =>
       /\ UserPart(made, journal) = UserPart(read, journal)
       /\ made \in Docs => Untouched(made, journal)
  /\ step \in Replacing /\ op = "restore_backup" => made = journal.before
  /\ step \in {"recompare", "replace"} /\ op \in {"restore_backup", "rebuild"} => archive = read

LEMMA TakenInit ==
  ASSUME Init, ~Ours(target)
  PROVE  Taken!Init
  <1>1. journal = Absent /\ edits = 0 /\ raced = FALSE /\ op \notin {"restore_backup", "rebuild"}
    BY DEF Init
  <1>2. Ours(target) \in BOOLEAN /\ (journal # Absent) \in BOOLEAN
    BY DEF Ours
  <1>3. Ours(target) = FALSE /\ (journal # Absent) = FALSE
    BY <1>1, <1>2
  <1>4. (raced \/ (op \in {"restore_backup", "rebuild"} /\ archive = target)) = FALSE
    BY <1>1
  <1> QED BY <1>1, <1>3, <1>4 DEF Taken!Init

\* A step that leaves file and receipt alone.
LEMMA QuietStep ==
  ASSUME TxInv, UNCHANGED <<target, journal, edits>>
  PROVE  Taken!Next
  BY DEF TxInv, Receipted, Taken!Next, Taken!Write

LEMMA SeparateInit ==
  ASSUME Init, NEW others
  PROVE  Separate(others)
  BY DEF Init, Separate, Installing, Replacing

LEMMA SeparateAside ==
  ASSUME NEW others, Separate(others), UNCHANGED transaction
  PROVE  Separate(others)'
  BY DEF Separate, transaction, files, run, Untouched, Distinct

LEMMA SeparateCounts ==
  ASSUME NEW others, Separate(others), UNCHANGED <<files, run, raced>>
  PROVE  Separate(others)'
  BY DEF files, run, Separate

LEMMA SeparateEnd ==
  ASSUME NEW others, Separate(others), NEW error, End(error), UNCHANGED journal
  PROVE  Separate(others)'
  BY DEF Separate, End, Distinct, Installing, Replacing

LEMMA SeparateInstall ==
  ASSUME TxInv, NEW others, Separate(others),
         NEW wanted \in Profiles, NEW mode, NEW model \in Texts, NEW expected,
         BeginInstall(wanted, mode, model, expected),
         step' = "backup" => Distinct(made', others)
  PROVE  Separate(others)'
  <1>1. CASE End(TRUE)
    BY <1>1, SeparateEnd DEF BeginInstall, files
  <1>2. CASE step' = "backup"
    <2>1. /\ step' = "backup" /\ op' = "install" /\ read' = target
          /\ UNCHANGED <<target, journal>>
      BY <1>2 DEF BeginInstall, Start, files, End
    <2>2. TxInv'
      BY InstallKeeps
    <2>3. ReceiptOK(made') /\ target = made'.before
      BY <2>1, <2>2 DEF TxInv, UnderWay, Installing
    <2>4. target \in Docs => Untouched(target, made')
      BY <2>3, BeforeUntouched, BytesType
    <2> HIDE DEF ReceiptOK
    <2> QED BY <1>2, <2>1, <2>4 DEF Separate, Installing, Replacing, Distinct, Untouched
  <1> QED BY <1>1, <1>2 DEF BeginInstall, Start

LEMMA SeparateStart ==
  ASSUME NEW others, Separate(others), NEW operation, NEW first \in Replacing, NEW content,
         Start(operation, first, content), UNCHANGED files,
         first # "replace", first = "recompare" => operation = "restore",
         operation \in {"restore", "keep_current"} =>
           /\ UserPart(content, journal) = UserPart(target, journal)
           /\ content \in Docs => Untouched(content, journal),
         operation = "restore_backup" => content = journal.before
  PROVE  Separate(others)'
  BY DEF Separate, Start, files, Installing, Replacing, Distinct, Untouched

LEMMA SeparateRestore ==
  ASSUME TxInv, NEW others, Separate(others), BeginRestore
  PROVE  Separate(others)'
  <1> DEFINE original == Bytes(journal.before)
             merged == MergeRestore(original, journal.installed, target, journal.profile, FALSE)
  <1>0. UNCHANGED files /\ UNCHANGED <<target, journal>>
    BY DEF BeginRestore, files
  <1>1. CASE \E error \in BOOLEAN : End(error)
    BY <1>0, <1>1, SeparateEnd
  <1>2. ASSUME journal # Absent
        PROVE  /\ ReceiptOK(journal) /\ Aside(target, journal.profile) /\ target \in Contents
               /\ Untouched(original, journal)
               /\ UserPart(journal.before, journal) = original
               /\ UserPart(journal.installed, journal) = original
               /\ journal.before \in Docs => journal.before = original
    BY <1>2, BeforeUntouched, UserPartOfInstalled, ReceiptFacts, BytesType
       DEF TxInv, TxTypes, Receipted
  <1>3. CASE journal # Absent /\ target = journal.before /\ Start("restore", "unjournal", Absent)
    BY <1>0, <1>2, <1>3 DEF Separate, Start, Installing, Replacing, Distinct, Untouched
  <1>4. CASE /\ journal # Absent /\ target = journal.installed
             /\ Start("restore", "recompare", journal.before)
    BY <1>0, <1>2, <1>4, SeparateStart DEF Replacing
  <1>5. CASE /\ journal # Absent /\ target # Missing
             /\ merged # Refused /\ Start("restore", "recompare", merged)
    <2>1. /\ merged \in Docs /\ Untouched(merged, journal) /\ merged = UserPart(target, journal)
      BY <1>2, <1>5, MergeFacts
    <2> HIDE DEF merged
    <2>2. UserPart(merged, journal) = merged
      BY <1>2, <1>5, <2>1, UserPartOfUntouched
    <2> QED BY <1>0, <1>5, <2>1, <2>2, SeparateStart DEF Replacing
  <1> QED BY <1>1, <1>3, <1>4, <1>5 DEF BeginRestore

LEMMA SeparateRecover ==
  ASSUME TxInv, NEW others, Separate(others),
         NEW mode \in {"keep_current", "restore_backup"}, NEW shown, BeginRecover(mode, shown)
  PROVE  Separate(others)'
  <1> DEFINE merged == MergeRestore(Bytes(journal.before), journal.installed, Bytes(target),
                                    journal.profile, TRUE)
             content == IF mode = "restore_backup" THEN journal.before ELSE merged
  <1>0. UNCHANGED files /\ UNCHANGED <<target, journal>>
    BY DEF BeginRecover, files
  <1>1. CASE End(TRUE)
    BY <1>0, <1>1, SeparateEnd
  <1>2. CASE /\ journal # Absent /\ (mode = "keep_current" => CanKeepCurrent)
             /\ Start(mode, "archive", content)
    <2>1. mode = "keep_current" =>
            /\ UserPart(content, journal) = UserPart(target, journal)
            /\ Untouched(content, journal)
      <3> SUFFICES ASSUME mode = "keep_current"
                   PROVE  /\ UserPart(content, journal) = UserPart(target, journal)
                          /\ Untouched(content, journal)
        OBVIOUS
      <3>1. merged \in Docs /\ Untouched(merged, journal) /\ merged = UserPart(target, journal)
        BY <1>2, RecoverContent
      <3>2. content = merged
        OBVIOUS
      <3> HIDE DEF merged, content
      <3>3. UserPart(merged, journal) = merged
        BY <1>2, <3>1, UserPartOfUntouched DEF TxInv, Receipted
      <3> QED BY <3>1, <3>2, <3>3
    <2>2. mode = "restore_backup" => content = journal.before
      OBVIOUS
    <2> HIDE DEF content
    <2> QED BY <1>0, <1>2, <2>1, <2>2, SeparateStart DEF Replacing
  <1> QED BY <1>1, <1>2 DEF BeginRecover

LEMMA SeparateReset ==
  ASSUME NEW others, Separate(others), NEW replacement, NEW mode, NEW shown,
         BeginReset(replacement, mode, shown)
  PROVE  Separate(others)'
  <1>1. UNCHANGED files /\ UNCHANGED journal
    BY DEF BeginReset, files
  <1>2. CASE End(TRUE)
    BY <1>1, <1>2, SeparateEnd
  <1>3. CASE Start("rebuild", "archive", replacement)
    BY <1>1, <1>3, SeparateStart DEF Replacing
  <1> QED BY <1>2, <1>3 DEF BeginReset

LEMMA SeparateAccess ==
  ASSUME TxInv, NEW others, Separate(others), Access
  PROVE  Separate(others)'
  <1> USE DEF Installing, Replacing
  <1>1. CASE Backup
    BY <1>1 DEF Separate, Backup, GoTo, Distinct, Untouched
  <1>2. CASE WriteJournal
    BY <1>2 DEF Separate, WriteJournal, GoTo, Distinct, Untouched
  <1>3. CASE Compare
    <2>1. CASE End(TRUE)
      BY <1>3, <2>1, SeparateEnd DEF Compare, files
    <2>2. CASE target = read /\ GoTo("write") /\ UNCHANGED raced
      BY <1>3, <2>2 DEF Separate, Compare, GoTo, files, Distinct, Untouched
    <2> QED BY <1>3, <2>1, <2>2 DEF Compare
  <1>4. CASE WriteTarget
    BY <1>4, SeparateEnd DEF WriteTarget
  <1>5. CASE Archive
    BY <1>5 DEF Separate, Archive, GoTo, Distinct, Untouched
  <1>6. CASE Recompare
    <2>1. CASE End(TRUE)
      BY <1>6, <2>1, SeparateEnd DEF Recompare, files
    <2>2. CASE target = read /\ GoTo("replace") /\ UNCHANGED raced
      BY <1>6, <2>2 DEF Separate, Recompare, GoTo, files, Distinct, Untouched
    <2> QED BY <1>6, <2>1, <2>2 DEF Recompare
  <1>7. CASE Replace
    <2>1. CASE End(FALSE)
      BY <1>7, <2>1, SeparateEnd DEF Replace
    <2>2. CASE op # "rebuild" /\ GoTo("unjournal") /\ UNCHANGED raced
      <3>1. /\ step = "replace" /\ op \in Undoing /\ made \in Docs \cup {Missing} /\ journal # Absent
            /\ ReceiptOK(journal)
        BY <1>7, <2>2 DEF Replace, TxInv, UnderWay, Receipted
      <3>2. made \in Docs => Untouched(made, journal)
        <4>1. CASE op = "restore_backup"
          <5>1. made = journal.before
            BY <3>1, <4>1 DEF Separate
          <5> QED BY <3>1, <5>1, BeforeUntouched, BytesType
        <4>2. CASE op # "restore_backup"
          BY <3>1, <4>2 DEF Undoing, Separate
        <4> QED BY <4>1, <4>2
      <3>3. /\ step' = "unjournal" /\ target' = made /\ op' = op /\ UNCHANGED <<journal, made>>
        BY <1>7, <2>2 DEF Replace, GoTo
      <3> QED BY <3>1, <3>2, <3>3 DEF Separate, Distinct, Untouched
    <2> QED BY <1>7, <2>1, <2>2 DEF Replace
  <1>8. CASE RemoveJournal
    BY <1>8 DEF Separate, RemoveJournal, End
  <1>9. ASSUME NEW s, Fails(s) PROVE Separate(others)'
    BY <1>9, SeparateEnd DEF Fails, files
  <1> QED BY <1>1, <1>2, <1>3, <1>4, <1>5, <1>6, <1>7, <1>8, <1>9 DEF Access

LEMMA SeparateEdit ==
  ASSUME TxInv, NEW others, OthersOK(others), Separate(others), EditTarget(others)
  PROVE  Separate(others)'
  <1>1. /\ target \in Contents /\ target' \in Edited(target, others)
        /\ UNCHANGED <<journal, archive>> /\ UNCHANGED <<step, op, read, made>>
        /\ raced' = (raced \/ step \in {"write", "replace"})
    BY DEF EditTarget, TxInv, TxTypes, run
  <1>2. \A r : /\ ReceiptOK(r) /\ Distinct(r, others)
               /\ target \in Docs => Untouched(target, r)
               => (target' \in Docs => Untouched(target', r))
    BY <1>1, EditedFacts DEF TxInv
  <1>3. step \in {"backup", "journal"} /\ target' \in Docs => Untouched(target', made)
    BY <1>2 DEF Separate, TxInv, UnderWay, Installing
  <1>4. step = "unjournal" /\ target' \in Docs => Untouched(target', journal)
    BY <1>2 DEF Separate, TxInv, Receipted, UnderWay
  <1> QED BY <1>1, <1>3, <1>4 DEF Separate, Distinct, Untouched

LEMMA SeparateDamage ==
  ASSUME NEW others, Separate(others), DamageBackup
  PROVE  Separate(others)'
  BY DEF Separate, DamageBackup, run, Distinct, Untouched

\* An access writes the file, records or forgets the receipt, or changes neither.
LEMMA AccessTaken ==
  ASSUME TxInv, NEW others, Separate(others), Access
  PROVE  Taken!Next
  <1>1. CASE WriteJournal
    <2>1. /\ step = "journal" /\ journal = Absent /\ ReceiptOK(made) /\ target \in Contents
          /\ target \in Docs => Untouched(target, made)
      BY <1>1 DEF WriteJournal, TxInv, TxTypes, UnderWay, Separate, Installing
    <2>2. made # Absent /\ (target \in Docs => UserPart(target, made) = target)
      BY <2>1, ReceiptFacts, UserPartOfUntouched
    <2>3. UserPart(target, made) = Bytes(target) /\ UserPart(target, Absent) = Bytes(target)
      <3>1. CASE target \in Docs
        BY <2>2, <3>1, BytesType DEF UserPart
      <3>2. CASE target \in {Missing, Garbage}
        BY <3>2 DEF UserPart
      <3> QED BY <2>1, <3>1, <3>2 DEF Contents
    <2> QED BY <1>1, <2>1, <2>2, <2>3 DEF WriteJournal, Taken!Next, Taken!Record
  <1>2. CASE WriteTarget
    <2>1. /\ step = "write" /\ journal = made /\ ReceiptOK(journal) /\ read = journal.before
          /\ ~raced => target = journal.before
      BY <1>2 DEF WriteTarget, TxInv, UnderWay, Separate, Installing
    <2>2. /\ journal # Absent /\ UserPart(journal.installed, journal) = Bytes(journal.before)
          /\ UserPart(journal.before, journal) = Bytes(journal.before)
      BY <2>1, ReceiptFacts, UserPartOfInstalled, BeforeUntouched
    <2>3. target' = journal.installed /\ journal' = journal /\ edits' = edits
      BY <1>2, <2>1 DEF WriteTarget
    <2>4. UserPart(target', journal') = UserPart(journal.installed, journal)
      BY <2>3
    <2>5. ~raced => UserPart(target', journal') = UserPart(target, journal)
      BY <2>1, <2>2, <2>4
    <2> QED BY <2>2, <2>3, <2>5 DEF Taken!Next, Taken!Write
  <1>3. CASE Replace
    <2>1. /\ step = "replace" /\ op \in Undoing \cup {"rebuild"} /\ ~Ours(made)
          /\ target' = made /\ journal' = journal /\ edits' = edits
          /\ ~raced => target = read
      BY <1>3 DEF Replace, TxInv, UnderWay, Separate, Replacing
    <2>2. CASE op \in {"restore", "keep_current"}
      <3>1. UserPart(made, journal) = UserPart(read, journal)
        BY <2>1, <2>2 DEF Separate, Replacing
      <3> QED BY <2>1, <3>1 DEF Taken!Next, Taken!Write
    <2>3. CASE op \in {"restore_backup", "rebuild"}
      <3>1. archive = read
        BY <2>1, <2>3 DEF Separate
      <3> QED BY <2>1, <2>3, <3>1 DEF Taken!Next, Taken!Write
    <2> QED BY <2>1, <2>2, <2>3 DEF Undoing
  <1>4. CASE RemoveJournal
    <2>1. /\ step = "unjournal" /\ journal # Absent /\ ReceiptOK(journal) /\ target \in Contents
          /\ ~Ours(target)
          /\ target \in Docs => Untouched(target, journal)
      BY <1>4 DEF RemoveJournal, TxInv, TxTypes, Receipted, UnderWay, Separate
    <2>2. UserPart(target, journal) = Bytes(target) /\ UserPart(target, Absent) = Bytes(target)
      <3>1. CASE target \in Docs
        <4>1. Untouched(target, journal)
          BY <2>1, <3>1
        <4> QED BY <2>1, <3>1, <4>1, BytesType, UserPartOfUntouched DEF UserPart
      <3>2. CASE target \in {Missing, Garbage}
        BY <3>2 DEF UserPart
      <3> QED BY <2>1, <3>1, <3>2 DEF Contents
    <2> QED BY <1>4, <2>1, <2>2 DEF RemoveJournal, Taken!Next, Taken!Forget
  <1>5. CASE Backup \/ Compare \/ Archive \/ Recompare \/ \E s : Fails(s)
    <2>1. UNCHANGED <<target, journal, edits>>
      BY <1>5 DEF Backup, Compare, Archive, Recompare, Fails, files
    <2> QED BY <2>1, QuietStep
  <1> QED BY <1>1, <1>2, <1>3, <1>4, <1>5 DEF Access

LEMMA EditTaken ==
  ASSUME TxInv, NEW others, OthersOK(others), EditTarget(others)
  PROVE  Taken!Next
  <1>1. Ours(target') => Ours(target)
    BY EditedFacts DEF EditTarget, TxInv, TxTypes
  <1> QED BY <1>1 DEF EditTarget, Taken!Next, Taken!Edit

=============================================================================
