------------------------------ MODULE AdminStore ------------------------------
(***************************************************************************)
(* The configuration in SQLite (admin_store.py) and the requests of the    *)
(* admin API that change it (api/admin.py): libraries, of which one may be *)
(* the default, the settings of each, and saved views.                     *)
(*                                                                         *)
(* A method of the store is one transaction, so one step.  A handler of    *)
(* the API never waits, so it is one step too; but what it depends on      *)
(* (_store, which repairs the default library) ran before, in another      *)
(* thread, and other requests run in between.                              *)
(***************************************************************************)
EXTENDS Naturals

CONSTANTS
    Requests,   \* requests of the admin API that may overlap
    Libraries,  \* ids of libraries
    Default,    \* DEFAULT_LIBRARY_ID
    Keys,       \* keys of settings: mount, write_policy
    Values,     \* values of settings
    Factory,    \* DEFAULT_MOUNT_SETTINGS, DEFAULT_WRITE_POLICY
    Views,      \* ids of views
    Names       \* names of views

ASSUME ConstantsAssumption == Default \in Libraries /\ Factory \in Values

VARIABLES
    libraries,    \* the ids in table libraries
    defaults,     \* those with is_default = 1
    settings,     \* settings[<<l, k>>]: table library_settings, {} if no row
    oldSettings,  \* oldSettings[k]: table settings, of a version without libraries
    views,        \* table views
    process,      \* whether this process has an initialized store
    pc,           \* where each request is
    chosen        \* history: what was last chosen for <<l, k>>, {} if nothing

database == <<libraries, defaults, settings, oldSettings, views>>
vars == <<database, process, pc, chosen>>

Slots == Libraries \X Keys
View == [id : Views, library : Libraries, name : Names]

TypeOK ==
    /\ libraries \in SUBSET Libraries
    /\ defaults \in SUBSET libraries
    /\ settings \in [Slots -> SUBSET Values]
    /\ oldSettings \in [Keys -> SUBSET Values]
    /\ views \in SUBSET View
    /\ process \in {"down", "up", "failed"}
    /\ pc \in [Requests -> {"idle", "admitted", "refused"}]
    /\ chosen \in [Slots -> SUBSET Values]

\* The database is new, or of a version without libraries.
Init ==
    /\ libraries = {} /\ defaults = {} /\ views = {}
    /\ settings = [s \in Slots |-> {}]
    /\ oldSettings \in [Keys -> {{}} \cup {{v} : v \in Values}]
    /\ process = "down"
    /\ pc = [r \in Requests |-> "idle"]
    /\ chosen = [s \in Slots |-> IF s[1] = Default THEN oldSettings[s[2]] ELSE {}]

-----------------------------------------------------------------------------
(***************************************************************************)
(* What every method does about libraries and settings.                    *)
(***************************************************************************)
\* _ensure_library_setting, for both keys.
Configured(table, l) ==
    [s \in Slots |-> IF s[1] = l /\ table[s] = {} THEN {Factory} ELSE table[s]]

\* The unique index on is_default lets library `default' be the default.
IndexAllows == defaults \subseteq {Default}

\* Mutated form of DefaultRow: the row is not made.
DefaultRowIfAny ==
    /\ libraries' = libraries
    /\ defaults' = defaults \cup {Default}

\* _ensure_default_library_row.
DefaultRow ==
    /\ libraries' = libraries \cup {Default}
    /\ defaults' = defaults \cup {Default}

-----------------------------------------------------------------------------
(***************************************************************************)
(* The process.  A kill rolls back an open transaction.                    *)
(***************************************************************************)
\* Mutated form of Migrated: the old settings win.
MigratedAgain(table) ==
    [s \in Slots |-> IF s[1] = Default /\ oldSettings[s[2]] # {}
                     THEN oldSettings[s[2]] ELSE table[s]]

\* _migrate_settings: old settings become those of the default library.
Migrated(table) ==
    [s \in Slots |-> IF s[1] = Default /\ table[s] = {}
                     THEN oldSettings[s[2]] ELSE table[s]]

\* get_admin_store at the start of the process; ensure_default_library then
\* finds nothing to do.
Initialize ==
    /\ process = "down"
    /\ IndexAllows
    /\ DefaultRow
    /\ settings' = Configured(Migrated(settings), Default)
    /\ oldSettings' = [k \in Keys |-> IF oldSettings[k] = {} THEN {Factory} ELSE oldSettings[k]]
    /\ process' = "up"
    /\ UNCHANGED <<views, pc, chosen>>

\* The lifespan of the API raises IntegrityError, and the process ends.
InitializeFails ==
    /\ process = "down"
    /\ ~IndexAllows
    /\ process' = "failed"
    /\ UNCHANGED <<database, pc, chosen>>

Restart ==
    /\ process # "down"
    /\ process' = "down"
    /\ pc' = [r \in Requests |-> "idle"]
    /\ UNCHANGED <<database, chosen>>

-----------------------------------------------------------------------------
(***************************************************************************)
(* A request: _store, then its handler.                                    *)
(***************************************************************************)
\* _store calls ensure_default_library.
Ensure(r) ==
    /\ process = "up" /\ pc[r] = "idle"
    /\ IndexAllows
    /\ DefaultRow
    /\ settings' = Configured(settings, Default)
    /\ pc' = [pc EXCEPT ![r] = "admitted"]
    /\ UNCHANGED <<oldSettings, views, process, chosen>>

\* It raises IntegrityError: 500.
EnsureFails(r) ==
    /\ process = "up" /\ pc[r] = "idle"
    /\ ~IndexAllows
    /\ pc' = [pc EXCEPT ![r] = "refused"]
    /\ UNCHANGED <<database, process, chosen>>

\* The session or the grant does not do, or what is asked for does not exist
\* (or, for a view, exists), or nothing is to be changed.
Respond(r) ==
    /\ pc[r] # "idle"
    /\ pc' = [pc EXCEPT ![r] = "idle"]
    /\ UNCHANGED <<database, process, chosen>>

Handle(r) ==
    /\ pc[r] = "admitted"
    /\ pc' = [pc EXCEPT ![r] = "idle"]
    /\ UNCHANGED <<oldSettings, process>>

\* Mutated form of SaveLibrary: its settings are left for later.
SaveLibraryOnly(r, l, isDefault) ==
    /\ Handle(r)
    /\ libraries' = libraries \cup {l}
    /\ defaults' = IF isDefault THEN {l} ELSE defaults \ {l}
    /\ UNCHANGED <<settings, views, chosen>>

\* Mutated form of SaveLibrary: the default before it stays a default.
SaveLibraryBeside(r, l, isDefault) ==
    /\ Handle(r)
    /\ libraries' = libraries \cup {l}
    /\ defaults' = IF isDefault THEN defaults \cup {l} ELSE defaults \ {l}
    /\ settings' = Configured(settings, l)
    /\ UNCHANGED <<views, chosen>>

\* create_library, also with the id of a library there is, and update_library.
SaveLibrary(r, l, isDefault) ==
    /\ Handle(r)
    /\ libraries' = libraries \cup {l}
    /\ defaults' = IF isDefault THEN {l} ELSE defaults \ {l}
    /\ settings' = Configured(settings, l)
    /\ UNCHANGED <<views, chosen>>

\* update_library_mount_settings, update_library_write_policy, and both
\* without a library.
SaveSetting(r, l, k, v) ==
    /\ Handle(r)
    /\ l \in libraries
    /\ settings' = [settings EXCEPT ![<<l, k>>] = {v}]
    /\ chosen' = [chosen EXCEPT ![<<l, k>>] = {v}]
    /\ UNCHANGED <<libraries, defaults, views>>

\* upsert_view writes the row, unless another view of the library has its name.
UpsertView(view) ==
    /\ \A w \in views : w.library = view.library /\ w.name = view.name => w.id = view.id
    /\ views' = {w \in views : w.id # view.id} \cup {view}
    /\ UNCHANGED <<libraries, defaults, settings, chosen>>

\* The id is new.
CreateView(r, view) ==
    /\ Handle(r)
    /\ view.library \in libraries
    /\ \A w \in views : w.id # view.id
    /\ UpsertView(view)

\* Mutated form of UpdateView: the view may be of another library.
UpdateAnyView(r, view) ==
    /\ Handle(r)
    /\ view.library \in libraries
    /\ \E w \in views : w.id = view.id
    /\ UpsertView(view)

UpdateView(r, view) ==
    /\ Handle(r)
    /\ view.library \in libraries
    /\ \E w \in views : w.id = view.id /\ w.library = view.library
    /\ UpsertView(view)

DeleteView(r, view) ==
    /\ Handle(r)
    /\ view \in views
    /\ views' = views \ {view}
    /\ UNCHANGED <<libraries, defaults, settings, chosen>>

Request(r) ==
    \/ Ensure(r) \/ EnsureFails(r) \/ Respond(r)
    \/ \E l \in Libraries, isDefault \in BOOLEAN : SaveLibrary(r, l, isDefault)
    \/ \E l \in Libraries, k \in Keys, v \in Values : SaveSetting(r, l, k, v)
    \/ \E view \in View : CreateView(r, view) \/ UpdateView(r, view) \/ DeleteView(r, view)

Next ==
    \/ Initialize \/ InitializeFails \/ Restart
    \/ \E r \in Requests : Request(r)

Spec == Init /\ [][Next]_vars

-----------------------------------------------------------------------------
(***************************************************************************)
(* Properties.                                                             *)
(***************************************************************************)
\* What a user chose, in this version or before libraries came, is what is
\* read, whatever repairs, restarts and migrations run afterwards (initialize,
\* ensure_default_library and upsert_library only fill in what is missing).
SettingsAreKept ==
    process = "up" => \A s \in Slots : chosen[s] # {} => settings[s] = chosen[s]

\* The unique index never refuses upsert_library, which first takes is_default
\* from the other libraries, nor what comes after it: no step that the index
\* would refuse is taken here.
DefaultIsUnique == \A l, m \in defaults : l = m

\* Every library has both settings, whichever request made it: a row and its
\* settings are one transaction (upsert_library, ensure_default_library).
LibrariesAreConfigured ==
    \A l \in libraries, k \in Keys : settings[<<l, k>>] # {}

\* A view never moves to another library, although upsert_view would move it
\* (the id is unique over all libraries, and the row takes the library it is
\* saved for): whoever manages one library cannot take a view of another.
ViewsStayInTheirLibrary ==
    [][\A v \in views, w \in views' : v.id = w.id => v.library = w.library]_vars

-----------------------------------------------------------------------------
(***************************************************************************)
(* What the documents say and the code does not do.                        *)
(***************************************************************************)
\* ensure_default_library: "Ensure the legacy/default configured Immich
\* library exists."  So it never fails for what the API has stored before.
DefaultCanBeEnsured == process # "failed" /\ \A r \in Requests : pc[r] # "refused"
=============================================================================
