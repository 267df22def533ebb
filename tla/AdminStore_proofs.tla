--------------------------- MODULE AdminStore_proofs ---------------------------
(***************************************************************************)
(* What requests, restarts and migrations keep true of the configuration,  *)
(* for any number of requests, libraries, settings and views.              *)
(***************************************************************************)
EXTENDS AdminStore, TLAPS

\* Only an initialized store admits requests.
ProcessInv == \A r \in Requests : pc[r] # "idle" => process = "up"

\* What was chosen is in the table, or still waits to be migrated.
ChoiceInv ==
    \A l \in Libraries, k \in Keys :
        chosen[<<l, k>>] # {} =>
            \/ settings[<<l, k>>] = chosen[<<l, k>>]
            \/ /\ process # "up" /\ l = Default
               /\ settings[<<l, k>>] = {} /\ oldSettings[k] = chosen[<<l, k>>]

ViewInv == \A v, w \in views : v.id = w.id => v = w

IInv ==
    TypeOK /\ ProcessInv /\ ChoiceInv /\ ViewInv /\ DefaultIsUnique /\ LibrariesAreConfigured

-----------------------------------------------------------------------------
(***************************************************************************)
(* Tables of settings.                                                     *)
(***************************************************************************)
\* Filling in what is missing for library l changes nothing that is there.
LEMMA ConfiguredFills ==
    ASSUME NEW table \in [Slots -> SUBSET Values], NEW l \in Libraries
    PROVE  /\ Configured(table, l) \in [Slots -> SUBSET Values]
           /\ \A m \in Libraries, k \in Keys :
                /\ table[<<m, k>>] # {} => Configured(table, l)[<<m, k>>] = table[<<m, k>>]
                /\ m = l => Configured(table, l)[<<m, k>>] # {}
BY ConstantsAssumption DEF Configured, Slots

\* Migrating adds old settings to the default library, where it has none.
LEMMA MigratedFills ==
    ASSUME NEW table \in [Slots -> SUBSET Values], oldSettings \in [Keys -> SUBSET Values]
    PROVE  /\ Migrated(table) \in [Slots -> SUBSET Values]
           /\ \A m \in Libraries, k \in Keys :
                /\ table[<<m, k>>] # {} => Migrated(table)[<<m, k>>] = table[<<m, k>>]
                /\ m = Default /\ table[<<m, k>>] = {} =>
                       Migrated(table)[<<m, k>>] = oldSettings[k]
BY DEF Migrated, Slots

-----------------------------------------------------------------------------
(***************************************************************************)
(* The invariant holds at first, and every step keeps it.                  *)
(***************************************************************************)
LEMMA InitIsSafe == Init => IInv
<1>. SUFFICES ASSUME Init PROVE IInv
  OBVIOUS
<1>1. \A k \in Keys : oldSettings[k] \in SUBSET Values
  BY DEF Init
<1>2. TypeOK
  <2>1. chosen \in [Slots -> SUBSET Values]
    BY <1>1 DEF Init, Slots
  <2>2. QED
    BY <2>1 DEF Init, TypeOK, Slots
<1>3. ChoiceInv
  BY ConstantsAssumption DEF Init, ChoiceInv, Slots
<1>4. QED
  BY <1>2, <1>3 DEF Init, IInv, ProcessInv, ViewInv, DefaultIsUnique, LibrariesAreConfigured

\* A step that fills in the settings of library l, and adds no other library.
LEMMA ConfiguredKeeps ==
    ASSUME IInv, NEW l \in Libraries,
           settings' = Configured(settings, l), libraries' = libraries \cup {l},
           UNCHANGED <<oldSettings, process, chosen>>, process = "up"
    PROVE  settings' \in [Slots -> SUBSET Values] /\ ChoiceInv' /\ LibrariesAreConfigured'
<1>1. settings \in [Slots -> SUBSET Values] /\ libraries \in SUBSET Libraries
  BY DEF IInv, TypeOK
<1>2. settings' \in [Slots -> SUBSET Values]
  BY <1>1, ConfiguredFills
<1>3. \A m \in Libraries, k \in Keys :
        /\ settings[<<m, k>>] # {} => settings'[<<m, k>>] = settings[<<m, k>>]
        /\ m = l => settings'[<<m, k>>] # {}
  BY <1>1, ConfiguredFills
<1>4. ChoiceInv'
  BY <1>3 DEF IInv, ChoiceInv
<1>5. LibrariesAreConfigured'
  BY <1>1, <1>3 DEF IInv, LibrariesAreConfigured
<1>6. QED
  BY <1>2, <1>4, <1>5

LEMMA ProcessIsSafe ==
    ASSUME IInv, Initialize \/ InitializeFails \/ Restart \/ UNCHANGED vars PROVE IInv'
<1>1. CASE Initialize
  <2>. /\ settings \in [Slots -> SUBSET Values] /\ libraries \in SUBSET Libraries
       /\ oldSettings \in [Keys -> SUBSET Values]
    BY DEF IInv, TypeOK
  <2>. DEFINE table == Migrated(settings)
  <2>1. /\ table \in [Slots -> SUBSET Values]
        /\ \A m \in Libraries, k \in Keys :
             /\ settings[<<m, k>>] # {} => table[<<m, k>>] = settings[<<m, k>>]
             /\ m = Default /\ settings[<<m, k>>] = {} => table[<<m, k>>] = oldSettings[k]
    BY MigratedFills
  <2>2. settings' = Configured(table, Default)
    BY <1>1 DEF Initialize
  <2>. HIDE DEF table
  <2>3. /\ settings' \in [Slots -> SUBSET Values]
        /\ \A m \in Libraries, k \in Keys :
             /\ table[<<m, k>>] # {} => settings'[<<m, k>>] = table[<<m, k>>]
             /\ m = Default => settings'[<<m, k>>] # {}
    BY <2>1, <2>2, ConfiguredFills, ConstantsAssumption
  <2>4. oldSettings' \in [Keys -> SUBSET Values]
    BY <1>1, ConstantsAssumption DEF Initialize
  <2>5. TypeOK'
    BY <1>1, <2>3, <2>4, ConstantsAssumption DEF Initialize, DefaultRow, IInv, TypeOK
  <2>6. ChoiceInv'
    <3>1. ASSUME NEW l \in Libraries, NEW k \in Keys, chosen[<<l, k>>] # {}
          PROVE  settings'[<<l, k>>] = chosen[<<l, k>>]
      <4>1. CASE settings[<<l, k>>] = chosen[<<l, k>>]
        BY <2>1, <2>3, <3>1, <4>1
      <4>2. CASE l = Default /\ settings[<<l, k>>] = {} /\ oldSettings[k] = chosen[<<l, k>>]
        BY <2>1, <2>3, <3>1, <4>2
      <4>3. QED
        BY <3>1, <4>1, <4>2 DEF IInv, ChoiceInv
    <3>2. chosen' = chosen
      BY <1>1 DEF Initialize
    <3>3. QED
      BY <3>1, <3>2 DEF ChoiceInv
  <2>7. LibrariesAreConfigured'
    <3>1. \A l \in libraries, k \in Keys : l \in Libraries /\ settings[<<l, k>>] # {}
      BY DEF IInv, LibrariesAreConfigured
    <3>2. \A l \in libraries, k \in Keys : settings'[<<l, k>>] # {}
      BY <2>1, <2>3, <3>1
    <3>3. \A k \in Keys : settings'[<<Default, k>>] # {}
      BY <2>3, ConstantsAssumption
    <3>4. libraries' = libraries \cup {Default}
      BY <1>1 DEF Initialize, DefaultRow
    <3>5. QED
      BY <3>2, <3>3, <3>4 DEF LibrariesAreConfigured
  <2>8. DefaultIsUnique'
    BY <1>1 DEF Initialize, DefaultRow, IndexAllows, DefaultIsUnique
  <2>9. QED
    BY <1>1, <2>5, <2>6, <2>7, <2>8 DEF Initialize, IInv, ProcessInv, ViewInv
<1>2. CASE InitializeFails
  BY <1>2 DEF InitializeFails, database, IInv, TypeOK, ProcessInv, ChoiceInv, ViewInv,
              DefaultIsUnique, LibrariesAreConfigured
<1>3. CASE Restart
  BY <1>3 DEF Restart, database, IInv, TypeOK, ProcessInv, ChoiceInv, ViewInv,
              DefaultIsUnique, LibrariesAreConfigured
<1>4. CASE UNCHANGED vars
  BY <1>4 DEF vars, database, IInv, TypeOK, ProcessInv, ChoiceInv, ViewInv,
              DefaultIsUnique, LibrariesAreConfigured
<1>5. QED
  BY <1>1, <1>2, <1>3, <1>4

\* What UpsertView does to the views.
LEMMA UpsertKeepsViews ==
    ASSUME IInv, NEW view \in View, UpsertView(view) PROVE views' \in SUBSET View /\ ViewInv'
BY DEF UpsertView, IInv, TypeOK, ViewInv

LEMMA RequestIsSafe ==
    ASSUME IInv, NEW r \in Requests, Request(r) PROVE IInv'
<1>. TypeOK /\ ProcessInv
  BY DEF IInv
<1>1. ASSUME pc[r] = "admitted" PROVE process = "up"
  BY <1>1 DEF ProcessInv
<1>2. CASE Ensure(r)
  <2>1. settings' \in [Slots -> SUBSET Values] /\ ChoiceInv' /\ LibrariesAreConfigured'
    BY <1>2, ConstantsAssumption, ConfiguredKeeps DEF Ensure, DefaultRow
  <2>2. TypeOK' /\ ProcessInv'
    BY <1>2, <2>1, ConstantsAssumption DEF Ensure, DefaultRow, TypeOK, ProcessInv
  <2>3. DefaultIsUnique' /\ ViewInv'
    BY <1>2 DEF Ensure, DefaultRow, IndexAllows, DefaultIsUnique, IInv, ViewInv
  <2>4. QED
    BY <2>1, <2>2, <2>3 DEF IInv
<1>3. CASE EnsureFails(r) \/ Respond(r)
  BY <1>3 DEF EnsureFails, Respond, database, IInv, TypeOK, ProcessInv, ChoiceInv, ViewInv,
              DefaultIsUnique, LibrariesAreConfigured
<1>4. ASSUME NEW l \in Libraries, NEW isDefault \in BOOLEAN, SaveLibrary(r, l, isDefault)
      PROVE  IInv'
  <2>1. settings' \in [Slots -> SUBSET Values] /\ ChoiceInv' /\ LibrariesAreConfigured'
    BY <1>1, <1>4, ConfiguredKeeps DEF SaveLibrary, Handle
  <2>2. defaults' = {l} \/ defaults' = defaults \ {l}
    BY <1>4 DEF SaveLibrary
  <2>3. TypeOK' /\ ProcessInv'
    BY <1>4, <2>1, <2>2 DEF SaveLibrary, Handle, TypeOK, ProcessInv
  <2>4. DefaultIsUnique' /\ ViewInv'
    BY <1>4, <2>2 DEF SaveLibrary, DefaultIsUnique, IInv, ViewInv
  <2>5. QED
    BY <2>1, <2>3, <2>4 DEF IInv
<1>5. ASSUME NEW l \in Libraries, NEW k \in Keys, NEW v \in Values, SaveSetting(r, l, k, v)
      PROVE  IInv'
  <2>1. /\ settings' \in [Slots -> SUBSET Values] /\ chosen' \in [Slots -> SUBSET Values]
        /\ settings'[<<l, k>>] = {v} /\ chosen'[<<l, k>>] = {v}
        /\ \A m \in Libraries, j \in Keys : <<m, j>> # <<l, k>> =>
             settings'[<<m, j>>] = settings[<<m, j>>] /\ chosen'[<<m, j>>] = chosen[<<m, j>>]
    BY <1>5 DEF SaveSetting, TypeOK, Slots
  <2>2. TypeOK' /\ ProcessInv'
    BY <1>5, <2>1 DEF SaveSetting, Handle, TypeOK, ProcessInv
  <2>3. ChoiceInv'
    <3>1. UNCHANGED <<process, oldSettings>>
      BY <1>5 DEF SaveSetting, Handle
    <3>2. ASSUME NEW m \in Libraries, NEW j \in Keys, chosen'[<<m, j>>] # {}, <<m, j>> # <<l, k>>
          PROVE  \/ settings'[<<m, j>>] = chosen'[<<m, j>>]
                 \/ /\ process # "up" /\ m = Default
                    /\ settings'[<<m, j>>] = {} /\ oldSettings[j] = chosen'[<<m, j>>]
      BY <2>1, <3>2 DEF IInv, ChoiceInv
    <3>3. QED
      BY <2>1, <3>1, <3>2 DEF ChoiceInv
  <2>4. LibrariesAreConfigured'
    <3>1. \A m \in libraries, j \in Keys : m \in Libraries /\ settings[<<m, j>>] # {}
      BY DEF IInv, LibrariesAreConfigured, TypeOK
    <3>2. \A m \in libraries, j \in Keys : settings'[<<m, j>>] # {}
      BY <2>1, <3>1
    <3>3. QED
      BY <1>5, <3>2 DEF SaveSetting, LibrariesAreConfigured
  <2>5. DefaultIsUnique' /\ ViewInv'
    BY <1>5 DEF SaveSetting, DefaultIsUnique, IInv, ViewInv
  <2>6. QED
    BY <2>2, <2>3, <2>4, <2>5 DEF IInv
<1>6. ASSUME NEW view \in View, CreateView(r, view) \/ UpdateView(r, view) \/ DeleteView(r, view)
      PROVE  IInv'
  <2>1. views' \in SUBSET View /\ ViewInv'
    <3>1. CASE CreateView(r, view) \/ UpdateView(r, view)
      BY <3>1, UpsertKeepsViews DEF CreateView, UpdateView
    <3>2. CASE DeleteView(r, view)
      BY <3>2 DEF DeleteView, TypeOK, IInv, ViewInv
    <3>3. QED
      BY <1>6, <3>1, <3>2
  <2>2. /\ UNCHANGED <<libraries, defaults, settings, oldSettings, process, chosen>>
        /\ pc' = [pc EXCEPT ![r] = "idle"]
    BY <1>6 DEF CreateView, UpdateView, DeleteView, UpsertView, Handle
  <2>3. QED
    BY <2>1, <2>2 DEF IInv, TypeOK, ProcessInv, ChoiceInv, DefaultIsUnique, LibrariesAreConfigured
<1>7. QED
  BY <1>2, <1>3, <1>4, <1>5, <1>6 DEF Request

LEMMA Safety == Spec => []IInv
<1>1. IInv /\ [Next]_vars => IInv'
  BY ProcessIsSafe, RequestIsSafe DEF Next
<1>2. QED
  BY InitIsSafe, <1>1, PTL DEF Spec

-----------------------------------------------------------------------------
\* Every variable keeps its type.
THEOREM TypeCorrect == Spec => []TypeOK
BY Safety, PTL DEF IInv

\* No repair, restart or migration changes what was chosen (initialize,
\* ensure_default_library, upsert_library).
THEOREM ChoicesAreKept == Spec => []SettingsAreKept
<1>1. IInv => SettingsAreKept
  BY DEF IInv, ChoiceInv, SettingsAreKept, Slots
<1>2. QED
  BY Safety, <1>1, PTL

\* No library is a second default: the unique index refuses only repairs of
\* the default library (upsert_library).
THEOREM DefaultStaysUnique == Spec => []DefaultIsUnique
BY Safety, PTL DEF IInv

\* Every library has its settings as soon as it exists (upsert_library).
THEOREM LibrariesStayConfigured == Spec => []LibrariesAreConfigured
BY Safety, PTL DEF IInv

\* No view moves to another library (_update_view_for_library).
THEOREM ViewsStay == Spec => ViewsStayInTheirLibrary
<1>1. ASSUME IInv, Next, NEW v \in views, NEW w \in views', v.id = w.id
      PROVE  v.library = w.library
  <2>1. CASE views' \subseteq views
    BY <1>1, <2>1 DEF IInv, ViewInv
  <2>2. ASSUME NEW r \in Requests, NEW view \in View, CreateView(r, view) \/ UpdateView(r, view)
        PROVE  v.library = w.library
    <3>1. w \in views \/ w = view
      BY <2>2 DEF CreateView, UpdateView, UpsertView
    <3>2. CASE w \in views
      BY <1>1, <3>2 DEF IInv, ViewInv
    <3>3. CASE w = view
      BY <1>1, <2>2, <3>3 DEF CreateView, UpdateView, IInv, ViewInv
    <3>4. QED
      BY <3>1, <3>2, <3>3
  <2>3. views' \subseteq views \/ \E r \in Requests, view \in View :
                                       CreateView(r, view) \/ UpdateView(r, view)
    BY <1>1 DEF Next, Initialize, InitializeFails, Restart, Request, Ensure, EnsureFails,
                Respond, SaveLibrary, SaveSetting, DeleteView, database
  <2>4. QED
    BY <2>1, <2>2, <2>3
<1>2. IInv /\ [Next]_vars =>
          [\A v \in views, w \in views' : v.id = w.id => v.library = w.library]_vars
  BY <1>1
<1>3. QED
  BY Safety, <1>2, PTL DEF Spec, ViewsStayInTheirLibrary
=============================================================================
