--------------------------- MODULE AutomationProofs ---------------------------
(***************************************************************************)
(* What runs are launched with, and what members write, proved.            *)
(***************************************************************************)
EXTENDS Automation, FiniteSetTheorems, WellFoundedInduction, TLAPS

-------------------------------------------------------------------------------
(* The configuration of runs                                               *)

\* Presets and recipes are rows with numbered versions.
Rows(Content) ==
    [state : {"NONE", "ACTIVE", "ARCHIVED"}, current : 0 .. MaxVersion, revision : Nat,
     version : [Versions -> Content \cup {None}]]
PresetRows == Rows(VersionRows)
Digests == Nat
RecipeRows == Rows(Digests)

\* What is stored, and what the runner's owner grants.
RowsForm ==
    /\ preset \in [Presets -> PresetRows] /\ recipe \in [Recipes -> RecipeRows]
    /\ \A p \in Presets : /\ preset[p].state = "NONE" => preset[p].current = 0
                          /\ preset[p].current <= preset[p].revision
    /\ \A c \in Recipes : recipe[c].state = "NONE" => recipe[c].current = 0
    /\ default # None => default.preset \in Presets /\ default.version \in Versions
                         /\ default.version <= preset[default.preset].current
GrantForm ==
    /\ owned \in BOOLEAN
    /\ runner \in [epoch : Nat, live : BOOLEAN, policy : Facts]
    /\ mapping \in [revision : Facts, live : BOOLEAN]
    /\ exposure \in [live : BOOLEAN, mapping : Facts, policy : Facts,
                     acknowledged : BOOLEAN]
    /\ owned => ~exposure.live /\ ~exposure.acknowledged

\* A version that exists is a row, and names a version of its recipe that exists.
RecipeThere(ver) ==
    ver.recipe # None => ver.recipeVersion \in 1 .. recipe[ver.recipe].current
VersionsInv ==
    \A p \in Presets : \A v \in Versions :
        v <= preset[p].current =>
            preset[p].version[v] \in VersionRows /\ RecipeThere(preset[p].version[v])

\* A configuration is of a version that exists, as it is.
Stands(c) ==
    /\ c \in Shown /\ c.presetVersion <= preset[c.preset].current
    /\ c.of = preset[c.preset].version[c.presetVersion]

\* A launch on its way has what it was resolved to, and what was withdrawn meanwhile
\* is seen to be.
Pinned(command) ==
    /\ command \in Commands /\ Stands(command.digest)
    /\ command.preset = command.digest.preset
    /\ command.version = command.digest.presetVersion
    /\ command.exposed = ~owned
    /\ command.digest.policy <= runner.policy
    /\ command.digest.of.mapping <= mapping.revision
WithdrawnSeen(r) ==
    LET c == launch[r].command.digest IN
    /\ withdrawn[r] \subseteq {"PRESET", "POLICY", "RUNNER", "MAPPING", "EXPOSURE"}
    /\ "PRESET" \in withdrawn[r] => preset[c.preset].state = "ARCHIVED"
    /\ "POLICY" \in withdrawn[r] => c.policy < runner.policy
    /\ "RUNNER" \in withdrawn[r] => ~runner.live
    /\ "MAPPING" \in withdrawn[r] => ~mapping.live \/ c.of.mapping < mapping.revision
    /\ "EXPOSURE" \in withdrawn[r] => ~owned /\ ~(exposure.live /\ exposure.acknowledged)
Prepared(l) ==
    /\ l.configuration = l.command.digest
    /\ l.envelope = EnvelopeOf(l.configuration.of)
    /\ l.configuration.of.recipe # None
    /\ l.command.exposed => l.configuration.exposure = 1

LaunchForm ==
    /\ \A r \in Runs : launch[r].phase \in Phases
    /\ DOMAIN launch = Runs /\ DOMAIN snapshot = Runs /\ DOMAIN withdrawn = Runs
LaunchInv ==
    \A r \in Runs :
        /\ r \in UnderWay => Pinned(launch[r].command) /\ WithdrawnSeen(r)
        /\ launch[r].phase = "PREPARED" => Prepared(launch[r])
        /\ launch[r].phase = "NONE" => withdrawn[r] = {}
SnapshotInv ==
    \A r \in Runs :
        /\ launch[r].phase = "STORED" <=> snapshot[r] # None
        /\ snapshot[r] # None =>
             /\ Stands(snapshot[r].configuration)
             /\ snapshot[r].configuration = snapshot[r].shown.digest
             /\ snapshot[r].configuration.of.recipe # None
             /\ snapshot[r].envelope = EnvelopeOf(snapshot[r].configuration.of)
             /\ withdrawn[r] = {}

ConfigurationInv ==
    RowsForm /\ GrantForm /\ VersionsInv /\ LaunchForm /\ LaunchInv /\ SnapshotInv

\* Versions are added and never changed; what is archived stays archived.
RowGrows(row, next) ==
    /\ row.current <= next.current
    /\ \A v \in Versions : v <= row.current => next.version[v] = row.version[v]
    /\ row.state = "ARCHIVED" => next.state = "ARCHIVED"
Grows ==
    /\ \A p \in Presets : RowGrows(preset[p], preset'[p])
    /\ \A c \in Recipes : RowGrows(recipe[c], recipe'[c])

LEMMA PresetPut ==
    ASSUME RowsForm, VersionsInv, NEW p \in Presets, NEW row \in PresetRows,
           preset' = [preset EXCEPT ![p] = row], UNCHANGED <<recipe, default>>,
           RowGrows(preset[p], row), row.state # "NONE", row.current <= row.revision,
           \A v \in Versions : v <= row.current /\ v > preset[p].current =>
               row.version[v] \in VersionRows /\ RecipeThere(row.version[v])
    PROVE  RowsForm' /\ VersionsInv' /\ Grows
<1>1. /\ preset'[p] = row /\ preset' \in [Presets -> PresetRows]
      /\ \A q \in Presets \ {p} : preset'[q] = preset[q]
    BY DEF RowsForm
<1>2. /\ \A q \in Presets : preset[q].current \in Nat /\ preset'[q].current \in Nat
      /\ row.current \in Nat
      /\ default # None => default.version \in Nat
    BY <1>1, ConfigurationAssumption DEF RowsForm, PresetRows, Rows, Versions
<1>3. Grows
    BY <1>1, <1>2, ConfigurationAssumption DEF Grows, RowGrows, RowsForm, RecipeRows, Rows
<1>4. \A q \in Presets : preset[q].current <= preset'[q].current
    BY <1>3 DEF Grows, RowGrows
<1>5. RowsForm'
    <2>1. default # None =>
            /\ default.preset \in Presets /\ default.version \in Versions
            /\ default.version <= preset'[default.preset].current
        BY <1>2, <1>4 DEF RowsForm
    <2> QED BY <1>1, <2>1 DEF RowsForm
<1>6. VersionsInv'
    <2>1. ASSUME NEW v \in Versions, v <= row.current
          PROVE  row.version[v] \in VersionRows /\ RecipeThere(row.version[v])
        <3>1. CASE v <= preset[p].current
            BY <2>1, <3>1 DEF RowGrows, VersionsInv
        <3>2. CASE v > preset[p].current
            BY <2>1, <3>2
        <3> QED BY <1>2, <3>1, <3>2 DEF Versions
    <2> QED BY <1>1, <2>1 DEF VersionsInv, RecipeThere
<1> QED BY <1>3, <1>5, <1>6


LEMMA EditedRow ==
    ASSUME NEW Content, NEW row \in Rows(Content), row.current < MaxVersion, NEW ver \in Content
    PROVE  /\ Edited(row, ver) \in Rows(Content)
           /\ Edited(row, ver).state = row.state /\ Edited(row, ver).current = row.current + 1
           /\ Edited(row, ver).revision = row.revision + 1
           /\ Edited(row, ver).version = [row.version EXCEPT ![row.current + 1] = ver]
<1> USE DEF Rows
<1> DEFINE n == row.current + 1
           m == row.revision + 1
           f == [row.version EXCEPT ![row.current + 1] = ver]
<1>1. n \in Versions /\ n \in 0 .. MaxVersion /\ m \in Nat
    BY ConfigurationAssumption DEF Versions
<1>2. f \in [Versions -> Content \cup {None}]
    BY <1>1
<1>3. Edited(row, ver) = [row EXCEPT !.current = n, !.revision = m, !.version = f]
    BY DEF Edited
<1>4. n = row.current + 1 /\ m = row.revision + 1
      /\ f = [row.version EXCEPT ![row.current + 1] = ver]
    OBVIOUS
<1> HIDE DEF n, m, f
<1> QED BY <1>1, <1>2, <1>3, <1>4

LEMMA NewVersionForm ==
    ASSUME RowsForm, GrantForm, NEW ver \in NewVersions
    PROVE  ver \in VersionRows /\ RecipeThere(ver) /\ BindingCurrent(ver)
<1>1. /\ ver \in [epoch : {runner.epoch}, mapping : {mapping.revision}, template : BOOLEAN,
                  recipe : Recipes \cup {None}, recipeVersion : 0 .. MaxVersion]
      /\ ver.recipe # None => ver.recipeVersion \in 1 .. recipe[ver.recipe].current
      /\ BindingCurrent(ver)
    BY DEF NewVersions
<1> QED BY <1>1 DEF GrantForm, VersionRows, RecipeThere

LEMMA PresetStep ==
    ASSUME RowsForm, GrantForm, VersionsInv, NEW p \in Presets,
           CreatePreset(p) \/ EditPreset(p) \/ ArchivePreset(p)
    PROVE  RowsForm' /\ VersionsInv' /\ Grows
<1>1. preset[p] \in PresetRows /\ preset[p].current \in Nat /\ UNCHANGED <<recipe, default>>
    BY ConfigurationAssumption DEF RowsForm, PresetRows, Rows, CreatePreset, EditPreset, ArchivePreset
<1>2. CASE CreatePreset(p)
    <2>1. PICK ver \in NewVersions :
             preset' = [preset EXCEPT ![p] = [state |-> "ACTIVE", current |-> 1, revision |-> 1,
                                              version |-> [@.version EXCEPT ![1] = ver]]]
        BY <1>2 DEF CreatePreset
    <2> DEFINE row == [state |-> "ACTIVE", current |-> 1, revision |-> 1,
                       version |-> [preset[p].version EXCEPT ![1] = ver]]
    <2>2. ver \in VersionRows /\ RecipeThere(ver)
        BY <2>1, NewVersionForm
    <2>3. 1 \in Versions /\ 1 \in 0 .. MaxVersion /\ 1 \in Nat
        BY ConfigurationAssumption DEF Versions
    <2>4. row \in PresetRows /\ row.version[1] = ver
        BY <1>1, <2>2, <2>3 DEF PresetRows, Rows
    <2>5. preset[p].current = 0 /\ preset[p].state = "NONE"
        BY <1>2 DEF RowsForm, CreatePreset
    <2>6. RowGrows(preset[p], row)
        BY <2>5, ConfigurationAssumption DEF RowGrows, Versions
    <2>7. \A v \in Versions : v <= row.current /\ v > preset[p].current => v = 1
        BY <2>5, ConfigurationAssumption DEF Versions
    <2>8. preset' = [preset EXCEPT ![p] = row]
        BY <2>1
    <2>9. row.state # "NONE" /\ row.current <= row.revision
        OBVIOUS
    <2> HIDE DEF row
    <2> QED BY <1>1, <2>2, <2>4, <2>6, <2>7, <2>8, <2>9, PresetPut
<1>3. CASE EditPreset(p)
    <2>1. PICK ver \in NewVersions : preset' = [preset EXCEPT ![p] = Edited(@, ver)]
        BY <1>3 DEF EditPreset
    <2> DEFINE row == Edited(preset[p], ver)
    <2>2. ver \in VersionRows /\ RecipeThere(ver)
        BY <2>1, NewVersionForm
    <2>3. /\ row \in PresetRows /\ row.state = preset[p].state
          /\ row.current = preset[p].current + 1 /\ row.revision = preset[p].revision + 1
          /\ row.version = [preset[p].version EXCEPT ![preset[p].current + 1] = ver]
        BY <1>1, <1>3, <2>2, EditedRow DEF EditPreset, PresetRows
    <2>4. preset' = [preset EXCEPT ![p] = row]
        BY <2>1
    <2> HIDE DEF row
    <2>5. preset[p].current + 1 \in Versions /\ preset[p].version \in [Versions -> VersionRows \cup {None}]
        BY <1>1, <1>3, ConfigurationAssumption DEF EditPreset, Versions, PresetRows, Rows
    <2>6. RowGrows(preset[p], row)
        BY <1>1, <1>3, <2>3, <2>5, ConfigurationAssumption DEF RowGrows, Versions, EditPreset
    <2>7. \A v \in Versions : v <= row.current /\ v > preset[p].current => row.version[v] = ver
        BY <1>1, <2>3, <2>5, ConfigurationAssumption DEF Versions
    <2>8. row.state # "NONE" /\ row.current <= row.revision
        <3>1. preset[p].revision \in Nat /\ preset[p].current <= preset[p].revision
            BY <1>1 DEF RowsForm, PresetRows, Rows
        <3> QED BY <1>1, <1>3, <2>3, <3>1 DEF EditPreset
    <2> QED BY <1>1, <2>2, <2>3, <2>4, <2>6, <2>7, <2>8, PresetPut
<1>4. CASE ArchivePreset(p)
    <2> DEFINE n == preset[p].revision + 1
               row == [preset[p] EXCEPT !.state = "ARCHIVED", !.revision = n]
    <2>1. preset' = [preset EXCEPT ![p] = row]
        BY <1>1, <1>4 DEF ArchivePreset, PresetRows, Rows, RowsForm
    <2>2. n \in Nat /\ preset[p].current <= n
        BY <1>1 DEF RowsForm, PresetRows, Rows
    <2> HIDE DEF n
    <2>3. /\ row.state = "ARCHIVED" /\ row.current = preset[p].current
          /\ row.revision = n /\ row.version = preset[p].version
        BY <1>1 DEF PresetRows, Rows
    <2>4. row \in PresetRows
        BY <1>1, <2>2 DEF PresetRows, Rows
    <2>5. row.current <= row.revision
        BY <2>2, <2>3
    <2> HIDE DEF row
    <2>6. RowGrows(preset[p], row)
        BY <1>1, <2>3 DEF RowGrows
    <2>7. \A v \in Versions : ~(v <= row.current /\ v > preset[p].current)
        BY <1>1, <2>3, ConfigurationAssumption DEF Versions
    <2> QED BY <1>1, <2>1, <2>3, <2>4, <2>5, <2>6, <2>7, PresetPut
<1> QED BY <1>2, <1>3, <1>4


LEMMA RecipePut ==
    ASSUME RowsForm, VersionsInv, NEW c \in Recipes, NEW row \in RecipeRows,
           recipe' = [recipe EXCEPT ![c] = row], UNCHANGED <<preset, default>>,
           RowGrows(recipe[c], row), row.state # "NONE"
    PROVE  RowsForm' /\ VersionsInv' /\ Grows
<1>1. /\ recipe'[c] = row /\ recipe' \in [Recipes -> RecipeRows]
      /\ \A d \in Recipes \ {c} : recipe'[d] = recipe[d]
    BY DEF RowsForm
<1>2. \A d \in Recipes : recipe[d].current \in Nat /\ recipe'[d].current \in Nat
    BY <1>1, ConfigurationAssumption DEF RowsForm, RecipeRows, Rows
<1>3. \A d \in Recipes : RowGrows(recipe[d], recipe'[d])
    BY <1>1, <1>2 DEF RowGrows
<1>4. Grows
    BY <1>3, ConfigurationAssumption DEF Grows, RowGrows, RowsForm, PresetRows, Rows
<1>5. RowsForm'
    BY <1>1 DEF RowsForm
<1>6. VersionsInv'
    <2>1. ASSUME NEW p \in Presets, NEW v \in Versions, v <= preset[p].current
          PROVE  preset[p].version[v] \in VersionRows /\ RecipeThere(preset[p].version[v])'
        <3> DEFINE ver == preset[p].version[v]
        <3>1. ver \in VersionRows /\ RecipeThere(ver)
            BY <2>1 DEF VersionsInv
        <3>2. CASE ver.recipe # None
            <4>1. ver.recipe \in Recipes /\ ver.recipeVersion \in Nat
                BY <3>1, <3>2, ConfigurationAssumption DEF VersionRows
            <4>2. recipe[ver.recipe].current <= recipe'[ver.recipe].current
                BY <1>3, <4>1 DEF RowGrows
            <4>3. ver.recipeVersion \in 1 .. recipe'[ver.recipe].current
                BY <1>2, <3>1, <3>2, <4>1, <4>2 DEF RecipeThere
            <4> QED BY <3>1, <4>3 DEF RecipeThere
        <3> QED BY <3>1, <3>2 DEF RecipeThere
    <2> QED BY <2>1 DEF VersionsInv
<1> QED BY <1>4, <1>5, <1>6

LEMMA RecipeStep ==
    ASSUME RowsForm, VersionsInv, NEW c \in Recipes,
           CreateRecipe(c) \/ EditRecipe(c) \/ ArchiveRecipe(c)
    PROVE  RowsForm' /\ VersionsInv' /\ Grows
<1>1. /\ recipe[c] \in RecipeRows /\ recipe[c].current \in Nat /\ recipe[c].revision \in Nat
      /\ UNCHANGED <<preset, default>>
    BY ConfigurationAssumption
       DEF RowsForm, RecipeRows, Digests, Rows, CreateRecipe, EditRecipe, ArchiveRecipe
<1>2. CASE CreateRecipe(c)
    <2> DEFINE row == [state |-> "ACTIVE", current |-> 1, revision |-> 1,
                       version |-> [recipe[c].version EXCEPT ![1] = 1]]
    <2>1. recipe' = [recipe EXCEPT ![c] = row]
        BY <1>2 DEF CreateRecipe
    <2>2. 1 \in Versions /\ 1 \in 0 .. MaxVersion /\ 1 \in Nat
        BY ConfigurationAssumption DEF Versions
    <2>3. row \in RecipeRows
        BY <1>1, <2>2 DEF RecipeRows, Digests, Rows
    <2>4. recipe[c].current = 0 /\ recipe[c].state = "NONE"
        BY <1>2 DEF RowsForm, CreateRecipe
    <2>5. RowGrows(recipe[c], row)
        BY <2>4, ConfigurationAssumption DEF RowGrows, Versions
    <2> QED BY <1>1, <2>1, <2>3, <2>5, RecipePut
<1>3. CASE EditRecipe(c)
    <2> DEFINE n == recipe[c].revision + 1
               row == Edited(recipe[c], n)
    <2>1. recipe' = [recipe EXCEPT ![c] = row] /\ n \in Nat
        BY <1>1, <1>3 DEF EditRecipe
    <2> HIDE DEF n
    <2>2. /\ row \in RecipeRows /\ row.state = recipe[c].state
          /\ row.current = recipe[c].current + 1
          /\ row.version = [recipe[c].version EXCEPT ![recipe[c].current + 1] = n]
        <3>1. /\ recipe[c] \in Rows(Digests) /\ recipe[c].current < MaxVersion
              /\ n \in Digests
            BY <1>1, <1>3, <2>1 DEF EditRecipe, RecipeRows, Digests
        <3> QED BY <3>1, EditedRow DEF RecipeRows
    <2> HIDE DEF row
    <2>3. RowGrows(recipe[c], row) /\ row.state # "NONE"
        BY <1>1, <1>3, <2>2, ConfigurationAssumption
           DEF RowGrows, Versions, EditRecipe, RecipeRows, Digests, Rows
    <2> QED BY <1>1, <2>1, <2>2, <2>3, RecipePut
<1>4. CASE ArchiveRecipe(c)
    <2> DEFINE n == recipe[c].revision + 1
               row == [recipe[c] EXCEPT !.state = "ARCHIVED", !.revision = n]
    <2>1. recipe' = [recipe EXCEPT ![c] = row] /\ n \in Nat
        BY <1>1, <1>4 DEF ArchiveRecipe, RecipeRows, Digests, Rows, RowsForm
    <2> HIDE DEF n
    <2>2. /\ row.state = "ARCHIVED" /\ row.current = recipe[c].current
          /\ row.version = recipe[c].version /\ row \in RecipeRows
        BY <1>1, <2>1 DEF RecipeRows, Digests, Rows
    <2> HIDE DEF row
    <2>3. RowGrows(recipe[c], row)
        BY <1>1, <2>2 DEF RowGrows
    <2> QED BY <1>1, <2>1, <2>2, <2>3, RecipePut
<1> QED BY <1>2, <1>3, <1>4

-------------------------------------------------------------------------------
(* The launches, while what they were resolved from changes                *)

FactsGrow ==
    /\ owned' = owned
    /\ runner.policy <= runner'.policy /\ (~runner.live => ~runner'.live)
    /\ mapping.revision <= mapping'.revision /\ (~mapping.live => ~mapping'.live)

LEMMA StandsOn ==
    ASSUME RowsForm, VersionsInv, Grows, RowsForm', NEW c, Stands(c)
    PROVE  /\ c \in Shown /\ c.presetVersion <= preset'[c.preset].current
           /\ c.of = preset'[c.preset].version[c.presetVersion]
           /\ c.of.recipe # None =>
                recipe'[c.of.recipe].version[c.of.recipeVersion]
                  = recipe[c.of.recipe].version[c.of.recipeVersion]
<1>1. /\ c \in Shown /\ c.preset \in Presets /\ c.presetVersion \in Versions
      /\ c.of \in VersionRows
      /\ c.presetVersion <= preset[c.preset].current
      /\ c.of = preset[c.preset].version[c.presetVersion]
    BY DEF Stands, Shown
<1>2. /\ preset[c.preset].current \in Nat /\ preset'[c.preset].current >= preset[c.preset].current
      /\ preset'[c.preset].version[c.presetVersion] = c.of
    BY <1>1, ConfigurationAssumption DEF Grows, RowGrows, RowsForm, PresetRows, Rows
<1>3. c.presetVersion <= preset'[c.preset].current
    <2>1. c.presetVersion \in Nat
        BY <1>1, ConfigurationAssumption DEF Versions
    <2>2. preset'[c.preset].current \in Nat
        BY <1>1, ConfigurationAssumption DEF RowsForm, PresetRows, Rows
    <2> QED BY <1>1, <1>2, <2>1, <2>2
<1>4. CASE c.of.recipe # None
    <2>1. c.of.recipe \in Recipes /\ c.of.recipeVersion \in 1 .. recipe[c.of.recipe].current
        BY <1>1, <1>4 DEF VersionsInv, RecipeThere, VersionRows
    <2>2. recipe[c.of.recipe].current \in 0 .. MaxVersion
        BY <2>1 DEF RowsForm, RecipeRows, Rows
    <2>3. c.of.recipeVersion \in Versions /\ c.of.recipeVersion <= recipe[c.of.recipe].current
        BY <2>1, <2>2, ConfigurationAssumption DEF Versions
    <2> QED BY <1>1, <1>2, <1>3, <2>1, <2>3 DEF Grows, RowGrows
<1> QED BY <1>1, <1>2, <1>3, <1>4


\* The facts that a configuration names, and those there are, are numbers.
LEMMA FactsOfForm ==
    /\ \A c \in Shown : c.policy \in Nat /\ c.of.mapping \in Nat
    /\ GrantForm => runner.policy \in Nat /\ mapping.revision \in Nat
    /\ GrantForm' => runner'.policy \in Nat /\ mapping'.revision \in Nat
<1>1. Facts \subseteq Nat
    BY ConfigurationAssumption DEF Facts
<1>2. \A c \in Shown : c.policy \in Facts /\ c.of \in VersionRows
    BY DEF Shown
<1>3. \A v \in VersionRows : v.mapping \in Facts
    BY DEF VersionRows
<1>4. GrantForm => runner.policy \in Facts /\ mapping.revision \in Facts
    BY DEF GrantForm
<1>5. GrantForm' => runner'.policy \in Facts /\ mapping'.revision \in Facts
    BY DEF GrantForm
<1> QED BY <1>1, <1>2, <1>3, <1>4, <1>5

\* Launches and snapshots that nobody touches stay right while rows and facts move on.
LEMMA RunsStand ==
    ASSUME ConfigurationInv, RowsForm', GrantForm', Grows, FactsGrow, UNCHANGED <<launch, snapshot>>,
           \A r \in Runs : /\ r \in UnderWay => WithdrawnSeen(r)'
                           /\ r \notin UnderWay => withdrawn'[r] \subseteq withdrawn[r]
    PROVE  LaunchInv' /\ SnapshotInv'
<1>1. RowsForm /\ GrantForm /\ VersionsInv /\ LaunchForm /\ LaunchInv /\ SnapshotInv
    BY DEF ConfigurationInv
<1>2. UnderWay' = UnderWay
    BY DEF UnderWay
<1>3. ASSUME NEW r \in UnderWay PROVE Pinned(launch[r].command)'
    <2> DEFINE command == launch[r].command
    <2>1. r \in Runs /\ Pinned(command)
        BY <1>1, <1>3 DEF LaunchInv, UnderWay
    <2>2. /\ command.digest \in Shown
          /\ command.digest.presetVersion <= preset'[command.digest.preset].current
          /\ command.digest.of = preset'[command.digest.preset].version[command.digest.presetVersion]
        BY <1>1, <2>1, StandsOn DEF Pinned
    <2>3. command.digest.policy <= runner'.policy /\ command.digest.of.mapping <= mapping'.revision
        <3>1. /\ command.digest.policy \in Nat /\ command.digest.of.mapping \in Nat
              /\ runner.policy \in Nat /\ runner'.policy \in Nat
              /\ mapping.revision \in Nat /\ mapping'.revision \in Nat
            BY <1>1, <2>2, FactsOfForm
        <3> QED BY <2>1, <3>1 DEF Pinned, FactsGrow
    <2> QED BY <2>1, <2>2, <2>3 DEF Pinned, Stands, FactsGrow
<1>4. ASSUME NEW r \in Runs, launch[r].phase = "PREPARED" PROVE Prepared(launch[r])'
    <2> DEFINE c == launch[r].configuration
    <2>1. Prepared(launch[r]) /\ Pinned(launch[r].command)
        BY <1>1, <1>4 DEF LaunchInv, UnderWay
    <2>2. c.of.recipe # None /\ Stands(c)
        BY <2>1 DEF Prepared, Pinned
    <2>3. recipe'[c.of.recipe].version[c.of.recipeVersion]
            = recipe[c.of.recipe].version[c.of.recipeVersion]
        BY <1>1, <2>2, StandsOn
    <2> QED BY <2>1, <2>3 DEF Prepared, EnvelopeOf, RecipeDigest
<1>5. LaunchInv'
    <2>1. \A r \in Runs : launch[r].phase = "NONE" => withdrawn'[r] = {}
        BY <1>1 DEF LaunchInv, UnderWay
    <2> QED BY <1>2, <1>3, <1>4, <2>1 DEF LaunchInv, UnderWay
<1>6. SnapshotInv'
    <2>1. ASSUME NEW r \in Runs, snapshot[r] # None
          PROVE  /\ Stands(snapshot[r].configuration)'
                 /\ snapshot[r].envelope = EnvelopeOf(snapshot[r].configuration.of)'
                 /\ withdrawn'[r] = {}
        <3> DEFINE c == snapshot[r].configuration
        <3>1. /\ Stands(c) /\ c.of.recipe # None
              /\ snapshot[r].envelope = EnvelopeOf(c.of) /\ withdrawn[r] = {} /\ r \notin UnderWay
            BY <1>1, <2>1 DEF SnapshotInv, UnderWay
        <3>2. /\ c \in Shown /\ c.presetVersion <= preset'[c.preset].current
              /\ c.of = preset'[c.preset].version[c.presetVersion]
              /\ recipe'[c.of.recipe].version[c.of.recipeVersion]
                   = recipe[c.of.recipe].version[c.of.recipeVersion]
            BY <1>1, <3>1, StandsOn
        <3>3. snapshot[r].envelope = EnvelopeOf(c.of)'
            BY <3>1, <3>2 DEF EnvelopeOf, RecipeDigest
        <3> QED BY <3>1, <3>2, <3>3 DEF Stands
    <2> QED BY <1>1, <2>1 DEF SnapshotInv
<1> QED BY <1>5, <1>6

LEMMA ConfigurationKept ==
    ASSUME ConfigurationInv, RowsForm', GrantForm', VersionsInv', Grows, FactsGrow,
           UNCHANGED <<launch, snapshot>>, DOMAIN withdrawn' = Runs,
           \A r \in Runs : /\ r \in UnderWay => WithdrawnSeen(r)'
                           /\ r \notin UnderWay => withdrawn'[r] \subseteq withdrawn[r]
    PROVE  ConfigurationInv'
<1>1. LaunchForm'
    BY DEF ConfigurationInv, LaunchForm
<1>2. LaunchInv' /\ SnapshotInv'
    BY RunsStand
<1> QED BY <1>1, <1>2 DEF ConfigurationInv

\* What a member stores.
LEMMA StoredStep ==
    ASSUME ConfigurationInv,
           \/ \E p \in Presets : \/ CreatePreset(p) \/ EditPreset(p) \/ ArchivePreset(p)
                                 \/ \E v \in Versions : SetProjectDefault(p, v)
           \/ \E c \in Recipes : CreateRecipe(c) \/ EditRecipe(c) \/ ArchiveRecipe(c)
    PROVE  ConfigurationInv'
<1>1. RowsForm /\ GrantForm /\ VersionsInv /\ LaunchForm /\ LaunchInv /\ SnapshotInv
    BY DEF ConfigurationInv
<1>2. /\ UNCHANGED <<owned, granted, launch, snapshot>>
      /\ UNCHANGED withdrawn \/ \E p \in Presets : ArchivePreset(p)
    BY DEF CreatePreset, EditPreset, ArchivePreset, SetProjectDefault, CreateRecipe, EditRecipe,
       ArchiveRecipe, launches
<1>3. GrantForm' /\ FactsGrow
    BY <1>1, <1>2, ConfigurationAssumption DEF GrantForm, FactsGrow, granted, Facts
<1>4. RowsForm' /\ VersionsInv' /\ Grows
    <2>1. ASSUME NEW p \in Presets, NEW v \in Versions, SetProjectDefault(p, v)
          PROVE  RowsForm' /\ VersionsInv' /\ Grows
        <3>1. /\ UNCHANGED <<preset, recipe>> /\ default'.preset = p /\ default'.version = v
              /\ v <= preset[p].current
            BY <2>1 DEF SetProjectDefault
        <3>2. RowsForm' /\ VersionsInv'
            BY <1>1, <3>1 DEF RowsForm, VersionsInv, RecipeThere
        <3> QED BY <1>1, <3>1, <3>2, ConfigurationAssumption
                DEF Grows, RowGrows, RowsForm, PresetRows, RecipeRows, Rows
    <2> QED BY <1>1, <2>1, PresetStep, RecipeStep
<1>5. ASSUME NEW r \in UnderWay PROVE WithdrawnSeen(r)'
    <2> DEFINE c == launch[r].command.digest
    <2>1. r \in Runs /\ WithdrawnSeen(r) /\ Pinned(launch[r].command)
        BY <1>1, <1>5 DEF LaunchInv, UnderWay
    <2>2. c.preset \in Presets
        BY <2>1 DEF Pinned, Stands, Shown
    <2>3. preset[c.preset].state = "ARCHIVED" => preset'[c.preset].state = "ARCHIVED"
        BY <1>4, <2>2 DEF Grows, RowGrows
    <2>4. CASE UNCHANGED withdrawn
        BY <1>2, <2>1, <2>3, <2>4 DEF WithdrawnSeen, granted
    <2>5. ASSUME NEW p \in Presets, ArchivePreset(p) PROVE WithdrawnSeen(r)'
        <3>1. withdrawn'[r] = IF r \in Dispatched(p) THEN withdrawn[r] \cup {"PRESET"}
                              ELSE withdrawn[r]
            BY <1>5, <2>1, <2>5 DEF ArchivePreset, Withdraw, Dispatched
        <3>2. r \in Dispatched(p) => preset'[c.preset].state = "ARCHIVED"
            BY <1>1, <2>1, <2>2, <2>5 DEF Dispatched, ArchivePreset, Pinned, RowsForm, PresetRows, Rows
        <3> QED BY <1>2, <2>1, <2>3, <3>1, <3>2 DEF WithdrawnSeen, granted
    <2> QED BY <1>2, <2>4, <2>5
<1>6. /\ DOMAIN withdrawn' = Runs
      /\ \A r \in Runs \ UnderWay : withdrawn'[r] = withdrawn[r]
    BY <1>1, <1>2 DEF ArchivePreset, Withdraw, LaunchForm
<1> QED BY <1>2, <1>3, <1>4, <1>5, <1>6, ConfigurationKept


\* What the runner's registry withdraws is seen in the facts that it leaves.
LEMMA SeenAfter ==
    ASSUME GrantForm, GrantForm', FactsGrow, UNCHANGED <<preset, launch>>,
           NEW r \in Runs, Pinned(launch[r].command), WithdrawnSeen(r),
           NEW what \in {"POLICY", "RUNNER", "MAPPING", "EXPOSURE"},
           withdrawn'[r] \subseteq withdrawn[r] \cup {what},
           what = "POLICY" => runner.policy < runner'.policy,
           what = "RUNNER" => ~runner'.live,
           what = "MAPPING" => ~mapping'.live \/ mapping.revision < mapping'.revision,
           "EXPOSURE" \in withdrawn'[r] => ~owned /\ ~(exposure'.live /\ exposure'.acknowledged)
    PROVE  WithdrawnSeen(r)'
<1> DEFINE c == launch[r].command.digest
<1>1. /\ c.policy \in Nat /\ c.of.mapping \in Nat /\ c.policy <= runner.policy
      /\ c.of.mapping <= mapping.revision
    BY FactsOfForm DEF Pinned, Stands
<1>2. /\ runner.policy \in Nat /\ runner'.policy \in Nat
      /\ mapping.revision \in Nat /\ mapping'.revision \in Nat
    BY FactsOfForm
<1>3. withdrawn'[r] \subseteq {"PRESET", "POLICY", "RUNNER", "MAPPING", "EXPOSURE"}
    BY DEF WithdrawnSeen
<1>4. "PRESET" \in withdrawn'[r] => preset[c.preset].state = "ARCHIVED"
    BY DEF WithdrawnSeen
<1>5. "POLICY" \in withdrawn'[r] => c.policy < runner'.policy
    <2>1. CASE "POLICY" \in withdrawn[r]
        BY <1>1, <1>2, <2>1 DEF WithdrawnSeen, FactsGrow
    <2>2. CASE what = "POLICY"
        BY <1>1, <1>2, <2>2
    <2> QED BY <2>1, <2>2
<1>6. "RUNNER" \in withdrawn'[r] => ~runner'.live
    BY DEF WithdrawnSeen, FactsGrow
<1>7. "MAPPING" \in withdrawn'[r] => ~mapping'.live \/ c.of.mapping < mapping'.revision
    <2>1. CASE "MAPPING" \in withdrawn[r]
        BY <1>1, <1>2, <2>1 DEF WithdrawnSeen, FactsGrow
    <2>2. CASE what = "MAPPING"
        BY <1>1, <1>2, <2>2
    <2> QED BY <2>1, <2>2
<1> HIDE DEF c
<1>8. owned' = owned
    BY DEF FactsGrow
<1> QED BY <1>3, <1>4, <1>5, <1>6, <1>7, <1>8 DEF WithdrawnSeen, c

\* How the facts move: one thing is withdrawn, or an exposure is made.
FactsMove(what) ==
    /\ GrantForm' /\ FactsGrow
    /\ what = "POLICY" => runner.policy < runner'.policy
    /\ what = "RUNNER" => ~runner'.live
    /\ what = "MAPPING" => ~mapping'.live \/ mapping.revision < mapping'.revision
    /\ \/ Withdraw(what, Runs)
          /\ \/ exposure' = exposure /\ what # "EXPOSURE"
             \/ ~(exposure'.live /\ exposure'.acknowledged) /\ (what = "EXPOSURE" => ~owned)
       \/ withdrawn' = [r \in Runs |-> withdrawn[r] \ {"EXPOSURE"}]

LEMMA FactsMoveKeeps ==
    ASSUME ConfigurationInv, Registry, NEW what \in {"POLICY", "RUNNER", "MAPPING", "EXPOSURE"},
           FactsMove(what)
    PROVE  ConfigurationInv'
<1>1. RowsForm /\ GrantForm /\ VersionsInv /\ LaunchForm /\ LaunchInv /\ SnapshotInv
    BY DEF ConfigurationInv
<1>2. UNCHANGED <<preset, recipe, default, launch, snapshot>>
    BY DEF Registry, stored
<1>3. RowsForm' /\ VersionsInv'
    BY <1>1, <1>2 DEF RowsForm, VersionsInv, RecipeThere
<1>4. Grows
    BY <1>1, <1>2, ConfigurationAssumption DEF Grows, RowGrows, RowsForm, PresetRows, RecipeRows, Rows
<1>5. GrantForm' /\ FactsGrow
    BY DEF FactsMove
<1>6. ASSUME NEW r \in UnderWay PROVE WithdrawnSeen(r)'
    <2>1. r \in Runs /\ WithdrawnSeen(r) /\ Pinned(launch[r].command)
        BY <1>1, <1>6 DEF LaunchInv, UnderWay
    <2>2. /\ withdrawn'[r] \subseteq withdrawn[r] \cup {what}
          /\ "EXPOSURE" \in withdrawn'[r] => ~owned /\ ~(exposure'.live /\ exposure'.acknowledged)
        <3>1. CASE Withdraw(what, Runs)
                   /\ \/ exposure' = exposure /\ what # "EXPOSURE"
                      \/ /\ ~(exposure'.live /\ exposure'.acknowledged)
                         /\ what = "EXPOSURE" => ~owned
            <4>1. withdrawn'[r] = withdrawn[r] \cup {what}
                BY <1>6, <2>1, <3>1 DEF Withdraw
            <4> QED BY <2>1, <3>1, <4>1 DEF WithdrawnSeen
        <3>2. CASE withdrawn' = [q \in Runs |-> withdrawn[q] \ {"EXPOSURE"}]
            BY <2>1, <3>2
        <3> QED BY <3>1, <3>2 DEF FactsMove
    <2> QED BY <1>1, <1>2, <1>5, <2>1, <2>2, SeenAfter DEF FactsMove
<1>7. /\ DOMAIN withdrawn' = Runs
      /\ \A r \in Runs \ UnderWay : withdrawn'[r] \subseteq withdrawn[r]
    BY DEF FactsMove, Withdraw
<1> QED BY <1>2, <1>3, <1>4, <1>5, <1>6, <1>7, ConfigurationKept

LEMMA GrantedStep ==
    ASSUME ConfigurationInv,
           \/ ReplaceRunnerPolicy \/ RevokeRunner \/ ReplaceMapping \/ RevokeMapping
           \/ RevokeAcknowledgement \/ RevokeExposure \/ CreateExposure
    PROVE  ConfigurationInv'
<1> USE ConfigurationAssumption DEF GrantForm, FactsGrow, Facts
<1>1. GrantForm /\ owned' = owned
    BY DEF ConfigurationInv, ReplaceRunnerPolicy, RevokeRunner, ReplaceMapping, RevokeMapping,
           RevokeAcknowledgement, RevokeExposure, CreateExposure, Registry
<1>2. CASE ReplaceRunnerPolicy
    <2>1. /\ runner.policy + 1 \in Facts /\ runner.policy \in Nat /\ UNCHANGED <<mapping, exposure>>
          /\ runner' = [runner EXCEPT !.policy = runner.policy + 1] /\ Withdraw("POLICY", Runs)
          /\ Registry
        BY <1>1, <1>2 DEF ReplaceRunnerPolicy
    <2>2. /\ runner' \in [epoch : Nat, live : BOOLEAN, policy : Facts]
          /\ runner'.policy = runner.policy + 1 /\ runner'.live = runner.live
        BY <1>1, <2>1
    <2>3. FactsMove("POLICY")
        BY <1>1, <2>1, <2>2 DEF FactsMove
    <2> QED BY <2>1, <2>3, FactsMoveKeeps
<1>3. CASE RevokeRunner
    <2> DEFINE n == runner.epoch + 1
    <2>1. /\ runner' = [runner EXCEPT !.live = FALSE, !.epoch = n] /\ n \in Nat
          /\ mapping' = [mapping EXCEPT !.live = FALSE]
          /\ exposure' = [exposure EXCEPT !.live = FALSE, !.acknowledged = FALSE]
          /\ Withdraw("RUNNER", Runs) /\ Registry
        BY <1>1, <1>3 DEF RevokeRunner
    <2> HIDE DEF n
    <2>2. /\ runner' \in [epoch : Nat, live : BOOLEAN, policy : Facts]
          /\ runner'.policy = runner.policy /\ runner'.live = FALSE
        BY <1>1, <2>1
    <2>3. /\ mapping' \in [revision : Facts, live : BOOLEAN]
          /\ mapping'.revision = mapping.revision /\ mapping'.live = FALSE
        BY <1>1, <2>1
    <2>4. /\ exposure' \in [live : BOOLEAN, mapping : Facts, policy : Facts, acknowledged : BOOLEAN]
          /\ exposure'.live = FALSE /\ exposure'.acknowledged = FALSE
        BY <1>1, <2>1
    <2>5. runner.policy \in Nat /\ mapping.revision \in Nat
        BY <1>1
    <2>6. FactsMove("RUNNER")
        BY <1>1, <2>1, <2>2, <2>3, <2>4, <2>5 DEF FactsMove
    <2> QED BY <2>1, <2>6, FactsMoveKeeps
<1>4. CASE ReplaceMapping
    <2>1. /\ mapping.revision + 1 \in Facts /\ mapping.revision \in Nat /\ UNCHANGED <<runner, exposure>>
          /\ mapping' = [mapping EXCEPT !.revision = mapping.revision + 1]
          /\ Withdraw("MAPPING", Runs) /\ Registry
        BY <1>1, <1>4 DEF ReplaceMapping
    <2>2. /\ mapping' \in [revision : Facts, live : BOOLEAN]
          /\ mapping'.revision = mapping.revision + 1 /\ mapping'.live = mapping.live
        BY <1>1, <2>1
    <2>3. FactsMove("MAPPING")
        BY <1>1, <2>1, <2>2 DEF FactsMove
    <2> QED BY <2>1, <2>3, FactsMoveKeeps
<1>5. CASE RevokeMapping
    <2>1. /\ UNCHANGED <<runner, exposure>> /\ mapping' = [mapping EXCEPT !.live = FALSE]
          /\ Withdraw("MAPPING", Runs) /\ Registry
        BY <1>5 DEF RevokeMapping
    <2>2. /\ mapping' \in [revision : Facts, live : BOOLEAN]
          /\ mapping'.revision = mapping.revision /\ mapping'.live = FALSE
        BY <1>1, <2>1
    <2>3. FactsMove("MAPPING")
        BY <1>1, <2>1, <2>2 DEF FactsMove
    <2> QED BY <2>1, <2>3, FactsMoveKeeps
<1>6. CASE RevokeAcknowledgement
    <2>1. /\ UNCHANGED <<runner, mapping>> /\ exposure' = [exposure EXCEPT !.acknowledged = FALSE]
          /\ Withdraw("EXPOSURE", Runs) /\ Registry /\ ~owned
        BY <1>1, <1>6 DEF RevokeAcknowledgement
    <2>2. /\ exposure' \in [live : BOOLEAN, mapping : Facts, policy : Facts, acknowledged : BOOLEAN]
          /\ exposure'.acknowledged = FALSE
        BY <1>1, <2>1
    <2>3. FactsMove("EXPOSURE")
        BY <1>1, <2>1, <2>2 DEF FactsMove
    <2> QED BY <2>1, <2>3, FactsMoveKeeps
<1>7. CASE RevokeExposure
    <2>1. /\ UNCHANGED <<runner, mapping>> /\ exposure' = [exposure EXCEPT !.live = FALSE]
          /\ Withdraw("EXPOSURE", Runs) /\ Registry /\ ~owned
        BY <1>1, <1>7 DEF RevokeExposure
    <2>2. /\ exposure' \in [live : BOOLEAN, mapping : Facts, policy : Facts, acknowledged : BOOLEAN]
          /\ exposure'.live = FALSE
        BY <1>1, <2>1
    <2>3. FactsMove("EXPOSURE")
        BY <1>1, <2>1, <2>2 DEF FactsMove
    <2> QED BY <2>1, <2>3, FactsMoveKeeps
<1>8. CASE CreateExposure
    <2>1. /\ UNCHANGED <<runner, mapping>> /\ Registry /\ ~owned
          /\ exposure' = [live |-> TRUE, mapping |-> mapping.revision, policy |-> runner.policy,
                          acknowledged |-> TRUE]
          /\ withdrawn' = [r \in Runs |-> withdrawn[r] \ {"EXPOSURE"}]
        BY <1>8 DEF CreateExposure
    <2>2. exposure' \in [live : BOOLEAN, mapping : Facts, policy : Facts, acknowledged : BOOLEAN]
        BY <1>1, <2>1
    <2>3. FactsMove("EXPOSURE")
        BY <1>1, <2>1, <2>2 DEF FactsMove
    <2> QED BY <2>1, <2>3, FactsMoveKeeps
<1> QED BY <1>2, <1>3, <1>4, <1>5, <1>6, <1>7, <1>8


-------------------------------------------------------------------------------
(* The launches, as they go on                                             *)

OnTheWay == {"SHOWN", "FACTS", "PREPARED"}

\* What a snapshot must be.
Storable(s) ==
    /\ Stands(s.configuration) /\ s.configuration = s.shown.digest
    /\ s.configuration.of.recipe # None /\ s.envelope = EnvelopeOf(s.configuration.of)

LEMMA LaunchMoves ==
    ASSUME ConfigurationInv, UNCHANGED <<owned, stored, granted, withdrawn>>,
           NEW r \in Runs, NEW l, launch' = [launch EXCEPT ![r] = l],
           launch[r].phase # "STORED", l.phase \in Phases \ {"NONE"},
           l.phase \in OnTheWay => /\ Pinned(l.command)
                                   /\ \/ launch[r].phase = "NONE"
                                      \/ r \in UnderWay /\ launch[r].command = l.command,
           l.phase = "PREPARED" => Prepared(l),
           \/ snapshot' = snapshot /\ l.phase # "STORED"
           \/ /\ l.phase = "STORED" /\ withdrawn[r] = {}
              /\ \E s : s # None /\ Storable(s) /\ snapshot' = [snapshot EXCEPT ![r] = s]
    PROVE  ConfigurationInv'
<1>1. RowsForm /\ GrantForm /\ VersionsInv /\ LaunchForm /\ LaunchInv /\ SnapshotInv
    BY DEF ConfigurationInv
<1>2. /\ launch'[r] = l /\ DOMAIN launch' = Runs /\ DOMAIN snapshot' = Runs
      /\ \A q \in Runs \ {r} : launch'[q] = launch[q] /\ snapshot'[q] = snapshot[q]
    BY <1>1 DEF LaunchForm
<1>3. RowsForm' /\ GrantForm' /\ VersionsInv' /\ LaunchForm'
    <2>1. RowsForm' /\ GrantForm' /\ VersionsInv'
        BY <1>1 DEF RowsForm, GrantForm, VersionsInv, RecipeThere, stored, granted
    <2>2. LaunchForm'
        BY <1>1, <1>2 DEF LaunchForm
    <2> QED BY <2>1, <2>2
<1>4. ASSUME NEW command, Pinned(command)
      PROVE  /\ command \in Commands /\ Stands(command.digest)'
             /\ command.preset = command.digest.preset
             /\ command.version = command.digest.presetVersion
             /\ command.exposed = ~owned'
             /\ command.digest.policy <= runner'.policy
             /\ command.digest.of.mapping <= mapping'.revision
    BY <1>4 DEF Pinned, Stands, stored, granted
<1>5. LaunchInv'
    <2>1. ASSUME NEW q \in Runs \ {r}
          PROVE  /\ q \in UnderWay' => Pinned(launch[q].command)' /\ WithdrawnSeen(q)'
                 /\ launch'[q].phase = "PREPARED" => Prepared(launch[q])'
                 /\ launch'[q].phase = "NONE" => withdrawn'[q] = {}
        <3>1. q \in UnderWay' <=> q \in UnderWay
            BY <1>2 DEF UnderWay
        <3>2. /\ q \in UnderWay => Pinned(launch[q].command) /\ WithdrawnSeen(q)
              /\ launch[q].phase = "PREPARED" => Prepared(launch[q])
              /\ launch[q].phase = "NONE" => withdrawn[q] = {}
            BY <1>1 DEF LaunchInv
        <3>3. Pinned(launch[q].command) => Pinned(launch[q].command)'
            BY <1>2 DEF Pinned, Stands, stored, granted
        <3>4. WithdrawnSeen(q) => WithdrawnSeen(q)'
            BY <1>2 DEF WithdrawnSeen, stored, granted
        <3>5. Prepared(launch[q]) => Prepared(launch[q])'
            BY <1>2 DEF Prepared, EnvelopeOf, RecipeDigest, stored
        <3> QED BY <1>2, <3>1, <3>2, <3>3, <3>4, <3>5
    <2>2. /\ r \in UnderWay' => Pinned(launch[r].command)' /\ WithdrawnSeen(r)'
          /\ launch'[r].phase = "PREPARED" => Prepared(launch[r])'
          /\ launch'[r].phase # "NONE"
        <3>1. r \in UnderWay' => l.phase \in OnTheWay
            BY <1>2 DEF UnderWay, OnTheWay
        <3>2. Pinned(l.command) => Pinned(launch[r].command)'
            BY <1>2 DEF Pinned, Stands, stored, granted
        <3>3. Prepared(l) => Prepared(launch[r])'
            BY <1>2 DEF Prepared, EnvelopeOf, RecipeDigest, stored
        <3>4. CASE launch[r].phase = "NONE"
            BY <1>1, <1>2, <3>1, <3>2, <3>3, <3>4 DEF LaunchInv, WithdrawnSeen
        <3>5. CASE r \in UnderWay /\ launch[r].command = l.command
            BY <1>1, <1>2, <3>1, <3>2, <3>3, <3>5 DEF LaunchInv, WithdrawnSeen, stored, granted
        <3> QED BY <1>2, <3>1, <3>2, <3>3, <3>4, <3>5 DEF OnTheWay
    <2> QED BY <2>1, <2>2 DEF LaunchInv
<1>6. SnapshotInv'
    <2>1. ASSUME NEW q \in Runs \ {r}
          PROVE  /\ launch'[q].phase = "STORED" <=> snapshot'[q] # None
                 /\ snapshot'[q] # None =>
                      Storable(snapshot[q])' /\ withdrawn'[q] = {}
        <3>1. Storable(snapshot[q]) => Storable(snapshot[q])'
            BY <1>2 DEF Storable, Stands, EnvelopeOf, RecipeDigest, stored
        <3> QED BY <1>1, <1>2, <3>1 DEF SnapshotInv, Storable
    <2>2. CASE snapshot' = snapshot /\ l.phase # "STORED"
        <3>1. snapshot'[r] = None /\ launch'[r].phase # "STORED"
            BY <1>1, <1>2, <2>2 DEF SnapshotInv
        <3> QED BY <2>1, <3>1 DEF SnapshotInv, Storable
    <2>3. ASSUME l.phase = "STORED", withdrawn[r] = {},
                 NEW s, s # None, Storable(s), snapshot' = [snapshot EXCEPT ![r] = s]
          PROVE  SnapshotInv'
        <3>1. snapshot'[r] = s /\ launch'[r].phase = "STORED" /\ withdrawn'[r] = {}
            BY <1>1, <1>2, <2>3 DEF LaunchForm
        <3>2. Storable(snapshot[r])'
            BY <2>3, <3>1 DEF Storable, Stands, EnvelopeOf, RecipeDigest, stored
        <3> QED BY <2>1, <2>3, <3>1, <3>2 DEF SnapshotInv, Storable
    <2> QED BY <2>2, <2>3
<1> QED BY <1>3, <1>5, <1>6 DEF ConfigurationInv


LEMMA ResolveKeeps ==
    ASSUME ConfigurationInv, NEW r \in Runs, NEW p \in Presets, NEW v \in Versions,
           Resolve(r, p, v)
    PROVE  ConfigurationInv'
<1> DEFINE digest == Effective(p, v, runner.policy, ~owned, exposure.acknowledged)
           command == [preset |-> p, version |-> v, exposed |-> ~owned, digest |-> digest]
           l == [phase |-> "SHOWN", command |-> command]
<1>1. RowsForm /\ GrantForm /\ VersionsInv
    BY DEF ConfigurationInv
<1>2. /\ launch[r].phase = "NONE" /\ Exact(p, v) /\ launch' = [launch EXCEPT ![r] = l]
      /\ UNCHANGED <<owned, stored, granted, withdrawn, snapshot>>
    BY DEF Resolve
<1>3. /\ v <= preset[p].current /\ preset[p].version[v].mapping = mapping.revision
      /\ preset[p].version[v] \in VersionRows
    BY <1>1, <1>2 DEF Exact, BindingCurrent, VersionsInv
<1>4. /\ digest.preset = p /\ digest.presetVersion = v /\ digest.of = preset[p].version[v]
      /\ digest.policy = runner.policy /\ digest \in Shown
    BY <1>1, <1>3 DEF Effective, Shown, GrantForm
<1> HIDE DEF digest
<1>5. command \in Commands /\ command.preset = p /\ command.version = v
      /\ command.exposed = (~owned) /\ command.digest = digest
    BY <1>1, <1>4 DEF Commands, GrantForm
<1> HIDE DEF command
<1>6. Pinned(command)
    <2>1. digest.policy <= runner.policy /\ digest.of.mapping <= mapping.revision
        BY <1>1, <1>3, <1>4, ConfigurationAssumption DEF GrantForm, Facts
    <2> QED BY <1>3, <1>4, <1>5, <2>1 DEF Pinned, Stands
<1>7. l.phase = "SHOWN" /\ l.command = command
    OBVIOUS
<1> HIDE DEF l
<1> QED BY <1>2, <1>6, <1>7, LaunchMoves DEF OnTheWay, Phases

LEMMA RefreshKeeps ==
    ASSUME ConfigurationInv, NEW r \in Runs, RefreshFacts(r)
    PROVE  ConfigurationInv'
<1>1. PICK l : /\ launch' = [launch EXCEPT ![r] = l]
               /\ \/ l = [phase |-> "FACTS", command |-> launch[r].command, policy |-> runner.policy]
                  \/ l = Refused
    BY DEF RefreshFacts, Answer
<1>2. /\ launch[r].phase = "SHOWN"
      /\ UNCHANGED <<owned, stored, granted, withdrawn, snapshot>>
    BY DEF RefreshFacts, Answer
<1>3. r \in UnderWay /\ Pinned(launch[r].command)
    BY <1>2 DEF ConfigurationInv, LaunchInv, UnderWay
<1>4. \/ l.phase = "FACTS" /\ l.command = launch[r].command
      \/ l.phase = "REFUSED"
    BY <1>1 DEF Refused
<1> QED BY <1>1, <1>2, <1>3, <1>4, LaunchMoves DEF OnTheWay, Phases

LEMMA PrepareKeeps ==
    ASSUME ConfigurationInv, NEW r \in Runs, PrepareConfiguration(r)
    PROVE  ConfigurationInv'
<1> DEFINE command == launch[r].command
           ver == preset[command.preset].version[command.version]
           c == Effective(command.preset, command.version, launch[r].policy,
                          command.exposed, exposure.acknowledged)
           ready == [phase |-> "PREPARED", command |-> command, configuration |-> c,
                     envelope |-> EnvelopeOf(ver)]
<1>1. /\ launch[r].phase = "FACTS"
      /\ UNCHANGED <<owned, stored, granted, withdrawn, snapshot>>
      /\ \/ launch' = [launch EXCEPT ![r] = Refused]
         \/ /\ ver.recipe # None /\ (command.exposed => exposure.acknowledged)
            /\ c = command.digest /\ launch' = [launch EXCEPT ![r] = ready]
    BY DEF PrepareConfiguration, Answer, PreparesShown
<1>2. r \in UnderWay /\ Pinned(command)
    BY <1>1 DEF ConfigurationInv, LaunchInv, UnderWay
<1>3. CASE launch' = [launch EXCEPT ![r] = Refused]
    <2>1. Refused.phase = "REFUSED"
        BY DEF Refused
    <2> QED BY <1>1, <1>3, <2>1, LaunchMoves DEF OnTheWay, Phases
<1>4. CASE /\ ver.recipe # None /\ (command.exposed => exposure.acknowledged)
           /\ c = command.digest /\ launch' = [launch EXCEPT ![r] = ready]
    <2>1. c.of = ver /\ (command.exposed => c.exposure = 1)
        BY <1>4 DEF Effective
    <2>2. /\ ready.phase = "PREPARED" /\ ready.command = command /\ ready.configuration = c
          /\ ready.envelope = EnvelopeOf(ver)
        OBVIOUS
    <2> HIDE DEF ready, c, ver, command
    <2>3. Prepared(ready)
        BY <1>4, <2>1, <2>2 DEF Prepared
    <2> QED BY <1>1, <1>2, <1>4, <2>2, <2>3, LaunchMoves DEF OnTheWay, Phases, command
<1> QED BY <1>1, <1>3, <1>4

\* What is stored was not withdrawn: every withdrawal shows in the facts.
LEMMA StoreKeeps ==
    ASSUME ConfigurationInv, NEW r \in Runs, StoreConfiguration(r)
    PROVE  ConfigurationInv'
<1> DEFINE c == launch[r].configuration
           e == launch[r].envelope
           command == launch[r].command
           s == [configuration |-> c, envelope |-> e, shown |-> command]
           done == [phase |-> "STORED"]
<1>1. /\ launch[r].phase = "PREPARED" /\ UNCHANGED <<owned, stored, granted, withdrawn>>
      /\ \/ launch' = [launch EXCEPT ![r] = Refused] /\ UNCHANGED snapshot
         \/ /\ FactsMatch(c) /\ snapshot' = [snapshot EXCEPT ![r] = s]
            /\ launch' = [launch EXCEPT ![r] = done]
    BY DEF StoreConfiguration, Answer
<1>2. /\ RowsForm /\ GrantForm /\ VersionsInv /\ WithdrawnSeen(r) /\ Pinned(command)
      /\ Prepared(launch[r])
    BY <1>1 DEF ConfigurationInv, LaunchInv, UnderWay
<1>3. CASE launch' = [launch EXCEPT ![r] = Refused] /\ UNCHANGED snapshot
    <2>1. Refused.phase = "REFUSED"
        BY DEF Refused
    <2> QED BY <1>1, <1>3, <2>1, LaunchMoves DEF OnTheWay, Phases
<1>4. CASE /\ FactsMatch(c) /\ snapshot' = [snapshot EXCEPT ![r] = s]
           /\ launch' = [launch EXCEPT ![r] = done]
    <2>1. /\ c = command.digest /\ e = EnvelopeOf(c.of) /\ c.of.recipe # None
          /\ command.exposed => c.exposure = 1
        BY <1>2 DEF Prepared
    <2>2. Stands(c) /\ command \in Commands /\ command.exposed = ~owned
        BY <1>2, <2>1 DEF Pinned
    <2>3. withdrawn[r] = {}
        <3>1. "PRESET" \notin withdrawn[r]
            BY <1>2, <1>4, <2>1 DEF WithdrawnSeen, FactsMatch
        <3>2. "POLICY" \notin withdrawn[r]
            <4>1. c.policy = runner.policy /\ runner.policy \in Nat
                BY <1>2, <1>4, ConfigurationAssumption DEF FactsMatch, GrantForm, Facts
            <4> QED BY <1>2, <2>1, <4>1 DEF WithdrawnSeen
        <3>3. "RUNNER" \notin withdrawn[r]
            BY <1>2, <1>4 DEF WithdrawnSeen, FactsMatch
        <3>4. "MAPPING" \notin withdrawn[r]
            <4>1. /\ mapping.live /\ c.of.mapping = mapping.revision /\ mapping.revision \in Nat
                BY <1>2, <1>4, ConfigurationAssumption DEF FactsMatch, GrantForm, Facts
            <4> QED BY <1>2, <2>1, <4>1 DEF WithdrawnSeen
        <3>5. "EXPOSURE" \notin withdrawn[r]
            <4>1. CASE owned
                BY <1>2, <4>1 DEF WithdrawnSeen
            <4>2. CASE ~owned
                <5>1. command.exposed
                    BY <2>2, <4>2, Zenon
                <5>2. c.exposure = 1
                    BY <2>1, <5>1
                <5>3. exposure.live /\ exposure.acknowledged
                    BY <1>4, <5>2 DEF FactsMatch, Exposed
                <5> QED BY <1>2, <5>3 DEF WithdrawnSeen
            <4> QED BY <4>1, <4>2
        <3> QED BY <1>2, <3>1, <3>2, <3>3, <3>4, <3>5 DEF WithdrawnSeen
    <2>4. /\ s.configuration = c /\ s.envelope = e /\ s.shown = command
          /\ done.phase = "STORED"
        OBVIOUS
    <2>5. s \in Snapshots
        <3>1. c \in Shown /\ c.preset \in Presets /\ c.presetVersion \in Versions
              /\ c.of \in VersionRows
            BY <2>2 DEF Stands, Shown
        <3>2. c.of.recipe \in Recipes /\ c.of.recipeVersion \in 1 .. recipe[c.of.recipe].current
            <4>1. c.of.recipe \in Recipes
                BY <2>1, <3>1 DEF VersionRows
            <4>2. /\ c.of = preset[c.preset].version[c.presetVersion]
                  /\ c.presetVersion <= preset[c.preset].current
                BY <2>2 DEF Stands
            <4>3. RecipeThere(c.of)
                BY <1>2, <3>1, <4>2 DEF VersionsInv
            <4> QED BY <2>1, <4>1, <4>3 DEF RecipeThere
        <3>3. /\ recipe[c.of.recipe].current \in 0 .. MaxVersion
              /\ recipe[c.of.recipe].version \in [Versions -> Nat \cup {None}]
            <4>1. recipe[c.of.recipe] \in RecipeRows
                BY <1>2, <3>2 DEF RowsForm
            <4> QED BY <4>1 DEF RecipeRows, Digests, Rows
        <3>4. c.of.recipeVersion \in Versions
            <4>1. \A n \in 0 .. MaxVersion : \A v \in 1 .. n : v \in Versions
                BY ConfigurationAssumption DEF Versions
            <4> QED BY <3>2, <3>3, <4>1
        <3>5. e \in [recipe : Recipes, version : Versions, digest : Nat \cup {None}]
            <4> DEFINE d == recipe[c.of.recipe].version[c.of.recipeVersion]
            <4>1. d \in Nat \cup {None}
                BY <3>3, <3>4
            <4>2. e = [recipe |-> c.of.recipe, version |-> c.of.recipeVersion, digest |-> d]
                BY <2>1 DEF EnvelopeOf, RecipeDigest
            <4> HIDE DEF d, e
            <4> QED BY <3>2, <3>4, <4>1, <4>2
        <3> QED BY <2>2, <3>1, <3>5 DEF Snapshots
    <2>6. s # None
        BY <2>5, ConfigurationAssumption
    <2> HIDE DEF s, done, c, e, command
    <2>7. Storable(s)
        BY <2>1, <2>2, <2>4 DEF Storable
    <2> QED BY <1>1, <1>4, <2>3, <2>4, <2>6, <2>7, LaunchMoves DEF OnTheWay, Phases
<1> QED BY <1>1, <1>3, <1>4

LEMMA ConfigurationInit == Init => ConfigurationInv
<1> SUFFICES ASSUME Init PROVE ConfigurationInv
    OBVIOUS
<1> USE DEF Init
<1>1. /\ 0 \in 0 .. MaxVersion /\ 0 \in Nat /\ 1 \in Facts /\ 1 \in Nat
      /\ \A v \in Versions : ~(v <= 0)
    BY ConfigurationAssumption DEF Facts, Versions
<1>2. RowsForm
    BY <1>1 DEF RowsForm, PresetRows, RecipeRows, Rows, Digests
<1>3. GrantForm
    BY <1>1 DEF GrantForm
<1>4. VersionsInv
    BY <1>1 DEF VersionsInv
<1>5. LaunchForm /\ LaunchInv /\ SnapshotInv
    BY DEF LaunchForm, LaunchInv, SnapshotInv, UnderWay, Phases
<1> QED BY <1>2, <1>3, <1>4, <1>5 DEF ConfigurationInv

LEMMA ConfigurationSays ==
    ASSUME ConfigurationInv
    PROVE  TypeOK /\ StoredAsShown /\ NothingWithdrawnIsStored /\ SnapshotReadable
<1>1. RowsForm /\ GrantForm /\ LaunchForm /\ SnapshotInv
    BY DEF ConfigurationInv
<1>2. TypeOK
    <2>1. \A p \in Presets :
            /\ preset[p].state \in {"NONE", "ACTIVE", "ARCHIVED"}
            /\ preset[p].current \in 0 .. MaxVersion /\ DOMAIN preset[p].version = Versions
            /\ preset[p].revision >= preset[p].current
        BY <1>1, ConfigurationAssumption DEF RowsForm, PresetRows, Rows
    <2>2. \A c \in Recipes :
            /\ recipe[c].state \in {"NONE", "ACTIVE", "ARCHIVED"}
            /\ recipe[c].current \in 0 .. MaxVersion /\ DOMAIN recipe[c].version = Versions
        BY <1>1 DEF RowsForm, RecipeRows, Rows
    <2>3. default # None => default.version \in 1 .. preset[default.preset].current
        BY <1>1, <2>1, ConfigurationAssumption DEF RowsForm, Versions
    <2> QED BY <1>1, <2>1, <2>2, <2>3 DEF TypeOK, GrantForm, LaunchForm, SnapshotInv
<1>3. StoredAsShown /\ NothingWithdrawnIsStored
    BY <1>1 DEF SnapshotInv, StoredAsShown, NothingWithdrawnIsStored, Stands
<1>4. ASSUME NEW r \in Runs, snapshot[r] # None PROVE Readable(snapshot[r])
    <2> DEFINE ver == snapshot[r].configuration.of
               d == recipe[ver.recipe].version[ver.recipeVersion]
    <2>1. snapshot[r].envelope = EnvelopeOf(ver)
        BY <1>1, <1>4 DEF SnapshotInv
    <2>2. snapshot[r].envelope
            = [recipe |-> ver.recipe, version |-> ver.recipeVersion, digest |-> d]
        BY <2>1 DEF EnvelopeOf, RecipeDigest
    <2>3. /\ snapshot[r].envelope.recipe = ver.recipe
          /\ snapshot[r].envelope.version = ver.recipeVersion
          /\ snapshot[r].envelope.digest = d
        BY <2>2
    <2> QED BY <2>3 DEF Readable
<1> QED BY <1>2, <1>3, <1>4 DEF SnapshotReadable


LEMMA ConfigurationStays ==
    ASSUME ConfigurationInv, UNCHANGED <<owned, stored, granted, launches>>
    PROVE  ConfigurationInv'
<1> USE DEF stored, granted, launches
<1>1. (RowsForm /\ GrantForm)' = (RowsForm /\ GrantForm)
    BY DEF RowsForm, GrantForm
<1>2. (VersionsInv /\ LaunchForm)' = (VersionsInv /\ LaunchForm)
    BY DEF VersionsInv, RecipeThere, LaunchForm
<1>3. \A c : Stands(c)' = Stands(c) /\ Pinned(c)' = Pinned(c)
    BY DEF Stands, Pinned
<1>4. \A v : EnvelopeOf(v)' = EnvelopeOf(v)
    BY DEF EnvelopeOf, RecipeDigest
<1>5. \A r : WithdrawnSeen(r)' = WithdrawnSeen(r)
    BY DEF WithdrawnSeen
<1>6. \A l : Prepared(l)' = Prepared(l)
    BY <1>4 DEF Prepared
<1>7. UnderWay' = UnderWay
    BY DEF UnderWay
<1>8. LaunchInv => LaunchInv'
    BY <1>3, <1>5, <1>6, <1>7 DEF LaunchInv
<1>9. SnapshotInv => SnapshotInv'
    BY <1>3, <1>4 DEF SnapshotInv
<1> QED BY <1>1, <1>2, <1>8, <1>9 DEF ConfigurationInv

LEMMA StepsKeep == ASSUME ConfigurationInv, Steps PROVE ConfigurationInv'
<1>1. ASSUME NEW r \in Runs, LaunchDefault(r) PROVE ConfigurationInv'
    <2>1. default.preset \in Presets /\ default.version \in Versions
        BY <1>1 DEF LaunchDefault, OfferedDefault, ConfigurationInv, RowsForm
    <2> QED BY <1>1, <2>1, ResolveKeeps DEF LaunchDefault, ResolveRun
<1>2. ASSUME NEW r \in Runs, NEW p \in Presets, NEW v \in Versions, ResolveRun(r, p, v)
      PROVE  ConfigurationInv'
    BY <1>2, ResolveKeeps DEF ResolveRun
<1>3. ASSUME NEW r \in Runs, \/ RefreshFacts(r) \/ PrepareConfiguration(r) \/ StoreConfiguration(r)
      PROVE  ConfigurationInv'
    BY <1>3, RefreshKeeps, PrepareKeeps, StoreKeeps
<1>4. ASSUME AssembleEnvelope PROVE ConfigurationInv'
    BY <1>4, ConfigurationStays DEF AssembleEnvelope
<1> QED BY <1>1, <1>2, <1>3, <1>4, StoredStep, GrantedStep DEF Steps

LEMMA StartKeeps ==
    ASSUME ConfigurationInv, \A n \in DOMAIN line["PRESET"] : line["PRESET"][n].bound \in Bindings,
           NEW r \in Runs, StartWorkflow(r)
    PROVE  ConfigurationInv'
<1>1. PICK n \in DOMAIN line["PRESET"] :
         ResolveStep(r, line["PRESET"][n].bound.preset, line["PRESET"][n].bound.version)
    BY DEF StartWorkflow
<1>2. /\ line["PRESET"][n].bound.preset \in Presets
      /\ line["PRESET"][n].bound.version \in Versions
    BY DEF Bindings
<1> QED BY <1>1, <1>2, ResolveKeeps DEF ResolveStep

-------------------------------------------------------------------------------
(* The envelope                                                            *)

\* A set of naturals has a least member, and with it goes induction up to a bound.
LEMMA Least == ASSUME NEW S, S \subseteq Nat, S # {}
               PROVE  \E n \in S : \A m \in S : n <= m
<1>1. PICK n \in S : \A m \in S : ~ (<<m, n>> \in OpToRel(<, Nat))
    BY NatLessThanWellFounded, WFMin
<1>2. \A m \in S : ~ (m < n)
    BY <1>1 DEF OpToRel
<1> QED BY <1>2

LEMMA Induction ==
    ASSUME NEW n \in Nat, NEW S, 0 \in S, \A i \in 1 .. n : i - 1 \in S => i \in S
    PROVE  0 .. n \subseteq S
<1> DEFINE D == (0 .. n) \ S
<1>1. D \subseteq Nat
    OBVIOUS
<1> SUFFICES ASSUME D # {} PROVE FALSE
    OBVIOUS
<1> HIDE DEF D
<1>2. PICK m \in D : \A k \in D : m <= k
    BY <1>1, Least
<1>3. m \in 1 .. n /\ m - 1 \in 0 .. n
    BY <1>2 DEF D
<1>4. m - 1 \in S
    <2>1. m - 1 \notin D
        BY <1>2, <1>3
    <2> QED BY <1>3, <2>1 DEF D
<1>5. m \in S
    BY <1>3, <1>4
<1> QED BY <1>2, <1>5 DEF D

\* A function each of whose values comes from the one before exists.
Follows(f, n, base, step) ==
    /\ f = [i \in 0 .. n |-> f[i]] /\ f[0] = base
    /\ \A i \in 1 .. n : f[i] = step[<<f[i - 1], i>>]

LEMMA Recursion == ASSUME NEW n \in Nat, NEW base, NEW step PROVE \E f : Follows(f, n, base, step)
<1> DEFINE S == {m \in 0 .. n : \E f : Follows(f, m, base, step)}
<1>1. 0 \in S
    <2> DEFINE g == [i \in 0 .. 0 |-> base]
    <2>1. g[0] = base /\ g = [i \in 0 .. 0 |-> g[i]]
        OBVIOUS
    <2>2. Follows(g, 0, base, step)
        BY <2>1 DEF Follows
    <2> QED BY <2>2
<1>2. ASSUME NEW i \in 1 .. n, i - 1 \in S PROVE i \in S
    <2>1. PICK f : Follows(f, i - 1, base, step)
        BY <1>2
    <2> DEFINE g == [j \in 0 .. i |-> IF j = i THEN step[<<f[i - 1], i>>] ELSE f[j]]
    <2>2. /\ \A j \in 0 .. i - 1 : g[j] = f[j]
          /\ g[i] = step[<<f[i - 1], i>>] /\ g = [j \in 0 .. i |-> g[j]]
        OBVIOUS
    <2>3. g[0] = base
        BY <2>1, <2>2 DEF Follows
    <2>4. ASSUME NEW j \in 1 .. i PROVE g[j] = step[<<g[j - 1], j>>]
        <3>1. g[j - 1] = f[j - 1]
            BY <2>2
        <3>2. CASE j = i
            BY <2>2, <3>1, <3>2
        <3>3. CASE j # i
            <4>1. j \in 1 .. i - 1 /\ j \in 0 .. i - 1
                BY <3>3
            <4>2. f[j] = step[<<f[j - 1], j>>]
                BY <2>1, <4>1 DEF Follows
            <4> QED BY <2>2, <3>1, <4>1, <4>2
        <3> QED BY <3>2, <3>3
    <2>5. Follows(g, i, base, step)
        BY <2>2, <2>3, <2>4 DEF Follows
    <2> HIDE DEF g
    <2> QED BY <2>5
<1> HIDE DEF S
<1>3. 0 .. n \subseteq S
    BY <1>1, <1>2, Induction
<1> QED BY <1>3 DEF S

\* So the sums are.
Sums(t, P, size, n) ==
    /\ t \in [0 .. n -> Nat] /\ t[0] = 0
    /\ \A i \in 1 .. n : t[i] = t[i - 1] + (IF i \in P THEN size[i] ELSE 0)

LEMMA TakenForm ==
    ASSUME NEW n \in Nat, NEW P, NEW size, \A i \in P : size[i] \in Nat
    PROVE  Sums(Taken(P, size, n), P, size, n)
<1> DEFINE T == Taken(P, size, n)
           H(f) == f = [i \in 0 .. n |->
                          IF i = 0 THEN 0 ELSE f[i - 1] + (IF i \in P THEN size[i] ELSE 0)]
           step == [x \in Nat \X (0 .. n) |-> x[1] + (IF x[2] \in P THEN size[x[2]] ELSE 0)]
           S(f) == {i \in 0 .. n : f[i] \in Nat}
<1>1. \E f : H(f)
    <2>1. PICK f : Follows(f, n, 0, step)
        BY Recursion
    <2>2. ASSUME NEW i \in 1 .. n, f[i - 1] \in Nat
          PROVE  f[i] = f[i - 1] + (IF i \in P THEN size[i] ELSE 0)
        <3>1. f[i] = step[<<f[i - 1], i>>]
            BY <2>1 DEF Follows
        <3>2. <<f[i - 1], i>> \in Nat \X (0 .. n)
            BY <2>2
        <3> QED BY <3>1, <3>2
    <2>3. 0 .. n \subseteq S(f)
        <3>1. 0 \in S(f)
            BY <2>1 DEF Follows
        <3>2. ASSUME NEW i \in 1 .. n, i - 1 \in S(f) PROVE i \in S(f)
            <4>1. f[i] = f[i - 1] + (IF i \in P THEN size[i] ELSE 0)
                BY <2>2, <3>2
            <4> QED BY <3>2, <4>1
        <3> HIDE DEF S
        <3> QED BY <3>1, <3>2, Induction
    <2>4. \A i \in 1 .. n : f[i] = f[i - 1] + (IF i \in P THEN size[i] ELSE 0)
        BY <2>2, <2>3
    <2>5. H(f)
        <3>1. \A i \in 0 .. n :
                f[i] = IF i = 0 THEN 0 ELSE f[i - 1] + (IF i \in P THEN size[i] ELSE 0)
            BY <2>1, <2>4 DEF Follows
        <3>2. f = [i \in 0 .. n |-> f[i]]
            BY <2>1 DEF Follows
        <3> QED BY <3>1, <3>2
    <2> HIDE DEF H
    <2> QED BY <2>5
<1>2. T = CHOOSE f : H(f)
    BY DEF Taken
<1>3. H(T)
    <2> HIDE DEF T, H
    <2> QED BY <1>1, <1>2
<1> HIDE DEF T
<1>4. 0 .. n \subseteq S(T)
    <2>1. 0 \in S(T)
        BY <1>3
    <2>2. ASSUME NEW i \in 1 .. n, i - 1 \in S(T) PROVE i \in S(T)
        BY <1>3, <2>2
    <2> HIDE DEF S
    <2> QED BY <2>1, <2>2, Induction
<1>5. T \in [0 .. n -> Nat]
    BY <1>3, <1>4
<1>6. Sums(T, P, size, n)
    BY <1>3, <1>5 DEF Sums
<1> QED BY <1>6 DEF T

\* What is kept, each by what is kept before it, is kept from the first on.
Sifts(f, n, ok) ==
    /\ f[0] = {}
    /\ \A i \in 1 .. n : f[i] = f[i - 1] \cup (IF <<f[i - 1], i>> \in ok THEN {i} ELSE {})
    /\ \A i \in 0 .. n : f[i] \subseteq 1 .. i

LEMMA Sifted == ASSUME NEW n \in Nat, NEW ok
                PROVE  \E f : f = [i \in 0 .. n |-> f[i]] /\ Sifts(f, n, ok)
<1> DEFINE step == [x \in (SUBSET Nat) \X (0 .. n) |->
                       x[1] \cup (IF x \in ok THEN {x[2]} ELSE {})]
<1>1. PICK f : Follows(f, n, {}, step)
    BY Recursion
<1> DEFINE S == {i \in 0 .. n : f[i] \subseteq 1 .. i}
<1>2. ASSUME NEW i \in 1 .. n, i - 1 \in S
      PROVE  f[i] = f[i - 1] \cup (IF <<f[i - 1], i>> \in ok THEN {i} ELSE {})
    <2>1. <<f[i - 1], i>> \in (SUBSET Nat) \X (0 .. n)
        <3>1. f[i - 1] \in SUBSET Nat
            BY <1>2
        <3> QED BY <3>1
    <2>2. f[i] = step[<<f[i - 1], i>>]
        BY <1>1 DEF Follows
    <2> QED BY <2>1, <2>2
<1>3. 0 .. n \subseteq S
    <2>1. 0 \in S
        BY <1>1 DEF Follows
    <2>2. ASSUME NEW i \in 1 .. n, i - 1 \in S PROVE i \in S
        <3>1. f[i - 1] \subseteq 1 .. i - 1
            BY <2>2
        <3>2. f[i] \subseteq f[i - 1] \cup {i}
            BY <1>2, <2>2
        <3>3. f[i] \subseteq 1 .. i
            BY <3>1, <3>2
        <3> QED BY <3>3
    <2> HIDE DEF S
    <2> QED BY <2>1, <2>2, Induction
<1>4. \A i \in 1 .. n : f[i] = f[i - 1] \cup (IF <<f[i - 1], i>> \in ok THEN {i} ELSE {})
    <2> TAKE i \in 1 .. n
    <2>1. i - 1 \in S
        BY <1>3
    <2> HIDE DEF S
    <2> QED BY <1>2, <2>1
<1>5. \A i \in 0 .. n : f[i] \subseteq 1 .. i
    BY <1>3
<1> QED BY <1>1, <1>4, <1>5 DEF Sifts, Follows

\* What Selected takes, and Distinct.
Takes(by, cs, P) ==
    {x \in (SUBSET (1 .. Len(cs))) \X (1 .. Len(cs)) :
        /\ x[2] \in P /\ Cardinality(x[1]) < by.total
        /\ InCategory(cs, x[1], cs[x[2]].category) < by.limit[cs[x[2]].category]}
Firsts(cs, P) ==
    {x \in (SUBSET (1 .. Len(cs))) \X (1 .. Len(cs)) :
        x[2] \in P /\ \A j \in x[1] : cs[j].key # cs[x[2]].key /\ Name(cs[j]) # Name(cs[x[2]])}

LEMMA SelectedForm ==
    ASSUME NEW by, NEW cs, NEW P, Len(cs) \in Nat
    PROVE  \E f : Sifts(f, Len(cs), Takes(by, cs, P)) /\ Selected(by, cs, P) = f[Len(cs)]
<1> DEFINE n == Len(cs)
           K(kept, i) == /\ i \in P /\ Cardinality(kept) < by.total
                         /\ InCategory(cs, kept, cs[i].category) < by.limit[cs[i].category]
           H(f) == f = [i \in 0 .. n |->
                          IF i = 0 THEN {}
                          ELSE f[i - 1] \cup (IF K(f[i - 1], i) THEN {i} ELSE {})]
           ok == Takes(by, cs, P)
<1>1. ASSUME NEW f, \A i \in 0 .. n : f[i] \subseteq 1 .. i
      PROVE  \A i \in 1 .. n : <<f[i - 1], i>> \in ok <=> K(f[i - 1], i)
    <2> TAKE i \in 1 .. n
    <2>1. f[i - 1] \in SUBSET (1 .. Len(cs))
        BY <1>1
    <2> QED BY <2>1 DEF Takes
<1> HIDE DEF K, ok
<1>2. \E f : H(f)
    <2>1. PICK f : f = [i \in 0 .. n |-> f[i]] /\ Sifts(f, n, ok)
        BY Sifted
    <2>2. H(f)
        <3>1. \A i \in 0 .. n :
                f[i] = IF i = 0 THEN {} ELSE f[i - 1] \cup (IF K(f[i - 1], i) THEN {i} ELSE {})
            <4> TAKE i \in 0 .. n
            <4>1. CASE i = 0
                BY <2>1, <4>1 DEF Sifts
            <4>2. CASE i \in 1 .. n
                <5>1. <<f[i - 1], i>> \in ok <=> K(f[i - 1], i)
                    BY <1>1, <2>1, <4>2 DEF Sifts
                <5>2. f[i] = f[i - 1] \cup (IF <<f[i - 1], i>> \in ok THEN {i} ELSE {})
                    BY <2>1, <4>2 DEF Sifts
                <5> QED BY <4>2, <5>1, <5>2
            <4> QED BY <4>1, <4>2
        <3> QED BY <2>1, <3>1
    <2> HIDE DEF H
    <2> QED BY <2>2
<1> DEFINE T == CHOOSE f : H(f)
<1>3. Selected(by, cs, P) = T[n]
    BY DEF Selected, Sift, K
<1>4. H(T)
    <2> HIDE DEF H
    <2> QED BY <1>2
<1> HIDE DEF T
<1> DEFINE S == {i \in 0 .. n : T[i] \subseteq 1 .. i}
<1>5. 0 .. n \subseteq S
    <2>1. 0 \in S
        BY <1>4
    <2>2. ASSUME NEW i \in 1 .. n, i - 1 \in S PROVE i \in S
        BY <1>4, <2>2
    <2> HIDE DEF S
    <2> QED BY <2>1, <2>2, Induction
<1>6. Sifts(T, n, ok)
    <2>1. \A i \in 0 .. n : T[i] \subseteq 1 .. i
        BY <1>5
    <2>2. \A i \in 1 .. n : <<T[i - 1], i>> \in ok <=> K(T[i - 1], i)
        BY <1>1, <2>1
    <2>3. /\ T[0] = {}
          /\ \A i \in 1 .. n : T[i] = T[i - 1] \cup (IF K(T[i - 1], i) THEN {i} ELSE {})
        <3>1. ASSUME NEW U, U = T
              PROVE  \A i \in 0 .. n : T[i] =
                       IF i = 0 THEN {}
                       ELSE U[i - 1] \cup (IF K(U[i - 1], i) THEN {i} ELSE {})
            <4>1. T = [i \in 0 .. n |->
                          IF i = 0 THEN {}
                          ELSE U[i - 1] \cup (IF K(U[i - 1], i) THEN {i} ELSE {})]
                BY <1>4, <3>1
            <4> QED BY <4>1
        <3>2. \A i \in 0 .. n : T[i] =
                IF i = 0 THEN {} ELSE T[i - 1] \cup (IF K(T[i - 1], i) THEN {i} ELSE {})
            BY <3>1, Zenon
        <3>3. 0 \in 0 .. n /\ \A i \in 1 .. n : i \in 0 .. n /\ i # 0
            OBVIOUS
        <3> HIDE DEF H, n
        <3> QED BY <3>2, <3>3
    <2> HIDE DEF S, H
    <2> QED BY <2>1, <2>2, <2>3 DEF Sifts
<1> QED BY <1>3, <1>6 DEF ok

\* What is selected is within the limits of the recipe.
LEMMA SelectedFits ==
    ASSUME NEW by, NEW cs, NEW P, Len(cs) \in Nat, by.total \in Nat,
           \A i \in P : by.limit[cs[i].category] \in Nat
    PROVE  /\ Selected(by, cs, P) \subseteq P \cap (1 .. Len(cs))
           /\ Cardinality(Selected(by, cs, P)) <= by.total
           /\ \A i \in Selected(by, cs, P) :
                InCategory(cs, Selected(by, cs, P), cs[i].category)
                    <= by.limit[cs[i].category]
<1> DEFINE n == Len(cs)
           ok == Takes(by, cs, P)
           Alike(K, c) == {i \in K : cs[i].category = c}
           Fits(K) == /\ IsFiniteSet(K) /\ K \subseteq P
                      /\ Cardinality(K) <= by.total
                      /\ \A i \in K : Cardinality(Alike(K, cs[i].category))
                                        <= by.limit[cs[i].category]
<1>1. PICK f : Sifts(f, n, ok) /\ Selected(by, cs, P) = f[n]
    BY SelectedForm
<1>2. ASSUME NEW K, Fits(K), NEW i \in 1 .. n, i \notin K, <<K, i>> \in ok
      PROVE  Fits(K \cup {i})
    <2> DEFINE M == K \cup {i}
    <2>1. /\ i \in P /\ Cardinality(K) < by.total
          /\ Cardinality(Alike(K, cs[i].category)) < by.limit[cs[i].category]
        BY <1>2 DEF Takes, InCategory
    <2>2. /\ IsFiniteSet(M) /\ Cardinality(M) = Cardinality(K) + 1 /\ Cardinality(K) \in Nat
        BY <1>2, FS_AddElement, FS_CardinalityType
    <2>3. ASSUME NEW c
          PROVE  /\ c # cs[i].category => Alike(M, c) = Alike(K, c)
                 /\ Cardinality(Alike(K, c)) \in Nat
                 /\ c = cs[i].category
                    => Cardinality(Alike(M, c)) = Cardinality(Alike(K, c)) + 1
        <3>1. Alike(K, c) \subseteq K /\ i \notin Alike(K, c)
            BY <1>2
        <3>2. IsFiniteSet(Alike(K, c)) /\ Cardinality(Alike(K, c)) \in Nat
            BY <1>2, <3>1, FS_Subset, FS_CardinalityType
        <3>3. c = cs[i].category => Alike(M, c) = Alike(K, c) \cup {i}
            OBVIOUS
        <3>4. c # cs[i].category => Alike(M, c) = Alike(K, c)
            OBVIOUS
        <3> HIDE DEF Alike, M
        <3> QED BY <3>1, <3>2, <3>3, <3>4, FS_AddElement
    <2>4. Cardinality(M) <= by.total
        BY <2>1, <2>2
    <2>5. ASSUME NEW j \in M
          PROVE  Cardinality(Alike(M, cs[j].category)) <= by.limit[cs[j].category]
        <3>1. CASE cs[j].category = cs[i].category
            <4> HIDE DEF Alike, M
            <4> QED BY <2>1, <2>3, <3>1
        <3>2. CASE cs[j].category # cs[i].category
            <4>1. j \in K
                BY <3>2
            <4>2. Alike(M, cs[j].category) = Alike(K, cs[j].category)
                BY <2>3, <3>2
            <4> HIDE DEF Alike, M
            <4> QED BY <1>2, <4>1, <4>2
        <3> QED BY <3>1, <3>2
    <2> HIDE DEF Alike
    <2> QED BY <1>2, <2>1, <2>2, <2>4, <2>5
<1> DEFINE S == {i \in 0 .. n : Fits(f[i])}
<1>3. 0 .. n \subseteq S
    <2>1. 0 \in S
        <3>1. f[0] = {}
            BY <1>1 DEF Sifts
        <3>2. Fits({})
            BY FS_EmptySet
        <3> HIDE DEF Fits
        <3>3. Fits(f[0]) /\ 0 \in 0 .. n
            BY <3>1, <3>2
        <3> QED BY <3>3
    <2>2. ASSUME NEW i \in 1 .. n, i - 1 \in S PROVE i \in S
        <3>1. f[i] = f[i - 1] \cup (IF <<f[i - 1], i>> \in ok THEN {i} ELSE {})
            BY <1>1 DEF Sifts
        <3>2. f[i - 1] \subseteq 1 .. i - 1
            BY <1>1 DEF Sifts
        <3>3. i \notin f[i - 1] /\ Fits(f[i - 1])
            BY <2>2, <3>2
        <3> HIDE DEF Fits, ok
        <3>4. Fits(f[i])
            BY <1>2, <3>1, <3>3
        <3> QED BY <3>4
    <2> HIDE DEF S
    <2> QED BY <2>1, <2>2, Induction
<1>4. Fits(f[n]) /\ f[n] \subseteq 1 .. n
    BY <1>1, <1>3 DEF Sifts
<1> QED BY <1>1, <1>4 DEF InCategory

\* Previews are cut to what is left.
LEMMA PreviewsFit ==
    ASSUME NEW by, NEW cs, NEW P, Len(cs) \in Nat, by.bytes \in Nat,
           P \subseteq 1 .. Len(cs), \A i \in P : cs[i].preview \in Nat
    PROVE  Taken(P, Previews(by, cs, P), Len(cs))[Len(cs)] <= by.bytes
<1> DEFINE n == Len(cs)
           full == [i \in P |-> cs[i].preview]
           cut == Previews(by, cs, P)
           before == Taken(P, full, n)
           taken == Taken(P, cut, n)
           Left(i) == IF before[i - 1] < by.bytes THEN by.bytes - before[i - 1] ELSE 0
<1>1. /\ before \in [0 .. n -> Nat] /\ before[0] = 0
      /\ \A i \in 1 .. n : before[i] = before[i - 1] + (IF i \in P THEN cs[i].preview ELSE 0)
    <2>1. \A i \in P : full[i] \in Nat /\ full[i] = cs[i].preview
        OBVIOUS
    <2> HIDE DEF full
    <2>2. \A i \in P : full[i] \in Nat
        BY <2>1
    <2>3. Sums(Taken(P, full, n), P, full, n)
        BY <2>2, TakenForm
    <2>4. Sums(before, P, full, n)
        BY <2>3
    <2> HIDE DEF before
    <2> QED BY <2>1, <2>4 DEF Sums
<1>2. \A i \in P : /\ cut[i] = IF cs[i].preview <= Left(i) THEN cs[i].preview ELSE Left(i)
                   /\ Left(i) \in Nat /\ cut[i] \in Nat
    BY <1>1 DEF Previews
<1>3. /\ taken \in [0 .. n -> Nat] /\ taken[0] = 0
      /\ \A i \in 1 .. n : taken[i] = taken[i - 1] + (IF i \in P THEN cut[i] ELSE 0)
    <2>1. \A i \in P : cut[i] \in Nat
        BY <1>2
    <2> HIDE DEF cut
    <2>2. Sums(taken, P, cut, n)
        BY <2>1, TakenForm
    <2> HIDE DEF taken
    <2> QED BY <2>2 DEF Sums
<1> HIDE DEF cut, before, taken
<1> DEFINE S == {i \in 0 .. n : taken[i] <= by.bytes /\ (before[i] < by.bytes => taken[i] = before[i])}
<1>4. 0 .. n \subseteq S
    <2>1. 0 \in S
        BY <1>1, <1>3
    <2>2. ASSUME NEW i \in 1 .. n, i - 1 \in S PROVE i \in S
        <3>1. /\ taken[i - 1] <= by.bytes
              /\ before[i - 1] < by.bytes => taken[i - 1] = before[i - 1]
            BY <2>2
        <3>2. /\ taken[i - 1] \in Nat /\ before[i - 1] \in Nat
              /\ i \in 0 .. n
            BY <1>1, <1>3
        <3>3. CASE i \in P
            <4>1. /\ before[i] = before[i - 1] + cs[i].preview
                  /\ taken[i] = taken[i - 1] + cut[i]
                BY <1>1, <1>3, <3>3
            <4>2. cut[i] = IF cs[i].preview <= Left(i) THEN cs[i].preview ELSE Left(i)
                BY <1>2, <3>3
            <4>3. CASE before[i - 1] < by.bytes
                <5>1. Left(i) = by.bytes - before[i - 1]
                    BY <4>3
                <5> HIDE DEF Left
                <5> QED BY <3>1, <3>2, <3>3, <4>1, <4>2, <4>3, <5>1
            <4>4. CASE ~(before[i - 1] < by.bytes)
                <5>1. Left(i) = 0
                    BY <4>4
                <5> HIDE DEF Left
                <5> QED BY <3>1, <3>2, <3>3, <4>1, <4>2, <4>4, <5>1
            <4> QED BY <4>3, <4>4
        <3>4. CASE i \notin P
            <4>1. before[i] = before[i - 1] /\ taken[i] = taken[i - 1]
                BY <1>1, <1>3, <3>2, <3>4
            <4> QED BY <3>1, <3>2, <4>1
        <3> QED BY <3>3, <3>4
    <2> HIDE DEF S
    <2> QED BY <2>1, <2>2, Induction
<1> QED BY <1>4 DEF cut, taken

LEMMA DistinctForm ==
    ASSUME NEW cs, NEW P, Len(cs) \in Nat
    PROVE  \E f : Sifts(f, Len(cs), Firsts(cs, P)) /\ Distinct(cs, P) = f[Len(cs)]
<1> DEFINE n == Len(cs)
           K(kept, i) ==
             i \in P /\ \A j \in kept : cs[j].key # cs[i].key /\ Name(cs[j]) # Name(cs[i])
           H(f) == f = [i \in 0 .. n |->
                          IF i = 0 THEN {}
                          ELSE f[i - 1] \cup (IF K(f[i - 1], i) THEN {i} ELSE {})]
           ok == Firsts(cs, P)
<1>1. ASSUME NEW f, \A i \in 0 .. n : f[i] \subseteq 1 .. i
      PROVE  \A i \in 1 .. n : <<f[i - 1], i>> \in ok <=> K(f[i - 1], i)
    <2> TAKE i \in 1 .. n
    <2>1. f[i - 1] \in SUBSET (1 .. Len(cs))
        BY <1>1
    <2> QED BY <2>1 DEF Firsts
<1> HIDE DEF K, ok
<1>2. \E f : H(f)
    <2>1. PICK f : f = [i \in 0 .. n |-> f[i]] /\ Sifts(f, n, ok)
        BY Sifted
    <2>2. H(f)
        <3>1. \A i \in 0 .. n :
                f[i] = IF i = 0 THEN {} ELSE f[i - 1] \cup (IF K(f[i - 1], i) THEN {i} ELSE {})
            <4> TAKE i \in 0 .. n
            <4>1. CASE i = 0
                BY <2>1, <4>1 DEF Sifts
            <4>2. CASE i \in 1 .. n
                <5>1. <<f[i - 1], i>> \in ok <=> K(f[i - 1], i)
                    BY <1>1, <2>1, <4>2 DEF Sifts
                <5>2. f[i] = f[i - 1] \cup (IF <<f[i - 1], i>> \in ok THEN {i} ELSE {})
                    BY <2>1, <4>2 DEF Sifts
                <5> QED BY <4>2, <5>1, <5>2
            <4> QED BY <4>1, <4>2
        <3> QED BY <2>1, <3>1
    <2> HIDE DEF H
    <2> QED BY <2>2
<1> DEFINE T == CHOOSE f : H(f)
<1>3. Distinct(cs, P) = T[n]
    BY DEF Distinct, Sift, K
<1>4. H(T)
    <2> HIDE DEF H
    <2> QED BY <1>2
<1> HIDE DEF T
<1> DEFINE S == {i \in 0 .. n : T[i] \subseteq 1 .. i}
<1>5. 0 .. n \subseteq S
    <2>1. 0 \in S
        BY <1>4
    <2>2. ASSUME NEW i \in 1 .. n, i - 1 \in S PROVE i \in S
        BY <1>4, <2>2
    <2> HIDE DEF S
    <2> QED BY <2>1, <2>2, Induction
<1>6. Sifts(T, n, ok)
    <2>1. \A i \in 0 .. n : T[i] \subseteq 1 .. i
        BY <1>5
    <2>2. \A i \in 1 .. n : <<T[i - 1], i>> \in ok <=> K(T[i - 1], i)
        BY <1>1, <2>1
    <2>3. /\ T[0] = {}
          /\ \A i \in 1 .. n : T[i] = T[i - 1] \cup (IF K(T[i - 1], i) THEN {i} ELSE {})
        <3>1. ASSUME NEW U, U = T
              PROVE  \A i \in 0 .. n : T[i] =
                       IF i = 0 THEN {}
                       ELSE U[i - 1] \cup (IF K(U[i - 1], i) THEN {i} ELSE {})
            <4>1. T = [i \in 0 .. n |->
                          IF i = 0 THEN {}
                          ELSE U[i - 1] \cup (IF K(U[i - 1], i) THEN {i} ELSE {})]
                BY <1>4, <3>1
            <4> QED BY <4>1
        <3>2. \A i \in 0 .. n : T[i] =
                IF i = 0 THEN {} ELSE T[i - 1] \cup (IF K(T[i - 1], i) THEN {i} ELSE {})
            BY <3>1, Zenon
        <3>3. 0 \in 0 .. n /\ \A i \in 1 .. n : i \in 0 .. n /\ i # 0
            OBVIOUS
        <3> HIDE DEF H, n
        <3> QED BY <3>2, <3>3
    <2> HIDE DEF S, H
    <2> QED BY <2>1, <2>2, <2>3 DEF Sifts
<1> QED BY <1>3, <1>6 DEF ok

LEMMA DistinctWithin ==
    ASSUME NEW cs, NEW P, Len(cs) \in Nat
    PROVE  Distinct(cs, P) \subseteq P
<1> DEFINE n == Len(cs)
           ok == Firsts(cs, P)
<1>1. PICK f : Sifts(f, n, ok) /\ Distinct(cs, P) = f[n]
    BY DistinctForm
<1> DEFINE S == {i \in 0 .. n : f[i] \subseteq P}
<1>2. \A i \in 1 .. n : f[i] = f[i - 1] \cup (IF <<f[i - 1], i>> \in ok THEN {i} ELSE {})
    BY <1>1 DEF Sifts
<1>3. 0 .. n \subseteq S
    <2>1. 0 \in S
        BY <1>1 DEF Sifts
    <2>2. ASSUME NEW i \in 1 .. n, i - 1 \in S PROVE i \in S
        <3>1. \A K : <<K, i>> \in ok => i \in P
            BY DEF Firsts
        <3>2. f[i] = f[i - 1] \cup (IF <<f[i - 1], i>> \in ok THEN {i} ELSE {})
            BY <1>2
        <3> HIDE DEF ok
        <3>3. f[i] \subseteq P
            BY <2>2, <3>1, <3>2
        <3> QED BY <3>3
    <2> HIDE DEF S
    <2> QED BY <2>1, <2>2, Induction
<1> QED BY <1>1, <1>3

\* Candidates that all have names of their own.
LEMMA NamesOfTheirOwn ==
    ASSUME NEW cs, IsFiniteSet(DOMAIN cs), DOMAIN cs = 1 .. Len(cs), Len(cs) \in Nat,
           Cardinality({Name(cs[i]) : i \in DOMAIN cs}) = Len(cs),
           NEW i \in DOMAIN cs, NEW j \in DOMAIN cs, Name(cs[i]) = Name(cs[j])
    PROVE  i = j
<1> DEFINE N == {Name(cs[k]) : k \in DOMAIN cs}
           f == [k \in DOMAIN cs |-> Name(cs[k])]
<1>1. Cardinality(DOMAIN cs) = Len(cs)
    <2>1. 1 \in Int /\ Len(cs) \in Int /\ Len(cs) >= 0
        OBVIOUS
    <2>2. Cardinality(1 .. Len(cs)) = IF 1 > Len(cs) THEN 0 ELSE Len(cs) - 1 + 1
        BY <2>1, FS_Interval
    <2>3. Cardinality(1 .. Len(cs)) = Len(cs)
        BY <2>1, <2>2
    <2> QED BY <2>3
<1>2. f \in Surjection(DOMAIN cs, N)
    BY DEF Surjection
<1> HIDE DEF N
<1>3. f \in Injection(DOMAIN cs, N)
    BY <1>1, <1>2, FS_SurjSameCardinalityImpliesInj DEF N
<1>4. f[i] = f[j]
    OBVIOUS
<1> QED BY <1>3, <1>4 DEF Injection, IsInjective

\* An assembled envelope is what the recipe's limits, its policy and the standing of
\* the candidates allow.
LEMMA AssembledFits ==
    ASSUME NEW by \in Contexts, NEW n \in 1 .. MaxCandidates, NEW cs \in [1 .. n -> Candidates],
           NEW is, is = Assemble(by, cs)
    PROVE  LET Names(P) == {Name(cs[i]) : i \in P} IN
           /\ WithinBudget(by, cs, is)
           /\ \A i \in is.references :
                /\ cs[i].standing = "AUTHORIZED"
                /\ cs[i].category = "CHECKPOINT" => by.policy = "LATEST_CHECKPOINT"
           /\ Names(DOMAIN cs) = Names(is.references \cup is.omissions)
           /\ Cardinality(Names(DOMAIN cs)) = Len(cs) => RowsDistinct(cs, is)
<1> DEFINE Names(P) == {Name(cs[i]) : i \in P}
           admitted == Admitted(by, cs)
           distinct == Distinct(cs, admitted)
           in == Selected(by, cs, distinct)
           out == {i \in DOMAIN cs \ in :
                     i \in admitted \ distinct => \A j \in in : Name(cs[j]) # Name(cs[i])}
<1>1. is.references = in /\ is.previews = Previews(by, cs, in) /\ is.omissions = out
    BY DEF Assemble
<1>2. /\ n \in Nat /\ Len(cs) = n /\ DOMAIN cs = 1 .. Len(cs) /\ Len(cs) \in Nat
      /\ \A i \in 1 .. n : cs[i] \in Candidates
    <2>1. n \in Nat
        BY ConfigurationAssumption
    <2> QED BY <2>1
<1>3. /\ admitted \subseteq DOMAIN cs
      /\ \A i \in admitted : /\ cs[i].standing = "AUTHORIZED"
                             /\ cs[i].category = "CHECKPOINT" => by.policy = "LATEST_CHECKPOINT"
    BY DEF Admitted, Standing, Of
<1>4. distinct \subseteq admitted
    BY <1>2, DistinctWithin
<1> HIDE DEF admitted, distinct
<1>5. /\ by.total \in Nat /\ by.bytes \in Nat
      /\ \A i \in distinct : by.limit[cs[i].category] \in Nat /\ cs[i].preview \in Nat
    BY <1>2, <1>3, <1>4, ConfigurationAssumption
<1>6. /\ in \subseteq distinct \cap (1 .. Len(cs)) /\ Cardinality(in) <= by.total
      /\ \A i \in in : InCategory(cs, in, cs[i].category) <= by.limit[cs[i].category]
    BY <1>2, <1>5, SelectedFits
<1> HIDE DEF in
<1>7. Taken(in, Previews(by, cs, in), Len(cs))[Len(cs)] <= by.bytes
    BY <1>2, <1>5, <1>6, PreviewsFit
<1>8. WithinBudget(by, cs, is)
    BY <1>1, <1>6, <1>7 DEF WithinBudget
<1>9. \A i \in in : /\ cs[i].standing = "AUTHORIZED"
                    /\ cs[i].category = "CHECKPOINT" => by.policy = "LATEST_CHECKPOINT"
    BY <1>3, <1>4, <1>6
<1>10. Names(DOMAIN cs) = Names(in \cup out)
    <2>1. in \cup out \subseteq DOMAIN cs
        BY <1>2, <1>6
    <2>2. ASSUME NEW i \in DOMAIN cs PROVE \E j \in in \cup out : Name(cs[j]) = Name(cs[i])
        OBVIOUS
    <2> HIDE DEF out
    <2> QED BY <2>1, <2>2
<1>11. Cardinality(Names(DOMAIN cs)) = Len(cs) => RowsDistinct(cs, is)
    <2> SUFFICES ASSUME Cardinality(Names(DOMAIN cs)) = Len(cs),
                        NEW i \in in \cup out, NEW j \in in \cup out,
                        Name(cs[i]) = Name(cs[j])
                 PROVE  i = j
        BY <1>1 DEF RowsDistinct
    <2>1. i \in DOMAIN cs /\ j \in DOMAIN cs
        BY <1>2, <1>6
    <2>2. IsFiniteSet(DOMAIN cs)
        BY <1>2, FS_Interval
    <2> QED BY <1>2, <2>1, <2>2, NamesOfTheirOwn
<1> HIDE DEF out
<1> QED BY <1>1, <1>8, <1>9, <1>10, <1>11

\* The last envelope was assembled so.
EnvelopeInv ==
    envelope # None =>
        \E by \in Contexts, n \in 1 .. MaxCandidates : \E cs \in [1 .. n -> Candidates] :
            envelope = [by |-> by, from |-> cs, is |-> Assemble(by, cs)]

LEMMA EnvelopeKept ==
    ASSUME EnvelopeInv, \/ Steps \/ (\E r \in Runs : StartWorkflow(r)) \/ UNCHANGED envelope
    PROVE  EnvelopeInv'
<1>1. ASSUME UNCHANGED envelope PROVE EnvelopeInv'
    BY <1>1 DEF EnvelopeInv
<1>2. ASSUME NEW r \in Runs, NEW p, NEW v, Resolve(r, p, v) PROVE UNCHANGED envelope
    BY <1>2 DEF Resolve
<1>3. ASSUME NEW r \in Runs,
             \/ LaunchDefault(r) \/ StartWorkflow(r)
             \/ \E p \in Presets, v \in Versions : ResolveRun(r, p, v)
      PROVE  EnvelopeInv'
    BY <1>1, <1>2, <1>3 DEF LaunchDefault, StartWorkflow, ResolveRun, ResolveStep
<1>4. ASSUME NEW r \in Runs, \/ RefreshFacts(r) \/ PrepareConfiguration(r) \/ StoreConfiguration(r)
      PROVE  EnvelopeInv'
    <2>1. RefreshFacts(r) => UNCHANGED envelope
        BY DEF RefreshFacts, Answer
    <2>2. PrepareConfiguration(r) => UNCHANGED envelope
        BY DEF PrepareConfiguration, Answer
    <2>3. StoreConfiguration(r) => UNCHANGED envelope
        BY DEF StoreConfiguration, Answer
    <2> QED BY <1>1, <1>4, <2>1, <2>2, <2>3
<1>5. ASSUME NEW p \in Presets, NEW v \in Versions,
             CreatePreset(p) \/ EditPreset(p) \/ ArchivePreset(p) \/ SetProjectDefault(p, v)
      PROVE  EnvelopeInv'
    BY <1>1, <1>5 DEF CreatePreset, EditPreset, ArchivePreset, SetProjectDefault
<1>6. ASSUME NEW c \in Recipes, CreateRecipe(c) \/ EditRecipe(c) \/ ArchiveRecipe(c)
      PROVE  EnvelopeInv'
    BY <1>1, <1>6 DEF CreateRecipe, EditRecipe, ArchiveRecipe
<1>7. ASSUME \/ ReplaceRunnerPolicy \/ RevokeRunner \/ ReplaceMapping \/ RevokeMapping
             \/ RevokeAcknowledgement \/ RevokeExposure \/ CreateExposure
      PROVE  EnvelopeInv'
    BY <1>1, <1>7 DEF ReplaceRunnerPolicy, RevokeRunner, ReplaceMapping, RevokeMapping,
       RevokeAcknowledgement, RevokeExposure, CreateExposure, Registry
<1>8. ASSUME AssembleEnvelope PROVE EnvelopeInv'
    BY <1>8 DEF EnvelopeInv, AssembleEnvelope
<1>9. 1 \in Versions
    BY ConfigurationAssumption DEF Versions
<1> QED BY <1>1, <1>3, <1>4, <1>5, <1>6, <1>7, <1>8, <1>9 DEF Steps

LEMMA EnvelopeSays == ASSUME EnvelopeInv PROVE EnvelopeFits
<1> SUFFICES ASSUME envelope # None PROVE EnvelopeFits
    BY DEF EnvelopeFits
<1>1. PICK by \in Contexts, n \in 1 .. MaxCandidates : \E cs \in [1 .. n -> Candidates] :
            envelope = [by |-> by, from |-> cs, is |-> Assemble(by, cs)]
    BY DEF EnvelopeInv
<1>2. PICK cs \in [1 .. n -> Candidates] :
            envelope = [by |-> by, from |-> cs, is |-> Assemble(by, cs)]
    BY <1>1
<1>3. envelope.by = by /\ envelope.from = cs /\ envelope.is = Assemble(by, cs)
    BY <1>2
<1> QED BY <1>3, AssembledFits DEF EnvelopeFits

-------------------------------------------------------------------------------
(* What members write                                                      *)

RequestForm ==
    /\ \A c \in Clients :
         /\ request[c] # None => /\ request[c] \in Requests /\ request[c].by = c
                                 /\ request[c].op = "PRESET" => request[c].bound \in Bindings
         /\ sent[c] \in 0 .. MaxSent /\ underWay[c] \in Seq({"RESOLVE"})
         /\ Len(underWay[c]) <= sent[c]
    /\ DOMAIN request = Clients /\ DOMAIN sent = Clients /\ DOMAIN underWay = Clients
    /\ DOMAIN answer = Clients /\ member \subseteq Clients
Revisions == [by : Clients, seen : Nat, bound : Bindings \cup {None}]
WrittenForm ==
    /\ line \in [A!Lines -> Seq(Revisions)] /\ copies \in Seq(Clients)
    /\ projects \in Seq([by : Clients, owner : BOOLEAN])
    /\ DOMAIN write = Keys /\ DOMAIN projectWrite = Clients
    /\ \A n \in DOMAIN line["PRESET"] : line["PRESET"][n].bound \in Bindings

\* A client has made a revision, a copy or a project.
Wrote(c) == \E k \in A!Lines : \E n \in DOMAIN line[k] : line[k][n].by = c
Copied(c) == \E n \in DOMAIN copies : copies[n] = c
Founded(c) == \E n \in DOMAIN projects : projects[n].by = c

\* A key is kept with the request that had the effect, and an effect with its key.
Kept(c) == [digest |-> request[c], result |-> "OK"]
KeysInv ==
    /\ \A key \in Keys : write[key] # None =>
         \E c \in Clients : /\ request[c] # None /\ request[c].key = key
                            /\ write[key] = Kept(c) /\ (Wrote(c) \/ Copied(c))
    /\ \A c \in Clients : projectWrite[c] # None =>
         request[c] # None /\ projectWrite[c] = Kept(c) /\ Founded(c)
EffectsInv ==
    /\ \A k \in A!Lines : \A n \in DOMAIN line[k] :
         LET c == line[k][n].by IN
         /\ request[c] # None /\ request[c].op = k /\ write[request[c].key] = Kept(c)
         /\ line[k][n].seen = n - 1
         /\ \A m \in DOMAIN line[k] : line[k][m].by = c => m = n
    /\ \A n \in DOMAIN copies :
         LET c == copies[n] IN
         /\ request[c] # None /\ request[c].op = "COPY" /\ write[request[c].key] = Kept(c)
         /\ \A m \in DOMAIN copies : copies[m] = c => m = n
    /\ \A n \in DOMAIN projects :
         LET c == projects[n].by IN
         /\ request[c] # None /\ request[c].op = "PROJECT" /\ projectWrite[c] = Kept(c)
         /\ projects[n].owner
         /\ \A m \in DOMAIN projects : projects[m].by = c => m = n
AnswersInv == \A c \in Clients : answer[c] = "OK" => Wrote(c) \/ Copied(c) \/ Founded(c)

AuthoringInv == RequestForm /\ WrittenForm /\ KeysInv /\ EffectsInv /\ AnswersInv


LEMMA AuthoringInit == A!Init => AuthoringInv
<1> SUFFICES ASSUME A!Init PROVE AuthoringInv
    OBVIOUS
<1> USE DEF A!Init
<1>1. RequestForm
    BY AutomationAssumption DEF RequestForm
<1>2. WrittenForm
    BY DEF WrittenForm, A!Lines, A!Revised
<1>3. KeysInv /\ EffectsInv /\ AnswersInv
    BY DEF KeysInv, EffectsInv, AnswersInv
<1> QED BY <1>1, <1>2, <1>3 DEF AuthoringInv

LEMMA Authors ==
    ASSUME WrittenForm
    PROVE  /\ \A k \in A!Lines : \A n \in DOMAIN line[k] : line[k][n] \in Revisions
                                                            /\ line[k][n].by \in Clients
           /\ \A n \in DOMAIN copies : copies[n] \in Clients
           /\ \A n \in DOMAIN projects : projects[n].by \in Clients
<1>1. ASSUME NEW k \in A!Lines, NEW n \in DOMAIN line[k] PROVE line[k][n] \in Revisions
    <2>1. line[k] \in Seq(Revisions)
        BY DEF WrittenForm
    <2> QED BY <2>1
<1>2. \A n \in DOMAIN copies : copies[n] \in Clients
    BY DEF WrittenForm
<1>3. ASSUME NEW n \in DOMAIN projects PROVE projects[n].by \in Clients
    <2> DEFINE Made == [by : Clients, owner : BOOLEAN]
    <2>1. projects \in Seq(Made)
        BY DEF WrittenForm
    <2> HIDE DEF Made
    <2>2. projects[n] \in Made
        BY <2>1
    <2> QED BY <2>2 DEF Made
<1> QED BY <1>1, <1>2, <1>3 DEF Revisions

\* What was written stands when a request is composed, sent or answered.
LEMMA WrittenStands ==
    ASSUME AuthoringInv, RequestForm', UNCHANGED A!written,
           \A c \in Clients : /\ request[c] # None => request'[c] = request[c]
                              /\ answer'[c] = "OK" =>
                                   answer[c] = "OK" \/ Wrote(c) \/ Copied(c) \/ Founded(c)
    PROVE  AuthoringInv'
<1> USE DEF A!written
<1>1. WrittenForm /\ KeysInv /\ EffectsInv /\ AnswersInv
    BY DEF AuthoringInv
<1>2. WrittenForm'
    BY <1>1 DEF WrittenForm
<1>3. \A c \in Clients : /\ Wrote(c)' <=> Wrote(c)
                         /\ Copied(c)' <=> Copied(c)
                         /\ Founded(c)' <=> Founded(c)
    BY DEF Wrote, Copied, Founded
<1>4. \A c \in Clients : request[c] # None => request'[c] # None /\ Kept(c)' = Kept(c)
    BY DEF Kept
<1>5. KeysInv'
    <2>1. ASSUME NEW key \in Keys, write[key] # None
          PROVE  \E c \in Clients : /\ request'[c] # None /\ request'[c].key = key
                                    /\ write[key] = Kept(c)' /\ (Wrote(c) \/ Copied(c))'
        <3>1. PICK c \in Clients : /\ request[c] # None /\ request[c].key = key
                                   /\ write[key] = Kept(c) /\ (Wrote(c) \/ Copied(c))
            BY <1>1, <2>1 DEF KeysInv
        <3> QED BY <1>3, <1>4, <3>1
    <2> QED BY <1>1, <1>3, <1>4, <2>1 DEF KeysInv
<1>6. EffectsInv'
    <2> QED BY <1>1, <1>4, Authors DEF EffectsInv
<1>7. AnswersInv'
    BY <1>1, <1>3 DEF AnswersInv
<1> QED BY <1>2, <1>5, <1>6, <1>7 DEF AuthoringInv


LEMMA KeptIsThere ==
    ASSUME RequestForm, NEW c \in Clients, request[c] # None PROVE Kept(c) # None
BY AutomationAssumption DEF RequestForm, Kept

\* Who comes with a key that is not known has written nothing yet, and who has written
\* something came with another key.
LEMMA KeyIsNew ==
    ASSUME AuthoringInv, NEW c \in Clients, request[c] # None, request[c].op # "PROJECT",
           write[request[c].key] = None
    PROVE  /\ ~Wrote(c) /\ ~Copied(c) /\ ~Founded(c)
           /\ \A d \in Clients : Wrote(d) \/ Copied(d) =>
                d # c /\ request[d] # None /\ request[d].key # request[c].key
<1>1. RequestForm /\ EffectsInv
    BY DEF AuthoringInv
<1>2. \A d \in Clients : Wrote(d) \/ Copied(d) =>
         request[d] # None /\ write[request[d].key] = Kept(d)
    BY <1>1 DEF EffectsInv, Wrote, Copied
<1>3. \A d \in Clients : Wrote(d) \/ Copied(d) =>
         d # c /\ request[d] # None /\ request[d].key # request[c].key
    BY <1>1, <1>2, KeptIsThere
<1>4. ~Founded(c)
    BY <1>1 DEF EffectsInv, Founded
<1> QED BY <1>3, <1>4

\* The key is kept with the request: the rows of others stand.
LEMMA Remembered ==
    ASSUME AuthoringInv, NEW c \in Clients, request[c] # None, request[c].op # "PROJECT",
           write[request[c].key] = None, A!Remember(c), UNCHANGED request
    PROVE  /\ DOMAIN write' = Keys /\ write'[request[c].key] = Kept(c)
           /\ \A d \in Clients : Wrote(d) \/ Copied(d) =>
                write'[request[d].key] = write[request[d].key]
           /\ \A key \in Keys : \/ key = request[c].key /\ write'[key] = Kept(c)
                                \/ write'[key] = write[key]
<1>1. request[c] \in Requests /\ DOMAIN write = Keys
    BY DEF AuthoringInv, RequestForm, WrittenForm
<1>2. request[c].key \in Keys
    BY <1>1 DEF Requests
<1>3. write' = [write EXCEPT ![request[c].key] = Kept(c)]
    BY DEF A!Remember, Kept
<1> QED BY <1>1, <1>2, <1>3, KeyIsNew

LEMMA ReviseKeeps ==
    ASSUME AuthoringInv, RequestForm', NEW c \in Clients, NEW kind \in A!Lines,
           request[c] # None, request[c].op = kind, write[request[c].key] = None,
           A!Expected(kind, request[c].base), A!NextOf(kind, c), A!Remember(c), A!Answer(c, "OK"),
           UNCHANGED <<request, copies, projects, projectWrite>>
    PROVE  AuthoringInv'
<1> DEFINE row == [by |-> c, seen |-> request[c].base, bound |-> request[c].bound]
           n == Len(line[kind]) + 1
<1>1. RequestForm /\ WrittenForm /\ KeysInv /\ EffectsInv /\ AnswersInv
    BY DEF AuthoringInv
<1>2. /\ kind # "PROJECT" /\ kind # "COPY" /\ line[kind] \in Seq(Revisions) /\ row \in Revisions
      /\ kind = "PRESET" => row.bound \in Bindings
    BY <1>1 DEF A!Lines, A!Revised, WrittenForm, RequestForm, Requests, Revisions
<1>3. /\ ~Wrote(c) /\ ~Copied(c) /\ ~Founded(c)
    BY <1>2, KeyIsNew
<1>4. /\ line'[kind] = Append(line[kind], row) /\ line' \in [A!Lines -> Seq(Revisions)]
      /\ \A k \in A!Lines \ {kind} : line'[k] = line[k]
    <2>1. line' = [line EXCEPT ![kind] = Append(line[kind], row)]
        BY <1>1 DEF A!NextOf, WrittenForm
    <2>2. Append(line[kind], row) \in Seq(Revisions)
        BY <1>2
    <2> HIDE DEF row
    <2> QED BY <1>1, <2>1, <2>2 DEF WrittenForm
<1>5. /\ DOMAIN line'[kind] = DOMAIN line[kind] \cup {n} /\ n \notin DOMAIN line[kind]
      /\ line'[kind][n] = row /\ n \in Nat
      /\ \A m \in DOMAIN line[kind] : line'[kind][m] = line[kind][m]
    BY <1>2, <1>4
<1>6. row.by = c /\ row.seen = n - 1
    BY <1>2 DEF A!Expected
<1> HIDE DEF row, n
<1>7. \A k \in A!Lines : \A m \in DOMAIN line'[k] :
         \/ k = kind /\ m = n /\ line'[k][m] = row
         \/ m \in DOMAIN line[k] /\ line'[k][m] = line[k][m]
    BY <1>4, <1>5
<1>8. /\ \A d \in Clients : Wrote(d) => Wrote(d)'
      /\ Wrote(c)'
      /\ \A d \in Clients : (Copied(d)' <=> Copied(d)) /\ (Founded(d)' <=> Founded(d))
    <2>1. ASSUME NEW d \in Clients, NEW k \in A!Lines, NEW m \in DOMAIN line[k], line[k][m].by = d
          PROVE  Wrote(d)'
        BY <1>4, <1>5, <2>1 DEF Wrote
    <2>2. Wrote(c)'
        BY <1>5, <1>6 DEF Wrote
    <2>3. \A d \in Clients : (Copied(d)' <=> Copied(d)) /\ (Founded(d)' <=> Founded(d))
        BY DEF Copied, Founded
    <2> QED BY <2>1, <2>2, <2>3 DEF Wrote
<1>9. /\ DOMAIN write' = Keys /\ write'[request[c].key] = Kept(c)
      /\ \A d \in Clients : Wrote(d) \/ Copied(d) => write'[request[d].key] = write[request[d].key]
      /\ \A key \in Keys : \/ key = request[c].key /\ write'[key] = Kept(c)
                           \/ write'[key] = write[key]
    BY <1>2, Remembered
<1>10. \A d : Kept(d)' = Kept(d)
    BY DEF Kept
<1>11. WrittenForm'
    <2>1. \A m \in DOMAIN line'["PRESET"] : line'["PRESET"][m].bound \in Bindings
        BY <1>1, <1>2, <1>7 DEF WrittenForm, A!Lines
    <2> QED BY <1>1, <1>4, <1>9, <2>1 DEF WrittenForm
<1>12. KeysInv'
    <2>1. ASSUME NEW key \in Keys, write'[key] # None
          PROVE  \E d \in Clients : /\ request[d] # None /\ request[d].key = key
                                    /\ write'[key] = Kept(d) /\ (Wrote(d) \/ Copied(d))'
        <3>1. CASE key = request[c].key /\ write'[key] = Kept(c)
            BY <1>8, <3>1
        <3>2. CASE write'[key] = write[key]
            <4>1. PICK d \in Clients : /\ request[d] # None /\ request[d].key = key
                                       /\ write[key] = Kept(d) /\ (Wrote(d) \/ Copied(d))
                BY <1>1, <2>1, <3>2 DEF KeysInv
            <4> QED BY <1>8, <3>2, <4>1
        <3> QED BY <1>9, <3>1, <3>2
    <2> QED BY <1>1, <1>8, <1>10, <2>1 DEF KeysInv
<1>13. EffectsInv'
    <2>1. ASSUME NEW k \in A!Lines, NEW m \in DOMAIN line'[k]
          PROVE  LET d == line'[k][m].by IN
                 /\ request[d] # None /\ request[d].op = k /\ write'[request[d].key] = Kept(d)
                 /\ line'[k][m].seen = m - 1
                 /\ \A o \in DOMAIN line'[k] : line'[k][o].by = d => o = m
        <3>1. CASE k = kind /\ m = n /\ line'[k][m] = row
            <4>1. \A o \in DOMAIN line'[k] : line'[k][o].by = c => o = m
                BY <1>3, <1>7, <3>1 DEF Wrote
            <4> QED BY <1>6, <1>9, <3>1, <4>1
        <3>2. CASE m \in DOMAIN line[k] /\ line'[k][m] = line[k][m]
            <4> DEFINE d == line[k][m].by
            <4>1. /\ d \in Clients /\ Wrote(d) /\ request[d] # None /\ request[d].op = k
                  /\ write[request[d].key] = Kept(d) /\ line[k][m].seen = m - 1
                  /\ \A o \in DOMAIN line[k] : line[k][o].by = d => o = m
                BY <1>1, <3>2, Authors DEF EffectsInv, Wrote
            <4>2. d # c
                BY <1>3, <4>1
            <4>3. \A o \in DOMAIN line'[k] : line'[k][o].by = d => o = m
                BY <1>6, <1>7, <4>1, <4>2
            <4> QED BY <1>9, <3>2, <4>1, <4>3
        <3> QED BY <1>7, <3>1, <3>2
    <2>2. ASSUME NEW m \in DOMAIN copies
          PROVE  LET d == copies[m] IN
                 /\ request[d] # None /\ request[d].op = "COPY" /\ write'[request[d].key] = Kept(d)
                 /\ \A o \in DOMAIN copies : copies[o] = d => o = m
        BY <1>1, <1>9, Authors DEF EffectsInv, Copied
    <2> QED BY <1>1, <1>10, <2>1, <2>2 DEF EffectsInv
<1>14. AnswersInv'
    <2>1. answer' = [answer EXCEPT ![c] = "OK"] /\ DOMAIN answer = Clients
        BY <1>1 DEF A!Answer, RequestForm
    <2> QED BY <1>1, <1>8, <2>1 DEF AnswersInv
<1> QED BY <1>11, <1>12, <1>13, <1>14 DEF AuthoringInv


LEMMA DuplicateKeeps ==
    ASSUME AuthoringInv, RequestForm', NEW c \in Clients,
           request[c] # None, request[c].op = "COPY", write[request[c].key] = None,
           copies' = Append(copies, c), A!Remember(c), A!Answer(c, "OK"),
           UNCHANGED <<request, line, projects, projectWrite>>
    PROVE  AuthoringInv'
<1> DEFINE n == Len(copies) + 1
<1>1. RequestForm /\ WrittenForm /\ KeysInv /\ EffectsInv /\ AnswersInv
    BY DEF AuthoringInv
<1>2. ~Wrote(c) /\ ~Copied(c) /\ ~Founded(c)
    BY KeyIsNew
<1>3. copies \in Seq(Clients) /\ copies' \in Seq(Clients)
    BY <1>1 DEF WrittenForm
<1>4. /\ DOMAIN copies' = DOMAIN copies \cup {n} /\ n \notin DOMAIN copies
      /\ copies'[n] = c
      /\ \A m \in DOMAIN copies : copies'[m] = copies[m]
    BY <1>3
<1> HIDE DEF n
<1>5. /\ \A d \in Clients : Copied(d) => Copied(d)'
      /\ Copied(c)'
      /\ \A d \in Clients : (Wrote(d)' <=> Wrote(d)) /\ (Founded(d)' <=> Founded(d))
    BY <1>4 DEF Wrote, Copied, Founded
<1>6. /\ DOMAIN write' = Keys /\ write'[request[c].key] = Kept(c)
      /\ \A d \in Clients : Wrote(d) \/ Copied(d) => write'[request[d].key] = write[request[d].key]
      /\ \A key \in Keys : \/ key = request[c].key /\ write'[key] = Kept(c)
                           \/ write'[key] = write[key]
    BY Remembered
<1>7. \A d : Kept(d)' = Kept(d)
    BY DEF Kept
<1>8. WrittenForm'
    BY <1>1, <1>3, <1>6 DEF WrittenForm
<1>9. KeysInv'
    <2>1. ASSUME NEW key \in Keys, write'[key] # None
          PROVE  \E d \in Clients : /\ request[d] # None /\ request[d].key = key
                                    /\ write'[key] = Kept(d) /\ (Wrote(d) \/ Copied(d))'
        <3>1. CASE key = request[c].key /\ write'[key] = Kept(c)
            BY <1>5, <3>1
        <3>2. CASE write'[key] = write[key]
            <4>1. PICK d \in Clients : /\ request[d] # None /\ request[d].key = key
                                       /\ write[key] = Kept(d) /\ (Wrote(d) \/ Copied(d))
                BY <1>1, <2>1, <3>2 DEF KeysInv
            <4> QED BY <1>5, <3>2, <4>1
        <3> QED BY <1>6, <3>1, <3>2
    <2> QED BY <1>1, <1>5, <1>7, <2>1 DEF KeysInv
<1>10. EffectsInv'
    <2>1. ASSUME NEW m \in DOMAIN copies'
          PROVE  LET d == copies'[m] IN
                 /\ request[d] # None /\ request[d].op = "COPY" /\ write'[request[d].key] = Kept(d)
                 /\ \A o \in DOMAIN copies' : copies'[o] = d => o = m
        <3>1. CASE m = n
            BY <1>2, <1>4, <1>6, <3>1 DEF Copied
        <3>2. CASE m \in DOMAIN copies
            <4>1. /\ copies[m] \in Clients /\ Copied(copies[m]) /\ request[copies[m]] # None
                  /\ request[copies[m]].op = "COPY"
                  /\ write[request[copies[m]].key] = Kept(copies[m])
                  /\ \A o \in DOMAIN copies : copies[o] = copies[m] => o = m
                BY <1>1, <3>2, Authors DEF EffectsInv, Copied
            <4> QED BY <1>2, <1>4, <1>6, <3>2, <4>1
        <3> QED BY <1>4, <3>1, <3>2
    <2>2. ASSUME NEW k \in A!Lines, NEW m \in DOMAIN line[k]
          PROVE  LET d == line[k][m].by IN
                 /\ request[d] # None /\ request[d].op = k /\ write'[request[d].key] = Kept(d)
                 /\ line[k][m].seen = m - 1
                 /\ \A o \in DOMAIN line[k] : line[k][o].by = d => o = m
        <3>1. line[k][m].by \in Clients /\ Wrote(line[k][m].by)
            BY <1>1, Authors DEF Wrote
        <3> QED BY <1>1, <1>6, <3>1 DEF EffectsInv
    <2> QED BY <1>1, <1>7, <2>1, <2>2 DEF EffectsInv
<1>11. AnswersInv'
    <2>1. answer' = [answer EXCEPT ![c] = "OK"] /\ DOMAIN answer = Clients
        BY <1>1 DEF A!Answer, RequestForm
    <2> QED BY <1>1, <1>5, <2>1 DEF AnswersInv
<1> QED BY <1>8, <1>9, <1>10, <1>11 DEF AuthoringInv

LEMMA ProjectKeeps ==
    ASSUME AuthoringInv, RequestForm', NEW c \in Clients,
           request[c] # None, request[c].op = "PROJECT", projectWrite[c] = None,
           projects' = Append(projects, [by |-> c, owner |-> TRUE]),
           projectWrite' = [projectWrite EXCEPT ![c] = Kept(c)], A!Answer(c, "OK"),
           UNCHANGED <<request, line, copies, write>>
    PROVE  AuthoringInv'
<1> DEFINE n == Len(projects) + 1
           Made == [by : Clients, owner : BOOLEAN]
           row == [by |-> c, owner |-> TRUE]
<1>1. RequestForm /\ WrittenForm /\ KeysInv /\ EffectsInv /\ AnswersInv
    BY DEF AuthoringInv
<1>2. row \in Made /\ row.by = c /\ row.owner
    OBVIOUS
<1>3. projects \in Seq(Made) /\ DOMAIN projectWrite = Clients
    BY <1>1 DEF WrittenForm
<1> HIDE DEF Made
<1>4. projects' \in Seq(Made)
    <2> HIDE DEF row
    <2>1. projects' = Append(projects, row)
        BY DEF row
    <2> QED BY <1>2, <1>3, <2>1
<1>5. /\ DOMAIN projects' = DOMAIN projects \cup {n} /\ n \notin DOMAIN projects
      /\ projects'[n] = row
      /\ \A m \in DOMAIN projects : projects'[m] = projects[m]
    BY <1>3
<1> HIDE DEF n, row
<1>6. ~Founded(c)
    <2>1. Kept(c) # None
        BY <1>1, KeptIsThere
    <2> QED BY <1>1, <2>1 DEF EffectsInv, Founded
<1>7. /\ \A d \in Clients : Founded(d) => Founded(d)'
      /\ Founded(c)'
      /\ \A d \in Clients : (Wrote(d)' <=> Wrote(d)) /\ (Copied(d)' <=> Copied(d))
    BY <1>2, <1>5 DEF Wrote, Copied, Founded
<1>8. /\ DOMAIN projectWrite' = Clients /\ projectWrite'[c] = Kept(c)
      /\ \A d \in Clients \ {c} : projectWrite'[d] = projectWrite[d]
    BY <1>3
<1>9. \A d : Kept(d)' = Kept(d)
    BY DEF Kept
<1>10. WrittenForm'
    BY <1>1, <1>4, <1>8 DEF WrittenForm, Made
<1>11. KeysInv'
    BY <1>1, <1>7, <1>8, <1>9 DEF KeysInv
<1>12. EffectsInv'
    <2>1. ASSUME NEW m \in DOMAIN projects'
          PROVE  LET d == projects'[m].by IN
                 /\ request[d] # None /\ request[d].op = "PROJECT" /\ projectWrite'[d] = Kept(d)
                 /\ projects'[m].owner
                 /\ \A o \in DOMAIN projects' : projects'[o].by = d => o = m
        <3>1. CASE m = n
            BY <1>2, <1>5, <1>6, <1>8, <3>1 DEF Founded
        <3>2. CASE m \in DOMAIN projects
            <4> DEFINE d == projects[m].by
            <4>1. /\ d \in Clients /\ Founded(d) /\ request[d] # None /\ request[d].op = "PROJECT"
                  /\ projectWrite[d] = Kept(d) /\ projects[m].owner
                  /\ \A o \in DOMAIN projects : projects[o].by = d => o = m
                BY <1>1, <3>2, Authors DEF EffectsInv, Founded
            <4>2. d # c
                BY <1>6, <4>1
            <4> QED BY <1>2, <1>5, <1>8, <3>2, <4>1, <4>2
        <3> QED BY <1>5, <3>1, <3>2
    <2> QED BY <1>1, <1>9, <2>1 DEF EffectsInv
<1>13. AnswersInv'
    <2>1. answer' = [answer EXCEPT ![c] = "OK"] /\ DOMAIN answer = Clients
        BY <1>1 DEF A!Answer, RequestForm
    <2> QED BY <1>1, <1>7, <2>1 DEF AnswersInv
<1> QED BY <1>10, <1>11, <1>12, <1>13 DEF AuthoringInv


LEMMA ComposeKeeps ==
    ASSUME AuthoringInv, NEW c \in Clients, A!Compose(c) PROVE AuthoringInv'
<1>1. RequestForm /\ WrittenForm /\ AnswersInv
    BY DEF AuthoringInv
<1>2. PICK op \in A!Operations, key \in Keys :
        \E bound \in IF op = "PRESET" THEN Offered ELSE {None} :
            request' = [request EXCEPT ![c] =
                [by |-> c, op |-> op, key |-> key, bound |-> bound,
                 base |-> IF op \in A!Lines THEN Len(line[op]) ELSE 0]]
    BY DEF A!Compose
<1>3. PICK bound \in IF op = "PRESET" THEN Offered ELSE {None} :
            request' = [request EXCEPT ![c] =
                [by |-> c, op |-> op, key |-> key, bound |-> bound,
                 base |-> IF op \in A!Lines THEN Len(line[op]) ELSE 0]]
    BY <1>2
<1> DEFINE base == IF op \in A!Lines THEN Len(line[op]) ELSE 0
           new == [by |-> c, op |-> op, key |-> key, bound |-> bound, base |-> base]
<1>4. base \in Nat
    BY <1>1 DEF WrittenForm
<1> HIDE DEF base
<1>5. request' = [request EXCEPT ![c] = new]
    BY <1>3 DEF base
<1>6. new \in Requests /\ new.by = c
    BY <1>4 DEF Requests, Offered
<1>7. new.op = "PRESET" => new.bound \in Bindings
    BY DEF Offered
<1> HIDE DEF new
<1>8. RequestForm'
    BY <1>1, <1>5, <1>6, <1>7 DEF RequestForm, A!Compose
<1>9. \A d \in Clients : request[d] # None => request'[d] = request[d]
    BY <1>1, <1>5 DEF RequestForm, A!Compose
<1> QED BY <1>8, <1>9, WrittenStands DEF A!Compose

LEMMA LoseAuthorityKeeps ==
    ASSUME AuthoringInv, NEW c \in Clients, A!LoseAuthority(c) PROVE AuthoringInv'
<1>1. RequestForm'
    BY DEF AuthoringInv, RequestForm, A!LoseAuthority, A!clients
<1> QED BY <1>1, WrittenStands DEF A!LoseAuthority, A!clients

\* A request is sent once more, and awaits something or not.
LEMMA SendsForm ==
    ASSUME AuthoringInv, NEW c \in Clients, NEW op, A!Sends(c, op), UNCHANGED <<member, request>>,
           UNCHANGED underWay \/ A!Await(c), DOMAIN answer' = Clients
    PROVE  RequestForm'
<1>1. RequestForm
    BY DEF AuthoringInv
<1>2. sent' = [sent EXCEPT ![c] = sent[c] + 1] /\ sent[c] < MaxSent
    BY DEF A!Sends
<1>3. sent[c] \in Nat /\ MaxSent \in Nat
    BY <1>1, AutomationAssumption DEF RequestForm
<1>4. \A d \in Clients : /\ sent'[d] \in 0 .. MaxSent
                         /\ Len(underWay[d]) <= sent'[d]
                         /\ Len(underWay[c]) + 1 <= sent'[c]
    BY <1>1, <1>2, <1>3 DEF RequestForm
<1>5. CASE UNCHANGED underWay
    BY <1>1, <1>2, <1>4, <1>5 DEF RequestForm
<1>6. CASE A!Await(c)
    <2>1. underWay' = [underWay EXCEPT ![c] = Append(underWay[c], "RESOLVE")]
        BY <1>6 DEF A!Await
    <2>2. \A d \in Clients : underWay'[d] \in Seq({"RESOLVE"}) /\ Len(underWay'[d]) <= sent'[d]
        <3> TAKE d \in Clients
        <3>1. underWay[d] \in Seq({"RESOLVE"})
            BY <1>1 DEF RequestForm
        <3>2. CASE d = c
            BY <1>1, <1>4, <2>1, <3>1, <3>2 DEF RequestForm
        <3>3. CASE d # c
            BY <1>1, <1>4, <2>1, <3>1, <3>3 DEF RequestForm
        <3> QED BY <3>2, <3>3
    <2>3. DOMAIN underWay' = Clients /\ DOMAIN sent' = Clients
        BY <1>1, <1>2, <2>1 DEF RequestForm
    <2> QED BY <1>1, <1>4, <2>2, <2>3 DEF RequestForm
<1> QED BY <1>5, <1>6

\* An execution goes on.
LEMMA ResumesForm ==
    ASSUME AuthoringInv, NEW c \in Clients, A!Resumes(c), DOMAIN answer' = Clients
    PROVE  RequestForm'
<1>1. RequestForm
    BY DEF AuthoringInv
<1>2. underWay' = [underWay EXCEPT ![c] = Tail(underWay[c])] /\ underWay[c] # <<>>
    BY DEF A!Resumes
<1>3. underWay[c] \in Seq({"RESOLVE"})
    BY <1>1 DEF RequestForm
<1>4. Tail(underWay[c]) \in Seq({"RESOLVE"}) /\ Len(Tail(underWay[c])) <= Len(underWay[c])
    BY <1>2, <1>3
<1>5. \A d \in Clients : underWay'[d] \in Seq({"RESOLVE"}) /\ Len(underWay'[d]) <= sent[d]
    <2> TAKE d \in Clients
    <2>1. CASE d = c
        <3>1. underWay'[c] = Tail(underWay[c]) /\ Len(underWay[c]) <= sent[c] /\ sent[c] \in Nat
            BY <1>1, <1>2 DEF RequestForm
        <3> QED BY <1>3, <1>4, <2>1, <3>1
    <2>2. CASE d # c
        BY <1>1, <1>2, <2>2 DEF RequestForm
    <2> QED BY <2>1, <2>2
<1>6. DOMAIN underWay' = Clients
    BY <1>1, <1>2 DEF RequestForm
<1> QED BY <1>1, <1>5, <1>6 DEF RequestForm, A!Resumes

\* Nothing is written, and the client is told why not, or what was written before.
LEMMA RefuseKeeps ==
    ASSUME AuthoringInv, RequestForm', NEW c \in Clients, UNCHANGED request, NEW why,
           A!Refuse(c, why), why = "OK" => Wrote(c) \/ Copied(c) \/ Founded(c)
    PROVE  AuthoringInv'
<1>1. answer' = [answer EXCEPT ![c] = why] /\ DOMAIN answer = Clients
    BY DEF A!Refuse, A!Answer, AuthoringInv, RequestForm
<1>2. \A d \in Clients : answer'[d] = "OK" =>
         answer[d] = "OK" \/ Wrote(d) \/ Copied(d) \/ Founded(d)
    BY <1>1
<1> QED BY <1>2, WrittenStands DEF A!Refuse

LEMMA WaitingKeeps ==
    ASSUME AuthoringInv, RequestForm', UNCHANGED <<A!written, request, answer>>
    PROVE  AuthoringInv'
BY WrittenStands

\* The first answer is given again to the same request only, and that had its effect.
LEMMA ReplayedAsMade ==
    ASSUME AuthoringInv, NEW c \in Clients, request[c] # None
    PROVE  /\ write[request[c].key] # None /\ A!Replay(write[request[c].key], request[c]) = "OK"
                => Wrote(c) \/ Copied(c)
           /\ projectWrite[c] # None => Founded(c)
<1>1. RequestForm /\ KeysInv
    BY DEF AuthoringInv
<1>2. request[c].key \in Keys /\ request[c].by = c
    BY <1>1 DEF RequestForm, Requests
<1>3. ASSUME write[request[c].key] # None, A!Replay(write[request[c].key], request[c]) = "OK"
      PROVE  Wrote(c) \/ Copied(c)
    <2>1. PICK d \in Clients : /\ request[d] # None /\ write[request[c].key] = Kept(d)
                               /\ (Wrote(d) \/ Copied(d))
        BY <1>1, <1>2, <1>3 DEF KeysInv
    <2>2. request[d] = request[c]
        BY <1>3, <2>1 DEF A!Replay, Kept
    <2>3. d = c
        BY <1>1, <1>2, <2>1, <2>2 DEF RequestForm
    <2> QED BY <2>1, <2>3
<1> QED BY <1>1, <1>3 DEF KeysInv


LEMMA ReviseStep ==
    ASSUME AuthoringInv, NEW c \in Clients, NEW kind \in A!Revised, A!Revise(c, kind)
    PROVE  AuthoringInv'
<1> DEFINE row == write[request[c].key]
           permitted == kind # "DRAFT" => c \in member
<1>1. /\ request[c] # None /\ request[c].op = kind /\ UNCHANGED <<member, request, underWay>>
      /\ A!Sends(c, kind) /\ kind \in A!Lines
    BY DEF A!Revise, A!Sends, A!Lines
<1>2. DOMAIN answer = Clients
    BY DEF AuthoringInv, RequestForm
<1>3. \/ row # None /\ A!Refuse(c, A!Replay(row, request[c]))
      \/ row = None /\ A!Refuse(c, "FORBIDDEN")
      \/ row = None /\ A!Refuse(c, "STALE")
      \/ /\ row = None /\ A!Expected(kind, request[c].base)
         /\ A!NextOf(kind, c) /\ A!Remember(c) /\ A!Answer(c, "OK")
         /\ UNCHANGED <<copies, projects, projectWrite>>
    <2>1. CASE row # None
        BY <2>1 DEF A!Revise
    <2>2. CASE row = None /\ ~permitted
        BY <2>2 DEF A!Revise
    <2>3. CASE row = None /\ permitted
        BY <2>3 DEF A!Revise
    <2> QED BY <2>1, <2>2, <2>3
<1>4. DOMAIN answer' = Clients
    BY <1>2, <1>3 DEF A!Refuse, A!Answer
<1>5. RequestForm'
    BY <1>1, <1>4, SendsForm
<1>6. CASE row # None /\ A!Refuse(c, A!Replay(row, request[c]))
    <2>1. A!Replay(row, request[c]) = "OK" => Wrote(c) \/ Copied(c)
        BY <1>1, <1>6, ReplayedAsMade
    <2> QED BY <1>1, <1>5, <1>6, <2>1, RefuseKeeps
<1>7. CASE A!Refuse(c, "FORBIDDEN") \/ A!Refuse(c, "STALE")
    BY <1>1, <1>5, <1>7, RefuseKeeps
<1>8. CASE /\ row = None /\ A!Expected(kind, request[c].base)
           /\ A!NextOf(kind, c) /\ A!Remember(c) /\ A!Answer(c, "OK")
           /\ UNCHANGED <<copies, projects, projectWrite>>
    BY <1>1, <1>5, <1>8, ReviseKeeps
<1> QED BY <1>3, <1>6, <1>7, <1>8

LEMMA DuplicateStep ==
    ASSUME AuthoringInv, NEW c \in Clients, A!Duplicate(c) PROVE AuthoringInv'
<1> DEFINE row == write[request[c].key]
<1>1. /\ request[c] # None /\ request[c].op = "COPY" /\ UNCHANGED <<member, request, underWay>>
      /\ A!Sends(c, "COPY")
    BY DEF A!Duplicate, A!Sends
<1>2. \/ row # None /\ A!Refuse(c, A!Replay(row, request[c]))
      \/ row = None /\ A!Refuse(c, "NOT_FOUND")
      \/ /\ row = None /\ copies' = Append(copies, c) /\ A!Remember(c) /\ A!Answer(c, "OK")
         /\ UNCHANGED <<line, projects, projectWrite>>
    BY DEF A!Duplicate
<1>3. DOMAIN answer' = Clients
    BY <1>2 DEF A!Refuse, A!Answer, AuthoringInv, RequestForm
<1>4. RequestForm'
    BY <1>1, <1>3, SendsForm
<1>5. CASE row # None /\ A!Refuse(c, A!Replay(row, request[c]))
    <2>1. A!Replay(row, request[c]) = "OK" => Wrote(c) \/ Copied(c)
        BY <1>1, <1>5, ReplayedAsMade
    <2> QED BY <1>1, <1>4, <1>5, <2>1, RefuseKeeps
<1>6. CASE A!Refuse(c, "NOT_FOUND")
    BY <1>1, <1>4, <1>6, RefuseKeeps
<1>7. CASE /\ row = None /\ copies' = Append(copies, c) /\ A!Remember(c) /\ A!Answer(c, "OK")
           /\ UNCHANGED <<line, projects, projectWrite>>
    BY <1>1, <1>4, <1>7, DuplicateKeeps
<1> QED BY <1>2, <1>5, <1>6, <1>7

LEMMA BindSteps ==
    ASSUME AuthoringInv, NEW c \in Clients, A!BeginBind(c) \/ A!CommitBind(c)
    PROVE  AuthoringInv'
<1> DEFINE row == write[request[c].key]
<1>1. DOMAIN answer = Clients
    BY DEF AuthoringInv, RequestForm
<1>2. CASE A!BeginBind(c)
    <2>1. A!Sends(c, "PRESET") /\ request[c] # None /\ UNCHANGED <<member, request>>
        BY <1>2 DEF A!BeginBind, A!Sends
    <2>2. \/ row # None /\ A!Refuse(c, A!Replay(row, request[c])) /\ UNCHANGED underWay
          \/ A!Refuse(c, "UNBOUND") /\ UNCHANGED underWay
          \/ A!Await(c) /\ UNCHANGED <<A!written, answer>>
        <3>1. CASE row # None
            BY <1>2, <3>1 DEF A!BeginBind
        <3>2. CASE row = None /\ request[c].bound \notin Offered
            BY <1>2, <3>2 DEF A!BeginBind
        <3>3. CASE row = None /\ request[c].bound \in Offered
            BY <1>2, <3>3 DEF A!BeginBind
        <3> QED BY <3>1, <3>2, <3>3
    <2>3. DOMAIN answer' = Clients
        BY <1>1, <2>2 DEF A!Refuse, A!Answer
    <2>4. RequestForm'
        BY <2>1, <2>2, <2>3, SendsForm
    <2>5. CASE row # None /\ A!Refuse(c, A!Replay(row, request[c]))
        <3>1. A!Replay(row, request[c]) = "OK" => Wrote(c) \/ Copied(c)
            BY <2>1, <2>5, ReplayedAsMade
        <3> QED BY <2>1, <2>4, <2>5, <3>1, RefuseKeeps
    <2>6. CASE A!Refuse(c, "UNBOUND")
        BY <2>1, <2>4, <2>6, RefuseKeeps
    <2>7. CASE UNCHANGED <<A!written, answer>>
        BY <2>1, <2>4, <2>7, WaitingKeeps
    <2> QED BY <2>2, <2>5, <2>6, <2>7
<1>3. CASE A!CommitBind(c)
    <2>1. A!Resumes(c) /\ request[c] # None /\ request[c].op = "PRESET" /\ UNCHANGED request
        BY <1>3 DEF A!CommitBind, A!Resumes
    <2>2. \/ A!Refuse(c, "STALE")
          \/ UNCHANGED <<A!written, answer>>
          \/ /\ row = None /\ A!Expected("PRESET", request[c].base)
             /\ A!NextOf("PRESET", c) /\ A!Remember(c) /\ A!Answer(c, "OK")
             /\ UNCHANGED <<copies, projects, projectWrite>>
        BY <1>3 DEF A!CommitBind
    <2>3. DOMAIN answer' = Clients
        BY <1>1, <2>2 DEF A!Refuse, A!Answer
    <2>4. RequestForm'
        BY <2>1, <2>3, ResumesForm
    <2>5. CASE A!Refuse(c, "STALE")
        BY <2>1, <2>4, <2>5, RefuseKeeps
    <2>6. CASE UNCHANGED <<A!written, answer>>
        BY <2>1, <2>4, <2>6, WaitingKeeps
    <2>7. CASE /\ row = None /\ A!Expected("PRESET", request[c].base)
               /\ A!NextOf("PRESET", c) /\ A!Remember(c) /\ A!Answer(c, "OK")
               /\ UNCHANGED <<copies, projects, projectWrite>>
        <3>1. "PRESET" \in A!Lines
            BY DEF A!Lines
        <3> QED BY <2>1, <2>4, <2>7, <3>1, ReviseKeeps
    <2> QED BY <2>2, <2>5, <2>6, <2>7
<1> QED BY <1>2, <1>3

LEMMA ProjectSteps ==
    ASSUME AuthoringInv, NEW c \in Clients, A!BeginProject(c) \/ A!CommitProject(c)
    PROVE  AuthoringInv'
<1>1. DOMAIN answer = Clients
    BY DEF AuthoringInv, RequestForm
<1>2. CASE A!BeginProject(c)
    <2>1. A!Sends(c, "PROJECT") /\ request[c] # None /\ UNCHANGED <<member, request>>
        BY <1>2 DEF A!BeginProject, A!Sends
    <2>2. \/ A!Refuse(c, "FORBIDDEN") /\ UNCHANGED underWay
          \/ A!Await(c) /\ UNCHANGED <<A!written, answer>>
        BY <1>2 DEF A!BeginProject
    <2>3. DOMAIN answer' = Clients
        BY <1>1, <2>2 DEF A!Refuse, A!Answer
    <2>4. RequestForm'
        BY <2>1, <2>2, <2>3, SendsForm
    <2>5. CASE A!Refuse(c, "FORBIDDEN")
        BY <2>1, <2>4, <2>5, RefuseKeeps
    <2>6. CASE UNCHANGED <<A!written, answer>>
        BY <2>1, <2>4, <2>6, WaitingKeeps
    <2> QED BY <2>2, <2>5, <2>6
<1>3. CASE A!CommitProject(c)
    <2>1. A!Resumes(c) /\ request[c] # None /\ request[c].op = "PROJECT" /\ UNCHANGED request
        BY <1>3 DEF A!CommitProject, A!Resumes
    <2>2. \/ projectWrite[c] # None /\ A!Refuse(c, A!Replay(projectWrite[c], request[c]))
          \/ A!Refuse(c, "FORBIDDEN")
          \/ /\ projectWrite[c] = None /\ c \in member
             /\ projects' = Append(projects, [by |-> c, owner |-> c \in member])
             /\ projectWrite' = [projectWrite EXCEPT ![c] = Kept(c)]
             /\ A!Answer(c, "OK") /\ UNCHANGED <<line, copies, write>>
        BY <1>3 DEF A!CommitProject, A!StillOwner, Kept
    <2>3. DOMAIN answer' = Clients
        BY <1>1, <2>2 DEF A!Refuse, A!Answer
    <2>4. RequestForm'
        BY <2>1, <2>3, ResumesForm
    <2>5. CASE projectWrite[c] # None /\ A!Refuse(c, A!Replay(projectWrite[c], request[c]))
        <3>1. Founded(c)
            BY <2>1, <2>5, ReplayedAsMade
        <3> QED BY <2>1, <2>4, <2>5, <3>1, RefuseKeeps
    <2>6. CASE A!Refuse(c, "FORBIDDEN")
        BY <2>1, <2>4, <2>6, RefuseKeeps
    <2>7. CASE /\ projectWrite[c] = None /\ c \in member
               /\ projects' = Append(projects, [by |-> c, owner |-> c \in member])
               /\ projectWrite' = [projectWrite EXCEPT ![c] = Kept(c)]
               /\ A!Answer(c, "OK") /\ UNCHANGED <<line, copies, write>>
        <3>1. (c \in member) = TRUE
            BY <2>7
        <3>2. projects' = Append(projects, [by |-> c, owner |-> TRUE])
            BY <2>7, <3>1
        <3> QED BY <2>1, <2>4, <2>7, <3>2, ProjectKeeps
    <2> QED BY <2>2, <2>5, <2>6, <2>7
<1> QED BY <1>2, <1>3

LEMMA AuthoringNext == ASSUME AuthoringInv, A!Next PROVE AuthoringInv'
BY ComposeKeeps, LoseAuthorityKeeps, ReviseStep, DuplicateStep, BindSteps, ProjectSteps DEF A!Next

LEMMA AuthoringStays == ASSUME AuthoringInv, UNCHANGED authoring PROVE AuthoringInv'
<1>1. RequestForm'
    BY DEF authoring, AuthoringInv, RequestForm
<1> QED BY <1>1, WrittenStands DEF authoring, A!written


-------------------------------------------------------------------------------
(* What came of a request                                                  *)

\* One effect and who had it.
EffectOf(e, c) ==
    \/ \E k \in A!Lines : \E n \in DOMAIN line[k] : e = <<k, n>> /\ line[k][n].by = c
    \/ \E n \in DOMAIN copies : e = <<"COPY", n>> /\ copies[n] = c
    \/ \E n \in DOMAIN projects : e = <<"PROJECT", n>> /\ projects[n].by = c

LEMMA EffectsAre ==
    ASSUME NEW C, NEW e
    PROVE  e \in A!Effects(C) <=> \E c \in C : EffectOf(e, c)
<1> DEFINE Revising(k) == {<<k, n>> : n \in {i \in DOMAIN line[k] : line[k][i].by \in C}}
           Writing == UNION {Revising(k) : k \in A!Lines}
           Copying == {<<"COPY", n>> : n \in {i \in DOMAIN copies : copies[i] \in C}}
           Founding == {<<"PROJECT", n>> : n \in {i \in DOMAIN projects : projects[i].by \in C}}
<1>1. A!Effects(C) = Writing \cup Copying \cup Founding
    BY DEF A!Effects
<1>2. \A k : e \in Revising(k) <=> \E n \in DOMAIN line[k] : e = <<k, n>> /\ line[k][n].by \in C
    OBVIOUS
<1>3. e \in Copying <=> \E n \in DOMAIN copies : e = <<"COPY", n>> /\ copies[n] \in C
    OBVIOUS
<1>4. e \in Founding <=> \E n \in DOMAIN projects : e = <<"PROJECT", n>> /\ projects[n].by \in C
    OBVIOUS
<1> HIDE DEF Revising, Copying, Founding
<1>5. e \in Writing <=> \E k \in A!Lines : e \in Revising(k)
    OBVIOUS
<1> HIDE DEF Writing
<1> QED BY <1>1, <1>2, <1>3, <1>4, <1>5 DEF EffectOf

LEMMA OneEach ==
    ASSUME AuthoringInv, NEW c \in Clients, NEW e, NEW f, EffectOf(e, c), EffectOf(f, c)
    PROVE  e = f /\ request[c] # None
           /\ (request[c].op # "PROJECT" => write[request[c].key] = Kept(c))
<1>1. EffectsInv
    BY DEF AuthoringInv
<1>2. "COPY" \notin A!Lines /\ "PROJECT" \notin A!Lines
    BY DEF A!Lines, A!Revised
<1>3. ASSUME NEW k \in A!Lines, NEW n \in DOMAIN line[k], line[k][n].by = c
      PROVE  /\ request[c] # None /\ request[c].op = k /\ write[request[c].key] = Kept(c)
             /\ \A m \in DOMAIN line[k] : line[k][m].by = c => m = n
    BY <1>1, <1>3 DEF EffectsInv
<1>4. ASSUME NEW n \in DOMAIN copies, copies[n] = c
      PROVE  /\ request[c] # None /\ request[c].op = "COPY" /\ write[request[c].key] = Kept(c)
             /\ \A m \in DOMAIN copies : copies[m] = c => m = n
    BY <1>1, <1>4 DEF EffectsInv
<1>5. ASSUME NEW n \in DOMAIN projects, projects[n].by = c
      PROVE  /\ request[c] # None /\ request[c].op = "PROJECT"
             /\ \A m \in DOMAIN projects : projects[m].by = c => m = n
    BY <1>1, <1>5 DEF EffectsInv
<1>6. CASE \E k \in A!Lines : \E n \in DOMAIN line[k] : e = <<k, n>> /\ line[k][n].by = c
    BY <1>2, <1>3, <1>4, <1>5, <1>6 DEF EffectOf
<1>7. CASE \E n \in DOMAIN copies : e = <<"COPY", n>> /\ copies[n] = c
    BY <1>2, <1>3, <1>4, <1>5, <1>7 DEF EffectOf
<1>8. CASE \E n \in DOMAIN projects : e = <<"PROJECT", n>> /\ projects[n].by = c
    BY <1>2, <1>3, <1>4, <1>5, <1>8 DEF EffectOf
<1> QED BY <1>6, <1>7, <1>8 DEF EffectOf

\* A key that two requests name was kept with one of them, who alone had an effect.
LEMMA OneForKey ==
    ASSUME AuthoringInv, NEW key \in Keys, NEW e, NEW f, NEW c \in Clients, NEW d \in Clients,
           request[c].key = key, request[c].op # "PROJECT", EffectOf(e, c),
           request[d].key = key, request[d].op # "PROJECT", EffectOf(f, d)
    PROVE  e = f
<1>1. write[key] = Kept(c) /\ write[key] = Kept(d)
    BY OneEach
<1>2. request[c] = request[d]
    BY <1>1 DEF Kept
<1>3. request[c] # None /\ request[d] # None
    BY OneEach
<1>4. c = d
    BY <1>2, <1>3 DEF AuthoringInv, RequestForm
<1> QED BY <1>4, OneEach

LEMMA AuthoringSays == AuthoringInv => RequestsCountOnce
<1> SUFFICES ASSUME AuthoringInv PROVE RequestsCountOnce
    OBVIOUS
<1>1. RequestForm /\ WrittenForm /\ EffectsInv /\ AnswersInv
    BY DEF AuthoringInv
<1>2. A!TypeOK
    BY <1>1, Authors DEF A!TypeOK, RequestForm, Requests
<1>3. ASSUME NEW c \in Clients PROVE \A e, f \in A!Effects({c}) : e = f
    BY EffectsAre, OneEach
<1>4. ASSUME NEW c \in Clients, answer[c] = "OK" PROVE A!Effects({c}) # {}
    <2>1. Wrote(c) \/ Copied(c) \/ Founded(c)
        BY <1>1, <1>4 DEF AnswersInv
    <2>2. \E e : EffectOf(e, c)
        BY <2>1 DEF EffectOf, Wrote, Copied, Founded
    <2> QED BY <2>2, EffectsAre
<1>5. ASSUME NEW key \in Keys
      PROVE  LET C == {c \in Clients : request[c] # None /\ request[c].key = key
                                                     /\ request[c].op # "PROJECT"}
             IN  \A e, f \in A!Effects(C) : e = f
    BY EffectsAre, OneForKey
<1>6. A!OneEffect
    BY <1>3, <1>4, <1>5 DEF A!OneEffect
<1>7. A!NoLostUpdate
    BY <1>1 DEF EffectsInv, A!NoLostUpdate
<1> QED BY <1>2, <1>6, <1>7 DEF RequestsCountOnce

-------------------------------------------------------------------------------
(* Managed loops                                                           *)

\* The condition of a policy, in three values, is what holds of every completion.
LEMMA ConditionIsSettled ==
    ASSUME NEW p \in StopPolicies, NEW facts \in [Sources -> L!Truth]
    PROVE  /\ L!Condition(p, facts) = L!Settled(p, facts)
           /\ L!Condition(p, facts) \in L!Truth
<1> DEFINE S == {facts[s] : s \in Sources}
           joined == IF p.join = "ALL" THEN L!And(S) ELSE L!Or(S)
           C == L!Completions(facts)
           base(g) == IF p.join = "ALL" THEN \A s \in Sources : g[s] = "TRUE"
                                        ELSE \E s \in Sources : g[s] = "TRUE"
           up == [s \in Sources |-> IF facts[s] = "UNKNOWN" THEN "TRUE" ELSE facts[s]]
           down == [s \in Sources |-> IF facts[s] = "UNKNOWN" THEN "FALSE" ELSE facts[s]]
<1>1. up \in C /\ down \in C
    BY DEF L!Completions, L!Truth
<1>2. \A s \in Sources : facts[s] \in L!Truth
    OBVIOUS
<1>3. \A g \in C : \A s \in Sources : /\ g[s] \in {"TRUE", "FALSE"}
                                      /\ facts[s] # "UNKNOWN" => g[s] = facts[s]
    BY DEF L!Completions
<1>4. /\ joined \in L!Truth
      /\ joined = "TRUE" => \A g \in C : base(g)
      /\ joined = "FALSE" => \A g \in C : ~base(g)
      /\ joined = "UNKNOWN" => base(up) /\ ~base(down)
    <2>1. CASE p.join = "ALL"
        <3>1. CASE \E s \in Sources : facts[s] = "FALSE"
            BY <1>3, <2>1, <3>1 DEF L!And, L!Truth
        <3>2. CASE (\A s \in Sources : facts[s] # "FALSE") /\ (\E s \in Sources : facts[s] = "UNKNOWN")
            BY <1>2, <2>1, <3>2 DEF L!And, L!Truth
        <3>3. CASE \A s \in Sources : facts[s] = "TRUE"
            <4>1. joined = "TRUE"
                BY <2>1, <3>3 DEF L!And
            <4>2. \A g \in C : \A s \in Sources : g[s] = "TRUE"
                BY <1>3, <3>3
            <4> QED BY <2>1, <4>1, <4>2 DEF L!Truth
        <3> QED BY <1>2, <3>1, <3>2, <3>3 DEF L!Truth
    <2>2. CASE p.join = "ANY"
        <3>1. CASE \E s \in Sources : facts[s] = "TRUE"
            <4>1. joined = "TRUE"
                BY <2>2, <3>1 DEF L!Or
            <4>2. \A g \in C : \E s \in Sources : g[s] = "TRUE"
                BY <1>3, <3>1
            <4> QED BY <2>2, <4>1, <4>2 DEF L!Truth
        <3>2. CASE (\A s \in Sources : facts[s] # "TRUE") /\ (\E s \in Sources : facts[s] = "UNKNOWN")
            BY <1>2, <2>2, <3>2 DEF L!Or, L!Truth
        <3>3. CASE \A s \in Sources : facts[s] = "FALSE"
            BY <1>3, <2>2, <3>3 DEF L!Or, L!Truth
        <3> QED BY <1>2, <3>1, <3>2, <3>3 DEF L!Truth
    <2> QED BY <2>1, <2>2 DEF StopPolicies
<1>5. /\ L!Condition(p, facts) = IF p.negated THEN L!Not(joined) ELSE joined
      /\ \A g : L!Holds(p, g) <=> p.negated # base(g)
      /\ \A g : base(g) \in BOOLEAN
    BY DEF L!Condition, L!Holds
<1> HIDE DEF joined, C, base, up, down
<1>6. CASE p.negated = TRUE
    <2>1. \A g : L!Holds(p, g) <=> ~base(g)
        BY <1>5, <1>6
    <2>2. L!Condition(p, facts) = L!Not(joined)
        BY <1>5, <1>6
    <2> QED BY <1>1, <1>4, <2>1, <2>2 DEF L!Settled, L!Not, L!Truth, C
<1>7. CASE p.negated = FALSE
    <2>1. \A g : L!Holds(p, g) <=> base(g)
        BY <1>5, <1>7
    <2>2. L!Condition(p, facts) = joined
        BY <1>5, <1>7
    <2> QED BY <1>1, <1>4, <2>1, <2>2 DEF L!Settled, L!Truth, C
<1> QED BY <1>6, <1>7 DEF StopPolicies

\* Of the first i evaluations m is the last that said no; those since that said yes.
LastMiss(T, m, i) ==
    /\ m \in 0 .. i
    /\ m # 0 => T[m] = "FALSE"
    /\ \A k \in m + 1 .. i : T[k] # "FALSE"
Row(T, m, i) == {k \in m + 1 .. i : T[k] = "TRUE"}

LEMMA RowIsFinite ==
    ASSUME NEW T, NEW i \in Nat, NEW m \in 0 .. i
    PROVE  IsFiniteSet(Row(T, m, i)) /\ Cardinality(Row(T, m, i)) \in Nat
<1>1. IsFiniteSet(m + 1 .. i)
    BY FS_Interval
<1>2. Row(T, m, i) \subseteq m + 1 .. i
    BY DEF Row
<1> QED BY <1>1, <1>2, FS_Subset, FS_CardinalityType

\* Only what was decided matters.
LEMMA RowAgrees ==
    ASSUME NEW T, NEW U, NEW i \in Nat, NEW m, \A j \in 1 .. i : T[j] = U[j], LastMiss(T, m, i)
    PROVE  LastMiss(U, m, i) /\ Row(U, m, i) = Row(T, m, i)
BY DEF LastMiss, Row

\* That the row is as long as the count says what the last of the decided were.
LEMMA RowIsLatest ==
    ASSUME NEW i \in Nat, NEW T, \A j \in 1 .. i : T[j] \in L!Truth, NEW m, LastMiss(T, m, i),
           NEW count \in Nat
    PROVE  Cardinality(Row(T, m, i)) >= count <=> L!HeldInARow(T, i, count)
<1> DEFINE D == {j \in 1 .. i : T[j] # "UNKNOWN"}
           R == Row(T, m, i)
           From(j) == {k \in D : k >= j}
<1>1. /\ IsFiniteSet(1 .. i) /\ m \in 0 .. i
      /\ \A k \in m + 1 .. i : T[k] # "FALSE"
      /\ m # 0 => m \in D /\ T[m] = "FALSE"
    BY FS_Interval DEF LastMiss
<1>2. IsFiniteSet(D) /\ \A j : IsFiniteSet(From(j)) /\ From(j) \subseteq D
    <2>1. D \subseteq 1 .. i /\ \A j : From(j) \subseteq D
        OBVIOUS
    <2> QED BY <1>1, <2>1, FS_Subset
<1>3. /\ R \subseteq D /\ \A k \in R : T[k] = "TRUE" /\ k > m
      /\ \A k \in D : k > m => k \in R
    BY <1>1 DEF L!Truth, Row
<1>4. /\ IsFiniteSet(R) /\ Cardinality(R) \in Nat /\ Cardinality(D) \in Nat
      /\ Cardinality(R) <= Cardinality(D)
      /\ \A j : Cardinality(From(j)) \in Nat
    BY <1>2, <1>3, FS_Subset, FS_CardinalityType
<1>5. \A S : L!Cardinality(S) = Cardinality(S)
    BY DEF L!Cardinality, Cardinality
<1>6. L!HeldInARow(T, i, count) <=>
        /\ Cardinality(D) >= count
        /\ \A j \in D : Cardinality(From(j)) <= count => T[j] = "TRUE"
    BY <1>5 DEF L!HeldInARow
<1>7. \A j \in D : j <= m => R \cup {m} \subseteq From(j) /\ m # 0
    BY <1>1, <1>3
<1>8. m \notin R /\ Cardinality(R \cup {m}) = Cardinality(R) + 1 /\ IsFiniteSet(R \cup {m})
    BY <1>3, <1>4, FS_AddElement DEF Row
<1>9. m # 0 => From(m) = R \cup {m}
    BY <1>1, <1>3
<1> HIDE DEF D, R, From
<1>10. ASSUME Cardinality(R) >= count, NEW j \in D, Cardinality(From(j)) <= count
       PROVE  T[j] = "TRUE"
    <2>1. CASE j <= m
        <3>1. Cardinality(R \cup {m}) <= Cardinality(From(j))
            BY <1>2, <1>7, <2>1, FS_Subset
        <3> QED BY <1>4, <1>8, <1>10, <3>1
    <2>2. CASE j > m
        BY <1>3, <2>2
    <2> QED BY <1>1, <2>1, <2>2 DEF D
<1>11. ASSUME Cardinality(R) < count, Cardinality(D) >= count
       PROVE  \E j \in D : Cardinality(From(j)) <= count /\ T[j] # "TRUE"
    <2>1. m # 0
        <3> SUFFICES ASSUME m = 0 PROVE FALSE
            OBVIOUS
        <3>1. R = D
            <4>1. \A k \in D : k > 0
                BY DEF D
            <4> QED BY <1>3, <4>1
        <3> QED BY <1>4, <1>11, <3>1
    <2>2. Cardinality(From(m)) <= count
        <3>1. Cardinality(From(m)) = Cardinality(R) + 1
            BY <1>8, <1>9, <2>1
        <3>2. \A r \in Nat : r < count => r + 1 <= count
            OBVIOUS
        <3> QED BY <1>4, <1>11, <3>1, <3>2
    <2> QED BY <1>1, <2>1, <2>2
<1>12. CASE Cardinality(R) >= count
    BY <1>4, <1>6, <1>10, <1>12 DEF R
<1>13. CASE Cardinality(R) < count
    BY <1>4, <1>6, <1>11, <1>13 DEF R
<1> QED BY <1>4, <1>12, <1>13

\* What the evaluations of a loop were, and the reports counted.
Entries == [facts : [Sources -> L!Truth], result : L!Truth]
Truths == [j \in DOMAIN history |-> L!Settled(loop.policy, history[j].facts)]
Reported == {e \in Events : recorded[e] # None}

LoopForm ==
    /\ DOMAIN recorded = Events /\ DOMAIN evaluated = Evaluations
    /\ \A e \in Events : recorded[e] \in L!Kinds \cup {None}
    /\ anonymous \in 0 .. MaxAnonymous /\ history \in Seq(Entries)
    /\ loop # None => loop \in ManagedLoops
    /\ loop = None => history = <<>> /\ anonymous = 0 /\ Reported = {}
CountInv == loop # None => loop.attempts = Cardinality(Reported) + anonymous
MatchesInv ==
    loop # None =>
        \E m : /\ LastMiss(Truths, m, Len(history))
               /\ loop.matches = Cardinality(Row(Truths, m, Len(history)))
ResultsInv ==
    loop # None =>
        \A i \in DOMAIN history :
            \E m : /\ LastMiss(Truths, m, i)
                   /\ history[i].result =
                        IF Truths[i] = "UNKNOWN" THEN "UNKNOWN"
                        ELSE IF Cardinality(Row(Truths, m, i)) >= loop.policy.count
                             THEN "TRUE" ELSE "FALSE"
LoopInv == LoopForm /\ CountInv /\ MatchesInv /\ ResultsInv

LEMMA LoopInit == L!Init => LoopInv
<1> SUFFICES ASSUME L!Init PROVE LoopInv
    OBVIOUS
<1>1. LoopForm
    BY AutomationAssumption DEF L!Init, LoopForm, Reported
<1> QED BY <1>1 DEF L!Init, LoopInv, CountInv, MatchesInv, ResultsInv

\* The truths of a loop's evaluations are truths.
LEMMA TruthsForm ==
    ASSUME LoopForm, loop # None
    PROVE  /\ loop.policy \in StopPolicies /\ loop.policy.count \in Nat /\ loop.matches \in Nat
           /\ Len(history) \in Nat /\ DOMAIN history = 1 .. Len(history)
           /\ \A j \in 1 .. Len(history) : Truths[j] \in L!Truth
<1>1. loop \in ManagedLoops /\ history \in Seq(Entries)
    BY DEF LoopForm
<1>2. loop.policy \in StopPolicies /\ loop.policy.count \in Nat /\ loop.matches \in Nat
    BY <1>1, AutomationAssumption DEF ManagedLoops, StopPolicies
<1>3. Len(history) \in Nat /\ DOMAIN history = 1 .. Len(history)
    BY <1>1
<1>4. ASSUME NEW j \in 1 .. Len(history) PROVE Truths[j] \in L!Truth
    <2>1. history[j] \in Entries
        BY <1>1
    <2>2. history[j].facts \in [Sources -> L!Truth]
        BY <2>1 DEF Entries
    <2> QED BY <1>2, <1>3, <2>2, ConditionIsSettled DEF Truths
<1> QED BY <1>2, <1>3, <1>4

\* A report is counted, under an identity that is new, or without one.
LEMMA CountKeeps ==
    ASSUME LoopInv, loop # None, L!Advances, L!Counted, UNCHANGED <<evaluated, history>>,
           \/ /\ \E e \in Events, kind \in L!Kinds : recorded[e] = None
                   /\ recorded' = [recorded EXCEPT ![e] = kind]
              /\ UNCHANGED anonymous
           \/ anonymous < MaxAnonymous /\ anonymous' = anonymous + 1 /\ UNCHANGED recorded
    PROVE  LoopInv'
<1>1. LoopForm /\ loop \in ManagedLoops /\ IsFiniteSet(Reported)
    <2>1. Reported \subseteq Events
        BY DEF Reported
    <2> QED BY <2>1, AutomationAssumption, FS_Subset DEF LoopInv, LoopForm
<1>2. /\ loop' \in ManagedLoops /\ loop'.policy = loop.policy /\ loop'.matches = loop.matches
      /\ loop'.attempts = loop.attempts + 1 /\ loop' # None
    BY <1>1, AutomationAssumption DEF L!Counted, L!Advances, ManagedLoops
<1>3. Truths' = Truths
    BY <1>2 DEF Truths
<1>4. MatchesInv' /\ ResultsInv'
    BY <1>2, <1>3 DEF LoopInv, MatchesInv, ResultsInv
<1>5. Cardinality(Reported) \in Nat /\ anonymous \in Nat /\ MaxAnonymous \in Nat
    BY <1>1, AutomationAssumption, FS_CardinalityType DEF LoopForm
<1>6. CASE /\ \E e \in Events, kind \in L!Kinds : recorded[e] = None
                /\ recorded' = [recorded EXCEPT ![e] = kind]
           /\ UNCHANGED anonymous
    <2>1. PICK e \in Events, kind \in L!Kinds : recorded[e] = None
                /\ recorded' = [recorded EXCEPT ![e] = kind]
        BY <1>6
    <2>2. Reported' = Reported \cup {e} /\ e \notin Reported
        BY <1>1, <2>1, AutomationAssumption DEF Reported, LoopForm
    <2>3. Cardinality(Reported') = Cardinality(Reported) + 1
        BY <1>1, <2>2, FS_AddElement
    <2>4. CountInv'
        BY <1>2, <1>5, <1>6, <2>3 DEF LoopInv, CountInv
    <2>5. LoopForm'
        BY <1>1, <1>2, <1>6, <2>1 DEF LoopForm
    <2> QED BY <1>4, <2>4, <2>5 DEF LoopInv
<1>7. CASE anonymous < MaxAnonymous /\ anonymous' = anonymous + 1 /\ UNCHANGED recorded
    <2>1. Reported' = Reported
        BY <1>7 DEF Reported
    <2>2. CountInv'
        BY <1>2, <1>5, <1>7, <2>1 DEF LoopInv, CountInv
    <2>3. LoopForm'
        BY <1>1, <1>2, <1>5, <1>7 DEF LoopForm
    <2> QED BY <1>4, <2>2, <2>3 DEF LoopInv
<1> QED BY <1>6, <1>7

\* An evaluation is the next of the history: it lengthens the row, ends it, or neither.
LEMMA EvaluateKeeps ==
    ASSUME LoopInv, NEW v \in Evaluations, L!Evaluate(v) PROVE LoopInv'
<1>1. LoopForm /\ loop # None /\ loop \in ManagedLoops
    BY DEF LoopInv, LoopForm, L!Evaluate
<1>2. PICK facts \in [Sources -> L!Truth] :
        LET t == L!Condition(loop.policy, facts)
            n == L!MatchesAfter(t, loop.matches)
        IN  /\ loop' = [loop EXCEPT !.matches = n]
            /\ evaluated' = [evaluated EXCEPT ![v] = L!Outcome(t, loop.policy, n)]
            /\ history' = Append(history, [facts |-> facts, result |-> evaluated'[v]])
    BY DEF L!Evaluate
<1> DEFINE t == L!Condition(loop.policy, facts)
           n == L!MatchesAfter(t, loop.matches)
           new == [facts |-> facts, result |-> L!Outcome(t, loop.policy, n)]
           l == Len(history)
<1>3. t \in L!Truth /\ t = L!Settled(loop.policy, facts) /\ loop.matches \in Nat /\ l \in Nat
      /\ loop.policy.count \in Nat
    BY <1>1, TruthsForm, ConditionIsSettled
<1>4. n = IF t = "TRUE" THEN loop.matches + 1 ELSE IF t = "FALSE" THEN 0 ELSE loop.matches
    BY <1>3 DEF L!MatchesAfter, L!Truth
<1>5. n \in Nat
    BY <1>3, <1>4
<1>6. new \in Entries /\ new.facts = facts
      /\ new.result = IF t = "UNKNOWN" THEN "UNKNOWN" ELSE IF n >= loop.policy.count THEN "TRUE" ELSE "FALSE"
    BY <1>3 DEF Entries, L!Outcome, L!Truth
<1>7. /\ loop' = [loop EXCEPT !.matches = n]
      /\ DOMAIN evaluated' = Evaluations /\ history' = Append(history, new)
      /\ UNCHANGED <<recorded, anonymous>>
    BY <1>1, <1>2 DEF LoopForm, L!Evaluate
<1> HIDE DEF t, n, new
<1>8. /\ loop' \in ManagedLoops /\ loop'.policy = loop.policy /\ loop'.matches = n
      /\ loop'.attempts = loop.attempts /\ loop' # None
    BY <1>1, <1>5, <1>7, AutomationAssumption DEF ManagedLoops
<1>9. /\ history' \in Seq(Entries) /\ Len(history') = l + 1 /\ history'[l + 1] = new
      /\ DOMAIN history' = 1 .. l + 1 /\ DOMAIN history = 1 .. l
      /\ \A j \in 1 .. l : history'[j] = history[j]
    BY <1>1, <1>6, <1>7 DEF LoopForm
<1> HIDE DEF l
<1>10. LoopForm'
    BY <1>1, <1>7, <1>8, <1>9 DEF LoopForm, Reported
<1>11. CountInv'
    BY <1>1, <1>7, <1>8 DEF LoopInv, CountInv, Reported
<1>12. Truths'[l + 1] = t /\ \A j \in 1 .. l : Truths[j] = Truths'[j]
    <2>1. \A j \in 1 .. l + 1 : Truths'[j] = L!Settled(loop.policy, history'[j].facts)
        BY <1>8, <1>9 DEF Truths
    <2>2. \A j \in 1 .. l : Truths[j] = L!Settled(loop.policy, history[j].facts)
        BY <1>9 DEF Truths
    <2>3. l + 1 \in 1 .. l + 1 /\ \A j \in 1 .. l : j \in 1 .. l + 1
        BY <1>3
    <2> QED BY <1>3, <1>6, <1>9, <2>1, <2>2, <2>3
<1>13. PICK m : LastMiss(Truths, m, l) /\ loop.matches = Cardinality(Row(Truths, m, l))
    BY <1>1 DEF LoopInv, MatchesInv, l
<1>14. LastMiss(Truths', m, l) /\ Row(Truths', m, l) = Row(Truths, m, l) /\ m \in 0 .. l
    <2>1. \A j \in 1 .. l : Truths[j] = Truths'[j]
        BY <1>12
    <2>2. m \in 0 .. l
        BY <1>13 DEF LastMiss
    <2> QED BY <1>3, <1>13, <2>1, <2>2, RowAgrees
<1>15. PICK o : LastMiss(Truths', o, l + 1) /\ n = Cardinality(Row(Truths', o, l + 1))
    <2>1. CASE t = "TRUE"
        <3>1. LastMiss(Truths', m, l + 1)
            BY <1>3, <1>12, <1>14, <2>1 DEF LastMiss
        <3>2. Row(Truths', m, l + 1) = Row(Truths', m, l) \cup {l + 1} /\ l + 1 \notin Row(Truths', m, l)
            BY <1>3, <1>12, <1>14, <2>1 DEF Row
        <3>3. IsFiniteSet(Row(Truths', m, l))
            BY <1>3, <1>14, RowIsFinite
        <3>4. Cardinality(Row(Truths', m, l + 1)) = Cardinality(Row(Truths', m, l)) + 1
            BY <3>2, <3>3, FS_AddElement
        <3> QED BY <1>4, <1>13, <1>14, <2>1, <3>1, <3>4
    <2>2. CASE t = "FALSE"
        <3>1. LastMiss(Truths', l + 1, l + 1)
            BY <1>3, <1>12, <2>2 DEF LastMiss
        <3>2. Row(Truths', l + 1, l + 1) = {}
            BY <1>3 DEF Row
        <3> QED BY <1>4, <2>2, <3>1, <3>2, FS_EmptySet
    <2>3. CASE t = "UNKNOWN"
        <3>1. LastMiss(Truths', m, l + 1)
            BY <1>3, <1>12, <1>14, <2>3 DEF LastMiss
        <3>2. Row(Truths', m, l + 1) = Row(Truths', m, l)
            BY <1>3, <1>12, <1>14, <2>3 DEF Row
        <3> QED BY <1>4, <1>13, <1>14, <2>3, <3>1, <3>2
    <2> QED BY <1>3, <2>1, <2>2, <2>3 DEF L!Truth
<1>16. MatchesInv'
    BY <1>8, <1>9, <1>15 DEF MatchesInv
<1>17. ResultsInv'
    <2>1. ASSUME NEW i \in 1 .. l
          PROVE  \E k : /\ LastMiss(Truths', k, i)
                        /\ history'[i].result =
                             IF Truths'[i] = "UNKNOWN" THEN "UNKNOWN"
                             ELSE IF Cardinality(Row(Truths', k, i)) >= loop.policy.count
                                  THEN "TRUE" ELSE "FALSE"
        <3>1. PICK k : /\ LastMiss(Truths, k, i)
                       /\ history[i].result =
                            IF Truths[i] = "UNKNOWN" THEN "UNKNOWN"
                            ELSE IF Cardinality(Row(Truths, k, i)) >= loop.policy.count
                                 THEN "TRUE" ELSE "FALSE"
            BY <1>1, <1>9 DEF LoopInv, ResultsInv
        <3>2. i \in Nat /\ \A j \in 1 .. i : Truths[j] = Truths'[j]
            BY <1>3, <1>12
        <3>3. LastMiss(Truths', k, i) /\ Row(Truths', k, i) = Row(Truths, k, i)
            BY <3>1, <3>2, RowAgrees
        <3> QED BY <1>3, <1>9, <1>12, <3>1, <3>3
    <2>2. \E k : /\ LastMiss(Truths', k, l + 1)
                 /\ history'[l + 1].result =
                      IF Truths'[l + 1] = "UNKNOWN" THEN "UNKNOWN"
                      ELSE IF Cardinality(Row(Truths', k, l + 1)) >= loop.policy.count
                           THEN "TRUE" ELSE "FALSE"
        BY <1>6, <1>9, <1>12, <1>15
    <2>3. \A i \in 1 .. l + 1 : i \in 1 .. l \/ i = l + 1
        BY <1>3
    <2> QED BY <1>8, <1>9, <2>1, <2>2, <2>3 DEF ResultsInv
<1> QED BY <1>10, <1>11, <1>16, <1>17 DEF LoopInv

LEMMA LoopStays == ASSUME LoopInv, UNCHANGED <<loop, recorded, anonymous, evaluated, history>>
                   PROVE  LoopInv'
BY DEF LoopInv, LoopForm, CountInv, MatchesInv, ResultsInv, Truths, Reported

LEMMA CreateKeeps == ASSUME LoopInv, L!CreateLoop PROVE LoopInv'
<1>1. LoopForm /\ loop = None /\ history = <<>> /\ anonymous = 0 /\ Reported = {}
    BY DEF LoopInv, LoopForm, L!CreateLoop
<1>2. PICK p \in Policies : loop' = [policy |-> p, attempts |-> 0, matches |-> 0]
    BY DEF L!CreateLoop
<1>3. loop' \in ManagedLoops /\ loop' # None /\ loop'.attempts = 0 /\ loop'.matches = 0
    BY <1>2, AutomationAssumption DEF ManagedLoops
<1>4. UNCHANGED <<recorded, anonymous, evaluated, history>>
    BY DEF L!CreateLoop
<1>5. Reported' = {} /\ Len(history') = 0 /\ history' = <<>>
    BY <1>1, <1>4 DEF Reported
<1>6. LastMiss(Truths', 0, 0) /\ Row(Truths', 0, 0) = {}
    BY DEF LastMiss, Row
<1>7. LoopForm'
    BY <1>1, <1>3, <1>4 DEF LoopForm
<1>8. Cardinality(Reported') = 0 /\ Cardinality(Row(Truths', 0, 0)) = 0
    BY <1>5, <1>6, FS_EmptySet
<1>9. CountInv'
    BY <1>1, <1>3, <1>4, <1>8 DEF CountInv
<1>10. MatchesInv'
    BY <1>3, <1>5, <1>6, <1>8 DEF MatchesInv
<1>11. ResultsInv'
    BY <1>5 DEF ResultsInv
<1> QED BY <1>7, <1>9, <1>10, <1>11 DEF LoopInv

LEMMA LoopNext == ASSUME LoopInv, L!Next PROVE LoopInv'
<1>1. CASE L!CreateLoop
    BY <1>1, CreateKeeps
<1>2. CASE L!DeadlinePasses
    BY <1>2, LoopStays DEF L!DeadlinePasses
<1>3. ASSUME NEW e \in Events, NEW kind \in L!Kinds, L!Record(e, kind) PROVE LoopInv'
    BY <1>3, CountKeeps DEF L!Record, L!Known
<1>4. CASE L!RecordAnonymous
    BY <1>4, CountKeeps DEF L!RecordAnonymous
<1>5. ASSUME NEW v \in Evaluations, L!Evaluate(v) PROVE LoopInv'
    BY <1>5, EvaluateKeeps
<1> QED BY <1>1, <1>2, <1>3, <1>4, <1>5 DEF L!Next

LEMMA LoopSays == LoopInv => LoopCounts
<1> SUFFICES ASSUME LoopInv PROVE LoopCounts
    OBVIOUS
<1>1. LoopForm
    BY DEF LoopInv
<1>2. L!TypeOK
    BY <1>1 DEF LoopForm, ManagedLoops, L!TypeOK
<1>3. ASSUME loop # None, NEW i \in DOMAIN history
      PROVE  history[i].result =
               IF Truths[i] = "UNKNOWN" THEN "UNKNOWN"
               ELSE IF L!HeldInARow(Truths, i, loop.policy.count) THEN "TRUE" ELSE "FALSE"
    <2>1. PICK m : /\ LastMiss(Truths, m, i)
                   /\ history[i].result =
                        IF Truths[i] = "UNKNOWN" THEN "UNKNOWN"
                        ELSE IF Cardinality(Row(Truths, m, i)) >= loop.policy.count
                             THEN "TRUE" ELSE "FALSE"
        BY <1>3 DEF LoopInv, ResultsInv
    <2>2. i \in Nat /\ \A j \in 1 .. i : Truths[j] \in L!Truth
        BY <1>1, <1>3, TruthsForm
    <2>3. loop.policy.count \in Nat
        BY <1>1, <1>3, TruthsForm
    <2>4. Cardinality(Row(Truths, m, i)) >= loop.policy.count
            <=> L!HeldInARow(Truths, i, loop.policy.count)
        BY <2>1, <2>2, <2>3, RowIsLatest
    <2> QED BY <2>1, <2>4
<1>4. \A S : L!Cardinality(S) = Cardinality(S)
    BY DEF L!Cardinality, Cardinality
<1>5. L!LoopCounts
    BY <1>3, <1>4 DEF L!LoopCounts, LoopInv, CountInv, Reported, Truths
<1> QED BY <1>2, <1>5 DEF LoopCounts

-------------------------------------------------------------------------------
(* The whole                                                               *)

AutomationInv == ConfigurationInv /\ AuthoringInv /\ LoopInv

LEMMA AutomationStart == AutomationInit => AutomationInv
BY ConfigurationInit, AuthoringInit, LoopInit DEF AutomationInit, AutomationInv

LEMMA AutomationStep == AutomationInv /\ [AutomationNext]_allVars => AutomationInv'
<1> SUFFICES ASSUME AutomationInv, [AutomationNext]_allVars PROVE AutomationInv'
    OBVIOUS
<1>1. ConfigurationInv /\ AuthoringInv /\ LoopInv
    BY DEF AutomationInv
<1>2. UNCHANGED configuration => ConfigurationInv'
    BY <1>1, ConfigurationStays DEF configuration
<1>3. UNCHANGED authoring => AuthoringInv'
    BY <1>1, AuthoringStays
<1>4. UNCHANGED looping => LoopInv'
    BY <1>1, LoopStays DEF looping
<1>5. CASE (Steps \/ \E r \in Runs : StartWorkflow(r)) /\ UNCHANGED <<authoring, looping>>
    <2>1. \A n \in DOMAIN line["PRESET"] : line["PRESET"][n].bound \in Bindings
        BY <1>1 DEF AuthoringInv, WrittenForm
    <2>2. ConfigurationInv'
        BY <1>1, <1>5, <2>1, StepsKeep, StartKeeps
    <2> QED BY <1>3, <1>4, <1>5, <2>2 DEF AutomationInv
<1>6. CASE A!Next /\ UNCHANGED <<configuration, looping>>
    BY <1>1, <1>2, <1>4, <1>6, AuthoringNext DEF AutomationInv
<1>7. CASE L!Next /\ UNCHANGED <<configuration, authoring>>
    BY <1>1, <1>2, <1>3, <1>7, LoopNext DEF AutomationInv
<1>8. CASE UNCHANGED <<configuration, authoring, looping>>
    BY <1>2, <1>3, <1>4, <1>8 DEF AutomationInv
<1> QED BY <1>5, <1>6, <1>7, <1>8 DEF AutomationNext, allVars

LEMMA AutomationHolds == AutomationSpec => []AutomationInv
BY AutomationStart, AutomationStep, PTL DEF AutomationSpec

\* Whatever members publish, archive, disable or revoke while a run is being prepared, the
\* run is stored with the configuration its dispatcher was shown, and what was stored with
\* it can still be read when it is delivered.
THEOREM ConfigurationIsKept == AutomationSpec => []KeptAsShown
<1>1. AutomationInv => KeptAsShown
    BY ConfigurationSays DEF AutomationInv, KeptAsShown, ConfigurationInv
<1> QED BY <1>1, AutomationHolds, PTL

\* No run is stored under a preset, a runner, a mapping, a policy or an exposure that was
\* withdrawn after its launch was resolved and not granted anew.
THEOREM WithdrawnIsRefused == AutomationSpec => []NothingWithdrawnIsStored
<1>1. AutomationInv => NothingWithdrawnIsStored
    BY ConfigurationSays DEF AutomationInv
<1> QED BY <1>1, AutomationHolds, PTL

\* However often, concurrently and under whatever key a member's request is sent, it has one
\* effect at most, and has had it if the answer says so; nobody writes over a revision they
\* have not seen; and no project is created for who ceased to be an owner meanwhile.
THEOREM RequestsHaveOneEffect == AutomationSpec => []RequestsCountOnce
<1>1. AutomationInv => RequestsCountOnce
    BY AuthoringSays DEF AutomationInv
<1> QED BY <1>1, AutomationHolds, PTL

\* However often a loop's attempts are reported, each counts once against its budget; and
\* its stop policy is met just when the condition held at the last evaluations, as many as
\* the policy counts, that could be decided at all, whatever the sources that were unknown.
THEOREM LoopsCount == AutomationSpec => []LoopCounts
<1>1. AutomationInv => LoopCounts
    BY LoopSays DEF AutomationInv
<1> QED BY <1>1, AutomationHolds, PTL

LEMMA EnvelopeHolds == AutomationSpec => []EnvelopeInv
<1>1. AutomationInit => EnvelopeInv
    BY DEF AutomationInit, Init, EnvelopeInv
<1>2. EnvelopeInv /\ [AutomationNext]_allVars => EnvelopeInv'
    <2> SUFFICES ASSUME EnvelopeInv, [AutomationNext]_allVars PROVE EnvelopeInv'
        OBVIOUS
    <2>1. UNCHANGED configuration => UNCHANGED envelope
        BY DEF configuration
    <2>2. UNCHANGED allVars => UNCHANGED configuration
        BY DEF allVars
    <2> QED BY <2>1, <2>2, EnvelopeKept DEF AutomationNext
<1> QED BY <1>1, <1>2, PTL DEF AutomationSpec

\* Whatever candidates the providers observed and whatever the recipe, the envelope that is
\* assembled is within the recipe's limits, refers to nothing forbidden or of an excluded
\* predecessor, accounts for every candidate, and repeats no name unless candidates do.
THEOREM EnvelopesFit == AutomationSpec => []EnvelopeFits
<1>1. EnvelopeInv => EnvelopeFits
    BY EnvelopeSays
<1> QED BY <1>1, EnvelopeHolds, PTL

===============================================================================
