----------------------------- MODULE Configuration -----------------------------
(***************************************************************************)
(* Personal run presets, context recipes, and the configuration that a run *)
(* is launched with and keeps (server/modules/presets, context and the     *)
(* resolvers of server/dependencies.ts).                                   *)
(*                                                                         *)
(* Presets and recipes have immutable numbered versions.  A launch is      *)
(* resolved from a preset version and from the runner's facts as they are, *)
(* shown, and pinned by the digest of the result; a workflow pins it when  *)
(* it starts.  Later the authority reads the facts, resolves the same      *)
(* version again, compares the digest, and stores the configuration in the *)
(* transaction that creates the run.  Between these steps presets,         *)
(* recipes, and what the runner's owner granted may change.                *)
(*                                                                         *)
(* One project, one dispatcher and one runner, which is the dispatcher's   *)
(* (`owned') or another member's, who exposes it.  A digest is the record  *)
(* it is made of.  Presets without a project, which cannot be launched,    *)
(* are left out, and with them the overrides that no caller makes.         *)
(***************************************************************************)
EXTENDS ContextEnvelope

CONSTANTS
    Presets, Recipes, Runs,
    MaxVersion,         \* versions of a preset and of a recipe
    MaxFacts,           \* revisions of the runner's policy and of its mapping
    Candidates,         \* of a bootstrap envelope
    Contexts,           \* recipes an envelope is assembled by
    MaxCandidates,
    Workloads,          \* sets of operations, one of which a behaviour uses
    None

Versions == 1 .. MaxVersion
Facts == 1 .. MaxFacts

\* What a version of a preset is, what a launch with it is resolved to, and what is
\* stored with the run.
VersionRows ==
    [epoch : Nat, mapping : Facts, template : BOOLEAN,
     recipe : Recipes \cup {None}, recipeVersion : 0 .. MaxVersion]
Shown ==
    [preset : Presets, presetVersion : Versions, of : VersionRows, policy : Facts,
     exposure : {0, 1}]
Commands == [preset : Presets, version : Versions, exposed : BOOLEAN, digest : Shown]
Snapshots ==
    [configuration : Shown, shown : Commands,
     envelope : [recipe : Recipes, version : Versions, digest : Nat \cup {None}]]

ASSUME ConfigurationAssumption ==
    /\ MaxVersion \in Nat \ {0} /\ MaxFacts \in Nat \ {0} /\ MaxCandidates \in Nat
    /\ None \notin Presets \cup Recipes \cup Snapshots
    /\ \A c \in Candidates : c.preview \in Nat
    /\ \A by \in Contexts : /\ by.total \in Nat /\ by.bytes \in Nat
                             /\ \A c \in Candidates : by.limit[c.category] \in Nat

VARIABLES
    workload,
    owned,              \* the runner is the dispatcher's own
    preset,             \* personal_run_presets and their versions
    recipe,             \* context_recipes and their versions
    default,            \* project_personal_preset_defaults
    runner,             \* its epoch, whether it is live, its policy's revision
    mapping,            \* [revision, live] of the newest mapping of the project
    exposure,           \* the newest exposure: of what, and whether it stands
    launch,             \* what is known of each launch, up to its storage
    snapshot,           \* run_configuration_snapshots, with their envelopes
    withdrawn,          \* ghost: what went since the launch was shown
    envelope            \* the last envelope assembled, with what it was made of

stored == <<preset, recipe, default>>
granted == <<runner, mapping, exposure>>
launches == <<launch, snapshot, withdrawn>>
vars == <<workload, owned, stored, granted, launches, envelope>>

Phases == {"NONE", "SHOWN", "FACTS", "PREPARED", "STORED", "REFUSED"}

TypeOK ==
    /\ owned \in BOOLEAN
    /\ \A p \in Presets :
         /\ preset[p].state \in {"NONE", "ACTIVE", "ARCHIVED"}
         /\ preset[p].current \in 0 .. MaxVersion /\ DOMAIN preset[p].version = Versions
         /\ preset[p].revision >= preset[p].current
    /\ \A c \in Recipes :
         /\ recipe[c].state \in {"NONE", "ACTIVE", "ARCHIVED"}
         /\ recipe[c].current \in 0 .. MaxVersion /\ DOMAIN recipe[c].version = Versions
    /\ default # None => default.version \in 1 .. preset[default.preset].current
    /\ runner.policy \in Facts /\ mapping.revision \in Facts
    /\ \A r \in Runs :
         /\ launch[r].phase \in Phases
         /\ launch[r].phase = "STORED" <=> snapshot[r] # None

Init ==
    /\ workload \in Workloads /\ owned \in BOOLEAN
    /\ preset = [p \in Presets |->
         [state |-> "NONE", current |-> 0, revision |-> 0, version |-> [v \in Versions |-> None]]]
    /\ recipe = [c \in Recipes |->
         [state |-> "NONE", current |-> 0, revision |-> 0, version |-> [v \in Versions |-> None]]]
    /\ default = None
    /\ runner = [epoch |-> 1, live |-> TRUE, policy |-> 1]
    /\ mapping = [revision |-> 1, live |-> TRUE]
    /\ exposure = [live |-> ~owned, mapping |-> 1, policy |-> 1, acknowledged |-> ~owned]
    /\ launch = [r \in Runs |-> [phase |-> "NONE"]]
    /\ snapshot = [r \in Runs |-> None]
    /\ withdrawn = [r \in Runs |-> {}]
    /\ envelope = None

Requested(op) == op \in workload

\* The launches that are on their way.
UnderWay == {r \in Runs : launch[r].phase \in {"SHOWN", "FACTS", "PREPARED"}}
Withdraw(what, S) ==
    withdrawn' = [r \in Runs |-> IF r \in S \cap UnderWay THEN withdrawn[r] \cup {what}
                                 ELSE withdrawn[r]]
Dispatched(p) == {r \in UnderWay : launch[r].command.preset = p}

-------------------------------------------------------------------------------
Exposed(ver) == exposure.live /\ exposure.mapping = ver.mapping

\* currentBinding: the runner, the mapping and, if it is another's, an exposure.
BindingCurrent(ver) ==
    /\ runner.live /\ ver.epoch = runner.epoch
    /\ mapping.live /\ ver.mapping = mapping.revision
    /\ ~owned => Exposed(ver)

\* currentContextRecipe.
RecipeCurrent(ver) ==
    ver.recipe # None => recipe[ver.recipe].state = "ACTIVE"

\* resolveExactPersonalRunPresetVersion.
Exact(p, v) ==
    /\ preset[p].state = "ACTIVE" /\ v <= preset[p].current
    /\ BindingCurrent(preset[p].version[v]) /\ RecipeCurrent(preset[p].version[v])

\* A version the dispatcher may write now: bound to what is current.
NewVersions ==
    {ver \in [epoch : {runner.epoch}, mapping : {mapping.revision}, template : BOOLEAN,
              recipe : Recipes \cup {None}, recipeVersion : 0 .. MaxVersion] :
        /\ BindingCurrent(ver) /\ RecipeCurrent(ver)
        /\ IF ver.recipe = None THEN ver.recipeVersion = 0
           ELSE ver.recipeVersion \in 1 .. recipe[ver.recipe].current}

CreatePreset(p) ==
    /\ Requested("PRESETS") /\ preset[p].state = "NONE"
    /\ \E ver \in NewVersions :
         preset' = [preset EXCEPT ![p] = [state |-> "ACTIVE", current |-> 1, revision |-> 1,
                                          version |-> [@.version EXCEPT ![1] = ver]]]
    /\ UNCHANGED <<workload, owned, recipe, default, granted, launches, envelope>>

\* Slip: the current version is written over.
InPlace(row, ver) == [row EXCEPT !.revision = @ + 1, !.version[row.current] = ver]

\* edit: the next version beside the ones there are.
Edited(row, ver) ==
    [row EXCEPT !.current = @ + 1, !.revision = @ + 1, !.version[row.current + 1] = ver]

\* With the preset's revision: who read an earlier one is refused.  So everywhere.
EditPreset(p) ==
    /\ Requested("EDIT") /\ preset[p].state = "ACTIVE" /\ preset[p].current < MaxVersion
    /\ \E ver \in NewVersions : preset' = [preset EXCEPT ![p] = Edited(@, ver)]
    /\ UNCHANGED <<workload, owned, recipe, default, granted, launches, envelope>>

ArchivePreset(p) ==
    /\ Requested("ARCHIVE") /\ preset[p].state = "ACTIVE"
    /\ preset' = [preset EXCEPT ![p].state = "ARCHIVED", ![p].revision = @ + 1]
    /\ Withdraw("PRESET", Dispatched(p))
    /\ UNCHANGED <<workload, owned, recipe, default, granted, launch, snapshot, envelope>>

\* setProjectDefault: any version of an active preset, current or not.
SetProjectDefault(p, v) ==
    /\ Requested("DEFAULT") /\ preset[p].state = "ACTIVE" /\ v <= preset[p].current
    /\ default' = [preset |-> p, version |-> v]
    /\ UNCHANGED <<workload, owned, preset, recipe, granted, launches, envelope>>

\* A version's digest stands for its content: what no other version has.
CreateRecipe(c) ==
    /\ Requested("RECIPES") /\ recipe[c].state = "NONE"
    /\ recipe' = [recipe EXCEPT ![c] = [state |-> "ACTIVE", current |-> 1, revision |-> 1,
                                       version |-> [@.version EXCEPT ![1] = 1]]]
    /\ UNCHANGED <<workload, owned, preset, default, granted, launches, envelope>>

EditRecipe(c) ==
    /\ Requested("EDIT") /\ recipe[c].state = "ACTIVE" /\ recipe[c].current < MaxVersion
    /\ recipe' = [recipe EXCEPT ![c] = Edited(@, @.revision + 1)]
    /\ UNCHANGED <<workload, owned, preset, default, granted, launches, envelope>>

\* A launch that was prepared before is not kept from being stored.
ArchiveRecipe(c) ==
    /\ Requested("ARCHIVE") /\ recipe[c].state = "ACTIVE"
    /\ recipe' = [recipe EXCEPT ![c].state = "ARCHIVED", ![c].revision = @ + 1]
    /\ UNCHANGED <<workload, owned, preset, default, granted, launches, envelope>>

-------------------------------------------------------------------------------
(* What the runner's registry does to the facts *)

Registry == UNCHANGED <<workload, owned, stored, launch, snapshot, envelope>>

ReplaceRunnerPolicy ==
    /\ Requested("POLICY") /\ runner.live /\ runner.policy < MaxFacts
    /\ runner' = [runner EXCEPT !.policy = @ + 1]
    /\ Withdraw("POLICY", Runs)
    /\ Registry /\ UNCHANGED <<mapping, exposure>>

RevokeRunner ==
    /\ Requested("REVOKE") /\ runner.live
    /\ runner' = [runner EXCEPT !.live = FALSE, !.epoch = @ + 1]
    /\ mapping' = [mapping EXCEPT !.live = FALSE]
    /\ exposure' = [exposure EXCEPT !.live = FALSE, !.acknowledged = FALSE]
    /\ Withdraw("RUNNER", Runs)
    /\ Registry

ReplaceMapping ==
    /\ Requested("MAPPING") /\ mapping.live /\ mapping.revision < MaxFacts
    /\ mapping' = [mapping EXCEPT !.revision = @ + 1]
    /\ Withdraw("MAPPING", Runs)
    /\ Registry /\ UNCHANGED <<runner, exposure>>

RevokeMapping ==
    /\ Requested("MAPPING") /\ mapping.live
    /\ mapping' = [mapping EXCEPT !.live = FALSE]
    /\ Withdraw("MAPPING", Runs)
    /\ Registry /\ UNCHANGED <<runner, exposure>>

RevokeAcknowledgement ==
    /\ Requested("EXPOSURE") /\ exposure.acknowledged
    /\ exposure' = [exposure EXCEPT !.acknowledged = FALSE]
    /\ Withdraw("EXPOSURE", Runs)
    /\ Registry /\ UNCHANGED <<runner, mapping>>

RevokeExposure ==
    /\ Requested("EXPOSURE") /\ exposure.live
    /\ exposure' = [exposure EXCEPT !.live = FALSE]
    /\ Withdraw("EXPOSURE", Runs)
    /\ Registry /\ UNCHANGED <<runner, mapping>>

\* The facts are acknowledged and exposed, perhaps again.  The revision of the
\* exposure and the version of its acknowledgement are 1 again: what was shown before
\* stands again.
CreateExposure ==
    /\ Requested("EXPOSURE") /\ ~owned /\ runner.live /\ mapping.live
    /\ ~(exposure.live /\ exposure.mapping = mapping.revision)
    /\ exposure' = [live |-> TRUE, mapping |-> mapping.revision, policy |-> runner.policy,
                    acknowledged |-> TRUE]
    /\ withdrawn' = [r \in Runs |-> withdrawn[r] \ {"EXPOSURE"}]
    /\ Registry /\ UNCHANGED <<runner, mapping>>

-------------------------------------------------------------------------------
\* resolveEffectiveRunConfiguration, whose digest covers all of it: the version
\* as it is stored, and the facts of the authority.
Effective(p, v, policy, exposed, acknowledged) ==
    [preset |-> p, presetVersion |-> v, of |-> preset[p].version[v], policy |-> policy,
     exposure |-> IF exposed /\ acknowledged THEN 1 ELSE 0]

Resolve(r, p, v) ==
    /\ Requested("LAUNCH") /\ launch[r].phase = "NONE"
    /\ Exact(p, v)
    /\ launch' = [launch EXCEPT ![r] =
         [phase |-> "SHOWN",
          command |-> [preset |-> p, version |-> v, exposed |-> ~owned,
                       digest |-> Effective(p, v, runner.policy, ~owned, exposure.acknowledged)]]]
    /\ UNCHANGED <<workload, owned, stored, granted, snapshot, withdrawn, envelope>>

\* resolveLaunch of a run, and resolveLaunches of a workflow: only the latter
\* takes a preset that is derived from a template.
ResolveRun(r, p, v) == Resolve(r, p, v) /\ ~preset[p].version[v].template
ResolveStep(r, p, v) == Resolve(r, p, v)

\* projectDefault: what is current can be launched with, else it is stale.
OfferedDefault == default # None /\ Exact(default.preset, default.version)

LaunchDefault(r) ==
    OfferedDefault /\ ResolveRun(r, default.preset, default.version)

Answer(r, next) ==
    /\ launch' = [launch EXCEPT ![r] = next]
    /\ UNCHANGED <<workload, owned, stored, granted, withdrawn, envelope>>
Refused == [phase |-> "REFUSED"]

\* databaseAuthorityFacts: the policy's revision as it is, unless the runner, the
\* preset, the mapping or the exposure no longer is what the command names.  The
\* runner has reported the base of its mapping within the last 30 seconds.
FactsStand(command) ==
    LET ver == command.digest.of IN
    /\ runner.live /\ ver.epoch = runner.epoch
    /\ mapping.live /\ ver.mapping = mapping.revision
    /\ preset[command.preset].state = "ACTIVE"
    /\ command.exposed => Exposed(ver)

RefreshFacts(r) ==
    /\ launch[r].phase = "SHOWN"
    /\ Answer(r, IF FactsStand(launch[r].command)
                 THEN [phase |-> "FACTS", command |-> launch[r].command, policy |-> runner.policy]
                 ELSE Refused)
    /\ UNCHANGED snapshot

PreparesShown(configuration, command) == configuration = command.digest

\* The bootstrap envelope of a launch: the recipe's version, and no references.
RecipeDigest(ver) == recipe[ver.recipe].version[ver.recipeVersion]
EnvelopeOf(ver) ==
    [recipe |-> ver.recipe, version |-> ver.recipeVersion, digest |-> RecipeDigest(ver)]

\* prepareStoredConfiguration: an exposure without an acknowledgement, a preset
\* with a template, and one without a recipe are refused.
PrepareConfiguration(r) ==
    /\ launch[r].phase = "FACTS"
    /\ LET command == launch[r].command
           ver == preset[command.preset].version[command.version]
           configuration == Effective(command.preset, command.version, launch[r].policy,
                                      command.exposed, exposure.acknowledged)
       IN  Answer(r, IF /\ Exact(command.preset, command.version)
                        /\ ~ver.template /\ ver.recipe # None
                        /\ command.exposed => Exposed(ver) /\ exposure.acknowledged
                        /\ PreparesShown(configuration, command)
                     THEN [phase |-> "PREPARED", command |-> command,
                           configuration |-> configuration, envelope |-> EnvelopeOf(ver)]
                     ELSE Refused)
    /\ UNCHANGED snapshot

\* Slip: the preset is only joined, its state not looked at.
FactsMatchOfAny(c) ==
    /\ runner.live /\ c.of.epoch = runner.epoch
    /\ mapping.live /\ c.of.mapping = mapping.revision
    /\ c.policy = runner.policy
    /\ IF c.exposure = 0 THEN owned
       ELSE Exposed(c.of) /\ exposure.acknowledged /\ exposure.policy = c.policy

\* currentConfigurationFactsMatch, in the transaction that creates the run.
FactsMatch(c) ==
    /\ preset[c.preset].state = "ACTIVE"
    /\ runner.live /\ c.of.epoch = runner.epoch
    /\ mapping.live /\ c.of.mapping = mapping.revision
    /\ c.policy = runner.policy
    /\ IF c.exposure = 0 THEN owned
       ELSE Exposed(c.of) /\ exposure.acknowledged /\ exposure.policy = c.policy

\* persistPreparedRunConfigurationSnapshotInTransaction.
StoreConfiguration(r) ==
    /\ launch[r].phase = "PREPARED"
    /\ LET c == launch[r].configuration
           e == launch[r].envelope IN
       IF FactsMatch(c) /\ RecipeDigest(c.of) = e.digest
       THEN /\ snapshot' = [snapshot EXCEPT ![r] =
                 [configuration |-> c, envelope |-> e, shown |-> launch[r].command]]
            /\ Answer(r, [phase |-> "STORED"])
       ELSE Answer(r, Refused) /\ UNCHANGED snapshot

-------------------------------------------------------------------------------
\* inspectRunSnapshot: the launch is delivered with it, or not at all.  What is
\* stored must still be what its digests say.
Readable(s) ==
    /\ s.envelope.recipe = s.configuration.of.recipe
    /\ s.envelope.digest = recipe[s.envelope.recipe].version[s.envelope.version]

\* An envelope for a recipe, from the candidates its providers observed.
AssembleEnvelope ==
    /\ Requested("ASSEMBLE") /\ envelope = None
    /\ \E by \in Contexts, n \in 1 .. MaxCandidates :
         \E cs \in [1 .. n -> Candidates] :
            envelope' = [by |-> by, from |-> cs, is |-> Assemble(by, cs)]
    /\ UNCHANGED <<workload, owned, stored, granted, launches>>

Steps ==
    \/ \E p \in Presets :
         \/ CreatePreset(p)
         \/ EditPreset(p) \/ ArchivePreset(p)
         \/ \E v \in Versions : SetProjectDefault(p, v)
    \/ \E c \in Recipes :
         CreateRecipe(c) \/ EditRecipe(c) \/ ArchiveRecipe(c)
    \/ ReplaceRunnerPolicy \/ RevokeRunner \/ ReplaceMapping \/ RevokeMapping
    \/ RevokeAcknowledgement \/ RevokeExposure \/ CreateExposure
    \/ \E r \in Runs :
         \/ \E p \in Presets, v \in Versions : ResolveRun(r, p, v)
         \/ LaunchDefault(r)
         \/ RefreshFacts(r) \/ PrepareConfiguration(r) \/ StoreConfiguration(r)
    \/ AssembleEnvelope

Next == Steps \/ \E r \in Runs, p \in Presets, v \in Versions : ResolveStep(r, p, v)

Spec == Init /\ [][Next]_vars

-------------------------------------------------------------------------------
\* A run keeps the configuration its dispatcher was shown, however much of what
\* it was resolved from was replaced on the way, and it is the preset's version.
StoredAsShown ==
    \A r \in Runs : snapshot[r] # None =>
        LET c == snapshot[r].configuration IN
        /\ c = snapshot[r].shown.digest
        /\ preset[c.preset].version[c.presetVersion] = c.of

\* No run is created under a preset, a runner, a mapping, a policy or an exposure
\* that was withdrawn after the launch was resolved and not granted anew.
NothingWithdrawnIsStored ==
    \A r \in Runs : snapshot[r] # None => withdrawn[r] = {}

\* What was stored with a run can be delivered, whatever is edited or archived
\* afterwards: a launch whose snapshot cannot be read is silently never sent.
SnapshotReadable ==
    \A r \in Runs : snapshot[r] # None => Readable(snapshot[r])

\* An assembled envelope is within the limits it is stored under, refers to nothing
\* that is forbidden or of a predecessor that the recipe excludes, accounts for every
\* candidate, and has two rows of one name only if two candidates have it: else a
\* launch with it is refused.
EnvelopeFits ==
    envelope # None =>
        LET cs == envelope.from
            in == envelope.is.references
            Names(P) == {Name(cs[i]) : i \in P} IN
        /\ WithinBudget(envelope.by, cs, envelope.is)
        /\ \A i \in in :
             /\ cs[i].standing = "AUTHORIZED"
             /\ cs[i].category = "CHECKPOINT" => envelope.by.policy = "LATEST_CHECKPOINT"
        /\ Names(DOMAIN cs) = Names(in \cup envelope.is.omissions)
        /\ Cardinality(Names(DOMAIN cs)) = Len(cs) => RowsDistinct(cs, envelope.is)
================================================================================
