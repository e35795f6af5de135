----------------------------- MODULE PresetCal -----------------------------
(***************************************************************************)
(* LoadPresetValues (preset_cal/main.go): the preset values that apply to  *)
(* one chart in one namespace, gathered with a sequence of separate reads  *)
(* of a cluster that users keep editing: the presets of the namespace      *)
(* itself, then the namespace's project, then the presets of the project's *)
(* other namespaces, then the cluster-wide presets.  Each scope is put IN  *)
(* FRONT of what was gathered before, because a later value overrides an   *)
(* earlier one.  MergePresetValues, which the program calls, is the part   *)
(* of it for a caller that names no namespace.                             *)
(*                                                                         *)
(* Names are Go strings that sort.Slice compares; here they are numbers.   *)
(* Namespace names and preset names are the same kind of string, and the   *)
(* code does mix them, so the two sets may overlap.                        *)
(***************************************************************************)
EXTENDS Integers, FiniteSets, Sequences, SequencesExt

CONSTANTS
    Namespaces,     \* names of the namespaces
    Names,          \* names of presets
    Refs,           \* the namespaces a caller asks for; Cluster: none given
    Projects,       \* ids of the Rancher projects
    None,           \* no project label
    MaxChanges      \* bound: how many edits users make during one load

Cluster == 0        \* the empty string: namespace of a ClusterChartPreset

ASSUME NamesAssumption == /\ Namespaces \subseteq Nat \ {Cluster}
                          /\ Names \subseteq Nat \ {Cluster}
                          /\ IsFiniteSet(Namespaces) /\ IsFiniteSet(Names)
ASSUME RefsAssumption == Refs \subseteq Namespaces \union {Cluster}
ASSUME NoProjectAssumption == None \notin Projects
ASSUME ChangesAssumption == MaxChanges \in Nat

VARIABLES
    presets,        \* the presets whose labels match the variant's selector
    projectOf,      \* project label of each namespace
    rancher,        \* clustermeta.IsRancherManaged
    variant,        \* ref.PresetName, and what the ResourceEditor says of it
    call,           \* which of the two functions is called
    home,           \* ref.Namespace
    pc,             \* the read that comes next
    values,         \* []ChartPresetValues, the result so far
    knownPresets,   \* map[string]bool of the same name
    projectPresets, \* map[string]bool of the same name
    project,        \* projectId
    namespaces,     \* the project's namespaces the loop has still to visit
    steady,         \* history: the presets nobody touched since the load began
    changes         \* edits made so far

cluster == <<presets, projectOf, rancher, variant, call, home>>
locals == <<knownPresets, projectPresets, project, namespaces>>
history == <<steady, changes>>
vars == <<cluster, pc, values, locals, history>>

Variants == {"unnamed", "missing", "unselective", "selecting"}
Preset == [ns : Namespaces \union {Cluster}, name : Names]
Value == [refName : Namespaces \union {Cluster}, preset : Preset]

Init == /\ presets \in SUBSET Preset
        /\ projectOf \in [Namespaces -> Projects \union {None}]
        /\ rancher \in BOOLEAN
        /\ variant \in Variants /\ call \in {"load", "merge"}
        /\ home \in Refs
        /\ pc = "begin"
        /\ values = <<>>
        /\ knownPresets = {} /\ projectPresets = {}
        /\ project = None /\ namespaces = <<>>
        /\ steady = Preset /\ changes = 0

-----------------------------------------------------------------------------
(* The loader.                                                             *)

\* sort.Slice, for elements of different rank.
Sorted(S, rank) ==
    CHOOSE s \in [1..Cardinality(S) -> S] :
        \A i, j \in DOMAIN s : i < j => rank[s[i]] < rank[s[j]]

\* bundleChartPresets and bundleClusterChartPresets: the presets of one
\* scope that are not known yet, by name.  What they note as the name of the
\* source is the NAMESPACE of the preset.
Bundle(ns, known) ==
    LET listed == {p \in presets : p.ns = ns /\ p.name \notin known}
        byName == Sorted(listed, [p \in listed |-> p.name])
    IN  [i \in DOMAIN byName |-> [refName |-> byName[i].ns, preset |-> byName[i]]]

RefNames(vs) == {vs[i].refName : i \in DOMAIN vs}

Begin == /\ pc = "begin" /\ call = "load"
         /\ pc' = CASE variant \in {"unnamed", "missing"} -> "failed"
                    [] variant = "unselective" -> "done"
                    [] OTHER -> IF home = Cluster THEN "cluster" ELSE "own"
         /\ UNCHANGED <<cluster, values, locals, history>>

\* MergePresetValues takes a name without a variant for one without presets.
BeginMerge == /\ pc = "begin" /\ call = "merge"
              /\ pc' = IF home # Cluster THEN "failed"
                       ELSE IF variant = "selecting" THEN "merge" ELSE "done"
              /\ UNCHANGED <<cluster, values, locals, history>>

ListVariant == /\ pc = "merge"
               /\ values' = Bundle(Cluster, {})
               /\ pc' = "done"
               /\ UNCHANGED <<cluster, locals, history>>

ListOwn == /\ pc = "own"
           /\ values' = Bundle(home, {})
           /\ knownPresets' = RefNames(values')
           /\ pc' = IF rancher THEN "project" ELSE "cluster"
           /\ UNCHANGED <<cluster, projectPresets, project, namespaces, history>>

\* Slip: the project label is not checked before it is used.
LabelNotChecked == /\ pc = "project"
                   /\ project' = projectOf[home]
                   /\ pc' = "members"
                   /\ UNCHANGED <<cluster, values, knownPresets, projectPresets,
                                  namespaces, history>>

GetNamespace == /\ pc = "project"
                /\ project' = projectOf[home]
                /\ pc' = IF project' = None THEN "cluster" ELSE "members"
                /\ UNCHANGED <<cluster, values, knownPresets, projectPresets,
                               namespaces, history>>

\* Slip: the loop runs the other way.
NamespacesReversed ==
    /\ pc = "members"
    /\ namespaces' = LET inProject == {n \in Namespaces : projectOf[n] = project}
                      IN Sorted(inProject, [n \in inProject |-> -n])
    /\ pc' = "siblings"
    /\ UNCHANGED <<cluster, values, knownPresets, projectPresets, project, history>>

ListNamespaces ==
    /\ pc = "members"
    /\ namespaces' = LET inProject == {n \in Namespaces : projectOf[n] = project}
                      IN Sorted(inProject, [n \in inProject |-> n])
    /\ pc' = "siblings"
    /\ UNCHANGED <<cluster, values, knownPresets, projectPresets, project, history>>

\* One turn of the loop that runs from the last namespace to the first.
Sibling(ns) ==
    LET nsPresets == Bundle(ns, knownPresets)
    IN  /\ values' = nsPresets \o values
        /\ projectPresets' = projectPresets \union RefNames(nsPresets)

ListSibling == /\ pc = "siblings" /\ namespaces # <<>>
               /\ IF Last(namespaces) = home
                  THEN UNCHANGED <<values, projectPresets>>
                  ELSE Sibling(Last(namespaces))
               /\ namespaces' = Front(namespaces)
               /\ UNCHANGED <<cluster, pc, knownPresets, project, history>>

\* Slip: the loop stops at i > 0.
FirstForgotten == /\ pc = "siblings" /\ Len(namespaces) <= 1
                  /\ knownPresets' = knownPresets \union projectPresets
                  /\ pc' = "cluster"
                  /\ UNCHANGED <<cluster, values, projectPresets, project,
                                 namespaces, history>>

MarkKnown == /\ pc = "siblings" /\ namespaces = <<>>
             /\ knownPresets' = knownPresets \union projectPresets
             /\ pc' = "cluster"
             /\ UNCHANGED <<cluster, values, projectPresets, project, namespaces,
                            history>>

ListCluster == /\ pc = "cluster"
               /\ values' = Bundle(Cluster, knownPresets) \o values
               /\ pc' = "done"
               /\ UNCHANGED <<cluster, locals, history>>

\* Any read can fail; the error is returned and what was gathered dropped.
Running == pc \notin {"begin", "done", "failed"}

ReadFails == /\ Running
             /\ pc = "siblings" => namespaces # <<>> /\ Last(namespaces) # home
             /\ pc' = "failed" /\ values' = <<>>
             /\ UNCHANGED <<cluster, locals, history>>

-----------------------------------------------------------------------------
(* Users, while the load runs.  What they did before is in Init.           *)

Edit == Running /\ changes < MaxChanges /\ changes' = changes + 1

TogglePreset(p) ==
    /\ Edit
    /\ presets' = SymDiff(presets, {p})
    /\ steady' = steady \ {p}
    /\ UNCHANGED <<projectOf, rancher, variant, call, home, pc, values, locals>>

\* The presets of a namespace that changes project are no longer steady;
\* when it is the caller's own namespace, those of every other one.
MoveNamespace(ns, p) ==
    /\ Edit
    /\ projectOf[ns] # p
    /\ projectOf' = [projectOf EXCEPT ![ns] = p]
    /\ steady' = {q \in steady : q.ns = Cluster \/ q.ns = home \/ ns \notin {q.ns, home}}
    /\ UNCHANGED <<presets, rancher, variant, call, home, pc, values, locals>>

Next == \/ Begin \/ BeginMerge \/ ListVariant
        \/ ListOwn \/ GetNamespace \/ ListNamespaces
        \/ ListSibling \/ MarkKnown \/ ListCluster \/ ReadFails
        \/ \E p \in Preset : TogglePreset(p)
        \/ \E ns \in Namespaces, p \in Projects \union {None} : MoveNamespace(ns, p)

Spec == Init /\ [][Next]_vars

-----------------------------------------------------------------------------
(* Properties.                                                             *)

\* Every variable has its type, and siblings are only visited for a project
\* (the check of main.go:155-164).
TypeOK ==
    /\ presets \subseteq Preset
    /\ projectOf \in [Namespaces -> Projects \union {None}]
    /\ rancher \in BOOLEAN
    /\ variant \in Variants /\ call \in {"load", "merge"}
    /\ home \in Refs
    /\ pc \in {"begin", "own", "project", "members", "siblings", "cluster", "merge",
              "done", "failed"}
    /\ values \in Seq(Value)
    /\ knownPresets \subseteq Namespaces /\ projectPresets \subseteq Namespaces
    /\ project \in Projects \union {None}
    /\ pc = "siblings" => project # None
    /\ namespaces \in Seq(Namespaces)
    /\ steady \subseteq Preset /\ changes \in 0..MaxChanges

\* Which of two presets a later merge lets win: the caller's namespace over
\* the rest of its project over the cluster, then namespace, then name.
Scope(ns) == IF ns = Cluster THEN 0 ELSE IF ns = home THEN 2 ELSE 1

Overridden(p, q) ==
    \/ Scope(p.ns) < Scope(q.ns)
    \/ Scope(p.ns) = Scope(q.ns) /\ p.ns < q.ns
    \/ p.ns = q.ns /\ p.name < q.name

\* However namespaces and presets change between the reads (main.go:139-196),
\* the values come out in order of precedence and none comes out twice.
Precedence == \A i, j \in DOMAIN values :
                  i < j => Overridden(values[i].preset, values[j].preset)

InScope(p) == \/ p.ns \in {Cluster, home}
              \/ /\ rancher /\ home # Cluster
                 /\ projectOf[home] # None /\ projectOf[p.ns] = projectOf[home]

\* The reads are not one snapshot (main.go:139-196), yet no preset that was
\* there and in scope all along is lost, whatever else is edited meanwhile:
\* it is left out only if its name is the NAMESPACE name of a listed value
\* of a nearer scope (the name bundleChartPresets stores, main.go:240).
NothingLost ==
    pc = "done" /\ variant = "selecting" =>
        \A p \in presets \cap steady :
            InScope(p) =>
                \E i \in DOMAIN values :
                    \/ values[i].preset = p
                    \/ /\ values[i].refName = p.name
                       /\ Scope(values[i].preset.ns) > Scope(p.ns)

\* "mark project presets as known" (main.go:193): a cluster-wide preset is
\* not listed when a ChartPreset of the same name is.
KnownPresetsHidden ==
    \A i, j \in DOMAIN values :
        values[i].preset.ns = Cluster /\ values[j].preset.ns # Cluster
            => values[i].preset.name # values[j].preset.name
=============================================================================
