---------------------------- MODULE PolicyLayers ----------------------------
(***************************************************************************)
(* How the written policies of a run become the one policy it is planned   *)
(* from.  load_layers reads the profile, the policy file and the command   *)
(* line, lowest first; from_layers validates each layer and merges them;   *)
(* check_merged refuses what only the merged policy can break.             *)
(*                                                                         *)
(* A layer is a record of functions, one per way of merging: settings with *)
(* one value (`scalars', `limits'), lists (`lists'), tables by key         *)
(* (`tables') and the modes no upper layer can loosen (`modes').           *)
(***************************************************************************)
EXTENDS Naturals, Sequences, FiniteSets, SequencesExt

CONSTANTS
    None,      \* a setting a layer does not write
    Absent,    \* nothing is at a profile's path
    Broken,    \* what is at a path cannot be read as a policy
    Files,     \* the policy files that may be on the host
    Lines,     \* the layers a command line may stand for
    BuiltIn,   \* the layer of the built-in default
    Limits,    \* limit -> [min, max, default], the numbers of limits.rs
    Keys       \* keys of env.set, secrets and git.instead_of

Directives == <<"rw", "rw-file", "rw-copy", "ro", "hide">>

Modes == {"mounts", "commands"}

Lists == {"scan", "hide-mounts", "publish", "upstream", "pass", "unset",
          "commands.allow", "guards"}

Tables == {"set", "secrets", "instead-of"}

DefaultScalars == [grace |-> 5, network |-> "host", nested |-> FALSE, env |-> "inherit"]

Scalars == DOMAIN DefaultScalars

VARIABLES
    pc,       \* what from_layers does next
    profile,  \* the profile's state on the host: a file, Absent or Broken
    named,    \* whether the selection names a profile other than the default
    file,     \* the --policy-file: a file, Broken or None
    line,     \* the layer of the command line
    layers,   \* the layers loaded so far, lowest first
    written,  \* the layers as they were before validation
    done,     \* how many of the layers the current loop has taken
    policy    \* the policy merged so far

vars == <<pc, profile, named, file, line, layers, written, done, policy>>

inputs == <<profile, named, file, line>>

Nowhere == {Absent, Broken}

Init ==
    /\ pc = "load"
    /\ profile \in Files \cup Nowhere
    /\ named \in BOOLEAN
    /\ file \in Files \cup {Broken, None}
    /\ line \in Lines
    /\ layers = <<>> /\ written = <<>>
    /\ done = 0
    /\ policy = None

-----------------------------------------------------------------------------
(* Publications: [port, host]; the protocol and the family are part of both *)

ClashPortOnly(entry, merged) ==
    \E other \in Range(merged) : other.port = entry.port

\* What a publication that meets one already merged does.
Clash(entry, merged) ==
    \E other \in Range(merged) : other.port = entry.port \/ other.host = entry.host

\* merge_publications: the merged list, or None when two entries conflict.
AddPublication(merged, entry) ==
    IF merged = None THEN None
    ELSE IF entry \in Range(merged) THEN merged
    ELSE IF Clash(entry, merged) THEN None
    ELSE Append(merged, entry)

MergePublications(entries) == FoldLeft(AddPublication, <<>>, entries)

\* validate_upstreams: all plain or all over TLS.
OneTransport(upstreams) == Cardinality(Range(upstreams)) <= 1

LimitsInRange(limits) ==
    \A l \in DOMAIN Limits : limits[l] # None => limits[l] \in Limits[l].min..Limits[l].max

OverLower(upper, lower) == [k \in DOMAIN lower |-> IF lower[k] # None THEN lower[k] ELSE upper[k]]

\* LimitOverrides::apply and every other scalar: the upper layer's value if it writes one.
Over(upper, lower) == [k \in DOMAIN lower |-> IF upper[k] # None THEN upper[k] ELSE lower[k]]

GraceInRange(layer) == layer.scalars.grace # None => layer.scalars.grace \in 1..300

-----------------------------------------------------------------------------
(* Loading                                                                  *)

Refuse == pc' = "refused" /\ UNCHANGED <<layers, written, done, policy, inputs>>

Load(layer) == layers' = Append(layers, layer) /\ written' = Append(written, layer)

StandsInBroken == ~named /\ profile \in Nowhere

\* The built-in default stands in only for a default profile that is not there at all.
StandsIn == ~named /\ profile = Absent

\* global_scope: the profile's file, or the built-in default.
LoadProfile ==
    /\ pc = "load" /\ Len(layers) = 0
    /\ \/ StandsIn /\ Load(BuiltIn) /\ UNCHANGED <<pc, done, policy, inputs>>
       \/ ~StandsIn /\ profile \in Nowhere /\ Refuse
       \/ ~StandsIn /\ profile \notin Nowhere /\ Load(profile)
          /\ UNCHANGED <<pc, done, policy, inputs>>

\* The policy file if one is named, then the command line; then validation starts.
LoadOthers ==
    /\ pc = "load" /\ Len(layers) = 1
    /\ \/ file = Broken /\ Refuse
       \/ /\ file # Broken
          /\ LET above == (IF file = None THEN <<>> ELSE <<file>>) \o <<line>>
             IN  layers' = layers \o above /\ written' = written \o above
          /\ pc' = "validate"
          /\ UNCHANGED <<done, policy, inputs>>

-----------------------------------------------------------------------------
(* Validation and merging                                                   *)

\* validate_policy's refusals; a path, a scan or a guard rule that is not well formed is
\* one member of `bad'.
Valid(layer) ==
    /\ layer.bad = FALSE
    /\ GraceInRange(layer)
    /\ MergePublications(layer.lists["publish"]) # None
    /\ LimitsInRange(layer.limits)
    /\ OneTransport(layer.lists["upstream"])

\* from_layers' first loop: the layer's publications are replaced by their merged form.
ValidateLayer ==
    /\ pc = "validate" /\ done < Len(layers)
    /\ LET layer == layers[done + 1]
       IN  \/ ~Valid(layer) /\ Refuse
           \/ /\ Valid(layer)
              /\ layers' = [layers EXCEPT ![done + 1].lists["publish"] =
                              MergePublications(layer.lists["publish"])]
              /\ done' = done + 1
              /\ UNCHANGED <<pc, written, policy, inputs>>

SettingsNoLimits(layer) ==
    \/ layer.scalars.grace # None \/ layer.present
    \/ layer.lists["publish"] # <<>> \/ layer.lists["upstream"] # <<>>
    \/ layer.rules # <<>>

\* `present' is a list of the network's settings that is written though empty.
SettingsPresent(layer) ==
    \/ layer.scalars.grace # None \/ layer.present
    \/ layer.lists["publish"] # <<>> \/ layer.lists["upstream"] # <<>>
    \/ layer.rules # <<>>
    \/ \E l \in DOMAIN Limits : layer.limits[l] # None

TopmostMode(m) ==
    LET writers == {i \in DOMAIN layers : layers[i].modes[m] # None}
    IN  IF writers = {} THEN "host"
        ELSE layers[CHOOSE i \in writers : \A j \in writers : j <= i].modes[m]

\* strictest_mode: `listed' once any layer writes it.
StrictestMode(m) ==
    IF \E i \in DOMAIN layers : layers[i].modes[m] = "listed" THEN "listed" ELSE "host"

\* mounts_system: on unless some layer turns it off.
SystemShown == \A i \in DOMAIN layers : layers[i].system # FALSE

\* merge: settings of the network need a mode some layer writes.
BeginMerge ==
    /\ pc = "validate" /\ done = Len(layers)
    /\ LET present == \E i \in DOMAIN layers : SettingsPresent(layers[i])
           moded   == \E i \in DOMAIN layers : layers[i].scalars.network # None
       IN  \/ present /\ ~moded /\ Refuse
           \/ /\ present => moded
              /\ pc' = "merge" /\ done' = 0
              /\ policy' = [modes   |-> [m \in Modes |-> StrictestMode(m)],
                            system  |-> SystemShown,
                            scalars |-> DefaultScalars,
                            limits  |-> [l \in DOMAIN Limits |-> Limits[l].default],
                            lists   |-> [f \in Lists |-> <<>>],
                            tables  |-> [f \in Tables |-> [k \in Keys |-> None]],
                            rules   |-> <<>>, mounts |-> <<>>, path |-> <<>>]
              /\ UNCHANGED <<layers, written, inputs>>

\* The layer's mount items in the order of the directives, with the layer they came from.
MountItems(layer, origin) ==
    FoldLeft(\o, <<>>,
        [d \in 1..Len(Directives) |->
            [i \in DOMAIN layer.mounts[Directives[d]] |->
                [directive |-> Directives[d], path |-> layer.mounts[Directives[d]][i],
                 origin |-> origin]]])

AddRule(rules, rule) == IF rule \in Range(rules) THEN rules ELSE Append(rules, rule)

PrependLast(upper, lower) == lower \o upper

\* path-prepend: the upper layer goes first.
Prepend(upper, lower) == upper \o lower

\* The body of merge's loop.
MergedWith(layer, origin) ==
    [policy EXCEPT
        !.scalars = Over(layer.scalars, @),
        !.limits  = Over(layer.limits, @),
        !.lists   = [f \in Lists |-> @[f] \o layer.lists[f]],
        !.tables  = [f \in Tables |-> Over(layer.tables[f], @[f])],
        !.rules   = FoldLeft(AddRule, @, layer.rules),
        !.mounts  = @ \o MountItems(layer, origin),
        !.path    = Prepend([i \in DOMAIN layer.path |-> [path |-> layer.path[i], origin |-> origin]], @)]

MergeLayer ==
    /\ pc = "merge" /\ done < Len(layers)
    /\ policy' = MergedWith(layers[done + 1], done + 1)
    /\ done' = done + 1
    /\ UNCHANGED <<pc, layers, written, inputs>>

DeadlinesPerLayer(limits) ==
    \A i \in DOMAIN layers :
        LET own == layers[i].limits
        IN  own["server"] # None /\ own["resolution"] # None =>
                own["server"] <= own["resolution"]

\* validate_deadlines, on the merged limits.
DeadlinesFit(limits) == limits["server"] <= limits["resolution"]

\* A setting that would have no effect under the merged modes.
WithoutEffect ==
    \/ policy.modes["mounts"] # "listed" /\ ~policy.system
    \/ policy.modes["commands"] # "listed" /\ policy.lists["commands.allow"] # <<>>
    \/ policy.scalars.env = "inherit" /\ policy.lists["pass"] # <<>>

Mergeable ==
    /\ ~WithoutEffect
    /\ \A k \in Keys : policy.tables["set"][k] = None \/ policy.tables["secrets"][k] = None
    /\ policy.scalars.network = "filtered" => "interface" \notin Range(policy.rules)
    /\ MergePublications(policy.lists["publish"]) # None
    /\ DeadlinesFit(policy.limits)
    /\ OneTransport(policy.lists["upstream"])

\* check_merged: the written publications are replaced by their merged form.
CheckMerged ==
    /\ pc = "merge" /\ done = Len(layers)
    /\ \/ ~Mergeable /\ Refuse
       \/ /\ Mergeable
          /\ policy' = [policy EXCEPT !.lists["publish"] = MergePublications(@)]
          /\ pc' = "merged"
          /\ UNCHANGED <<layers, written, done, inputs>>

Next ==
    \/ LoadProfile
    \/ LoadOthers
    \/ ValidateLayer
    \/ BeginMerge
    \/ MergeLayer
    \/ CheckMerged

Spec == Init /\ [][Next]_vars

-----------------------------------------------------------------------------
(* Properties                                                               *)

\* Types.
TypeOK ==
    /\ pc \in {"load", "validate", "merge", "merged", "refused"}
    /\ named \in BOOLEAN
    /\ Len(layers) \in 0..3 /\ Len(written) = Len(layers)
    /\ done \in 0..Len(layers)
    /\ pc \in {"merge", "merged"} => policy # None

Merged == pc = "merged"

\* The value the topmost layer writes, or the default.
Topmost(values, default) ==
    LET writers == {i \in DOMAIN values : values[i] # None}
    IN  IF writers = {} THEN default
        ELSE values[CHOOSE i \in writers : \A j \in writers : j <= i]

\* In the merged policy every setting with one value, every limit and every key of a table
\* has the value of the topmost layer that writes it, however many layers below write
\* another (merge's "scalars take the upper layer, tables merge by key with the upper
\* layer winning").
UpperWins ==
    Merged =>
        /\ \A f \in Scalars :
              policy.scalars[f] = Topmost([i \in DOMAIN written |-> written[i].scalars[f]],
                                          DefaultScalars[f])
        /\ \A l \in DOMAIN Limits :
              policy.limits[l] = Topmost([i \in DOMAIN written |-> written[i].limits[l]],
                                         Limits[l].default)
        /\ \A t \in Tables, k \in Keys :
              policy.tables[t][k] = Topmost([i \in DOMAIN written |-> written[i].tables[t][k]], None)

\* No layer above can loosen what one below has closed: a mode is `listed' and the system
\* directories are out as soon as any layer says so, whatever the layers above it write
\* (strictest_mode, mounts_system).
NeverLoosened ==
    Merged =>
        \A i \in DOMAIN written :
            /\ \A m \in Modes : written[i].modes[m] = "listed" => policy.modes[m] = "listed"
            /\ written[i].system = FALSE => ~policy.system

\* Mounts apply in the order of the layers, so an upper layer's item is the one that
\* holds; programs are looked up in the upper layer's path-prepend first.  Nothing
\* written is lost.
LayersInOrder ==
    Merged =>
        /\ \A i, j \in DOMAIN policy.mounts :
              i < j => policy.mounts[i].origin <= policy.mounts[j].origin
        /\ \A i, j \in DOMAIN policy.path :
              i < j => policy.path[i].origin >= policy.path[j].origin
        /\ \A i \in DOMAIN written, d \in Range(Directives) :
              \A p \in Range(written[i].mounts[d]) :
                  [directive |-> d, path |-> p, origin |-> i] \in Range(policy.mounts)

\* The publications of a merged policy are those the layers wrote, each once and in the
\* order they were first written, although a file's own list is merged before the lists
\* are merged together; no two of them share a port on either side
\* (merge_publications).
PublishedOnce ==
    Merged =>
        LET all  == FoldLeft(\o, <<>>, [i \in DOMAIN written |-> written[i].lists["publish"]])
            mine == policy.lists["publish"]
        IN  /\ Range(mine) = Range(all)
            /\ \A i, j \in DOMAIN mine :
                  i # j => mine[i].port # mine[j].port /\ mine[i].host # mine[j].host
            /\ \A i, j \in DOMAIN mine :
                  i < j => Min({x \in DOMAIN all : all[x] = mine[i]})
                             < Min({x \in DOMAIN all : all[x] = mine[j]})

\* The limits a run starts with are in range, and one server's timeout is within the whole
\* resolution's even when the two come from different layers, or one from the defaults
\* (validate_deadlines).
LimitsFit ==
    Merged =>
        /\ \A l \in DOMAIN Limits : policy.limits[l] \in Limits[l].min..Limits[l].max
        /\ policy.limits["server"] <= policy.limits["resolution"]

\* No restriction is written in vain: what a layer says of the network comes with a mode
\* some layer wrote, and a list that only a mode makes effective comes with that mode
\* (merge, check_merged).
NothingInVain ==
    Merged =>
        /\ \A i \in DOMAIN written :
              (\E l \in DOMAIN Limits : written[i].limits[l] # None) \/ written[i].rules # <<>>
                => \E j \in DOMAIN written : written[j].scalars.network # None
        /\ \A i \in DOMAIN written :
              /\ written[i].lists["pass"] # <<>> => policy.scalars.env # "inherit"
              /\ written[i].lists["commands.allow"] # <<>> => policy.modes["commands"] = "listed"

\* The wide built-in default is never taken in place of a profile that is named, or that is
\* there but cannot be read (global_scope: "A broken link or a regular file in the way
\* must not select the wider default").
DefaultOnlyIfAbsent ==
    (layers # <<>> /\ written[1] = BuiltIn) => profile = Absent /\ ~named

\* The merged policy is the one the layers, read together, ask for.
LayersKept ==
    /\ TypeOK /\ UpperWins /\ NeverLoosened /\ LayersInOrder /\ PublishedOnce
    /\ LimitsFit /\ NothingInVain /\ DefaultOnlyIfAbsent
=============================================================================
