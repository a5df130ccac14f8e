------------------------------ MODULE MCPlanning ------------------------------
(***************************************************************************)
(* What is worked out before a run starts, and by the guards in it: the    *)
(* merge of the policy layers, the match of a wildcard (extended), the     *)
(* verdict of a command guard and the placement of the items.  A behaviour *)
(* moves the part that `part' names, so the states of the parts add up.    *)
(***************************************************************************)
EXTENDS Wildcard, FiniteSets

CONSTANTS
    None,
    Absent, Broken, Files, Lines, BuiltIn, Limits, Keys,
    Words, Shape, Separator, Variables, Rules, Programs, MaxRules, MaxWords,
    Places, Trees, Targets, Policies, Protected, Secrets, ConfigDir, Workspaces, CurrentDir,
    Home, LinkLimit, MaxChanges

VARIABLES
    part,
    pc, profile, named, file, line, layers, written, done, policy,
    rules, words, environment, started, table, outcome,
    tree, items, workspace, run, first, changes

policyVars    == <<pc, profile, named, file, line, layers, written, done, policy>>
guardVars     == <<rules, words, environment, started, table, outcome>>
placementVars == <<tree, items, workspace, run, first, changes>>

Policy == INSTANCE PolicyLayers

Guard == INSTANCE CommandGuard

Place == INSTANCE Placement WITH policy <- items

\* The inputs of a part that does not move are of no account.
MCInit ==
    /\ part \in {"policy", "wildcard", "guard", "placement"}
    /\ part = "policy" \/ (profile = Absent /\ named = FALSE /\ file = None
                           /\ line = CHOOSE l \in Lines : TRUE)
    /\ part = "wildcard" \/ (pattern = <<>> /\ text = <<>>)
    /\ part = "placement" \/ /\ tree = CHOOSE i \in Trees : TRUE
                             /\ items = CHOOSE i \in Policies : TRUE
                             /\ workspace = None
    /\ Policy!Init /\ Init /\ Guard!Init /\ Place!Init

MCNext ==
    \/ part = "policy" /\ Policy!Next /\ UNCHANGED <<part, vars, guardVars, placementVars>>
    \/ part = "wildcard" /\ Next /\ UNCHANGED <<part, policyVars, guardVars, placementVars>>
    \/ part = "guard" /\ Guard!Next /\ UNCHANGED <<part, policyVars, vars, placementVars>>
    \/ part = "placement" /\ Place!Next /\ UNCHANGED <<part, policyVars, vars, guardVars>>

MCSpec == MCInit /\ [][MCNext]_<<part, policyVars, vars, guardVars, placementVars>>

-----------------------------------------------------------------------------
\* PolicyLayers: the merged policy is the one the layers, read together, ask for.
LayersKept == part = "policy" => Policy!LayersKept



-----------------------------------------------------------------------------
(* Layers: each writes the few settings one question needs.                 *)

Empty ==
    [modes   |-> [m \in {"mounts", "commands"} |-> None],
     system  |-> None,
     scalars |-> [f \in {"grace", "network", "nested", "env"} |-> None],
     limits  |-> [l \in {"server", "resolution"} |-> None],
     lists   |-> [f \in {"scan", "hide-mounts", "publish", "upstream", "pass", "unset",
                         "commands.allow", "guards"} |-> <<>>],
     tables  |-> [f \in {"set", "secrets", "instead-of"} |-> [k \in Keys |-> None]],
     rules   |-> <<>>, path |-> <<>>,
     mounts  |-> [d \in {"rw", "rw-file", "rw-copy", "ro", "hide"} |-> <<>>],
     present |-> FALSE, bad |-> FALSE]

MCLimits == [server     |-> [min |-> 1, max |-> 4, default |-> 2],
             resolution |-> [min |-> 1, max |-> 5, default |-> 3]]

Pub(port, host) == [port |-> port, host |-> host]

MCBuiltIn == [Empty EXCEPT !.mounts["hide"] = <<"s">>]

Filtered == [Empty EXCEPT !.scalars.network = "filtered"]

MCFiles ==
    { Empty,
      [Empty EXCEPT !.bad = TRUE],
      [Empty EXCEPT !.present = TRUE],
      [Filtered EXCEPT !.lists["publish"] = <<Pub(1, 1), Pub(2, 2), Pub(1, 1)>>,
                       !.rules = <<"name", "name">>],
      [Filtered EXCEPT !.lists["publish"] = <<Pub(2, 2), Pub(3, 3)>>,
                       !.rules = <<"address", "name">>],
      [Filtered EXCEPT !.lists["publish"] = <<Pub(3, 1)>>],
      [Filtered EXCEPT !.lists["publish"] = <<Pub(1, 1), Pub(1, 2)>>],
      [Filtered EXCEPT !.limits["server"] = 4, !.limits["resolution"] = 5,
                       !.lists["upstream"] = <<"tls">>],
      [Filtered EXCEPT !.limits["resolution"] = 2, !.lists["upstream"] = <<"plain">>,
                       !.scalars.grace = 300],
      [Filtered EXCEPT !.limits["server"] = 3, !.scalars.grace = 1],
      [Filtered EXCEPT !.limits["server"] = 0],
      [Empty EXCEPT !.limits["resolution"] = 4],
      [Empty EXCEPT !.scalars.network = "host", !.scalars.grace = 301],
      [Empty EXCEPT !.scalars.network = "host", !.scalars.nested = TRUE,
                    !.rules = <<"interface">>],
      [Empty EXCEPT !.modes["mounts"] = "listed", !.system = FALSE, !.modes["commands"] = "host",
                    !.mounts["ro"] = <<"a">>, !.mounts["rw"] = <<"b">>, !.path = <<"p">>],
      [Empty EXCEPT !.modes["mounts"] = "host", !.system = TRUE, !.modes["commands"] = "listed",
                    !.mounts["rw"] = <<"a">>, !.path = <<"q", "p">>],
      [Empty EXCEPT !.lists["commands.allow"] = <<"ls">>, !.lists["pass"] = <<"HOME">>],
      [Empty EXCEPT !.scalars.env = "clean", !.tables["set"]["k1"] = "v1",
                    !.lists["pass"] = <<"HOME">>],
      [Empty EXCEPT !.scalars.env = "inherit", !.tables["set"]["k1"] = "v2",
                    !.tables["instead-of"]["k2"] = "v1"],
      [Empty EXCEPT !.tables["secrets"]["k1"] = "f", !.tables["instead-of"]["k2"] = "v2"] }

MCLines == { Empty, [Empty EXCEPT !.mounts["rw"] = <<"b">>, !.mounts["hide"] = <<"a">>] }

-----------------------------------------------------------------------------
(* A guard of git with the rules its documentation shows, in small.         *)

Plain(w) == [dash |-> FALSE, head |-> w, value |-> None, letters |-> {}]

Dash(w, letters) == [dash |-> TRUE, head |-> w, value |-> None, letters |-> letters]

MCShape == [w \in Words |->
    CASE w \in {"push", "log"} -> Plain(w)
      [] w = "-C" -> Dash(w, {"-C"})
      [] w = "-f" -> Dash(w, {"-f"})
      [] w = "-uf" -> Dash(w, {"-u", "-f"})
      [] w = "--x=log" -> [dash |-> TRUE, head |-> "--x", value |-> "log", letters |-> {}]
      [] w = "--x" -> Dash(w, {})
      [] w = "--" -> Dash(w, {})]

Base == [program |-> "git", options |-> {}, for |-> {}, deny |-> {}, flags |-> {},
         values |-> {}, env |-> {}, only |-> {}, denied |-> {}, allowed |-> {}]

MCRules ==
    { [Base EXCEPT !.deny = {<<{"push"}>>}, !.options = {"-C"},
                   !.denied = {<<"-C", "log", "push">>}, !.allowed = {<<"log">>}],
      [Base EXCEPT !.deny = {<<{"push", "log"}, {"log"}>>}],
      [Base EXCEPT !.for = {<<{"push"}>>}, !.flags = {"-f"}, !.options = {"-C"}],
      [Base EXCEPT !.values = {<<"--x", "log">>}],
      [Base EXCEPT !.env = {"GIT_DIR"}, !.for = {<<{"log"}>>}],
      [Base EXCEPT !.only = {<<{"log"}>>, <<{"push"}, {"log"}>>}, !.options = {"-C"}],
      [Base EXCEPT !.deny = {<<{"log"}>>}, !.allowed = {<<"log">>}],
      [Base EXCEPT !.deny = {<<>>}],
      Base,
      [Base EXCEPT !.program = "kakoi", !.flags = {"-f"}] }

-----------------------------------------------------------------------------
(* A home with a work directory, a configuration directory and a place to   *)
(* hide; the links in it point at every place.                              *)

W == <<"h", "w">>
D == <<"h", "w", "d">>
DX == <<"h", "w", "d", "x">>
L == <<"h", "w", "l">>
K == <<"h", "k">>
J == <<"h", "j">>
C == <<"h", "c">>
F == <<"h", "c", "p">>
S == <<"h", "s">>
SX == <<"h", "s", "x">>

MCPlaces == {<<"h">>, W, D, DX, L, K, J, C, F, S, SX, <<"o">>}

MCTargets == {D, S, SX, C, <<"h", "w", "..", "s">>}

MCProtected == {F, <<"h", "j", "p">>}
MCSecrets == {<<"h", "j", "p">>}
MCWorkspaces == {None, W, L, K}
MCCurrentDir == <<"o">>
MCHome == <<"h">>

Dirs == {<<"h">>, <<"o">>, W, D, C, S}

Tree(l, k, j) ==
    [q \in MCPlaces |->
        IF q = L THEN [kind |-> "link", to |-> l]
        ELSE IF q = K THEN [kind |-> "link", to |-> k]
        ELSE IF q = J THEN [kind |-> "link", to |-> j]
        ELSE [kind |-> IF q \in Dirs THEN "dir" ELSE "file", to |-> D]]

Around == <<"h", "w", "d", "..", "..", "c">>

MCTrees == {Tree(D, W, C), Tree(D, L, Around), Tree(S, W, Around)}

Item(directive, origin, path) ==
    [directive |-> directive, origin |-> origin, path |-> path, derived |-> FALSE]

Own(directive, origin) ==
    [directive |-> directive, origin |-> origin, path |-> <<>>, derived |-> TRUE]

Lower == {Item(d, 1, q) : d \in {"rw"}, q \in {W, K}}
         \cup {Item("hide", 1, S), Item("hide", 1, D), Own("rw", 1)}

Upper == {Item(d, 2, q) : d \in {"rw", "ro", "hide"}, q \in {L, D, S, K}}
         \cup {Item("rw-file", 2, DX), Item("rw-copy", 2, L), Item("hide", 2, DX), Item("ro", 2, F)}

MCPolicies ==
    {<<a, b>> : a \in Lower, b \in Lower \cup Upper} \cup
    {<<a, b, c>> : a \in {Item("rw", 1, W), Own("rw", 1)}, b \in {Item("hide", 1, S), Item("hide", 1, D)}, c \in Upper}
==============================================================================
