------------------------------ MODULE Placement ------------------------------
(***************************************************************************)
(* Where the mount items of a policy land on the host, and which landings   *)
(* a start refuses (mounts.rs, placement.rs, real_paths.rs).  A program     *)
(* inside the isolation changes what it may write, symbolic links           *)
(* included, between one start and the next; the checks are there so that   *)
(* the same policy keeps its meaning.                                       *)
(*                                                                          *)
(* A path is a sequence of names.  A refused start changes nothing and is   *)
(* no step.  Items written as `${workspace}' are derived from the workspace *)
(* that was given; scans and hide-mounts are left out.                      *)
(***************************************************************************)
EXTENDS Naturals, Sequences, FiniteSets, SequencesExt

CONSTANTS
    None,
    Places,      \* the places of the host's tree, closed under ancestors
    Trees,       \* place -> node, the trees the host may start with
    Targets,     \* what a link made inside the isolation may point at
    Policies,    \* sequences of [directive, origin, path, derived], lowest layer first
    Protected,   \* policy files, secret files and path-prepend entries
    Secrets,     \* those that are secret files
    ConfigDir,   \* the configuration directory
    Workspaces,  \* what --workspace may be given as: paths, or None
    CurrentDir,  \* where kakoi is started
    Home,
    LinkLimit,   \* LINK_LIMIT
    MaxChanges   \* bound on the changes made inside

VARIABLES
    tree,       \* place -> [kind, to]; kind "none", "file", "dir" or "link"
    policy,     \* the written items, the same at every start
    workspace,  \* --workspace as given, the same at every start
    run,        \* the isolation that is running, or None
    first,      \* the first isolation that ran, or None
    changes     \* how often the tree was changed from inside

vars == <<tree, policy, workspace, run, first, changes>>

Init ==
    /\ tree \in Trees
    /\ policy \in Policies
    /\ workspace \in Workspaces
    /\ run = None /\ first = None
    /\ changes = 0

-----------------------------------------------------------------------------
(* The walk of a path                                                       *)

Parent(path) == IF path = <<>> THEN <<>> ELSE Front(path)

KindOf(path) ==
    IF path = <<>> THEN "dir" ELSE IF path \in Places THEN tree[path].kind ELSE "none"

\* walk's loop: `resolved' is where it stands, `links' and `directories' what it consulted.
RECURSIVE WalkFrom(_, _, _, _, _)
WalkFrom(resolved, remaining, followed, links, directories) ==
    LET dirs == directories \cup {resolved}
        next == Append(resolved, Head(remaining))
        stop == [real |-> None, links |-> links, directories |-> dirs]
    IN  IF remaining = <<>>
          THEN [real |-> resolved, links |-> links, directories |-> directories]
        ELSE IF KindOf(resolved) # "dir" THEN stop
        ELSE IF Head(remaining) = ".."
          THEN WalkFrom(Parent(resolved), Tail(remaining), followed, links, dirs)
        ELSE IF KindOf(next) = "none" THEN stop
        ELSE IF KindOf(next) # "link"
          THEN WalkFrom(next, Tail(remaining), followed, links, dirs)
        ELSE IF followed = LinkLimit THEN stop
        ELSE WalkFrom(<<>>, tree[next].to \o Tail(remaining), followed + 1,
                      links \cup {next}, dirs)

Walk(path) == WalkFrom(<<>>, path, 0, {}, {})

\* entry: what exists behind a path.
Real(path) == Walk(path).real

-----------------------------------------------------------------------------
(* The items in force                                                       *)

\* variables.workspace: the real path of the workspace, or the current directory.
WorkspaceReal == IF workspace = None THEN CurrentDir ELSE Real(workspace)

PathOf(item) == IF item.derived THEN WorkspaceReal \o item.path ELSE item.path

\* The identity of a written item: its real path, else its path as written.
KeyOf(item) == IF Real(PathOf(item)) # None THEN Real(PathOf(item)) ELSE PathOf(item)

\* resolve_written: an upper layer's item replaces the one with its identity; two
\* directives of one layer for one identity conflict.
InForce(i) == \A j \in DOMAIN policy : KeyOf(policy[j]) = KeyOf(policy[i]) =>
                  j <= i \/ policy[j].origin = policy[i].origin

Conflict ==
    \E i, j \in DOMAIN policy :
        /\ KeyOf(policy[i]) = KeyOf(policy[j])
        /\ policy[i].origin = policy[j].origin
        /\ policy[i].directive # policy[j].directive

WrittenItems ==
    {[directive |-> policy[i].directive, real |-> Real(PathOf(policy[i]))] :
        i \in {k \in DOMAIN policy : InForce(k) /\ Real(PathOf(policy[k])) # None}}

\* secret_items: a secret file that exists is hidden.
GeneratedItems ==
    {[directive |-> "hide", real |-> Real(s)] : s \in {p \in Secrets : Real(p) # None}}

\* generate: a generated item replaces the written one at the same real path.
Items ==
    {w \in WrittenItems : \A g \in GeneratedItems : g.real # w.real} \cup GeneratedItems

\* check_kinds.
KindsFit(items) ==
    \A i \in items : /\ i.directive = "rw" => KindOf(i.real) = "dir"
                     /\ i.directive = "rw-file" => KindOf(i.real) # "dir"

\* covering_item: the last in byte order, in which ancestors come first: the innermost.
Covering(items, path) ==
    {i \in items : /\ IsPrefix(i.real, path)
                   /\ \A j \in items : IsPrefix(j.real, path) => Len(j.real) <= Len(i.real)}

InsideHidden(items, path) == \E i \in Covering(items, path) : i.directive = "hide"

WritesToHost == {"rw", "rw-file"}

Writable(items) == {i \in items : i.directive \in WritesToHost}

InsideWritable(items, path) == \E w \in Writable(items) : IsPrefix(w.real, path)

-----------------------------------------------------------------------------
(* The checks on a protected path                                           *)

\* link_inside_writable's and check_workspace_links' links.
OnTheWayLinks(path) == Walk(path).links

\* What resolving a path consults: the links it follows and the directories it passes.
OnTheWay(path) == Walk(path).links \cup Walk(path).directories

ReadPrefixesOnly(items, path) ==
    \A k \in 0..Len(path) :
        LET real == Real(SubSeq(path, 1, k))
        IN  real # None => ~InsideWritable(items, real)

\* check_prefixes: no existing prefix, and nothing on the way, is inside a writable item.
CheckPrefixes(items, path) ==
    /\ \A k \in 0..Len(path) :
          LET real == Real(SubSeq(path, 1, k))
          IN  real # None => ~InsideWritable(items, real)
    /\ \A place \in OnTheWay(path) : ~InsideWritable(items, place)

\* check_nothing_writable_inside.
NothingWritableInside(items, place) ==
    \A w \in Writable(items) :
        ~IsPrefix(place, w.real) /\ (Real(place) # None => ~IsPrefix(Real(place), w.real))

-----------------------------------------------------------------------------
(* The checks on a written item                                             *)

\* consulted_writable.
Consults(items, path) == \E place \in OnTheWay(path) : InsideWritable(items, place)

\* workspace_under_check.
WorkspaceChecked == workspace # None /\ WorkspaceReal # CurrentDir

\* referenced_writable: by its own path, or inherited from the workspace.
References(items, item) ==
    \/ Consults(items, PathOf(item))
    \/ item.derived /\ WorkspaceChecked /\ Consults(items, workspace)

\* writable_forms_of and root_items: writable, and written in no way that could be
\* redirected.
FormsOf(real) ==
    {f \in Range(policy) : f.directive \in WritesToHost /\ Real(PathOf(f)) = real}

Roots(items) ==
    {w \in Writable(items) : \A f \in FormsOf(w.real) : ~References(items, f)}

LandsAnywhere(items, real) == TRUE

\* check_landing.
Lands(items, real) == \E r \in Roots(items) : IsPrefix(r.real, real)


\* exposes: the directive makes something readable or writable that the other kept away.
Exposes(directive, partner) ==
    \/ directive \in WritesToHost /\ partner \in {"hide", "ro", "rw-copy"}
    \/ directive \in {"ro", "rw-copy"} /\ partner = "hide"

\* check_replacement: the last item of a lower layer with the same identity, and the item
\* in force over the innermost ancestor.
Replaces(items, i) ==
    LET real  == Real(PathOf(policy[i]))
        same  == {j \in 1..(i - 1) : policy[j].origin # policy[i].origin /\ KeyOf(policy[j]) = real}
        above == {o \in items : o.real # real /\ IsPrefix(o.real, real)}
    IN  \/ same # {} /\ Exposes(policy[i].directive, policy[Max(same)].directive)
        \/ \E o \in Covering(above, real) : Exposes(policy[i].directive, o.directive)

\* check_written_paths for one item that resolves to something.
WrittenFits(items, i) ==
    LET item == policy[i]
        real == Real(PathOf(item))
    IN  /\ item.directive = "hide" =>
              \A l \in OnTheWayLinks(PathOf(item)) : ~InsideWritable(items, l)
        /\ References(items, item) =>
              /\ item.directive \notin {"ro", "rw-copy"} => Lands(items, real)
              /\ ~Replaces(items, i)

\* check_workspace_links: a workspace reached through a link must be in a root item that
\* the workspace did not make itself.
WorkspaceLinksFit(items) ==
    OnTheWayLinks(workspace) # {} =>
        \E r \in Roots(items) :
            IsPrefix(r.real, WorkspaceReal) /\ \A f \in FormsOf(r.real) : ~f.derived

WorkspaceFits(items) ==
    WorkspaceChecked =>
        /\ Consults(items, workspace) => Lands(items, WorkspaceReal)
        /\ WorkspaceLinksFit(items)

\* check_fixed_targets, check_width, check_work_place and check_current_dir.
Fixed == {<<"dev">>, <<"proc">>}

WideItem(real) == IsPrefix(real, Home)

PlacesFit(items) ==
    /\ \A i \in items : i.real # <<>> /\ \A f \in Fixed : ~IsPrefix(f, i.real)
    /\ \A w \in Writable(items) : ~WideItem(w.real)
    /\ ~WideItem(WorkspaceReal)
    /\ ~InsideHidden(items, CurrentDir)

\* check_placement, after the conflicts and the kinds.
Accepts(items) ==
    /\ WorkspaceReal # None
    /\ ~Conflict /\ KindsFit(items)
    /\ \A p \in Protected \cup {ConfigDir} : CheckPrefixes(items, p)
    /\ NothingWritableInside(items, ConfigDir)
    /\ \A i \in DOMAIN policy : Real(PathOf(policy[i])) # None => WrittenFits(items, i)
    /\ WorkspaceFits(items)
    /\ PlacesFit(items)

-----------------------------------------------------------------------------
(* Steps                                                                    *)

\* The hides no change from inside can take away: every directory on the way to them that
\* lies in a writable item is itself a mount point, which is busy.
Steady(items) ==
    {h \in items :
        /\ h.directive = "hide"
        /\ \A f \in {g \in Range(policy) : Real(PathOf(g)) = h.real} :
              \A place \in OnTheWay(PathOf(f)) :
                  InsideWritable(items, place) => \E i \in items : i.real = place}

\* resolve_isolation, when it accepts: the mounts are made.
Start ==
    /\ run = None
    /\ WorkspaceReal # None
    /\ Accepts(Items)
    /\ run' = [items |-> Items,
               protected |-> [p \in Protected |-> Real(p)],
               steady |-> Steady(Items)]
    /\ first' = IF first = None THEN run' ELSE first
    /\ UNCHANGED <<tree, policy, workspace, changes>>

Stop == run # None /\ run' = None /\ UNCHANGED <<tree, policy, workspace, first, changes>>

\* A program inside replaces, makes or removes an entry of a directory it may write; a mount
\* point itself is busy, and what was below the entry goes with it.
Inside ==
    /\ run # None /\ changes < MaxChanges
    /\ \E place \in Places :
          /\ \E i \in Covering(run.items, Parent(place)) : i.directive = "rw"
          /\ KindOf(Parent(place)) = "dir"
          /\ \A i \in run.items : i.real # place
          /\ \E kind \in {"none", "file", "dir", "link"}, to \in Targets :
                /\ kind # "link" => to = CHOOSE any \in Targets : TRUE
                /\ tree' = [p \in Places |->
                              IF p = place THEN [kind |-> kind, to |-> to]
                              ELSE IF IsPrefix(place, p) THEN [tree[p] EXCEPT !.kind = "none"]
                              ELSE tree[p]]
    /\ changes' = changes + 1
    /\ UNCHANGED <<policy, workspace, run, first>>

Next == Start \/ Stop \/ Inside

Spec == Init /\ [][Next]_vars

-----------------------------------------------------------------------------
(* Properties                                                               *)

\* Types: the tree stays one, and an isolation has one item per real path.
TypeOK ==
    /\ \A p \in Places : tree[p].kind \in {"none", "file", "dir", "link"}
    /\ \A p \in Places : tree[p].kind # "none" => KindOf(Parent(p)) = "dir"
    /\ run # None => \A i, j \in run.items : i.real = j.real => i = j
    /\ changes \in 0..MaxChanges

\* While an isolation runs, and after it, the policy files, the secret files and the
\* path-prepend entries are found where they were when it started: nothing a program
\* inside can change is on the way to them (check_prefixes).
ProtectedStay ==
    first # None => \A p \in Protected : Real(p) = first.protected[p]

\* However the tree was changed from inside, a later start of the same policy makes nothing
\* writable on the host that was outside the writable items of the first
\* (check_landing, root_items, check_workspace_links).
WritableNeverGrows ==
    run # None =>
        \A w \in Writable(run.items) : InsideWritable(first.items, w.real)

\* What the first start hid stays hidden at every later one: a hide that no change from
\* inside can take away is not covered by an item redirected into it either
\* (check_hide_links, check_replacement).
HiddenStays ==
    run # None =>
        \A h \in first.steady, p \in Places :
            (IsPrefix(h.real, p) /\ InsideHidden(first.items, p)) => InsideHidden(run.items, p)

=============================================================================
