------------------------------ MODULE MCPlugins ------------------------------
(***************************************************************************)
(* A small instance of Plugins for TLC: one built-in and one custom        *)
(* plugin, two ordinary keys, one of which takes numbers only.             *)
(***************************************************************************)
EXTENDS Plugins, TLC

CONSTANTS two, three, abc, model, fence, disabled_plugins

MCKeys       == {model, fence, disabled_plugins}
MCInSettings == {model, fence}
MCValues     == {two, three, abc} \cup Lists
MCFits       == [k \in MCKeys |-> CASE k = model -> {two, abc}
                                    [] k = fence -> {two, three}
                                    [] OTHER     -> {abc} \cup Lists]
MCDefault    == [k \in MCKeys |-> two]

\* One key or both of the first two, in any order, or the list; "abc" is no number
\* and no list.
Body(m, f, ds) ==
    [k \in MCKeys |-> CASE k = model -> m [] k = fence -> f [] OTHER -> ds]
MCBodies ==
    {Body(m, f, Absent) : m \in {abc, Absent}, f \in {three, abc, Absent}}
        \cup {Body(Absent, Absent, ds) : ds \in {abc, Builtin}}

\* Requests differ in their names only.
Symmetry == Permutations(Requests)

=============================================================================
