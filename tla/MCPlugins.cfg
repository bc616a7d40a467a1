CONSTANTS
    two = two
    three = three
    abc = abc
    model = model
    fence = fence
    disabled_plugins = disabled_plugins
    Absent = Absent
    Requests = {u1, u2, u3}
    Builtin = {restart_pod}
    Custom = {drain_node}
    Keys <- MCKeys
    Values <- MCValues
    Fits <- MCFits
    InSettings <- MCInSettings
    Default <- MCDefault
    Bodies <- MCBodies
    DisabledKey = disabled_plugins
    FenceKey = fence

SPECIFICATION Spec

SYMMETRY Symmetry

INVARIANTS
    TypeOK
    RowsLoad
    CleanKeysAgree
    DisabledIsKept
    GhostsAreDeleted

CHECK_DEADLOCK FALSE
