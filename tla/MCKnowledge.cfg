CONSTANTS
    None = None
    Sessions = {s1, s2, s3}
    Fields = {"title", "category"}
    Nullable = {"category"}
    Texts = {x, y}
    Statuses = {"published", "review"}
    MaxRevision = 3

SPECIFICATION Spec

SYMMETRY Symmetry

INVARIANTS
    TypeOK
    EntryIsItsRevision
    EditsBuildOnTheLast

PROPERTY
    EditsTakeEffect

CHECK_DEADLOCK FALSE
