SPECIFICATION Spec
CONSTANT Fan = {f1, f2}
INVARIANTS  CreatorIsSettled OncePerEntry
CHECK_DEADLOCK FALSE
