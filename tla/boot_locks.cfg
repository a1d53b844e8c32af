CONSTANT Milestone = 3
SPECIFICATION Spec
INVARIANTS
    NoSpinAfterQuietBoot
PROPERTY
    BootCompletes
CHECK_DEADLOCK FALSE
