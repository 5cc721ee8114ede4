CONSTANT Targets <- MCTargets
SPECIFICATION Spec
INVARIANT SizingMatchesSpec
