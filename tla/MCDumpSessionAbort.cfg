\* The search_path after an abort outside managed mode.
CONSTANT MaxWork = 1
SPECIFICATION Spec
INVARIANT SearchPathDeterministic
