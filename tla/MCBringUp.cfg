SPECIFICATION Spec
CONSTANT Scenes <- MCScenes
INVARIANTS   NoCircularWait
CHECK_DEADLOCK FALSE
