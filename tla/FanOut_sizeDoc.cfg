\* Two jobs.
SPECIFICATION Spec
CONSTANT Jobs = 2
INVARIANT CorpusSizeIsWhole
CHECK_DEADLOCK FALSE
