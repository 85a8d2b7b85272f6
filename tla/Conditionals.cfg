SPECIFICATION Spec
CONSTANT Programs <- AllPrograms
INVARIANT TypeOK FollowsStructure LevelCoversNesting UnbalancedReported
PROPERTY AssemblyEnds
