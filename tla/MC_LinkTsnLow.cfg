SPECIFICATION Spec
CONSTANT
    Configs <- LinkConfigs
INVARIANT
    EveryActiveClassIsLinked
