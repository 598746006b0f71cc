CONSTANTS
    NULL = NULL
    Global = Global
    fn = fn
    Funcs = {fn}
    Names <- MCNames
    BuiltIn <- MCBuiltIn
    Sizes <- MCSizes
    Watched <- MCWatched
    BLOCK_SIZE = 44
    NAME_SIZE = 3
    VAR_SIZE = 8
    FUNC_SIZE = 8
    PARAM_SIZE = 3
    HOTKEY_SIZE = 8
    VARIANT_SIZE = 6
    MAX_LAZY_VARS = 2
    FirstLocal = 1
    MAX_FUNC_VAR_EXCEPTIONS = 1
    MaxParams = 1
    ParamNames <- MCParamNames
    Faults = {"name", "lazy", "array"}
    MaxAccidents = 2
SPECIFICATION Spec
INVARIANTS TypeOK HeapSound StaticAndDynamicAgree
PROPERTY NoneLost
CHECK_DEADLOCK FALSE
