CONSTANTS
    W = 8
    SearchBegin <- MCSearchBegin
    SearchEnd <- MCSearchEnd
    FoundCerts <- MCFoundCerts
    Inputs <- MCZeroInputs
SPECIFICATION Spec
INVARIANT AnyImagePatched
CHECK_DEADLOCK FALSE
