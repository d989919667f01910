INIT Init
NEXT Next
INVARIANT TransModeMatchesDefines
