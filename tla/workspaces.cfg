SPECIFICATION MCSpec
CONSTANTS
    Call = {k1, k2}
    MaxUp = 3
    MaxWork = 3
INVARIANTS WorkIsKept HandInsHold
PROPERTIES SandboxTornDown ShellsEndWithSandbox
CHECK_DEADLOCK FALSE
