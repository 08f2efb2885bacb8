\* One h3 node that is moved to another address while its slot is at work.
CONSTANTS
    NfNodes = {n1}
    NfUrls = {u1, u2}
    NfProtocols = {"h3"}
    NfMaxVersion = 3
    NfMaxClaims = 1
    NfMaxFaults = 0
SPECIFICATION NfSpec
INVARIANTS
    OldSlotDispatchesNothing
\* The fleet stops when no save and no claim is left.
CHECK_DEADLOCK FALSE
