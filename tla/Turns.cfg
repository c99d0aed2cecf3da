\* Two deliveries, one attempt, one restart of the turn actor, steers.
SPECIFICATION Spec
CONSTANTS
    Delivery = {d1, d2}
    Capacity = 2
    RelaySize = 1
    MaxAttempts = 1
    MaxRestarts = 1
    Requested = {"steer"}
INVARIANTS TypeOK TurnHeldOnce NothingForgotten OncePerAdmission
SYMMETRY Symmetric
CHECK_DEADLOCK FALSE
