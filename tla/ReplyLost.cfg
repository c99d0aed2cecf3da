SPECIFICATION Spec
CONSTANTS
    m1 = m1
    Request = {m1}
    MaxRestarts = 0
INVARIANT RepliedIsOnItsWay
