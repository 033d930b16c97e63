\* An account signs out and its data changes.
SPECIFICATION LoginSpec
CONSTANTS
    t1 = t1
    m1 = m1
    w1 = w1
    None = None
    Users = {t1, m1, w1}
    RoleOf <- MCRoleOf
    MaxLogins = 1
    MaxChanges = 1
INVARIANTS
    SignedOutStaysOut
