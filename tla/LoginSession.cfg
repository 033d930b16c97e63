\* Two logins of a tenant or a worker, and a later change of their data.
SPECIFICATION LoginLiveSpec
CONSTANTS
    t1 = t1
    m1 = m1
    w1 = w1
    None = None
    Users = {t1, w1}
    RoleOf <- MCRoleOf
    MaxLogins = 2
    MaxChanges = 1
INVARIANTS
    LoginTypeOK
    DashboardIsOwn
PROPERTIES
    LoginIsAnswered
