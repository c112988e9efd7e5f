SPECIFICATION Spec
CONSTANTS
    Threads = {t1, t2, t3}
    Accounts = {a}
    Kinds = {"login", "rotate", "logout", "refresh", "deliver", "revokeAccount",
             "revokeInLoop", "revokeOthers", "purge"}
    Nobody = Nobody
    Limit = 2
    Established = 2
    MaxRequests = 3
SYMMETRY ThreadSymmetry
INVARIANTS TypeOK WithinLimit RevokedStayOut DenialsMatch
PROPERTY SendsFinishFirst
