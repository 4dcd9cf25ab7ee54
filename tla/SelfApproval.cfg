SPECIFICATION Spec
CONSTANTS
    Workers = {w1, w2}
    Users = {alice, bob}
    Steps = {s1}
    Nobody = Nobody
INVARIANTS
    NoSelfApproval
