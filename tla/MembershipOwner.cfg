SPECIFICATION Spec
CONSTANTS
    founder = founder
    u1 = u1
    i1 = i1
    r1 = r1
    r2 = r2
    Users = {founder, u1}
    Founder = founder
    Invitations = {i1}
    Requests = {r1, r2}
    MemberLimit = 3
    Offered = {"owner", "admin", "member"}
SYMMETRY Interchangeable
INVARIANT AlwaysAnOwner
