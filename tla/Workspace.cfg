SPECIFICATION Spec
CONSTANTS
    Users = {o, a, b}
    Creator = o
    Projects = {p}
    Given = {"MANAGER"}
    Requests = {r1, r2}
    MaxJoins = 2
SYMMETRY Symmetry
INVARIANTS
    TypeOK
    OneOwner
    SeatsNameTheOwner
    ProjectsBelongToMembers
CHECK_DEADLOCK FALSE
