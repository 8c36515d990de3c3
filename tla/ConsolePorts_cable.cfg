SPECIFICATION Spec
CONSTANTS
    p1 = p1
    p2 = p2
    c1 = c1
    c2 = c2
    s1 = s1
    s2 = s2
    e1 = e1
    e2 = e2
    Unassigned = Unassigned
    Default = Default
    NoLabel = NoLabel
    Nobody = Nobody
    NoInode = NoInode
    Port = {p1, p2}
    Cable = {c1}
    Setting = {Default}
    Label = {}
    Session = {s1, s2}
    Editor = {e1}
    Inode = {1, 2, 3}
    MaxEdits = 2
    MaxKills = 0
SYMMETRY Symmetry
INVARIANT CableExclusive
CHECK_DEADLOCK FALSE
