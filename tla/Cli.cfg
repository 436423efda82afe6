\* Three commands at a time and three devices: a logout that is overtaken by
\* two overlapping logins, whose texts may differ in length.
CONSTANTS
    Commands = {c1, c2, c3}
    Devices = {d1, d2, d3}
    Lengths = {2, 3}
    Garbled = Garbled
    Torn = Torn
    None = None
SPECIFICATION Spec
SYMMETRY Symmetry
VIEW Seen
CONSTRAINT Few
INVARIANTS TypeOK LiveIsAccounted LogoutMeansRevoked WholeUnlessCut
