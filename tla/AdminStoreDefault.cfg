SPECIFICATION Spec
CONSTANTS
    Requests = {r1, r2}
    Libraries = {default, work}
    Default = default
    Keys = {mount, policy}
    Values = {factory, other}
    Factory = factory
    Views = {v1, v2}
    Names = {n1, n2}
INVARIANT DefaultCanBeEnsured
