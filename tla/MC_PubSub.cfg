CONSTANTS
    Root = dev
    None = none
    Topics = {dev, a}
    Parent <- Flat
    Commands = {}
    Subscribers = {app, own}
    Owner = own
    Values = {v1, v2}
    Metas = {{v1}}
    FlagSets = {{"pub"}, {"meta", "retain"}, {"pub", "meta", "retain"}}
    MaxPend = 1
    MaxSubs = 1
SPECIFICATION Spec
INVARIANTS RetainedSeen
