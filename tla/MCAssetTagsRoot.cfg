CONSTANTS
    freeze = freeze
    root = root
    sub = sub
    Null = Null
    Tag <- MCTag
    Root <- MCRoot
    MaxHeight = 3
    MaxCommands = 2
SPECIFICATION Spec
INVARIANT RootExact
