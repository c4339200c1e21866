SPECIFICATION MCSpec
CONSTANTS
    Sizes = {1, 2, 3, 4, 7}
    IndexMod = 16
    Values = {u, v}
    Dead = Dead
    Functions = {f, g, h}
    Plain = {p, q}
    Functors = {a, b, c}
    MoveOnly = {c}
    Nothing = Nothing
    Places = 3
    posExpThreshold = 4
    negExpThreshold = 3
    Roundoff = 20
    Calls <- MCCalls
INVARIANTS ElementsLive RunsWhatWasAssigned StaysInBounds NumbersReadBack FormatIsItsMeaning
PROPERTIES ImplementsFifo
CHECK_DEADLOCK FALSE
