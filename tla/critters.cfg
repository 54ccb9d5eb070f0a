SPECIFICATION Spec
CONSTANTS
    guard = guard
    dog = dog
    player = player
    town = town
    cellar = cellar
    Global = Global
    Nowhere = Nowhere
    Npcs = {guard, dog}
    Players = {player}
    Maps = {town, cellar}
    Start <- AtFirst
    Convoy <- OnGuard
    MaxCalls = 2
INVARIANTS TypeOK Together Orderly
PROPERTIES Whole
CHECK_DEADLOCK FALSE
