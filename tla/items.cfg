SPECIFICATION FairSpec
CONSTANTS
    purse = purse
    spare = spare
    change = change
    bag = bag
    chest = chest
    hero = hero
    ground = ground
    Nowhere = Nowhere
    Coins <- CoinItems
    Bags <- BagItems
    Critters = {hero}
    Maps = {ground}
    Start <- AtFirst
    StartCount = 2
    Counts = {1, 2}
    MaxCalls = 3
INVARIANTS TypeOK Orderly CoinsKept
CHECK_DEADLOCK FALSE
PROPERTIES Returns
