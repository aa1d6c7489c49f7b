SPECIFICATION Spec
CONSTANTS
  Exit <- YamlExit
  Prices = {95, 96, 97, 98, 100, 101, 103, 106}
  EntryPrices = {100}
  AgeCap = 4
INVARIANTS
  AdviceFollowsRegime
