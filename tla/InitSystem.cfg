SPECIFICATION SystemSpec
CONSTANTS
  Shells = {"adb"}
  Longer = "rom"
  MaxEvents = 1
  Boards = {"pi4", "cm4"}
  Outputs = {"Headphones", "vc4hdmi0"}
  MaxChanges = 1
INVARIANTS RequestTakes NoStaleMount LoopFollows CardsAgree
