SPECIFICATION Spec
CONSTANTS
  Leaves <- MCSwitch
  Sub <- MCSubs
  Slashes <- MCSlashes
  MaxUpdates = 4
INVARIANTS FactsPreserved NothingInvented RoutedExactly EntityKept
