SPECIFICATION Spec
CONSTANTS
  Leaves <- MCBgp
  Sub <- MCKeyedSub
  Slashes <- MCSlashes
  MaxUpdates = 2
INVARIANT RoutedExactly
