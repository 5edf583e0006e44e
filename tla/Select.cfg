SPECIFICATION Spec
CONSTANTS
  NULL = NULL
  g = g  h = h  en = en  fr = fr
  Variants <- MCVariants
  Renditions <- MCRenditions
  Widths <- MCWidths
  Heights <- MCHeights
  Languages <- MCLanguages
  MaxVariants = 3
  MaxRenditions = 3
CHECK_DEADLOCK FALSE
INVARIANTS
  VariantIsLargest
  AudioMatches
