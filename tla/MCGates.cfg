SPECIFICATION Spec
CONSTANTS
  r1 = r1
  r2 = r2
  r3 = r3
  r4 = r4
  c1 = c1
  Reps <- FourReps
  Types <- MCTypes
  Slots <- OneCall
  Linkers <- MCLinkers
  Offer <- MCOffer
SYMMETRY Symmetry
INVARIANTS
  TypeOK
  LayersKnowGuest
  NothingStranded
