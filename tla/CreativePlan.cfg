SPECIFICATION Spec
CONSTANTS
  c0 = c0
  c1 = c1
  b1 = b1
  b2 = b2
  b3 = b3
  Creators <- MCCreators
  Briefs <- MCBriefs
  SpecOf <- MCSpecOf
  Seed = seed
  Concepts = {k1}
  Picks = {1, 2}
  None = None
  Namesake = Namesake
  MaxRerolls = 1
  MaxTries = 2
  MaxRevisions = 2
SYMMETRY Symmetry
INVARIANT ProducedAsApproved
INVARIANT OnlyApprovedVoicesBought
INVARIANT EveryItemHasItsVoice
INVARIANT NoOldCandidate
