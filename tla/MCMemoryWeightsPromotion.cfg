SPECIFICATION RacingSpec
CONSTANTS
  m1 = m1
  m2 = m2
  m3 = m3
  w1 = w1
  w2 = w2
  d1 = d1
  Memories = {m1, m2, m3}
  Fresh = m3
  Immutable = {m1}
  Callers = {w1, w2}
  Mergers = {d1}
  InitAlpha = 1
  InitBeta = 1
  Gain = 37
  NearMiss = 1
  DecayNudge = 1
  GoalGain = 20
  IdentityGain = 50
  DeepDecay = 1
  MaxBeta = 2
SYMMETRY Symmetry
PROPERTIES
  PromotionReinforces
