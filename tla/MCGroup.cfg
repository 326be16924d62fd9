CONSTANTS
  MemberId = {1, 2}
  eager = eager
  sticky = sticky
  lone = lone
  NoProfile = NoProfile
  Profile = {eager, sticky, lone}
  SessionTimeout <- MCSessionTimeout
  RebalanceTimeout <- MCRebalanceTimeout
  Protocols <- MCProtocols
  ProtocolType = {"consumer", "connect"}
  Plan = {p1, p2}
  Connection = {c1, c2}
  MaxEpoch = 2
SPECIFICATION OffersSpec
SYMMETRY Symmetry
INVARIANTS
  PhaseConsistent
  GenerationAgreed
  RebalanceIsTimed
  NoLostWakeup
  DriverNeverLate
  PendingIsConsumed
  OnePlanPerGeneration
  ProtocolShared
PROPERTIES
  SleepersAreNotExpired
  KeepsPromise
