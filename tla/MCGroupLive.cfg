CONSTANTS
  MemberId = {1, 2, 3}
  eager = eager
  sticky = sticky
  lone = lone
  NoProfile = NoProfile
  Profile = {sticky}
  SessionTimeout <- MCSessionTimeout
  RebalanceTimeout <- MCRebalanceTimeout
  Protocols <- MCProtocols
  ProtocolType = {"consumer"}
  Plan = {p1}
  Connection = {c1, c2}
  MaxEpoch = 2
SPECIFICATION MembershipSpec
PROPERTIES
  RequestsAnswered
  SilentMembersReclaimed
