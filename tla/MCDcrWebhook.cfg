CONSTANTS
  None = None
  Unnamed = Unnamed
  Other = Other
  c1 = c1
  c2 = c2
  s1 = s1
  s2 = s2
  Clients <- MCClients
  Slots <- MCSlots
  Batches <- MCBatches
  Settings <- MCSettings
  MaxDeliveries = 3
  MaxFaults = 1
SPECIFICATION Spec
SYMMETRY SlotsAreAlike
INVARIANTS TypeOK OnlyPromotedClients AcknowledgedAreGranted EnabledUnlessOverlapped
