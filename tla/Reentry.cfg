SPECIFICATION FairSpec
CONSTANTS
  Pins = {p1}
  Attached = {"none", "change"}
  Capacity = 2
  MaxStack = 3
  MaxRaised = 3
INVARIANTS TypeOK DeviceRunsAlone NothingLeftBehind
PROPERTIES HandlerSeesAllDelivered KeepsDeferralContract HeldIsDelivered
