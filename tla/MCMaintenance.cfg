CONSTANTS
  Consets <- MCConsets
  StackMax = 2
  Kits <- MCKits
  KitTarget <- MCKitTarget
  Slots = 4
  ChestSlots = 2
  MinFree = 2
  Critical = 1
  TargetEach = 1
  StoredEach = 2
  Tolerance = 2
  StackTrigger = 2
  Batch = 1
  ConvertPasses = 1
  ExcessPasses = 1
  MaxRetries = 1
  KeepGold = 0
  DepositAt = 1
  MaxGold = 2
  CharCap = 2
  Floor = 3
  Trigger = 4
  StoreCap = 5
  Starts <- MCStarts
SPECIFICATION Spec
INVARIANT LeavesEquipped
PROPERTY ReserveKept
PROPERTY TargetKept
PROPERTY RoomKept
PROPERTY MaintenanceSettles
CHECK_DEADLOCK FALSE
