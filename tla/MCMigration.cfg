SPECIFICATION FairSpec
CONSTANTS
  activities = activities
  orders = orders
  balance = balance
  skus = skus
  StatusColumns = {activities, orders}
  OtherChecks = {balance}
  OtherDefaults = {skus}
  MaxCrashes = 2
INVARIANTS
  StrictCheckHolds
  CompletedMeansMigrated
PROPERTIES
  ProgressKept
  EventuallyMigrated
