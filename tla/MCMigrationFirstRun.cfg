SPECIFICATION Spec
CONSTANTS
  activities = activities
  orders = orders
  balance = balance
  skus = skus
  StatusColumns = {activities, orders}
  OtherChecks = {balance}
  OtherDefaults = {skus}
  MaxCrashes = 0
INVARIANT
  RunIsNotRefused
