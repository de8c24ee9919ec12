SPECIFICATION Spec
CONSTANTS
  Orders = {a}
  Plans = {a}
  PlanOf <- OwnPlan
  Week = 2
  Month = 3
  MaxDay = 3
  MaxViews = 1
INVARIANTS
  PeriodsAreNested
PROPERTIES
  TotalsNeverShrink
  ActivityIsComplete
