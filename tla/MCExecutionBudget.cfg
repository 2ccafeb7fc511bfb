SPECIFICATION Spec
CONSTANTS
  Leader = leader
  Main = main
  Nobody = Nobody
  NoUsage = NoUsage
  Members = {engineer}
  Stoppable = {engineer, leader}
  Budgets <- Definitions
  Allowances = {0}
  MaxTime = 1
  MaxCount = 1
  MaxFaults = 1
INVARIANT EmittedOnce
INVARIANT DeliveredWasReceived
PROPERTY StopLatches
PROPERTY AccountingIsKept
 
PROPERTY NoticesArrive
