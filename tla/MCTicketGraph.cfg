SPECIFICATION GraphSpec
CONSTANTS
  TicketIds = {t1, t2}
  Budgets = {b1}
  NoBudget = NoBudget
  MaxRevised = 2
  n1 = n1
  n2 = n2
  n3 = n3
 
 
INVARIANT OnlyIntegrationSatisfies
 
SYMMETRY Symmetry
