CONSTANTS
  pay = pay  again = again  back = back  buy = buy  put = put  put2 = put2
  free = free  take = take  tidy = tidy  k1 = k1  k2 = k2  k3 = k3
  Requests = {pay, again, back, buy, put, put2, free, take, tidy}
  Accounts <- MCAccounts
  Missing <- MCMissing
  Opening <- MCOpening
  Keys = {k1, k2, k3}
  Job <- MCJob
  NoOne = NoOne
  NoAccount = NoAccount
SPECIFICATION Spec
INVARIANTS
  NoOverdraft
  EachKeyOnce
  LedgerBalances
PROPERTIES
  FailsForCause
  
  OnlySweepsDeadlock
  HeldDriftsOnlyLate
  EveryRequestReturns
CHECK_DEADLOCK FALSE
