CONSTANTS
  pay = pay  again = again  back = back  buy = buy  put = put  put2 = put2
  free = free  take = take  tidy = tidy  k1 = k1  k2 = k2  k3 = k3
  Requests = {put, free, take, tidy}
  Accounts <- MCAccounts
  Missing <- MCMissing
  Opening <- MCOpening
  Keys = {k1, k2, k3}
  Job <- MCJob
  NoOne = NoOne
  NoAccount = NoAccount
SPECIFICATION Spec
INVARIANT HeldIsActiveHolds
CHECK_DEADLOCK FALSE
