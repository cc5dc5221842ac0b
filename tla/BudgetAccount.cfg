SPECIFICATION Spec
CONSTANTS
  usd = usd
  eur = eur
  Ids = {r1, r2, r3, r4}
  Amounts <- MCAmounts
  Times = {t1}
  Null = Null
  UnitLimit = 3
  MoneyLimit <- MCMoneyLimit
  MaxReservations = 3
  MaxUnits = 100
  MaxMicros = 100
SYMMETRY Symmetry
CHECK_DEADLOCK FALSE
INVARIANTS ParsesBack OverrunIsExplained
PROPERTIES EffectAtMostOnce
