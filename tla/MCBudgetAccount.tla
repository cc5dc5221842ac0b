-------------------------- MODULE MCBudgetAccount --------------------------
(* A small instance of BudgetAccount: amounts with and without a price, in   *)
(* two currencies.                                                           *)
EXTENDS BudgetAccount, TLC

CONSTANTS usd, eur

Usd(micros) == [currency |-> usd, micros |-> micros]
Eur(micros) == [currency |-> eur, micros |-> micros]

MCAmounts ==
  {[units |-> 1, cost |-> Usd(1)], [units |-> 2, cost |-> Null],
   [units |-> 1, cost |-> Eur(2)]}

MCMoneyLimit == Usd(2)

Symmetry == Permutations(Ids) \cup Permutations(Times)
=============================================================================
