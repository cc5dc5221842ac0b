--------------------------- MODULE BudgetAccount ---------------------------
(***************************************************************************)
(* The budget account of packages/domain/src/budget-account.ts: holds for  *)
(* estimated usage, settled later with actual usage, released or           *)
(* cancelled.  Commands are delivered at least once and in any order: any  *)
(* command may arrive at any time, again and again.  A delivery that       *)
(* throws, or that is acknowledged without a change, leaves the account as *)
(* it is and is a stuttering step.                                         *)
(*                                                                         *)
(* The four token counts and the duration are summed and limited alike;    *)
(* `units' stands for any one of them.  Soft limits only word a decision   *)
(* and are left out.  Timestamps are compared for equality alone.          *)
(***************************************************************************)
EXTENDS Integers, FiniteSets, Functions

CONSTANTS
  Ids,              \* reservation identifiers
  Amounts,          \* UsageAmounts the callers send
  Times,            \* timestamps
  Null,             \* null and undefined
  UnitLimit,        \* the hard limit on units, or Null
  MoneyLimit,       \* budget.money.limit, or Null
  MaxReservations,  \* MAX_RESERVATIONS_PER_ACCOUNT
  MaxUnits,         \* Number.MAX_SAFE_INTEGER
  MaxMicros         \* MAX_MONEY_MICROS

ASSUME BudgetAssumption ==
  /\ IsFiniteSet(Ids)
  /\ Null \notin Ids \cup Amounts \cup Times
  /\ MaxReservations \in Nat /\ MaxUnits \in Nat /\ MaxMicros \in Nat
  /\ UnitLimit # Null \/ MoneyLimit # Null
  /\ UnitLimit # Null => UnitLimit \in Nat
  /\ MoneyLimit # Null => MoneyLimit.micros \in Nat
  /\ \A a \in Amounts : a.units \in Nat /\ (a.cost # Null => a.cost.micros \in Nat)

VARIABLES
  accountStatus,  \* state.status
  version,        \* state.version
  reservation,    \* state.reservations, "absent" where there is none
  done,           \* history: the commands that changed the account
  working         \* history: holders that have not yet reported back

account == <<accountStatus, version, reservation>>
vars    == <<account, done, working>>

LastVersion == 2 * Cardinality(Ids) + 1

Command(ops, ids, amounts) ==
  [op : ops, id : ids, amounts : amounts, at : Times,
   expected : (0 .. LastVersion) \cup {Null}]

Commands ==
  Command({"reserve", "commit"}, Ids, Amounts)
    \cup Command({"release", "cancel"}, Ids, {Null})
    \cup Command({"cancelAccount"}, {Null}, {Null})

Reservations ==
  [status    : {"absent", "held", "committed", "released", "cancelled"},
   estimate  : Amounts \cup {Null}, actual    : Amounts \cup {Null},
   createdAt : Times \cup {Null},   settledAt : Times \cup {Null}]

Absent == [status |-> "absent", estimate |-> Null, actual |-> Null,
           createdAt |-> Null, settledAt |-> Null]

\* createBudgetAccount
Init ==
  /\ accountStatus = "open"
  /\ version = 0
  /\ reservation = [r \in Ids |-> Absent]
  /\ done = {}
  /\ working = {}

-----------------------------------------------------------------------------
Present    == {r \in Ids : reservation[r].status # "absent"}
Held       == {r \in Ids : reservation[r].status = "held"}
Committed  == {r \in Ids : reservation[r].status = "committed"}
SettledIds == Present \ Held

\* What a reservation counts for: reservedTotals and committedTotals.
Counted(r) == IF r \in Held THEN reservation[r].estimate ELSE reservation[r].actual

Micros(a) == IF a.cost = Null THEN 0 ELSE a.cost.micros
Currencies(as) == {a.cost.currency : a \in {b \in as : b.cost # Null}}

TotalUnits  == SumFunction([r \in Held \cup Committed |-> Counted(r).units])
TotalMicros == SumFunction([r \in Held \cup Committed |-> Micros(Counted(r))])

\* addUsageAmounts does not throw while the totals and `extra' are summed.
Addable(extra) ==
  /\ Cardinality(Currencies({Counted(r) : r \in Held \cup Committed} \cup {extra})) <= 1
  /\ TotalUnits + extra.units <= MaxUnits
  /\ TotalMicros + Micros(extra) <= MaxMicros

\* assertCurrencyMatchesBudget
CurrencyMatchesBudget(a) ==
  MoneyLimit # Null /\ a.cost # Null => a.cost.currency = MoneyLimit.currency

\* Mutated form of Allowed: only what is committed counts.
AllowedByCommitted(estimate) ==
  LET units == SumFunction([r \in Committed |-> Counted(r).units]) IN
  /\ CurrencyMatchesBudget(estimate)
  /\ Addable(estimate)
  /\ UnitLimit # Null => units + estimate.units <= UnitLimit

\* evaluateReservation, collectBreaches: no hard limit is passed.
Allowed(estimate) ==
  /\ CurrencyMatchesBudget(estimate)
  /\ Addable(estimate)
  /\ UnitLimit # Null => TotalUnits + estimate.units <= UnitLimit
  /\ MoneyLimit # Null => TotalMicros + Micros(estimate) <= MoneyLimit.micros

\* checkVersion
VersionMatches(expected) == expected = Null \/ expected = version

-----------------------------------------------------------------------------
\* Mutated form of ReserveBudget: a settled identifier may be used again.
ReserveOverSettled(c) ==
  /\ c.op = "reserve"
  /\ VersionMatches(c.expected)
  /\ c.id \notin Held
  /\ accountStatus = "open"
  /\ Cardinality(Present) < MaxReservations
  /\ Allowed(c.amounts)
  /\ reservation' = [reservation EXCEPT ![c.id] =
       [status |-> "held", estimate |-> c.amounts, actual |-> Null,
        createdAt |-> c.at, settledAt |-> Null]]
  /\ version' = version + 1
  /\ done' = done \cup {c}
  /\ working' = working \cup {c.id}
  /\ UNCHANGED accountStatus

\* reserveBudget
ReserveBudget(c) ==
  /\ c.op = "reserve"
  /\ VersionMatches(c.expected)
  /\ c.id \notin Present
  /\ accountStatus = "open"
  /\ Cardinality(Present) < MaxReservations
  /\ Allowed(c.amounts)
  /\ reservation' = [reservation EXCEPT ![c.id] =
       [status |-> "held", estimate |-> c.amounts, actual |-> Null,
        createdAt |-> c.at, settledAt |-> Null]]
  /\ version' = version + 1
  /\ done' = done \cup {c}
  /\ working' = working \cup {c.id}
  /\ UNCHANGED accountStatus

\* withReservation
WithReservation(c, status, actual) ==
  /\ reservation' = [reservation EXCEPT ![c.id] =
       [@ EXCEPT !.status = status, !.actual = actual, !.settledAt = c.at]]
  /\ version' = version + 1
  /\ done' = done \cup {c}
  /\ working' = working \ {c.id}
  /\ UNCHANGED accountStatus

\* Mutated form of CommitReservation: the currency is not compared.
CommitAnyCurrency(c) ==
  /\ c.op = "commit"
  /\ VersionMatches(c.expected)
  /\ c.id \in Held
  /\ WithReservation(c, "committed", c.amounts)

\* commitReservation
CommitReservation(c) ==
  /\ c.op = "commit"
  /\ CurrencyMatchesBudget(c.amounts)
  /\ VersionMatches(c.expected)
  /\ c.id \in Held
  /\ WithReservation(c, "committed", c.amounts)

\* settleWithoutUsage
SettleWithoutUsage(c, status) ==
  /\ VersionMatches(c.expected)
  /\ c.id \in Held
  /\ WithReservation(c, status, Null)

\* releaseReservation
ReleaseReservation(c) == c.op = "release" /\ SettleWithoutUsage(c, "released")

\* cancelReservation
CancelReservation(c) == c.op = "cancel" /\ SettleWithoutUsage(c, "cancelled")

\* cancelBudgetAccount: the holders of the cancelled reservations go on
\* working until they report.
CancelBudgetAccount(c) ==
  /\ c.op = "cancelAccount"
  /\ VersionMatches(c.expected)
  /\ accountStatus = "open"
  /\ accountStatus' = "cancelled"
  /\ version' = version + 1
  /\ reservation' = [r \in Ids |->
       IF r \in Held
         THEN [reservation[r] EXCEPT !.status = "cancelled", !.settledAt = c.at]
         ELSE reservation[r]]
  /\ done' = done \cup {c}
  /\ UNCHANGED working

Next ==
  \E c \in Commands :
    \/ ReserveBudget(c)
    \/ CommitReservation(c)
    \/ ReleaseReservation(c)
    \/ CancelReservation(c)
    \/ CancelBudgetAccount(c)

Spec == Init /\ [][Next]_vars

-----------------------------------------------------------------------------
\* The type of the account and of its history.
TypeOK ==
  /\ accountStatus \in {"open", "cancelled"}
  /\ version \in 0 .. LastVersion
  /\ reservation \in [Ids -> Reservations]
  /\ done \subseteq Commands
  /\ working \subseteq Ids

\* What parseBudgetAccountState asks of a stored account: after any sequence
\* of commands the next reader can still load it.
ParsesBack ==
  \A r \in Present :
    LET v == reservation[r] IN
    /\ v.estimate \in Amounts /\ v.createdAt \in Times
    /\ (v.status = "held") <=> (v.settledAt = Null)
    /\ (v.status = "committed") <=> (v.actual # Null)
    /\ CurrencyMatchesBudget(v.estimate)
    /\ v.actual # Null => CurrencyMatchesBudget(v.actual)

Excess(actual, estimate) == IF actual > estimate THEN actual - estimate ELSE 0

\* Concurrent holds never spend the same headroom twice: what is held and
\* committed passes a hard limit only by what commits overran their own
\* estimates.
OverrunIsExplained ==
  /\ UnitLimit # Null =>
       TotalUnits <= UnitLimit + SumFunction([r \in Committed |->
         Excess(reservation[r].actual.units, reservation[r].estimate.units)])
  /\ MoneyLimit # Null =>
       TotalMicros <= MoneyLimit.micros + SumFunction([r \in Committed |->
         Excess(Micros(reservation[r].actual), Micros(reservation[r].estimate))])

\* A cancelled account has nothing on hold, whichever command came last.
CancelledHoldsNothing == accountStatus = "cancelled" => Held = {}

\* Every reservation is written at most twice and the account cancelled once,
\* so the version token stays far from the end of the safe integers.
VersionBounded ==
  version <= Cardinality(Present) + Cardinality(SettledIds)
             + (IF accountStatus = "cancelled" THEN 1 ELSE 0)

\* A command delivered again after it took effect never changes the account a
\* second time.
EffectAtMostOnce == [][account' # account => done' # done]_vars

\* A settled reservation never changes again: no over-release, no second
\* commit, no re-use of its identifier.
SettledForGood ==
  [][\A r \in Ids : r \in SettledIds => reservation'[r] = reservation[r]]_vars

=============================================================================
