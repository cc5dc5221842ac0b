------------------------- MODULE AccountingProofs -------------------------
(***************************************************************************)
(* Proofs about the two parts that keep accounts: BudgetAccount, whose     *)
(* holds and commits are summed against hard limits, and OllamaProvider,   *)
(* whose capacity manager counts leases up and down.  Both rest on lemmas  *)
(* about sums over finite sets, which come first and are proved by taking  *)
(* a smallest counterexample.                                              *)
(*                                                                         *)
(* BudgetInv is inductive: the types, the rules of                         *)
(* parseBudgetAccountState, the count of effective mutations and the       *)
(* absence of holds on a cancelled account.                                *)
(***************************************************************************)
EXTENDS BudgetAccount, OllamaProvider, FiniteSetTheorems, WellFoundedInduction, TLAPS

-----------------------------------------------------------------------------
(* Sums over finite sets                                                   *)

\* The sums of f over the subsets of S, tabulated.
IsTable(h, f, S) ==
  /\ h \in [SUBSET S -> Int] /\ h[{}] = 0
  /\ \A s \in SUBSET S : \A x \in S \ s : h[s \cup {x}] = h[s] + f[x]

\* A non-empty set of finite sets has an element without a smaller one.
LEMMA SmallestSet ==
  ASSUME NEW S, IsFiniteSet(S), NEW T, T \subseteq SUBSET S, T # {}
  PROVE  \E s \in T : \A x \in s : s \ {x} \notin T
<1>1. T \subseteq FiniteSubsetsOf(S)
  BY FS_FiniteSubsetsOfFinite
<1>2. PICK s \in T : \A t \in T : ~(<<t, s>> \in StrictSubsetOrdering(S))
  BY <1>1, WFMin, FS_StrictSubsetOrderingWellFounded, Zenon
<1>3. ASSUME NEW x \in s, s \ {x} \in T PROVE FALSE
  <2>1. <<s \ {x}, s>> \in StrictSubsetOrdering(S)
    BY <1>3 DEF StrictSubsetOrdering
  <2>. QED BY <1>2, <1>3, <2>1
<1>. QED BY <1>3

\* Every function on a finite set has such a table.
LEMMA TableExists ==
  ASSUME NEW S, IsFiniteSet(S), NEW f, \A x \in S : f[x] \in Int
  PROVE  \E h : IsTable(h, f, S)
<1>. DEFINE T == {s \in SUBSET S : ~\E h : IsTable(h, f, s)}
<1>. SUFFICES ASSUME T # {} PROVE FALSE
  OBVIOUS
<1>1. PICK s \in T : \A x \in s : s \ {x} \notin T
  BY SmallestSet
<1>2. CASE s = {}
  <2>1. PICK h : h = [t \in SUBSET {} |-> 0]
    OBVIOUS
  <2>2. IsTable(h, f, {})
    BY <2>1 DEF IsTable
  <2>. QED BY <1>2, <2>2
<1>3. ASSUME NEW x \in s PROVE FALSE
  <2>1. PICK g : IsTable(g, f, s \ {x})
    BY <1>1
  <2>2. PICK h : h = [t \in SUBSET s |-> IF x \in t THEN g[t \ {x}] + f[x] ELSE g[t]]
    OBVIOUS
  <2>3. \A t \in SUBSET s : /\ t \ {x} \in SUBSET (s \ {x})
                            /\ x \notin t => t \in SUBSET (s \ {x})
    OBVIOUS
  <2>4. f[x] \in Int /\ g \in [SUBSET (s \ {x}) -> Int]
    BY <2>1 DEF IsTable
  <2>5. h \in [SUBSET s -> Int] /\ h[{}] = 0
    BY <2>1, <2>2, <2>3, <2>4 DEF IsTable
  <2>6. ASSUME NEW t \in SUBSET s, NEW y \in s \ t PROVE h[t \cup {y}] = h[t] + f[y]
    <3>1. t \cup {y} \in SUBSET s
      OBVIOUS
    <3>2. CASE y = x
      <4>1. (t \cup {y}) \ {x} = t /\ x \notin t
        BY <3>2
      <4>. QED BY <2>2, <3>1, <3>2, <4>1
    <3>3. CASE y # x /\ x \in t
      <4>1. (t \cup {y}) \ {x} = (t \ {x}) \cup {y} /\ y \in (s \ {x}) \ (t \ {x})
        BY <3>3
      <4>2. g[(t \ {x}) \cup {y}] = g[t \ {x}] + f[y]
        BY <2>1, <2>3, <4>1 DEF IsTable
      <4>3. f[y] \in Int /\ g[t \ {x}] \in Int
        BY <2>3, <2>4
      <4>4. h[t \cup {y}] = g[(t \cup {y}) \ {x}] + f[x] /\ h[t] = g[t \ {x}] + f[x]
        BY <2>2, <3>1, <3>3
      <4>5. g[(t \cup {y}) \ {x}] = g[t \ {x}] + f[y]
        BY <4>1, <4>2, Zenon
      <4>. QED BY <2>4, <4>3, <4>4, <4>5
    <3>4. CASE y # x /\ x \notin t
      <4>1. g[t \cup {y}] = g[t] + f[y]
        BY <2>1, <2>3, <3>4 DEF IsTable
      <4>. QED BY <2>2, <3>1, <3>4, <4>1
    <3>. QED BY <3>2, <3>3, <3>4
  <2>7. IsTable(h, f, s)
    BY <2>5, <2>6 DEF IsTable
  <2>. QED BY <2>7
<1>. QED BY <1>2, <1>3

\* SumFunctionOnSet as the recursive function it is defined by.
LEMMA SumUnfolded ==
  ASSUME NEW f, NEW S
  PROVE  SumFunctionOnSet(f, S) =
           (CHOOSE g : g = [s \in SUBSET S |->
              IF s = {} THEN 0
              ELSE f[CHOOSE x \in s : TRUE] + g[s \ {CHOOSE x \in s : TRUE}]])[S]
BY DEF SumFunctionOnSet, FoldFunctionOnSet, MapThenFoldSet

\* The sum over a finite set is read off the table.
LEMMA SumFromTable ==
  ASSUME NEW S, IsFiniteSet(S), NEW f, \A x \in S : f[x] \in Int, NEW h, IsTable(h, f, S)
  PROVE  SumFunctionOnSet(f, S) = h[S]
<1>. DEFINE pick(s) == CHOOSE x \in s : TRUE
            Rec(g) == g = [s \in SUBSET S |-> IF s = {} THEN 0 ELSE f[pick(s)] + g[s \ {pick(s)}]]
<1>1. \A s \in SUBSET S : s # {} => /\ pick(s) \in s /\ s \ {pick(s)} \in SUBSET S
                                    /\ s = (s \ {pick(s)}) \cup {pick(s)}
                                    /\ pick(s) \in S \ (s \ {pick(s)})
  <2>. SUFFICES ASSUME NEW s \in SUBSET S, s # {} PROVE pick(s) \in s
    BY Zenon
  <2>. QED OBVIOUS
<1>2. PICK iter : iter = CHOOSE g : Rec(g)
  OBVIOUS
<1>3. Rec(h)
  <2>1. \A s \in SUBSET S : h[s] = IF s = {} THEN 0 ELSE f[pick(s)] + h[s \ {pick(s)}]
    <3>. SUFFICES ASSUME NEW s \in SUBSET S, s # {} PROVE h[s] = f[pick(s)] + h[s \ {pick(s)}]
      BY DEF IsTable
    <3>0. PICK x : x = pick(s)
      OBVIOUS
    <3>1. x \in s /\ s \ {x} \in SUBSET S /\ s = (s \ {x}) \cup {x} /\ x \in S \ (s \ {x})
      BY <1>1, <3>0
    <3>2. h[(s \ {x}) \cup {x}] = h[s \ {x}] + f[x] /\ h[s \ {x}] \in Int /\ f[x] \in Int
      BY <3>1 DEF IsTable
    <3>3. h[s] = h[(s \ {x}) \cup {x}]
      BY <3>1, Zenon
    <3>4. h[s] = f[x] + h[s \ {x}]
      BY <3>2, <3>3
    <3>. QED BY <3>0, <3>4, Zenon
  <2>. HIDE DEF pick
  <2>. QED BY <2>1 DEF IsTable
<1>4. Rec(iter)
  BY <1>2, <1>3, Zenon
<1>5. SumFunctionOnSet(f, S) = iter[S]
  BY <1>2, SumUnfolded, Zenon
<1>. DEFINE T == {s \in SUBSET S : iter[s] # h[s]}
<1>6. T = {}
  <2>. SUFFICES ASSUME T # {} PROVE FALSE
    OBVIOUS
  <2>1. PICK s \in T : \A x \in s : s \ {x} \notin T
    BY SmallestSet
  <2>2. s # {}
    BY <1>3, <1>4, <2>1
  <2>3. PICK x : x = pick(s)
    OBVIOUS
  <2>4. x \in s /\ s \ {x} \in SUBSET S
    BY <1>1, <2>1, <2>2, <2>3
  <2>5. iter[s \ {x}] = h[s \ {x}]
    BY <2>1, <2>4
  <2>6. iter[s] = f[x] + iter[s \ {x}] /\ h[s] = f[x] + h[s \ {x}]
    <3>. HIDE DEF pick
    <3>. QED BY <1>3, <1>4, <2>1, <2>2, <2>3
  <2>. QED BY <2>1, <2>5, <2>6
<1>. QED BY <1>5, <1>6

\* The table of a set serves its subsets.
LEMMA SumOfSubset ==
  ASSUME NEW S, IsFiniteSet(S), NEW f, \A x \in S : f[x] \in Int, NEW h, IsTable(h, f, S), NEW t \in SUBSET S
  PROVE  SumFunctionOnSet(f, t) = h[t]
<1>1. PICK g : g = [s \in SUBSET t |-> h[s]]
  OBVIOUS
<1>2. \A s \in SUBSET t : s \in SUBSET S /\ \A x \in t \ s : s \cup {x} \in SUBSET t /\ x \in S \ s
  OBVIOUS
<1>3. IsTable(g, f, t)
  BY <1>1, <1>2 DEF IsTable
<1>4. IsFiniteSet(t) /\ \A x \in t : f[x] \in Int
  BY FS_Subset
<1>. QED BY <1>1, <1>3, <1>4, SumFromTable

\* A sum over a finite set is an integer, nothing over the empty set, and grows
\* by what an element adds.
LEMMA SumBasics ==
  ASSUME NEW S, IsFiniteSet(S), NEW f, \A x \in S : f[x] \in Int
  PROVE  /\ SumFunctionOnSet(f, S) \in Int
         /\ S = {} => SumFunctionOnSet(f, S) = 0
         /\ \A x \in S : SumFunctionOnSet(f, S) = SumFunctionOnSet(f, S \ {x}) + f[x]
<1>1. PICK h : IsTable(h, f, S)
  BY TableExists
<1>2. \A t \in SUBSET S : SumFunctionOnSet(f, t) = h[t]
  BY <1>1, SumOfSubset
<1>3. ASSUME NEW x \in S PROVE h[S] = h[S \ {x}] + f[x]
  <2>1. S \ {x} \in SUBSET S /\ x \in S \ (S \ {x}) /\ (S \ {x}) \cup {x} = S
    OBVIOUS
  <2>. QED BY <1>1, <2>1 DEF IsTable
<1>4. S \in SUBSET S /\ \A x \in S : S \ {x} \in SUBSET S
  OBVIOUS
<1>5. h[S] \in Int /\ (S = {} => h[S] = 0)
  BY <1>1, <1>4 DEF IsTable
<1>. QED BY <1>2, <1>3, <1>4, <1>5

\* Functions that agree on a set have one sum over it.
LEMMA SumSame ==
  ASSUME NEW S, IsFiniteSet(S), NEW f, NEW g, \A x \in S : f[x] \in Int /\ g[x] = f[x]
  PROVE  SumFunctionOnSet(g, S) = SumFunctionOnSet(f, S)
<1>1. PICK h : IsTable(h, f, S)
  BY TableExists
<1>2. IsTable(h, g, S)
  BY <1>1 DEF IsTable
<1>. QED BY <1>1, <1>2, SumFromTable

\* A sum over more, of no less, is no less.
LEMMA SumGrows ==
  ASSUME NEW S, IsFiniteSet(S), NEW R \in SUBSET S, NEW f, NEW g,
         \A x \in R : f[x] \in Int, \A x \in S : g[x] \in Int,
         \A x \in R : f[x] <= g[x], \A x \in S \ R : 0 <= g[x]
  PROVE  SumFunctionOnSet(f, R) <= SumFunctionOnSet(g, S)
<1>. DEFINE T == {s \in SUBSET S : ~(SumFunctionOnSet(f, s \cap R) <= SumFunctionOnSet(g, s))}
<1>1. ASSUME T # {} PROVE FALSE
  <2>1. PICK s \in T : \A x \in s : s \ {x} \notin T
    BY <1>1, SmallestSet
  <2>2. /\ s \in SUBSET S /\ IsFiniteSet(s) /\ IsFiniteSet(s \cap R)
        /\ \A x \in s : g[x] \in Int
        /\ \A x \in s \cap R : f[x] \in Int
    BY FS_Subset
  <2>3. CASE s = {}
    <3>1. s \cap R = {}
      BY <2>3
    <3>2. SumFunctionOnSet(f, s \cap R) = 0 /\ SumFunctionOnSet(g, s) = 0
      BY <2>2, <2>3, <3>1, SumBasics
    <3>. QED BY <2>1, <3>2
  <2>4. ASSUME NEW x \in s PROVE FALSE
    <3>1. s \ {x} \in SUBSET S /\ s \ {x} \notin T
      BY <2>1
    <3>2. SumFunctionOnSet(f, (s \ {x}) \cap R) <= SumFunctionOnSet(g, s \ {x})
      BY <3>1
    <3>3. SumFunctionOnSet(g, s) = SumFunctionOnSet(g, s \ {x}) + g[x]
      BY <2>2, SumBasics
    <3>4. /\ IsFiniteSet(s \ {x}) /\ \A y \in s \ {x} : g[y] \in Int
          /\ IsFiniteSet((s \ {x}) \cap R) /\ \A y \in (s \ {x}) \cap R : f[y] \in Int
      BY <2>2, FS_Subset
    <3>5. /\ SumFunctionOnSet(g, s \ {x}) \in Int
          /\ SumFunctionOnSet(f, (s \ {x}) \cap R) \in Int
      BY <3>4, SumBasics
    <3>6. g[x] \in Int
      BY <2>2
    <3>7. CASE x \in R
      <4>1. (s \cap R) \ {x} = (s \ {x}) \cap R /\ x \in s \cap R
        BY <3>7
      <4>2. SumFunctionOnSet(f, s \cap R) = SumFunctionOnSet(f, (s \ {x}) \cap R) + f[x]
        <5>1. SumFunctionOnSet(f, s \cap R) = SumFunctionOnSet(f, (s \cap R) \ {x}) + f[x]
          BY <2>2, <4>1, SumBasics
        <5>. QED BY <4>1, <5>1, Zenon
      <4>3. f[x] \in Int /\ f[x] <= g[x]
        BY <3>7
      <4>4. SumFunctionOnSet(f, s \cap R) <= SumFunctionOnSet(g, s)
        BY <3>2, <3>3, <3>5, <3>6, <4>2, <4>3
      <4>. QED BY <2>1, <4>4
    <3>8. CASE x \notin R
      <4>1. s \cap R = (s \ {x}) \cap R
        BY <3>8
      <4>2. 0 <= g[x]
        BY <2>2, <3>8
      <4>3. SumFunctionOnSet(f, s \cap R) = SumFunctionOnSet(f, (s \ {x}) \cap R)
        BY <4>1, Zenon
      <4>4. SumFunctionOnSet(f, s \cap R) <= SumFunctionOnSet(g, s)
        BY <3>2, <3>3, <3>5, <3>6, <4>2, <4>3
      <4>. QED BY <2>1, <4>4
    <3>. QED BY <3>7, <3>8
  <2>. QED BY <2>3, <2>4
<1>2. S \cap R = R /\ S \in SUBSET S
  OBVIOUS
<1>3. S \notin T
  BY <1>1
<1>. QED BY <1>2, <1>3

-----------------------------------------------------------------------------
(* The budget account                                                      *)

\* The type invariant with an unbounded version.
Types ==
  /\ accountStatus \in {"open", "cancelled"}
  /\ version \in Nat
  /\ reservation \in [Ids -> Reservations]
  /\ done \subseteq Commands
  /\ working \subseteq Ids

BudgetInv == Types /\ ParsesBack /\ CancelledHoldsNothing /\ VersionBounded

\* The fields of a command are of the types its operation asks for.
LEMMA CommandFields ==
  ASSUME NEW c \in Commands
  PROVE  /\ c.at \in Times
         /\ c.op # "cancelAccount" => c.id \in Ids
         /\ c.op \in {"reserve", "commit"} => c.amounts \in Amounts
         /\ c.op \notin {"reserve", "commit"} => c.amounts = Null
BY DEF Commands, Command

\* The sets that the invariant counts are finite.
LEMMA CountedSets ==
  /\ IsFiniteSet(Present) /\ IsFiniteSet(SettledIds)
  /\ Cardinality(Present) \in Nat /\ Cardinality(SettledIds) \in Nat
  /\ Cardinality(Present) <= Cardinality(Ids)
  /\ Cardinality(SettledIds) <= Cardinality(Ids)
  /\ Cardinality(Ids) \in Nat
<1>1. IsFiniteSet(Ids)
  BY BudgetAssumption
<1>2. Present \subseteq Ids /\ SettledIds \subseteq Ids
  BY DEF Present, SettledIds
<1>3. /\ IsFiniteSet(Present) /\ Cardinality(Present) <= Cardinality(Ids)
      /\ IsFiniteSet(SettledIds) /\ Cardinality(SettledIds) <= Cardinality(Ids)
  BY <1>1, <1>2, FS_Subset
<1>. QED
  BY <1>1, <1>3, FS_CardinalityType

\* The two kinds of step on one reservation, and the step on all of them.
LEMMA ReserveShape ==
  ASSUME Types, NEW c \in Commands, ReserveBudget(c)
  PROVE  /\ c.id \in Ids \ Present /\ accountStatus = "open"
         /\ c.amounts \in Amounts /\ CurrencyMatchesBudget(c.amounts)
         /\ reservation' = [reservation EXCEPT ![c.id] =
              [status |-> "held", estimate |-> c.amounts, actual |-> Null,
               createdAt |-> c.at, settledAt |-> Null]]
         /\ version' = version + 1 /\ accountStatus' = accountStatus
         /\ done' = done \cup {c} /\ working' = working \cup {c.id}
BY CommandFields DEF ReserveBudget, Allowed

\* What settling a reservation does to its record and to the others.
LEMMA SettleShape ==
  ASSUME Types, NEW c \in Commands,
         CommitReservation(c) \/ ReleaseReservation(c) \/ CancelReservation(c)
  PROVE  \E status \in {"committed", "released", "cancelled"},
            actual \in Amounts \cup {Null} :
         /\ c.id \in Held
         /\ WithReservation(c, status, actual)
         /\ (status = "committed") <=> (actual # Null)
         /\ actual # Null => CurrencyMatchesBudget(actual)
<1>1. CASE CommitReservation(c)
  <2>1. c.amounts \in Amounts /\ c.amounts # Null
    BY <1>1, CommandFields, BudgetAssumption DEF CommitReservation
  <2>. QED
    BY <1>1, <2>1 DEF CommitReservation
<1>2. CASE ReleaseReservation(c)
  BY <1>2 DEF ReleaseReservation, SettleWithoutUsage
<1>3. CASE CancelReservation(c)
  BY <1>3 DEF CancelReservation, SettleWithoutUsage
<1>. QED
  BY <1>1, <1>2, <1>3

\* The initial account.
LEMMA InitInv == Init => BudgetInv
<1>. SUFFICES ASSUME Init PROVE BudgetInv
  OBVIOUS
<1>1. Types /\ Present = {} /\ Held = {} /\ SettledIds = {}
  BY DEF Init, Types, Absent, Reservations, Present, Held, SettledIds
<1>2. VersionBounded
  BY <1>1, FS_EmptySet DEF VersionBounded, Init
<1>. QED
  BY <1>1, <1>2 DEF BudgetInv, ParsesBack, CancelledHoldsNothing

\* Every step of the account keeps BudgetInv.
LEMMA StepInv == BudgetInv /\ [Next]_vars => BudgetInv'
<1>. SUFFICES ASSUME BudgetInv, [Next]_vars PROVE BudgetInv'
  OBVIOUS
<1>. USE DEF BudgetInv
<1>1. ASSUME NEW c \in Commands, ReserveBudget(c) PROVE BudgetInv'
  <2>. DEFINE new == [status |-> "held", estimate |-> c.amounts, actual |-> Null,
                      createdAt |-> c.at, settledAt |-> Null]
  <2>1. /\ c.id \in Ids \ Present /\ accountStatus = "open"
        /\ c.amounts \in Amounts /\ CurrencyMatchesBudget(c.amounts)
        /\ reservation' = [reservation EXCEPT ![c.id] = new]
        /\ version' = version + 1 /\ accountStatus' = accountStatus
        /\ done' = done \cup {c} /\ working' = working \cup {c.id}
        /\ c.at \in Times
    BY <1>1, ReserveShape, CommandFields
  <2>2. new \in Reservations /\ new.status = "held"
    BY <2>1 DEF Reservations
  <2>. HIDE DEF new
  <2>3. Types'
    BY <2>1, <2>2 DEF Types
  <2>4. Present' = Present \cup {c.id} /\ SettledIds' = SettledIds
    BY <2>1, <2>2 DEF Types, Present, Held, SettledIds
  <2>5. Cardinality(Present') = Cardinality(Present) + 1
    BY <2>1, <2>4, CountedSets, FS_AddElement
  <2>6. VersionBounded'
    BY <2>1, <2>4, <2>5, CountedSets DEF VersionBounded, Types
  <2>7. CancelledHoldsNothing'
    BY <2>1 DEF CancelledHoldsNothing
  <2>8. ParsesBack'
    <3>. SUFFICES ASSUME NEW r \in Present' PROVE ParsesBack!(r)'
      BY DEF ParsesBack
    <3>1. CASE r = c.id
      BY <3>1, <2>1, BudgetAssumption DEF Types, new, CurrencyMatchesBudget
    <3>2. CASE r # c.id
      <4>1. r \in Present /\ reservation'[r] = reservation[r]
        BY <3>2, <2>1, <2>4 DEF Types, Present
      <4>. QED
        BY <4>1 DEF ParsesBack, CurrencyMatchesBudget
    <3>. QED
      BY <3>1, <3>2
  <2>. QED
    BY <2>3, <2>6, <2>7, <2>8
<1>2. ASSUME NEW c \in Commands,
             CommitReservation(c) \/ ReleaseReservation(c) \/ CancelReservation(c)
      PROVE  BudgetInv'
  <2>1. PICK status \in {"committed", "released", "cancelled"},
             actual \in Amounts \cup {Null} :
         /\ c.id \in Held
         /\ WithReservation(c, status, actual)
         /\ (status = "committed") <=> (actual # Null)
         /\ actual # Null => CurrencyMatchesBudget(actual)
    BY <1>2, SettleShape
  <2>. DEFINE old == reservation[c.id]
              new == [old EXCEPT !.status = status, !.actual = actual, !.settledAt = c.at]
  <2>2. /\ c.id \in Ids /\ c.id \in Present /\ c.id \notin SettledIds
        /\ old \in Reservations
        /\ reservation' = [reservation EXCEPT ![c.id] = new]
        /\ version' = version + 1 /\ accountStatus' = accountStatus
        /\ done' = done \cup {c} /\ working' = working \ {c.id}
        /\ c.at \in Times
    BY <2>1, CommandFields DEF WithReservation, Held, Present, SettledIds, Types
  <2>3. /\ new \in Reservations /\ new.status = status /\ new.actual = actual
        /\ new.settledAt = c.at /\ new.estimate = old.estimate
        /\ new.createdAt = old.createdAt
    BY <2>2 DEF Reservations
  <2>. HIDE DEF new
  <2>4. Types'
    BY <2>2, <2>3 DEF Types
  <2>5. Present' = Present /\ SettledIds' = SettledIds \cup {c.id} /\ Held' = Held \ {c.id}
    BY <2>2, <2>3 DEF Types, Present, Held, SettledIds
  <2>6. Cardinality(SettledIds') = Cardinality(SettledIds) + 1
    BY <2>2, <2>5, CountedSets, FS_AddElement
  <2>7. VersionBounded'
    BY <2>2, <2>5, <2>6, CountedSets DEF VersionBounded, Types
  <2>8. CancelledHoldsNothing'
    BY <2>2, <2>5 DEF CancelledHoldsNothing
  <2>9. ParsesBack'
    <3>. SUFFICES ASSUME NEW r \in Present' PROVE ParsesBack!(r)'
      BY DEF ParsesBack
    <3>1. CASE r = c.id
      <4>1. old.estimate \in Amounts /\ old.createdAt \in Times
             /\ CurrencyMatchesBudget(old.estimate)
        BY <2>2 DEF ParsesBack
      <4>2. reservation'[r] = new
        BY <3>1, <2>2 DEF Types
      <4>3. c.at # Null
        BY <2>2, BudgetAssumption
      <4>. QED
        BY <4>1, <4>2, <4>3, <2>1, <2>3 DEF CurrencyMatchesBudget
    <3>2. CASE r # c.id
      <4>1. r \in Present /\ reservation'[r] = reservation[r]
        BY <3>2, <2>2, <2>5 DEF Types, Present
      <4>. QED
        BY <4>1 DEF ParsesBack, CurrencyMatchesBudget
    <3>. QED
      BY <3>1, <3>2
  <2>. QED
    BY <2>4, <2>7, <2>8, <2>9
<1>3. ASSUME NEW c \in Commands, CancelBudgetAccount(c) PROVE BudgetInv'
  <2>. DEFINE cancelled(r) ==
         [reservation[r] EXCEPT !.status = "cancelled", !.settledAt = c.at]
  <2>1. /\ accountStatus = "open" /\ accountStatus' = "cancelled"
        /\ version' = version + 1 /\ working' = working /\ done' = done \cup {c}
        /\ reservation' = [r \in Ids |-> IF r \in Held THEN cancelled(r) ELSE reservation[r]]
        /\ c.at \in Times /\ c.at # Null
    BY <1>3, CommandFields, BudgetAssumption DEF CancelBudgetAccount
  <2>2. ASSUME NEW r \in Ids
        PROVE  /\ cancelled(r) \in Reservations /\ cancelled(r).status = "cancelled"
               /\ cancelled(r).actual = reservation[r].actual
               /\ cancelled(r).estimate = reservation[r].estimate
               /\ cancelled(r).createdAt = reservation[r].createdAt
               /\ cancelled(r).settledAt = c.at
    <3>1. reservation[r] \in Reservations
      BY DEF Types
    <3>. QED
      BY <2>1, <3>1 DEF Reservations
  <2>. HIDE DEF cancelled
  <2>3. Types'
    BY <2>1, <2>2 DEF Types
  <2>4. Present' = Present /\ Held' = {} /\ SettledIds' = Present
    BY <2>1, <2>2 DEF Types, Present, Held, SettledIds
  <2>5. SettledIds \subseteq Present
    BY DEF SettledIds
  <2>6. Cardinality(SettledIds) <= Cardinality(SettledIds')
    BY <2>4, <2>5, CountedSets, FS_Subset
  <2>7. VersionBounded'
    <3>1. Cardinality(SettledIds') \in Nat
      BY <2>4, CountedSets
    <3>. QED
      BY <2>1, <2>4, <2>6, <3>1, CountedSets DEF VersionBounded, Types
  <2>8. CancelledHoldsNothing'
    BY <2>4 DEF CancelledHoldsNothing
  <2>9. ParsesBack'
    <3>. SUFFICES ASSUME NEW r \in Present' PROVE ParsesBack!(r)'
      BY DEF ParsesBack
    <3>0. r \in Present /\ r \in Ids
      BY <2>4 DEF Present
    <3>1. CASE r \in Held
      <4>1. reservation'[r] = cancelled(r) /\ reservation[r].actual = Null
        BY <3>0, <3>1, <2>1 DEF ParsesBack, Held, Types
      <4>. QED
        BY <4>1, <3>0, <2>1, <2>2 DEF ParsesBack, CurrencyMatchesBudget
    <3>2. CASE r \notin Held
      <4>1. reservation'[r] = reservation[r]
        BY <3>0, <3>2, <2>1
      <4>. QED
        BY <4>1, <3>0 DEF ParsesBack, CurrencyMatchesBudget
    <3>. QED
      BY <3>1, <3>2
  <2>. QED
    BY <2>3, <2>7, <2>8, <2>9
<1>4. ASSUME UNCHANGED vars PROVE BudgetInv'
  BY <1>4 DEF vars, account, Types, ParsesBack, CancelledHoldsNothing, VersionBounded,
              Present, Held, SettledIds, CurrencyMatchesBudget
<1>. QED
  BY <1>1, <1>2, <1>3, <1>4 DEF Next

\* The invariant of the account holds after every command.
LEMMA BudgetInvariance == Spec => []BudgetInv
BY InitInv, StepInv, PTL DEF Spec

\* Every field of the account keeps its type, and the version stays within
\* two writes of each reservation and one cancellation.
THEOREM TypeCorrect == Spec => []TypeOK
<1>1. BudgetInv => TypeOK
  BY CountedSets DEF BudgetInv, Types, VersionBounded, TypeOK, LastVersion
<1>. QED
  BY <1>1, BudgetInvariance, PTL

\* An account that was written by any sequence of commands is one that
\* parseBudgetAccountState accepts.
THEOREM AccountParsesBack == Spec => []ParsesBack
BY BudgetInvariance, PTL DEF BudgetInv

\* cancelBudgetAccount leaves no hold behind and none is placed afterwards.
THEOREM CancelledAccountHoldsNothing == Spec => []CancelledHoldsNothing
BY BudgetInvariance, PTL DEF BudgetInv

\* No command changes a reservation that is committed, released or cancelled.
THEOREM SettledReservationsStay == Spec => SettledForGood
<1>. DEFINE Keep == \A r \in Ids : r \in SettledIds => reservation'[r] = reservation[r]
<1>1. BudgetInv /\ [Next]_vars => [Keep]_vars
  <2>. SUFFICES ASSUME BudgetInv, NEW c \in Commands, NEW r \in SettledIds,
                       \/ ReserveBudget(c)
                       \/ CommitReservation(c) \/ ReleaseReservation(c)
                            \/ CancelReservation(c)
                       \/ CancelBudgetAccount(c)
                PROVE  reservation'[r] = reservation[r]
    BY DEF Next
  <2>0. r \in Ids /\ r \in Present /\ r \notin Held
    BY DEF SettledIds, Present
  <2>1. CASE ReserveBudget(c)
    <3>1. c.id # r
      BY <2>0, <2>1 DEF ReserveBudget
    <3>. QED
      BY <2>0, <2>1, <3>1 DEF ReserveBudget, BudgetInv, Types
  <2>2. CASE CommitReservation(c) \/ ReleaseReservation(c) \/ CancelReservation(c)
    <3>1. c.id # r
      BY <2>0, <2>2 DEF CommitReservation, ReleaseReservation, CancelReservation,
                        SettleWithoutUsage
    <3>. QED
      BY <2>0, <2>2, <3>1 DEF CommitReservation, ReleaseReservation, CancelReservation,
                        SettleWithoutUsage, WithReservation, BudgetInv, Types
  <2>3. CASE CancelBudgetAccount(c)
    BY <2>0, <2>3 DEF CancelBudgetAccount
  <2>. QED
    BY <2>1, <2>2, <2>3
<1>. QED
  BY <1>1, BudgetInvariance, PTL DEF Spec, SettledForGood

-----------------------------------------------------------------------------
(* Commands take effect once                                               *)

\* What a command that took effect has left behind for good.
Spent ==
  \A c \in done :
    /\ c.op = "reserve" => c.id \in Present
    /\ c.op \in {"commit", "release", "cancel"} => c.id \in SettledIds
    /\ c.op = "cancelAccount" => accountStatus = "cancelled"

\* What each command that takes effect finds and leaves.
LEMMA Effect ==
  ASSUME BudgetInv, NEW c \in Commands,
         \/ ReserveBudget(c)
         \/ CommitReservation(c) \/ ReleaseReservation(c) \/ CancelReservation(c)
         \/ CancelBudgetAccount(c)
  PROVE  /\ done' = done \cup {c}
         /\ Present \subseteq Present' /\ SettledIds \subseteq SettledIds'
         /\ accountStatus = "cancelled" => accountStatus' = "cancelled"
         /\ c.op = "reserve" => c.id \in Present' \ Present
         /\ c.op \in {"commit", "release", "cancel"} => c.id \in SettledIds' \ SettledIds
         /\ c.op = "cancelAccount" => accountStatus = "open" /\ accountStatus' = "cancelled"
<1>. USE DEF BudgetInv
<1>1. CASE ReserveBudget(c)
  <2>1. /\ c.id \in Ids \ Present /\ accountStatus' = accountStatus /\ c.op = "reserve"
        /\ reservation' = [reservation EXCEPT ![c.id] =
             [status |-> "held", estimate |-> c.amounts, actual |-> Null,
              createdAt |-> c.at, settledAt |-> Null]]
        /\ done' = done \cup {c}
    BY <1>1, ReserveShape DEF ReserveBudget
  <2>2. Present' = Present \cup {c.id} /\ SettledIds' = SettledIds
    BY <2>1 DEF Types, Present, Held, SettledIds
  <2>. QED
    BY <2>1, <2>2
<1>2. CASE CommitReservation(c) \/ ReleaseReservation(c) \/ CancelReservation(c)
  <2>0. c.op \in {"commit", "release", "cancel"}
    BY <1>2 DEF CommitReservation, ReleaseReservation, CancelReservation
  <2>1. PICK status \in {"committed", "released", "cancelled"},
             actual \in Amounts \cup {Null} : c.id \in Held /\ WithReservation(c, status, actual)
    BY <1>2, SettleShape
  <2>2. /\ reservation' = [reservation EXCEPT ![c.id] =
             [@ EXCEPT !.status = status, !.actual = actual, !.settledAt = c.at]]
        /\ done' = done \cup {c} /\ accountStatus' = accountStatus
        /\ c.id \in Ids /\ reservation[c.id] \in Reservations
    BY <2>1 DEF WithReservation, Held, Types
  <2>3. \A r \in Ids : reservation'[r].status = IF r = c.id THEN status ELSE reservation[r].status
    BY <2>2 DEF Types, Reservations
  <2>4. Present' = Present /\ SettledIds' = SettledIds \cup {c.id} /\ c.id \notin SettledIds
    BY <2>1, <2>2, <2>3 DEF Present, Held, SettledIds
  <2>. QED
    BY <2>0, <2>2, <2>4
<1>3. CASE CancelBudgetAccount(c)
  <2>1. /\ c.op = "cancelAccount" /\ accountStatus = "open" /\ accountStatus' = "cancelled"
        /\ done' = done \cup {c}
        /\ reservation' = [r \in Ids |->
             IF r \in Held
               THEN [reservation[r] EXCEPT !.status = "cancelled", !.settledAt = c.at]
               ELSE reservation[r]]
    BY <1>3 DEF CancelBudgetAccount
  <2>2. \A r \in Ids : reservation'[r].status =
                         IF r \in Held THEN "cancelled" ELSE reservation[r].status
    BY <2>1 DEF Types, Reservations
  <2>3. Present' = Present /\ SettledIds' = Present /\ SettledIds \subseteq Present
    BY <2>2 DEF Present, Held, SettledIds
  <2>. QED
    BY <2>1, <2>3
<1>. QED
  BY <1>1, <1>2, <1>3

\* A command has one of the five operations.
LEMMA Operations ==
  \A c \in Commands : c.op \in {"reserve", "commit", "release", "cancel", "cancelAccount"}
BY DEF Commands, Command

\* Spent is kept by every command.
LEMMA SpentStep == BudgetInv /\ Spent /\ [Next]_vars => Spent'
<1>. SUFFICES ASSUME BudgetInv, Spent, [Next]_vars PROVE Spent'
  OBVIOUS
<1>1. CASE Next
  <2>1. PICK c \in Commands :
              \/ ReserveBudget(c)
              \/ CommitReservation(c) \/ ReleaseReservation(c) \/ CancelReservation(c)
              \/ CancelBudgetAccount(c)
    BY <1>1 DEF Next
  <2>2. /\ done' = done \cup {c}
        /\ Present \subseteq Present' /\ SettledIds \subseteq SettledIds'
        /\ accountStatus = "cancelled" => accountStatus' = "cancelled"
        /\ c.op = "reserve" => c.id \in Present'
        /\ c.op \in {"commit", "release", "cancel"} => c.id \in SettledIds'
        /\ c.op = "cancelAccount" => accountStatus' = "cancelled"
    BY <2>1, Effect
  <2>. QED
    BY <2>2 DEF Spent
<1>2. CASE UNCHANGED vars
  BY <1>2 DEF vars, account, Spent, Present, SettledIds, Held
<1>. QED
  BY <1>1, <1>2

\* Commands are delivered at least once; a command that took effect finds its
\* reservation settled, its identifier taken or its account cancelled, so no
\* delivery changes the account twice.
THEOREM CommandsTakeEffectOnce == Spec => EffectAtMostOnce
<1>1. Init => Spent
  BY DEF Init, Spent
<1>2. BudgetInv /\ Spent /\ [Next]_vars => [account' # account => done' # done]_vars
  <2>. SUFFICES ASSUME BudgetInv, Spent, Next PROVE done' # done
    OBVIOUS
  <2>1. PICK c \in Commands :
              \/ ReserveBudget(c)
              \/ CommitReservation(c) \/ ReleaseReservation(c) \/ CancelReservation(c)
              \/ CancelBudgetAccount(c)
    BY DEF Next
  <2>2. /\ done' = done \cup {c}
        /\ c.op = "reserve" => c.id \notin Present
        /\ c.op \in {"commit", "release", "cancel"} => c.id \notin SettledIds
        /\ c.op = "cancelAccount" => accountStatus = "open"
    BY <2>1, Effect
  <2>3. c \notin done
    BY <2>2, Operations DEF Spent
  <2>. QED
    BY <2>2, <2>3
<1>3. Spec => []Spent
  BY <1>1, SpentStep, BudgetInvariance, PTL DEF Spec
<1>. QED
  BY <1>2, <1>3, BudgetInvariance, PTL DEF Spec, EffectAtMostOnce

-----------------------------------------------------------------------------
(* Headroom is not spent twice                                             *)

\* A sum over a set with one more element.
LEMMA SumExtended ==
  ASSUME NEW S, IsFiniteSet(S), NEW x \in S,
         NEW f \in [S -> Int], NEW g \in [S \ {x} -> Int], \A y \in S \ {x} : g[y] = f[y]
  PROVE  /\ SumFunction(f) = SumFunction(g) + f[x]
         /\ SumFunction(f) \in Int /\ SumFunction(g) \in Int
<1>1. DOMAIN f = S /\ DOMAIN g = S \ {x} /\ IsFiniteSet(S \ {x})
  BY FS_Subset
<1>2. SumFunctionOnSet(g, S \ {x}) = SumFunctionOnSet(f, S \ {x})
  BY <1>1, SumSame
<1>3. SumFunctionOnSet(f, S) = SumFunctionOnSet(f, S \ {x}) + f[x]
  BY SumBasics
<1>4. SumFunctionOnSet(f, S) \in Int
  BY SumBasics
<1>5. SumFunctionOnSet(g, S \ {x}) \in Int
  BY <1>1, SumBasics
<1>6. SumFunction(f) = SumFunctionOnSet(f, S) /\ SumFunction(g) = SumFunctionOnSet(g, S \ {x})
  BY <1>1, Zenon DEF SumFunction
<1>. QED
  BY <1>2, <1>3, <1>4, <1>5, <1>6

\* A sum of no less over no less, in terms of functions.
LEMMA SumWithin ==
  ASSUME NEW S, IsFiniteSet(S), NEW R \in SUBSET S, NEW f \in [R -> Nat], NEW g \in [S -> Nat],
         \A x \in R : f[x] <= g[x]
  PROVE  SumFunction(f) <= SumFunction(g) /\ SumFunction(f) \in Nat /\ SumFunction(g) \in Nat
<1>1. DOMAIN f = R /\ DOMAIN g = S /\ IsFiniteSet(R) /\ IsFiniteSet({}) /\ {} \in SUBSET R
  BY FS_Subset, FS_EmptySet
<1>2. SumFunction(f) = SumFunctionOnSet(f, R) /\ SumFunction(g) = SumFunctionOnSet(g, S)
  BY <1>1, Zenon DEF SumFunction
<1>3. SumFunctionOnSet(f, R) <= SumFunctionOnSet(g, S)
  BY SumGrows
<1>4. SumFunctionOnSet(f, {}) <= SumFunctionOnSet(f, R) /\ SumFunctionOnSet(f, {}) = 0
  <2>1. SumFunctionOnSet(f, {}) = 0
    BY <1>1, SumBasics
  <2>2. \A x \in R : f[x] \in Int /\ 0 <= f[x]
    OBVIOUS
  <2>3. SumFunctionOnSet(f, {}) <= SumFunctionOnSet(f, R)
    BY <1>1, <2>2, SumGrows
  <2>. QED
    BY <2>1, <2>3
<1>5. SumFunctionOnSet(f, R) \in Int /\ SumFunctionOnSet(g, S) \in Int
  BY <1>1, SumBasics
<1>. QED
  BY <1>2, <1>3, <1>4, <1>5

\* The two measures that hard limits are set on.
Weight(m, a) == IF m = "units" THEN a.units ELSE Micros(a)

\* What is counted, the limit and the excess of each commit, in one measure.
Counts(m)   == [r \in Held \cup Committed |-> Weight(m, Counted(r))]
Excesses(m) == [r \in Committed |-> Excess(Weight(m, reservation[r].actual),
                                           Weight(m, reservation[r].estimate))]
Limited(m)  == IF m = "units" THEN UnitLimit # Null ELSE MoneyLimit # Null
LimitOf(m)  == IF m = "units" THEN UnitLimit ELSE MoneyLimit.micros

Bounded(m) == Limited(m) => SumFunction(Counts(m)) <= LimitOf(m) + SumFunction(Excesses(m))

\* OverrunIsExplained is Bounded in both measures.
LEMMA OverrunMeasured == Bounded("units") /\ Bounded("micros") <=> OverrunIsExplained
BY DEF Bounded, Counts, Excesses, Limited, LimitOf, Weight, OverrunIsExplained, TotalUnits, TotalMicros

\* Weights are natural numbers, and so is every count and every excess.
LEMMA WeightType ==
  ASSUME NEW m \in {"units", "micros"}, NEW a \in Amounts
  PROVE  Weight(m, a) \in Nat
BY BudgetAssumption DEF Weight, Micros

\* What is counted for a held or committed reservation.
LEMMA CountedType ==
  ASSUME BudgetInv
  PROVE  /\ \A r \in Held : Counted(r) = reservation[r].estimate /\ Counted(r) \in Amounts
         /\ \A r \in Committed : /\ Counted(r) = reservation[r].actual /\ Counted(r) \in Amounts
                                 /\ reservation[r].estimate \in Amounts
         /\ Held \cap Committed = {} /\ IsFiniteSet(Held \cup Committed)
         /\ Held \cup Committed \subseteq Present
<1>1. Held \cup Committed \subseteq Present /\ Held \cap Committed = {} /\ Present \subseteq Ids
  BY DEF Present, Held, Committed
<1>2. \A r \in Present : /\ reservation[r] \in Reservations /\ reservation[r].estimate \in Amounts
                         /\ (reservation[r].status = "committed") => reservation[r].actual # Null
  BY <1>1 DEF BudgetInv, Types, ParsesBack
<1>3. IsFiniteSet(Held \cup Committed)
  BY <1>1, CountedSets, FS_Subset
<1>4. \A r \in Committed : r \notin Held /\ reservation[r].actual \in Amounts
  BY <1>1, <1>2 DEF Committed, Reservations
<1>. QED
  BY <1>1, <1>2, <1>3, <1>4 DEF Counted

\* The tables of counts and of excesses.
LEMMA TablesType ==
  ASSUME BudgetInv, NEW m \in {"units", "micros"}
  PROVE  /\ Counts(m) \in [Held \cup Committed -> Nat]
         /\ Excesses(m) \in [Committed -> Nat]
         /\ IsFiniteSet(Held \cup Committed) /\ IsFiniteSet(Committed)
<1>1. \A r \in Held \cup Committed : Weight(m, Counted(r)) \in Nat
  BY CountedType, WeightType
<1>2. \A r \in Committed : Excess(Weight(m, reservation[r].actual),
                                  Weight(m, reservation[r].estimate)) \in Nat
  <2>. SUFFICES ASSUME NEW r \in Committed,
                       NEW a, a = Weight(m, reservation[r].actual),
                       NEW e, e = Weight(m, reservation[r].estimate)
                PROVE  Excess(a, e) \in Nat
    BY Zenon
  <2>1. a \in Nat /\ e \in Nat
    BY CountedType, WeightType
  <2>. QED
    BY <2>1 DEF Excess
<1>3. IsFiniteSet(Held \cup Committed) /\ IsFiniteSet(Committed)
  BY CountedType, FS_Subset
<1>. QED
  BY <1>1, <1>2, <1>3 DEF Counts, Excesses

\* A limit is a number.
LEMMA LimitType == \A m \in {"units", "micros"} : Limited(m) => LimitOf(m) \in Nat
BY BudgetAssumption DEF Limited, LimitOf

\* What Allowed says in one measure.
LEMMA AllowedFits ==
  ASSUME NEW m \in {"units", "micros"}, NEW a, Allowed(a), Limited(m)
  PROVE  SumFunction(Counts(m)) + Weight(m, a) <= LimitOf(m)
BY DEF Allowed, Limited, LimitOf, Counts, Weight, TotalUnits, TotalMicros

\* A step that drops holds and keeps the other reservations gives no more to
\* count and leaves the excesses as they are.
LEMMA DroppedHolds ==
  ASSUME BudgetInv, NEW m \in {"units", "micros"}, Bounded(m),
         Held' \subseteq Held, Committed' = Committed,
         \A r \in Held' \cup Committed : reservation'[r] = reservation[r]
  PROVE  Bounded(m)'
<1>1. \A r \in Held' \cup Committed : Counted(r)' = Counted(r)
  BY CountedType DEF Counted
<1>2. Excesses(m)' = Excesses(m)
  BY DEF Excesses
<1>3. Counts(m)' = [r \in Held' \cup Committed |-> Counts(m)[r]]
  BY <1>1 DEF Counts
<1>4. PICK f, g, R : f = Counts(m)' /\ g = Counts(m) /\ R = Held' \cup Committed
  OBVIOUS
<1>5. /\ R \in SUBSET (Held \cup Committed) /\ g \in [Held \cup Committed -> Nat]
      /\ f \in [R -> Nat] /\ \A r \in R : f[r] <= g[r]
  BY <1>3, <1>4, TablesType
<1>6. SumFunction(f) <= SumFunction(g) /\ SumFunction(f) \in Nat /\ SumFunction(g) \in Nat
  BY <1>5, TablesType, SumWithin
<1>7. SumFunction(Excesses(m)) \in Nat
  BY TablesType, SumWithin
<1>. QED
  BY <1>2, <1>4, <1>6, <1>7, LimitType DEF Bounded, Limited, LimitOf

\* A reservation fits by Allowed, whatever was overrun before.
LEMMA ReservedFits ==
  ASSUME BudgetInv, NEW m \in {"units", "micros"}, NEW c \in Commands, ReserveBudget(c)
  PROVE  Bounded(m)'
<1>. DEFINE x == c.id
<1>1. /\ x \in Ids \ Present /\ c.amounts \in Amounts /\ Allowed(c.amounts)
      /\ reservation' = [reservation EXCEPT ![x] =
           [status |-> "held", estimate |-> c.amounts, actual |-> Null,
            createdAt |-> c.at, settledAt |-> Null]]
  BY ReserveShape DEF BudgetInv, ReserveBudget
<1>2. Held' = Held \cup {x} /\ Committed' = Committed /\ x \notin Held \cup Committed
  BY <1>1 DEF BudgetInv, Types, Held, Committed, Present
<1>3. \A r \in Held \cup Committed : Counted(r)' = Counted(r) /\ reservation'[r] = reservation[r]
  BY <1>1, <1>2, CountedType DEF BudgetInv, Types, Counted, Present
<1>4. Counted(x)' = c.amounts
  BY <1>1, <1>2 DEF BudgetInv, Types, Counted
<1>5. Excesses(m)' = Excesses(m)
  BY <1>2, <1>3 DEF Excesses
<1>6. PICK f, g, S : f = Counts(m)' /\ g = Counts(m) /\ S = (Held \cup Committed) \cup {x}
  OBVIOUS
<1>7. f = [r \in S |-> IF r = x THEN Weight(m, c.amounts) ELSE g[r]]
  BY <1>2, <1>3, <1>4, <1>6 DEF Counts
<1>8. /\ g \in [S \ {x} -> Nat] /\ f \in [S -> Nat] /\ x \in S /\ IsFiniteSet(S)
      /\ S \ {x} = Held \cup Committed
  <2>1. S \ {x} = Held \cup Committed /\ x \in S
    BY <1>2, <1>6
  <2>2. g \in [Held \cup Committed -> Nat] /\ IsFiniteSet(Held \cup Committed)
    BY <1>6, TablesType
  <2>3. IsFiniteSet(S)
    BY <1>6, <2>2, FS_AddElement
  <2>4. Weight(m, c.amounts) \in Nat
    BY <1>1, WeightType
  <2>5. g \in [S \ {x} -> Nat]
    BY <2>1, <2>2
  <2>6. \A r \in S : r # x => g[r] \in Nat
    BY <2>5
  <2>7. f \in [S -> Nat]
    BY <1>7, <2>4, <2>6
  <2>. QED
    BY <2>1, <2>3, <2>5, <2>7
<1>9. SumFunction(f) = SumFunction(g) + f[x] /\ SumFunction(g) \in Int
  BY <1>7, <1>8, SumExtended
<1>10. Limited(m) => SumFunction(g) + Weight(m, c.amounts) <= LimitOf(m)
  BY <1>1, <1>6, AllowedFits
<1>11. f[x] = Weight(m, c.amounts) /\ Weight(m, c.amounts) \in Nat
  BY <1>1, <1>7, <1>8, WeightType
<1>12. SumFunction(Excesses(m)) \in Nat
  BY TablesType, SumWithin
<1>. QED
  BY <1>5, <1>6, <1>9, <1>10, <1>11, <1>12, LimitType DEF Bounded, Limited, LimitOf

\* A commit adds what it overruns its own estimate by, and no more.
LEMMA CommitOverruns ==
  ASSUME BudgetInv, NEW m \in {"units", "micros"}, Bounded(m),
         NEW c \in Commands, CommitReservation(c)
  PROVE  Bounded(m)'
<1>0. PICK x : x = c.id
  OBVIOUS
<1>1. /\ x \in Held /\ x \in Ids /\ c.amounts \in Amounts
      /\ reservation' = [reservation EXCEPT ![x] =
           [@ EXCEPT !.status = "committed", !.actual = c.amounts, !.settledAt = c.at]]
  BY <1>0, CommandFields DEF CommitReservation, WithReservation, Held
<1>2. /\ reservation'[x].status = "committed" /\ reservation'[x].actual = c.amounts
      /\ reservation'[x].estimate = reservation[x].estimate
      /\ \A r \in Ids \ {x} : reservation'[r] = reservation[r]
  BY <1>1 DEF BudgetInv, Types, Reservations
<1>3. /\ Held' = Held \ {x} /\ Committed' = Committed \cup {x} /\ x \notin Committed
      /\ Held' \cup Committed' = Held \cup Committed
  BY <1>1, <1>2, CountedType DEF Held, Committed
<1>4. \A r \in (Held \cup Committed) \ {x} :
        Counted(r)' = Counted(r) /\ reservation'[r] = reservation[r]
  BY <1>2, <1>3, CountedType DEF Counted, Present
<1>5. Counted(x)' = c.amounts /\ Counted(x) = reservation[x].estimate /\ Counted(x) \in Amounts
  BY <1>1, <1>2, <1>3, CountedType DEF Counted
<1>6. PICK S, C, f, g, e, d, before, after :
        /\ S = Held \cup Committed /\ C = Committed
        /\ f = Counts(m) /\ g = Counts(m)' /\ e = Excesses(m) /\ d = Excesses(m)'
        /\ before = Weight(m, reservation[x].estimate) /\ after = Weight(m, c.amounts)
  OBVIOUS
<1>7. /\ f \in [S -> Nat] /\ e \in [C -> Nat] /\ IsFiniteSet(S) /\ IsFiniteSet(C)
      /\ before \in Nat /\ after \in Nat
  BY <1>1, <1>5, <1>6, TablesType, WeightType
<1>8. f[x] = before /\ x \in S
  BY <1>1, <1>5, <1>6 DEF Counts
<1>9. g = [r \in S |-> IF r = x THEN after ELSE f[r]]
  BY <1>3, <1>4, <1>5, <1>6 DEF Counts
<1>10. d = [r \in C \cup {x} |-> IF r = x THEN Excess(after, before) ELSE e[r]]
  BY <1>2, <1>3, <1>4, <1>6 DEF Excesses
<1>11. Excess(after, before) \in Nat /\ after - before <= Excess(after, before)
  BY <1>7 DEF Excess
<1>12. PICK rest : rest = [r \in S \ {x} |-> f[r]]
  OBVIOUS
<1>13. SumFunction(f) = SumFunction(rest) + before /\ SumFunction(rest) \in Int
  <2>1. \A y \in S : f[y] \in Int
    BY <1>7
  <2>2. f \in [S -> Int] /\ rest \in [S \ {x} -> Int] /\ \A y \in S \ {x} : rest[y] = f[y]
    BY <1>7, <1>12, <2>1
  <2>3. IsFiniteSet(S) /\ x \in S
    BY <1>7, <1>8
  <2>4. SumFunction(f) = SumFunction(rest) + f[x] /\ SumFunction(rest) \in Int
    BY <2>2, <2>3, SumExtended
  <2>. QED
    BY <1>8, <2>4
<1>14. SumFunction(g) = SumFunction(rest) + after
  <2>1. g \in [S -> Int] /\ rest \in [S \ {x} -> Int] /\ g[x] = after
        /\ \A y \in S \ {x} : rest[y] = g[y]
    <3>1. \A y \in S : f[y] \in Int
      BY <1>7
    <3>. QED
      BY <1>7, <1>8, <1>9, <1>12, <3>1
  <2>2. IsFiniteSet(S) /\ x \in S
    BY <1>7, <1>8
  <2>3. SumFunction(g) = SumFunction(rest) + g[x]
    BY <2>1, <2>2, SumExtended
  <2>. QED
    BY <2>1, <2>3
<1>15. SumFunction(d) = SumFunction(e) + Excess(after, before) /\ SumFunction(e) \in Int
  <2>1. PICK T : T = C \cup {x}
    OBVIOUS
  <2>2. T \ {x} = C /\ x \in T /\ IsFiniteSet(T)
    BY <1>3, <1>6, <1>7, <2>1, FS_AddElement
  <2>3. d \in [T -> Int] /\ e \in [T \ {x} -> Int] /\ d[x] = Excess(after, before)
        /\ \A y \in T \ {x} : e[y] = d[y]
    <3>1. \A y \in C : e[y] \in Int
      BY <1>7
    <3>. QED
      BY <1>7, <1>10, <1>11, <2>1, <2>2, <3>1
  <2>4. IsFiniteSet(T) /\ x \in T
    BY <2>2
  <2>5. SumFunction(d) = SumFunction(e) + d[x] /\ SumFunction(e) \in Int
    BY <2>3, <2>4, SumExtended
  <2>. QED
    BY <2>3, <2>5
<1>16. Limited(m) => SumFunction(f) <= LimitOf(m) + SumFunction(e) /\ LimitOf(m) \in Nat
  BY <1>6, LimitType DEF Bounded
<1>17. Limited(m) => SumFunction(g) <= LimitOf(m) + SumFunction(d)
  BY <1>7, <1>11, <1>13, <1>14, <1>15, <1>16
<1>. QED
  BY <1>6, <1>17 DEF Bounded, Limited, LimitOf

\* Bounded is kept by every command, in either measure.
LEMMA BoundedStep ==
  ASSUME NEW m \in {"units", "micros"}
  PROVE  BudgetInv /\ Bounded(m) /\ [Next]_vars => Bounded(m)'
<1>. SUFFICES ASSUME BudgetInv, Bounded(m), [Next]_vars PROVE Bounded(m)'
  OBVIOUS
<1>1. ASSUME NEW c \in Commands, ReserveBudget(c) PROVE Bounded(m)'
  BY <1>1, ReservedFits
<1>2. ASSUME NEW c \in Commands, CommitReservation(c) PROVE Bounded(m)'
  BY <1>2, CommitOverruns
<1>3. ASSUME NEW c \in Commands, ReleaseReservation(c) \/ CancelReservation(c) PROVE Bounded(m)'
  <2>1. PICK status \in {"released", "cancelled"} :
          c.id \in Held /\ WithReservation(c, status, Null)
    BY <1>3 DEF ReleaseReservation, CancelReservation, SettleWithoutUsage
  <2>2. /\ c.id \in Ids
        /\ reservation' = [reservation EXCEPT ![c.id] =
             [@ EXCEPT !.status = status, !.actual = Null, !.settledAt = c.at]]
    BY <2>1 DEF WithReservation, Held
  <2>3. reservation'[c.id].status = status /\ \A r \in Ids \ {c.id} : reservation'[r] = reservation[r]
    BY <2>2 DEF BudgetInv, Types, Reservations
  <2>4. Held' = Held \ {c.id} /\ Committed' = Committed /\ c.id \notin Committed
    BY <2>1, <2>3 DEF Held, Committed
  <2>5. \A r \in Held' \cup Committed : reservation'[r] = reservation[r]
    BY <2>3, <2>4 DEF Held, Committed
  <2>. QED
    BY <2>4, <2>5, DroppedHolds
<1>4. ASSUME NEW c \in Commands, CancelBudgetAccount(c) PROVE Bounded(m)'
  <2>1. reservation' = [r \in Ids |->
             IF r \in Held
               THEN [reservation[r] EXCEPT !.status = "cancelled", !.settledAt = c.at]
               ELSE reservation[r]]
    BY <1>4 DEF CancelBudgetAccount
  <2>2. \A r \in Ids : /\ reservation'[r].status =
                            IF r \in Held THEN "cancelled" ELSE reservation[r].status
                       /\ r \notin Held => reservation'[r] = reservation[r]
    BY <2>1 DEF BudgetInv, Types, Reservations
  <2>3. Held' = {} /\ Committed' = Committed
    BY <2>2 DEF Held, Committed
  <2>4. \A r \in Held' \cup Committed : reservation'[r] = reservation[r]
    BY <2>2, <2>3 DEF Held, Committed
  <2>. QED
    BY <2>3, <2>4, DroppedHolds
<1>5. CASE UNCHANGED vars
  BY <1>5, DroppedHolds DEF vars, account, Held, Committed
<1>. QED
  BY <1>1, <1>2, <1>3, <1>4, <1>5 DEF Next

\* What is held and committed passes a hard limit only by what commits overran
\* their own estimates, whoever reserved in between.
THEOREM HeadroomIsSpentOnce == Spec => []OverrunIsExplained
<1>1. ASSUME NEW m \in {"units", "micros"} PROVE Init => Bounded(m)
  <2>. SUFFICES ASSUME Init PROVE Bounded(m)
    OBVIOUS
  <2>1. Held = {} /\ Committed = {}
    BY DEF Init, Absent, Held, Committed
  <2>2. \A f : DOMAIN f = {} => SumFunction(f) = 0
    BY SumBasics, FS_EmptySet DEF SumFunction
  <2>3. SumFunction(Counts(m)) = 0 /\ SumFunction(Excesses(m)) = 0
    <3>1. DOMAIN Counts(m) = {} /\ DOMAIN Excesses(m) = {}
      BY <2>1 DEF Counts, Excesses
    <3>. QED
      BY <2>2, <3>1
  <2>. QED
    BY <2>3, LimitType DEF Bounded
<1>2. Init => Bounded("units") /\ Bounded("micros")
  BY <1>1
<1>3. BudgetInv /\ Bounded("units") /\ Bounded("micros") /\ [Next]_vars
        => Bounded("units")' /\ Bounded("micros")'
  BY BoundedStep
<1>4. Bounded("units") /\ Bounded("micros") => OverrunIsExplained
  BY OverrunMeasured
<1>. QED
  BY <1>2, <1>3, <1>4, BudgetInvariance, PTL DEF Spec

-----------------------------------------------------------------------------
(* The capacity manager: counters                                          *)

Counters == [count : Int, bytes : Int, of : [Models -> Int]]
NoLease  == [count |-> 0, bytes |-> 0, of |-> [m \in Models |-> 0]]

\* The three limits of admission.
WithinLimits(c) ==
  /\ c.count <= config.max
  /\ \A m \in Models : c.of[m] <= config.perModel[m]
  /\ c.count > 0 => c.bytes + config.margin <= config.budget

\* The counters c are those of the leases H, and within the limits.
Sound(c, H) == H \subseteq Requests /\ c = Charged(NoLease, H) /\ WithinLimits(c)

\* grant, on the counters
Granted(c, r) ==
  [count |-> c.count + 1, bytes |-> c.bytes + Size[ModelOf[r]],
   of |-> [m \in Models |-> c.of[m] + (IF ModelOf[r] = m THEN 1 ELSE 0)]]

\* The constants of a request, and the configuration in use.
LEMMA RequestConstants ==
  /\ IsFiniteSet(Requests)
  /\ \A r \in Requests : ModelOf[r] \in Models /\ Size[ModelOf[r]] \in Nat
BY ProviderAssumption

\* Charging a set of requests is charging them one by one.
LEMMA ChargedGrants ==
  ASSUME NEW c \in Counters, NEW R \in SUBSET Requests
  PROVE  /\ Charged(c, R) \in Counters
         /\ R = {} => Charged(c, R) = c
         /\ \A r \in Requests \ R : Charged(c, R \cup {r}) = Granted(Charged(c, R), r)
<1>. DEFINE Of(S, m) == {x \in S : ModelOf[x] = m}
            Sizes(S) == [x \in S |-> Size[ModelOf[x]]]
<1>1. \A S \in SUBSET Requests : /\ IsFiniteSet(S) /\ Cardinality(S) \in Nat
                                 /\ Sizes(S) \in [S -> Nat] /\ DOMAIN Sizes(S) = S
                                 /\ \A m : IsFiniteSet(Of(S, m)) /\ Cardinality(Of(S, m)) \in Nat
  <2>. SUFFICES ASSUME NEW S \in SUBSET Requests
                PROVE  /\ IsFiniteSet(S) /\ Cardinality(S) \in Nat
                       /\ Sizes(S) \in [S -> Nat] /\ DOMAIN Sizes(S) = S
                       /\ \A m : IsFiniteSet(Of(S, m)) /\ Cardinality(Of(S, m)) \in Nat
    BY Zenon
  <2>1. IsFiniteSet(S) /\ Cardinality(S) \in Nat
    BY RequestConstants, FS_Subset, FS_CardinalityType
  <2>2. ASSUME NEW m PROVE IsFiniteSet(Of(S, m)) /\ Cardinality(Of(S, m)) \in Nat
    <3>1. Of(S, m) \subseteq S
      OBVIOUS
    <3>. QED
      BY <2>1, <3>1, FS_Subset, FS_CardinalityType
  <2>3. Sizes(S) \in [S -> Nat] /\ DOMAIN Sizes(S) = S
    BY RequestConstants
  <2>. QED
    BY <2>1, <2>2, <2>3
<1>2. ASSUME NEW S \in SUBSET Requests
      PROVE  SumFunction(Sizes(S)) \in Int /\ (S = {} => SumFunction(Sizes(S)) = 0)
  <2>1. PICK f : f = Sizes(S)
    OBVIOUS
  <2>2. DOMAIN f = S /\ IsFiniteSet(S) /\ \A x \in S : f[x] \in Int
    BY <1>1, <2>1, RequestConstants
  <2>3. SumFunctionOnSet(f, S) \in Int /\ (S = {} => SumFunctionOnSet(f, S) = 0)
    BY <2>2, SumBasics
  <2>4. SumFunction(f) = SumFunctionOnSet(f, S)
    BY <2>2, Zenon DEF SumFunction
  <2>. QED
    BY <2>1, <2>3, <2>4
<1>3. \A S \in SUBSET Requests :
        Charged(c, S) = [count |-> c.count + Cardinality(S),
                         bytes |-> c.bytes + SumFunction(Sizes(S)),
                         of    |-> [m \in Models |-> c.of[m] + Cardinality(Of(S, m))]]
  BY DEF Charged
<1>. HIDE DEF Of, Sizes
<1>4. Charged(c, R) \in Counters
  BY <1>1, <1>2, <1>3 DEF Counters
<1>5. R = {} => Charged(c, R) = c
  <2>. SUFFICES ASSUME R = {} PROVE Charged(c, R) = c
    OBVIOUS
  <2>1. Cardinality(R) = 0 /\ \A m : Cardinality(Of(R, m)) = 0
    <3>1. \A m : Of(R, m) = {}
      BY DEF Of
    <3>. QED
      BY <3>1, FS_EmptySet
  <2>2. SumFunction(Sizes(R)) = 0
    BY <1>2
  <2>. QED
    BY <1>3, <2>1, <2>2 DEF Counters
<1>6. ASSUME NEW r \in Requests \ R PROVE Charged(c, R \cup {r}) = Granted(Charged(c, R), r)
  <2>1. PICK S : S = R \cup {r}
    OBVIOUS
  <2>2. S \in SUBSET Requests /\ S \ {r} = R /\ r \in S /\ r \notin R
    BY <2>1
  <2>3. Cardinality(S) = Cardinality(R) + 1
    BY <1>1, <2>1, FS_AddElement
  <2>4. SumFunction(Sizes(S)) = SumFunction(Sizes(R)) + Size[ModelOf[r]]
    <3>1. PICK f, g : f = Sizes(S) /\ g = Sizes(R)
      OBVIOUS
    <3>2. f \in [S -> Int] /\ g \in [S \ {r} -> Int] /\ \A y \in S \ {r} : g[y] = f[y]
      BY <2>2, <3>1, RequestConstants DEF Sizes
    <3>3. f[r] = Size[ModelOf[r]] /\ IsFiniteSet(S)
      BY <1>1, <2>2, <3>1 DEF Sizes
    <3>4. SumFunction(f) = SumFunction(g) + f[r]
      BY <2>2, <3>2, <3>3, SumExtended
    <3>. QED
      BY <3>1, <3>3, <3>4
  <2>5. ASSUME NEW m \in Models
        PROVE  Cardinality(Of(S, m)) = Cardinality(Of(R, m)) + (IF ModelOf[r] = m THEN 1 ELSE 0)
    <3>1. CASE ModelOf[r] = m
      <4>1. Of(S, m) = Of(R, m) \cup {r} /\ r \notin Of(R, m)
        BY <2>1, <2>2, <3>1 DEF Of
      <4>2. IsFiniteSet(Of(R, m))
        BY <1>1
      <4>3. Cardinality(Of(R, m) \cup {r}) = Cardinality(Of(R, m)) + 1
        BY <4>1, <4>2, FS_AddElement
      <4>. QED
        BY <3>1, <4>1, <4>3
    <3>2. CASE ModelOf[r] # m
      <4>1. Of(S, m) = Of(R, m)
        BY <2>1, <3>2 DEF Of
      <4>2. Cardinality(Of(R, m)) \in Nat
        BY <1>1
      <4>. QED
        BY <3>2, <4>1, <4>2
    <3>. QED
      BY <3>1, <3>2
  <2>6. Charged(c, S) = [count |-> c.count + Cardinality(S),
                         bytes |-> c.bytes + SumFunction(Sizes(S)),
                         of    |-> [m \in Models |-> c.of[m] + Cardinality(Of(S, m))]]
    BY <1>3, <2>2
  <2>7. Charged(c, R) = [count |-> c.count + Cardinality(R),
                         bytes |-> c.bytes + SumFunction(Sizes(R)),
                         of    |-> [m \in Models |-> c.of[m] + Cardinality(Of(R, m))]]
    BY <1>3
  <2>8. c.count \in Int /\ c.bytes \in Int /\ \A m \in Models : c.of[m] \in Int
    BY DEF Counters
  <2>9. Cardinality(R) \in Nat /\ \A m \in Models : Cardinality(Of(R, m)) \in Nat
    BY <1>1
  <2>10. SumFunction(Sizes(R)) \in Int
    BY <1>2
  <2>11. Size[ModelOf[r]] \in Nat
    BY RequestConstants
  <2>12. Charged(c, S).count = Charged(c, R).count + 1
    BY <2>3, <2>6, <2>7, <2>8, <2>9
  <2>13. Charged(c, S).bytes = Charged(c, R).bytes + Size[ModelOf[r]]
    BY <2>4, <2>6, <2>7, <2>8, <2>10, <2>11
  <2>14. Charged(c, S).of = [m \in Models |->
                              Charged(c, R).of[m] + (IF ModelOf[r] = m THEN 1 ELSE 0)]
    BY <2>5, <2>6, <2>7, <2>8, <2>9
  <2>15. Charged(c, S) = [count |-> Charged(c, S).count, bytes |-> Charged(c, S).bytes,
                          of |-> Charged(c, S).of]
    BY <2>6
  <2>. QED
    BY <2>1, <2>12, <2>13, <2>14, <2>15 DEF Granted
<1>. QED
  BY <1>4, <1>5, <1>6

\* The empty counters, and the configuration in use.
LEMMA ConfigurationType ==
  ASSUME OllamaTypeOK
  PROVE  /\ config.max \in Nat \ {0} /\ config.perModel \in [Models -> Nat \ {0}]
         /\ config.budget \in Nat /\ config.margin \in Nat /\ config.queue \in Nat
BY ProviderAssumption DEF OllamaTypeOK

\* The counters of no lease.
LEMMA NoLeaseType == NoLease \in Counters
BY DEF NoLease, Counters

\* One lease more, and one lease less.
LEMMA GrantedType ==
  ASSUME NEW c \in Counters, NEW r \in Requests
  PROVE  Granted(c, r) \in Counters /\ Refunded(Granted(c, r), r) = c
<1>1. PICK m \in Models, b \in Nat : m = ModelOf[r] /\ b = Size[m]
  BY RequestConstants
<1>2. /\ c.count \in Int /\ c.bytes \in Int /\ c.of \in [Models -> Int]
      /\ c = [count |-> c.count, bytes |-> c.bytes, of |-> c.of]
  BY DEF Counters
<1>3. PICK g : g = Granted(c, r)
  OBVIOUS
<1>4. /\ g = [count |-> c.count + 1, bytes |-> c.bytes + b,
              of |-> [n \in Models |-> c.of[n] + (IF m = n THEN 1 ELSE 0)]]
  BY <1>1, <1>3 DEF Granted
<1>5. g \in Counters
  BY <1>1, <1>2, <1>4 DEF Counters
<1>6. Refunded(g, r) = [count |-> g.count - 1, bytes |-> g.bytes - b,
                        of |-> [g.of EXCEPT ![m] = @ - 1]]
  BY <1>1 DEF Refunded
<1>7. [g.of EXCEPT ![m] = @ - 1] = c.of
  BY <1>1, <1>2, <1>4
<1>8. g.count - 1 = c.count /\ g.bytes - b = c.bytes
  BY <1>1, <1>2, <1>4
<1>. QED
  BY <1>2, <1>3, <1>5, <1>6, <1>7, <1>8

\* What admission allows keeps the counters sound.
LEMMA AdmissionIsSound ==
  ASSUME OllamaTypeOK, NEW c, NEW H, Sound(c, H), NEW r \in Requests \ H, Admissible(r, c)
  PROVE  Sound(Granted(c, r), H \cup {r})
<1>1. c \in Counters /\ c = Charged(NoLease, H) /\ H \in SUBSET Requests
  BY NoLeaseType, ChargedGrants DEF Sound
<1>2. Granted(c, r) = Charged(NoLease, H \cup {r})
  BY <1>1, NoLeaseType, ChargedGrants
<1>3. WithinLimits(Granted(c, r))
  <2>1. PICK g : g = Granted(c, r)
    OBVIOUS
  <2>2. /\ g.count = c.count + 1 /\ g.bytes = c.bytes + Size[ModelOf[r]]
        /\ \A m \in Models : g.of[m] = c.of[m] + (IF ModelOf[r] = m THEN 1 ELSE 0)
    BY <2>1 DEF Granted
  <2>3. /\ c.count \in Int /\ c.bytes \in Int /\ \A m \in Models : c.of[m] \in Int
    BY <1>1 DEF Counters
  <2>4. Size[ModelOf[r]] \in Nat /\ ModelOf[r] \in Models
    BY RequestConstants
  <2>5. /\ config.max \in Nat /\ \A m \in Models : config.perModel[m] \in Nat
        /\ config.budget \in Nat /\ config.margin \in Nat
    BY ConfigurationType
  <2>6. g.count <= config.max
    BY <2>2, <2>3, <2>5 DEF Admissible
  <2>7. \A m \in Models : g.of[m] <= config.perModel[m]
    BY <2>2, <2>3, <2>4, <2>5 DEF Admissible, Sound, WithinLimits
  <2>8. g.bytes + config.margin <= config.budget
    BY <2>2, <2>3, <2>4, <2>5 DEF Admissible
  <2>. QED
    BY <2>1, <2>6, <2>7, <2>8 DEF WithinLimits
<1>. QED
  BY <1>1, <1>2, <1>3 DEF Sound

\* A lease given back leaves the counters of the others.
LEMMA RefundIsSound ==
  ASSUME OllamaTypeOK, NEW c, NEW H, Sound(c, H), NEW r \in H
  PROVE  Sound(Refunded(c, r), H \ {r})
<1>1. H \in SUBSET Requests /\ r \in Requests \ (H \ {r}) /\ H \ {r} \in SUBSET Requests
      /\ c = Charged(NoLease, H)
  BY DEF Sound
<1>2. PICK d : d = Charged(NoLease, H \ {r})
  OBVIOUS
<1>3. d \in Counters
  BY <1>1, <1>2, NoLeaseType, ChargedGrants
<1>4. Charged(NoLease, (H \ {r}) \cup {r}) = Granted(d, r)
  BY <1>1, <1>2, NoLeaseType, ChargedGrants
<1>5. c = Granted(d, r)
  <2>1. (H \ {r}) \cup {r} = H
    BY <1>1
  <2>. QED
    BY <1>1, <1>4, <2>1, Zenon
<1>6. Refunded(c, r) = d
  BY <1>1, <1>3, <1>5, GrantedType
<1>7. WithinLimits(d)
  <2>2. /\ c.count = d.count + 1 /\ c.bytes = d.bytes + Size[ModelOf[r]]
        /\ \A m \in Models : c.of[m] = d.of[m] + (IF ModelOf[r] = m THEN 1 ELSE 0)
    BY <1>5 DEF Granted
  <2>3. /\ d.count \in Int /\ d.bytes \in Int /\ \A m \in Models : d.of[m] \in Int
    BY <1>3 DEF Counters
  <2>4. Size[ModelOf[r]] \in Nat
    BY <1>1, RequestConstants
  <2>5. /\ config.max \in Nat /\ \A m \in Models : config.perModel[m] \in Nat
        /\ config.budget \in Nat /\ config.margin \in Nat
    BY ConfigurationType
  <2>6. WithinLimits(c)
    BY DEF Sound
  <2>7. d.count <= config.max
    BY <2>2, <2>3, <2>5, <2>6 DEF WithinLimits
  <2>8. \A m \in Models : d.of[m] <= config.perModel[m]
    BY <2>2, <2>3, <2>5, <2>6 DEF WithinLimits
  <2>9. d.count > 0 => d.bytes + config.margin <= config.budget
    BY <2>2, <2>3, <2>4, <2>5, <2>6 DEF WithinLimits
  <2>. QED
    BY <2>7, <2>8, <2>9 DEF WithinLimits
<1>. QED
  BY <1>1, <1>2, <1>6, <1>7 DEF Sound

-----------------------------------------------------------------------------
(* The capacity manager: the queue                                         *)

\* A set of numbers has a least one.
LEMMA LeastNumber ==
  ASSUME NEW T \in SUBSET Nat, T # {}
  PROVE  \E n \in T : \A m \in T : n <= m
<1>1. PICK n \in T : \A m \in T : <<m, n>> \notin OpToRel(<, Nat)
  BY WFMin, NatLessThanWellFounded, Zenon
<1>2. \A m \in T : m \in Nat /\ n \in Nat
  OBVIOUS
<1>3. \A m \in T : ~ (m < n)
  BY <1>1, <1>2, Zenon DEF OpToRel
<1>. QED
  BY <1>2, <1>3

\* The head of a queue, one waiter longer.
LEMMA FirstOfSteps ==
  ASSUME NEW q
  PROVE  /\ FirstOf(q, 0) = {}
         /\ \A n \in Nat : FirstOf(q, n + 1) = FirstOf(q, n) \cup {q[n + 1]}
<1>1. ASSUME NEW n \in Nat PROVE FirstOf(q, n + 1) = FirstOf(q, n) \cup {q[n + 1]}
  <2>1. \A i : i \in 1 .. (n + 1) <=> i \in 1 .. n \/ i = n + 1
    OBVIOUS
  <2>. QED
    BY <2>1 DEF FirstOf
<1>. QED
  BY <1>1 DEF FirstOf

\* pump lets waiters in as long as the head fits.
LEMMA AdmittedPrefix ==
  ASSUME NEW q \in Seq(Requests), NEW c
  PROVE  /\ Admitted(q, c) \in 0 .. Len(q)
         /\ \A i \in 1 .. Admitted(q, c) : Admissible(q[i], Charged(c, FirstOf(q, i - 1)))
         /\ Admitted(q, c) < Len(q) =>
              ~ Admissible(q[Admitted(q, c) + 1], Charged(c, FirstOf(q, Admitted(q, c))))
<1>. DEFINE Fits(i) == Admissible(q[i], Charged(c, FirstOf(q, i - 1)))
            Stops(n) == /\ \A i \in 1 .. n : Fits(i)
                        /\ n < Len(q) => ~ Admissible(q[n + 1], Charged(c, FirstOf(q, n)))
            T == {i \in 1 .. Len(q) : ~ Fits(i)}
<1>0. Len(q) \in Nat
  OBVIOUS
<1>1. \E n \in 0 .. Len(q) : Stops(n)
  <2>1. CASE T = {}
    <3>1. Stops(Len(q)) /\ Len(q) \in 0 .. Len(q)
      BY <1>0, <2>1
    <3>. QED
      BY <3>1
  <2>2. CASE T # {}
    <3>0. T \in SUBSET Nat
      BY <1>0
    <3>1. PICK k \in T : \A m \in T : k <= m
      BY <2>2, <3>0, LeastNumber
    <3>2. k \in 1 .. Len(q) /\ ~ Fits(k) /\ k - 1 \in 0 .. Len(q) /\ (k - 1) + 1 = k
      BY <1>0, <3>1
    <3>3. ASSUME NEW i \in 1 .. (k - 1) PROVE Fits(i)
      <4>1. i \in 1 .. Len(q) /\ ~ (k <= i)
        BY <1>0, <3>2
      <4>. QED
        BY <3>1, <4>1
    <3>4. ~ Admissible(q[(k - 1) + 1], Charged(c, FirstOf(q, k - 1)))
      BY <3>2
    <3>5. Stops(k - 1)
      BY <3>3, <3>4
    <3>. QED
      BY <3>2, <3>5
  <2>. QED
    BY <2>1, <2>2
<1>2. Admitted(q, c) = CHOOSE n \in 0 .. Len(q) : Stops(n)
  BY DEF Admitted
<1>. HIDE DEF Stops
<1>3. Admitted(q, c) \in 0 .. Len(q) /\ Stops(Admitted(q, c))
  BY <1>1, <1>2, Zenon
<1>. QED
  BY <1>3 DEF Stops

\* Who is let in is admitted with the counters of those before him.
LEMMA PumpIsSound ==
  ASSUME OllamaTypeOK, NEW q \in Seq(Requests), NEW c, NEW H, Sound(c, H),
         \A i, j \in 1 .. Len(q) : q[i] = q[j] => i = j,
         \A i \in 1 .. Len(q) : q[i] \notin H
  PROVE  LET R == FirstOf(q, Admitted(q, c)) IN Sound(Charged(c, R), H \cup R)
<1>. DEFINE n == Admitted(q, c)
            Good(k) == Sound(Charged(c, FirstOf(q, k)), H \cup FirstOf(q, k))
            T == {k \in 0 .. n : ~ Good(k)}
<1>1. /\ n \in 0 .. Len(q) /\ Len(q) \in Nat
      /\ \A i \in 1 .. n : Admissible(q[i], Charged(c, FirstOf(q, i - 1)))
  BY AdmittedPrefix
<1>. HIDE DEF n
<1>2. c \in Counters /\ H \in SUBSET Requests
  BY NoLeaseType, ChargedGrants DEF Sound
<1>3. \A k \in 0 .. n : FirstOf(q, k) \in SUBSET Requests
  BY <1>1 DEF FirstOf
<1>4. T = {}
  <2>. SUFFICES ASSUME T # {} PROVE FALSE
    OBVIOUS
  <2>0. T \in SUBSET Nat
    BY <1>1
  <2>1. PICK k \in T : \A m \in T : k <= m
    BY <2>0, LeastNumber
  <2>2. CASE k = 0
    <3>1. FirstOf(q, k) = {} /\ {} \in SUBSET Requests /\ H \cup {} = H
      BY <2>2, FirstOfSteps
    <3>2. Charged(c, {}) = c
      BY <1>2, <3>1, ChargedGrants
    <3>3. Good(k)
      BY <3>1, <3>2
    <3>. QED
      BY <2>1, <3>3
  <2>3. CASE k # 0
    <3>1. PICK p : p = k - 1
      OBVIOUS
    <3>2. p \in 0 .. n /\ p \in Nat /\ k = p + 1 /\ k \in 1 .. n /\ k \in 1 .. Len(q) /\ ~ (k <= p)
      BY <1>1, <2>1, <2>3, <3>1
    <3>3. Good(p)
      BY <2>1, <3>2
    <3>4. Admissible(q[k], Charged(c, FirstOf(q, p)))
      BY <1>1, <3>1, <3>2
    <3>5. q[k] \in Requests /\ q[k] \notin H /\ q[k] \notin FirstOf(q, p)
      <4>1. q[k] \in Requests /\ q[k] \notin H
        BY <3>2
      <4>2. \A i \in 1 .. p : q[i] # q[k]
        BY <1>1, <3>2
      <4>. QED
        BY <4>1, <4>2 DEF FirstOf
    <3>6. Sound(Granted(Charged(c, FirstOf(q, p)), q[k]), (H \cup FirstOf(q, p)) \cup {q[k]})
      BY <3>3, <3>4, <3>5, AdmissionIsSound
    <3>7. Charged(c, FirstOf(q, p) \cup {q[k]}) = Granted(Charged(c, FirstOf(q, p)), q[k])
      BY <1>2, <1>3, <3>2, <3>5, ChargedGrants
    <3>8. FirstOf(q, k) = FirstOf(q, p) \cup {q[k]}
      BY <3>2, FirstOfSteps
    <3>9. (H \cup FirstOf(q, p)) \cup {q[k]} = H \cup FirstOf(q, k)
      BY <3>8
    <3>10. Good(k)
      BY <3>6, <3>7, <3>8, <3>9, Zenon
    <3>. QED
      BY <2>1, <3>10
  <2>. QED
    BY <2>2, <2>3
<1>5. Good(n)
  BY <1>1, <1>4
<1>. QED
  BY <1>5 DEF n

\* The queue q has each waiter of the stages p once.
WellQueued(q, p) ==
  /\ q \in Seq(Requests)
  /\ \A i, j \in 1 .. Len(q) : q[i] = q[j] => i = j
  /\ FirstOf(q, Len(q)) = {x \in Requests : p[x] = "queued"}

Leased(p) == {x \in Requests : p[x] \in Holding}

\* What remains of a queue behind those who are let in.
LEMMA RestOfQueue ==
  ASSUME NEW q \in Seq(Requests), NEW n \in 0 .. Len(q), NEW rest, rest = SubSeq(q, n + 1, Len(q))
  PROVE  /\ rest \in Seq(Requests) /\ Len(rest) = Len(q) - n
         /\ \A k \in 1 .. Len(rest) : rest[k] = q[k + n]
OBVIOUS

\* A queue without the waiter at i.
LEMMA WithoutOne ==
  ASSUME NEW q \in Seq(Requests), NEW i \in 1 .. Len(q), NEW rest, rest = RemoveAt(q, i)
  PROVE  /\ rest \in Seq(Requests) /\ Len(rest) = Len(q) - 1
         /\ \A k \in 1 .. Len(rest) : rest[k] = q[IF k < i THEN k ELSE k + 1]
<1>1. PICK a, b : a = SubSeq(q, 1, i - 1) /\ b = SubSeq(q, i + 1, Len(q))
  OBVIOUS
<1>2. Len(q) \in Nat
  OBVIOUS
<1>3. /\ a \in Seq(Requests) /\ Len(a) = i - 1 /\ \A k \in 1 .. Len(a) : a[k] = q[k]
  BY <1>1, <1>2
<1>4. /\ b \in Seq(Requests) /\ Len(b) = Len(q) - i /\ \A k \in 1 .. Len(b) : b[k] = q[k + i]
  BY <1>1, <1>2
<1>5. rest = a \o b
  BY <1>1 DEF RemoveAt
<1>6. rest \in Seq(Requests) /\ Len(rest) = Len(q) - 1
  BY <1>2, <1>3, <1>4, <1>5
<1>7. \A k \in 1 .. Len(rest) : rest[k] = IF k <= Len(a) THEN a[k] ELSE b[k - Len(a)]
  BY <1>2, <1>3, <1>4, <1>5, <1>6
<1>8. ASSUME NEW k \in 1 .. Len(rest) PROVE rest[k] = q[IF k < i THEN k ELSE k + 1]
  <2>1. CASE k < i
    <3>1. k \in 1 .. Len(a)
      BY <1>2, <1>3, <1>6, <2>1
    <3>. QED
      BY <1>3, <1>7, <2>1, <3>1
  <2>2. CASE ~ (k < i)
    <3>1. k - Len(a) \in 1 .. Len(b) /\ ~ (k <= Len(a)) /\ (k - Len(a)) + i = k + 1
      BY <1>2, <1>3, <1>4, <1>6, <2>2
    <3>. QED
      BY <1>4, <1>7, <2>2, <3>1
  <2>. QED
    BY <2>1, <2>2
<1>. QED
  BY <1>6, <1>8

\* pump keeps the queue and the counters right, from a queue and counters that
\* are right for the stages p.
LEMMA PumpKeeps ==
  ASSUME OllamaTypeOK, NEW r \in Requests, NEW stage \in {"queued", "done", "refused"},
         NEW q, NEW c, NEW p, p = [pc EXCEPT ![r] = stage],
         WellQueued(q, p), Sound(c, Leased(p)), Pump(q, c, r, stage)
  PROVE  /\ pc' \in [Requests -> Stages] /\ WellQueued(queue', pc') /\ Len(queue') <= Len(q)
         /\ Sound(capacity', Leased(pc'))
<1>1. q \in Seq(Requests) /\ Len(q) \in Nat /\ p \in [Requests -> Stages] /\ p[r] = stage
  BY DEF OllamaTypeOK, WellQueued, Stages
<1>2. PICK n : n = Admitted(q, c)
  OBVIOUS
<1>3. n \in 0 .. Len(q)
  BY <1>1, <1>2, AdmittedPrefix
<1>4. PICK R : R = FirstOf(q, n)
  OBVIOUS
<1>5. /\ queue' = SubSeq(q, n + 1, Len(q))
      /\ capacity' = Charged(c, R)
      /\ pc' = [x \in Requests |-> IF x \in R THEN "admitted" ELSE IF x = r THEN stage ELSE pc[x]]
  BY <1>2, <1>4 DEF Pump, LetIn
<1>6. \A x \in Requests : pc'[x] = IF x \in R THEN "admitted" ELSE p[x]
  BY <1>5 DEF OllamaTypeOK
<1>7. pc' \in [Requests -> Stages]
  BY <1>1, <1>5, <1>6 DEF Stages
<1>8. /\ queue' \in Seq(Requests) /\ Len(queue') = Len(q) - n
      /\ \A k \in 1 .. Len(queue') : queue'[k] = q[k + n]
  BY <1>1, <1>3, <1>5, RestOfQueue
<1>9. \A i, j \in 1 .. Len(q) : q[i] = q[j] => i = j
  BY DEF WellQueued
<1>10. \A x \in Requests : p[x] = "queued" <=> \E i \in 1 .. Len(q) : x = q[i]
  BY <1>1 DEF WellQueued, FirstOf
<1>11. \A x : x \in R <=> \E i \in 1 .. n : x = q[i]
  BY <1>4 DEF FirstOf
<1>12. \A i, j \in 1 .. Len(queue') : queue'[i] = queue'[j] => i = j
  <2>. SUFFICES ASSUME NEW i \in 1 .. Len(queue'), NEW j \in 1 .. Len(queue'), queue'[i] = queue'[j]
                PROVE  i = j
    OBVIOUS
  <2>1. i + n \in 1 .. Len(q) /\ j + n \in 1 .. Len(q) /\ q[i + n] = q[j + n]
    BY <1>1, <1>3, <1>8
  <2>2. i + n = j + n
    BY <1>9, <2>1
  <2>. QED
    BY <1>3, <2>2
<1>13. FirstOf(queue', Len(queue')) = {x \in Requests : pc'[x] = "queued"}
  <2>1. ASSUME NEW k \in 1 .. Len(queue')
        PROVE  queue'[k] \in Requests /\ pc'[queue'[k]] = "queued"
    <3>1. k + n \in 1 .. Len(q) /\ queue'[k] = q[k + n] /\ queue'[k] \in Requests
      BY <1>1, <1>3, <1>8
    <3>2. queue'[k] \notin R
      <4>. SUFFICES ASSUME NEW i \in 1 .. n, q[k + n] = q[i] PROVE FALSE
        BY <1>11, <3>1
      <4>1. i \in 1 .. Len(q)
        BY <1>1, <1>3
      <4>2. k + n = i
        BY <1>9, <3>1, <4>1
      <4>. QED
        BY <1>3, <4>2
    <3>. QED
      BY <1>6, <1>10, <3>1, <3>2
  <2>2. ASSUME NEW x \in Requests, pc'[x] = "queued"
        PROVE  \E k \in 1 .. Len(queue') : x = queue'[k]
    <3>1. x \notin R /\ p[x] = "queued"
      BY <1>6, <2>2
    <3>2. PICK i \in 1 .. Len(q) : x = q[i]
      BY <1>10, <3>1
    <3>3. i > n
      BY <1>3, <1>11, <3>1, <3>2
    <3>4. i - n \in 1 .. Len(queue') /\ (i - n) + n = i
      BY <1>1, <1>3, <1>8, <3>3
    <3>. QED
      BY <1>8, <3>2, <3>4
  <2>. QED
    BY <2>1, <2>2 DEF FirstOf
<1>14. \A i \in 1 .. Len(q) : q[i] \notin Leased(p)
  BY <1>10 DEF Leased, Holding
<1>15. Sound(Charged(c, R), Leased(p) \cup R)
  BY <1>1, <1>2, <1>4, <1>9, <1>14, PumpIsSound
<1>16. Leased(p) \cup R = Leased(pc')
  <2>1. \A x \in R : x \in Requests
    BY <1>1, <1>3, <1>11
  <2>2. \A x \in Requests : pc'[x] \in Holding <=> x \in R \/ p[x] \in Holding
    BY <1>6 DEF Holding
  <2>. QED
    BY <2>1, <2>2 DEF Leased
<1>17. Sound(capacity', Leased(pc'))
  BY <1>5, <1>15, <1>16
<1>. QED
  BY <1>1, <1>3, <1>7, <1>8, <1>12, <1>13, <1>17 DEF WellQueued

\* A waiter that is given up leaves the others in the queue.
LEMMA SettleKeeps ==
  ASSUME OllamaTypeOK, WellQueued(queue, pc), NEW r \in Requests, Settle(r)
  PROVE  /\ pc' = [pc EXCEPT ![r] = "refused"] /\ pc[r] = "queued"
         /\ WellQueued(queue', pc') /\ Len(queue') <= Len(queue)
         /\ Leased(pc') = Leased(pc)
<1>1. pc' = [pc EXCEPT ![r] = "refused"] /\ pc \in [Requests -> Stages]
  BY DEF Settle, OllamaTypeOK
<1>2. PICK i \in 1 .. Len(queue) : queue[i] = r /\ queue' = RemoveAt(queue, i)
  BY DEF Settle
<1>3. queue \in Seq(Requests) /\ Len(queue) \in Nat
  BY DEF WellQueued
<1>4. /\ queue' \in Seq(Requests) /\ Len(queue') = Len(queue) - 1
      /\ \A k \in 1 .. Len(queue') : queue'[k] = queue[IF k < i THEN k ELSE k + 1]
  BY <1>2, <1>3, WithoutOne
<1>5. \A k, j \in 1 .. Len(queue) : queue[k] = queue[j] => k = j
  BY DEF WellQueued
<1>6. \A x \in Requests : pc[x] = "queued" <=> \E k \in 1 .. Len(queue) : x = queue[k]
  BY <1>3 DEF WellQueued, FirstOf
<1>7. pc[r] = "queued"
  BY <1>2, <1>6
<1>8. \A x \in Requests : pc'[x] = IF x = r THEN "refused" ELSE pc[x]
  BY <1>1
<1>9. ASSUME NEW k \in 1 .. Len(queue')
      PROVE  /\ (IF k < i THEN k ELSE k + 1) \in 1 .. Len(queue)
             /\ (IF k < i THEN k ELSE k + 1) # i
  BY <1>2, <1>3, <1>4
<1>10. \A k, j \in 1 .. Len(queue') : queue'[k] = queue'[j] => k = j
  <2>. SUFFICES ASSUME NEW k \in 1 .. Len(queue'), NEW j \in 1 .. Len(queue'), queue'[k] = queue'[j]
                PROVE  k = j
    OBVIOUS
  <2>1. (IF k < i THEN k ELSE k + 1) = (IF j < i THEN j ELSE j + 1)
    BY <1>4, <1>5, <1>9
  <2>. QED
    BY <1>3, <1>4, <2>1
<1>11. FirstOf(queue', Len(queue')) = {x \in Requests : pc'[x] = "queued"}
  <2>1. ASSUME NEW k \in 1 .. Len(queue')
        PROVE  queue'[k] \in Requests /\ pc'[queue'[k]] = "queued"
    <3>1. queue'[k] \in Requests
      BY <1>4
    <3>2. pc[queue'[k]] = "queued"
      BY <1>4, <1>6, <1>9, <3>1
    <3>3. queue'[k] # r
      BY <1>2, <1>4, <1>5, <1>9
    <3>. QED
      BY <1>8, <3>1, <3>2, <3>3
  <2>2. ASSUME NEW x \in Requests, pc'[x] = "queued"
        PROVE  \E k \in 1 .. Len(queue') : x = queue'[k]
    <3>1. x # r /\ pc[x] = "queued"
      BY <1>8, <2>2
    <3>2. PICK j \in 1 .. Len(queue) : x = queue[j]
      BY <1>6, <3>1
    <3>3. j # i
      BY <1>2, <3>1, <3>2
    <3>4. CASE j < i
      <4>1. j \in 1 .. Len(queue')
        BY <1>2, <1>3, <1>4, <3>4
      <4>. QED
        BY <1>4, <3>2, <3>4, <4>1
    <3>5. CASE j > i
      <4>1. j - 1 \in 1 .. Len(queue') /\ ~ (j - 1 < i) /\ (j - 1) + 1 = j
        BY <1>2, <1>3, <1>4, <3>5
      <4>2. queue'[j - 1] = queue[j]
        BY <1>4, <4>1
      <4>. QED
        BY <3>2, <4>1, <4>2
    <3>. QED
      BY <3>3, <3>4, <3>5
  <2>. QED
    BY <2>1, <2>2 DEF FirstOf
<1>12. Leased(pc') = Leased(pc)
  BY <1>7, <1>8 DEF Leased, Holding
<1>. QED
  BY <1>1, <1>3, <1>4, <1>7, <1>10, <1>11, <1>12 DEF WellQueued

-----------------------------------------------------------------------------
(* The capacity manager: every step                                        *)

\* The counters are those of the leases, each waiter is in the queue once, and
\* nobody waits in a closed manager.
ManagerInv ==
  /\ OllamaTypeOK
  /\ Sound(capacity, Leased(pc))
  /\ capacityClosed => queue = <<>>

\* OllamaTypeOK, put together.
LEMMA TypeParts ==
  OllamaTypeOK <=> /\ config \in Configurations
                   /\ pc \in [Requests -> Stages] /\ op \in [Requests -> Outcomes]
                   /\ aborted \subseteq Requests /\ awaits \subseteq Requests
                   /\ WellQueued(queue, pc) /\ Len(queue) <= config.queue
                   /\ capacity \in Counters
                   /\ closing \in {"open", "cancelling", "draining", "closed"}
BY DEF OllamaTypeOK, WellQueued, Counters

\* Sound counters have their type.
LEMMA SoundType == ASSUME NEW c, NEW H, Sound(c, H) PROVE c \in Counters
BY NoLeaseType, ChargedGrants DEF Sound

\* What a step leaves of pc, queue and capacity.
Kept ==
  /\ pc' \in [Requests -> Stages] /\ WellQueued(queue', pc') /\ Len(queue') <= config.queue
  /\ Sound(capacity', Leased(pc'))
  /\ capacityClosed => queue' = <<>>

\* An empty queue has length 0, and no other has.
LEMMA EmptyQueue == \A q \in Seq(Requests) : Len(q) <= 0 <=> q = <<>>
OBVIOUS

\* A request goes on without the capacity manager.
LEMMA MovesOn ==
  ASSUME ManagerInv, NEW r \in Requests, NEW stage \in Stages \ {"queued"}, pc[r] # "queued",
         pc[r] \in Holding <=> stage \in Holding,
         pc' = [pc EXCEPT ![r] = stage], queue' = queue, capacity' = capacity
  PROVE  Kept
<1>1. pc \in [Requests -> Stages] /\ WellQueued(queue, pc) /\ Len(queue) <= config.queue
  BY TypeParts DEF ManagerInv
<1>2. \A x \in Requests : pc'[x] = IF x = r THEN stage ELSE pc[x]
  BY <1>1
<1>3. {x \in Requests : pc'[x] = "queued"} = {x \in Requests : pc[x] = "queued"}
  BY <1>2
<1>4. Leased(pc') = Leased(pc)
  BY <1>2 DEF Leased
<1>. QED
  BY <1>1, <1>3, <1>4 DEF ManagerInv, Kept, WellQueued

\* A waiter is given up.
LEMMA SettleMovesOn ==
  ASSUME ManagerInv, NEW r \in Requests, Settle(r), capacity' = capacity
  PROVE  Kept
<1>1. WellQueued(queue, pc) /\ Len(queue) <= config.queue /\ OllamaTypeOK
      /\ pc \in [Requests -> Stages] /\ config.queue \in Nat
  BY TypeParts, ConfigurationType DEF ManagerInv
<1>2. /\ pc' = [pc EXCEPT ![r] = "refused"]
      /\ WellQueued(queue', pc') /\ Len(queue') <= Len(queue) /\ Leased(pc') = Leased(pc)
  BY <1>1, SettleKeeps
<1>3. pc' \in [Requests -> Stages]
  BY <1>1, <1>2 DEF Stages
<1>4. queue \in Seq(Requests) /\ queue' \in Seq(Requests)
  BY <1>1, <1>2 DEF WellQueued
<1>5. Len(queue) \in Nat /\ Len(queue') \in Nat
  BY <1>4
<1>6. capacityClosed => queue' = <<>>
  BY <1>2, <1>4, <1>5, EmptyQueue DEF ManagerInv
<1>. QED
  BY <1>1, <1>2, <1>3, <1>5, <1>6 DEF ManagerInv, Kept

\* The stage a lease is released to.
Left(r) == IF pc[r] = "ending" THEN "done" ELSE "refused"

\* A lease is released and the waiters are looked at.
LEMMA ReleaseMovesOn ==
  ASSUME ManagerInv, NEW r \in Requests, pc[r] \in Holding, Release(r)
  PROVE  Kept
<1>1. WellQueued(queue, pc) /\ Len(queue) <= config.queue /\ OllamaTypeOK
      /\ pc \in [Requests -> Stages] /\ config.queue \in Nat
  BY TypeParts, ConfigurationType DEF ManagerInv
<1>2. PICK stage, p :
        /\ stage \in {"done", "refused"} /\ stage = Left(r) /\ p = [pc EXCEPT ![r] = stage]
  BY DEF Left
<1>3. \A x \in Requests : p[x] = IF x = r THEN stage ELSE pc[x]
  BY <1>1, <1>2
<1>4. {x \in Requests : p[x] = "queued"} = {x \in Requests : pc[x] = "queued"}
  BY <1>2, <1>3 DEF Holding
<1>5. WellQueued(queue, p)
  BY <1>1, <1>4 DEF WellQueued
<1>6. Leased(p) = Leased(pc) \ {r} /\ r \in Leased(pc)
  BY <1>2, <1>3 DEF Leased, Holding
<1>7. Sound(Refunded(capacity, r), Leased(p))
  BY <1>1, <1>6, RefundIsSound DEF ManagerInv
<1>8. Pump(queue, Refunded(capacity, r), r, stage)
  BY <1>2 DEF Release, Left
<1>9. PICK c : c = Refunded(capacity, r)
  OBVIOUS
<1>10. Sound(c, Leased(p)) /\ Pump(queue, c, r, stage)
  BY <1>7, <1>8, <1>9
<1>11. /\ pc' \in [Requests -> Stages] /\ WellQueued(queue', pc') /\ Len(queue') <= Len(queue)
       /\ Sound(capacity', Leased(pc'))
  BY <1>1, <1>2, <1>5, <1>10, PumpKeeps
<1>12. queue \in Seq(Requests) /\ queue' \in Seq(Requests)
  BY <1>1, <1>11 DEF WellQueued
<1>13. Len(queue) \in Nat /\ Len(queue') \in Nat
  BY <1>12
<1>14. capacityClosed => queue' = <<>>
  BY <1>11, <1>12, <1>13, EmptyQueue DEF ManagerInv
<1>. QED
  BY <1>1, <1>11, <1>13, <1>14 DEF Kept

\* A request joins the queue.
LEMMA JoinedQueue ==
  ASSUME OllamaTypeOK, NEW r \in Requests, pc[r] # "queued",
         NEW p, p = [pc EXCEPT ![r] = "queued"], NEW q, q = Append(queue, r)
  PROVE  /\ WellQueued(q, p) /\ Len(q) = Len(queue) + 1
         /\ \A i \in 1 .. Len(queue) : q[i] = queue[i]
<1>1. WellQueued(queue, pc) /\ pc \in [Requests -> Stages]
  BY TypeParts
<1>2. queue \in Seq(Requests) /\ Len(queue) \in Nat
  BY <1>1 DEF WellQueued
<1>3. /\ q \in Seq(Requests) /\ Len(q) = Len(queue) + 1 /\ q[Len(q)] = r
      /\ \A i \in 1 .. Len(queue) : q[i] = queue[i]
  BY <1>2
<1>4. \A x \in Requests : p[x] = IF x = r THEN "queued" ELSE pc[x]
  BY <1>1
<1>5. \A x \in Requests : pc[x] = "queued" <=> \E k \in 1 .. Len(queue) : x = queue[k]
  BY <1>1, <1>2 DEF WellQueued, FirstOf
<1>6. \A i \in 1 .. Len(q) : i \in 1 .. Len(queue) \/ i = Len(q)
  BY <1>2, <1>3
<1>7. \A i \in 1 .. Len(queue) : q[i] # r /\ q[i] \in Requests /\ i \in 1 .. Len(q)
  BY <1>2, <1>3, <1>5
<1>8. \A i, j \in 1 .. Len(queue) : q[i] = q[j] => i = j
  BY <1>1, <1>3 DEF WellQueued
<1>9. \A i, j \in 1 .. Len(q) : q[i] = q[j] => i = j
  BY <1>3, <1>6, <1>7, <1>8
<1>10. \A x \in Requests : p[x] = "queued" <=> \E i \in 1 .. Len(q) : x = q[i]
  <2>1. ASSUME NEW x \in Requests, p[x] = "queued" PROVE \E i \in 1 .. Len(q) : x = q[i]
    <3>1. CASE x = r
      BY <1>2, <1>3, <3>1
    <3>2. CASE x # r
      BY <1>3, <1>4, <1>5, <1>7, <2>1, <3>2
    <3>. QED
      BY <3>1, <3>2
  <2>2. ASSUME NEW i \in 1 .. Len(q) PROVE p[q[i]] = "queued"
    <3>1. CASE i = Len(q)
      BY <1>3, <1>4, <3>1
    <3>2. CASE i \in 1 .. Len(queue)
      BY <1>3, <1>4, <1>5, <1>7, <3>2
    <3>. QED
      BY <1>6, <3>1, <3>2
  <2>. QED
    BY <2>1, <2>2
<1>11. \A i \in 1 .. Len(q) : q[i] \in Requests
  BY <1>3, <1>6, <1>7
<1>12. FirstOf(q, Len(q)) = {x \in Requests : p[x] = "queued"}
  BY <1>10, <1>11 DEF FirstOf
<1>. QED
  BY <1>3, <1>9, <1>12 DEF WellQueued

\* acquire
LEMMA AcquireMovesOn ==
  ASSUME ManagerInv, NEW r \in Requests, pc[r] = "discovering", Acquire(r)
  PROVE  Kept
<1>1. WellQueued(queue, pc) /\ Len(queue) <= config.queue /\ OllamaTypeOK
      /\ pc \in [Requests -> Stages] /\ config.queue \in Nat
  BY TypeParts, ConfigurationType DEF ManagerInv
<1>2. queue \in Seq(Requests) /\ Len(queue) \in Nat
  BY <1>1 DEF WellQueued
<1>3. CASE pc' = [pc EXCEPT ![r] = "refused"] /\ UNCHANGED <<queue, capacity>>
  BY <1>3, MovesOn DEF Stages, Holding
<1>4. CASE /\ ~ capacityClosed /\ Admissible(r, capacity)
           /\ capacity' = Charged(capacity, {r})
           /\ pc' = [pc EXCEPT ![r] = "admitted"] /\ UNCHANGED queue
  <2>1. \A x \in Requests : pc'[x] = IF x = r THEN "admitted" ELSE pc[x]
    BY <1>1, <1>4
  <2>2. {x \in Requests : pc'[x] = "queued"} = {x \in Requests : pc[x] = "queued"}
    BY <2>1
  <2>3. r \in Requests \ Leased(pc) /\ Leased(pc') = Leased(pc) \cup {r}
    BY <2>1 DEF Leased, Holding
  <2>4. Sound(Granted(capacity, r), Leased(pc) \cup {r})
    BY <1>1, <1>4, <2>3, AdmissionIsSound DEF ManagerInv
  <2>5. Charged(capacity, {r}) = Granted(capacity, r)
    <3>1. capacity \in Counters /\ {} \in SUBSET Requests /\ r \in Requests \ {}
      BY <1>1, TypeParts
    <3>2. Charged(capacity, {}) = capacity
          /\ Charged(capacity, {} \cup {r}) = Granted(Charged(capacity, {}), r)
      BY <3>1, ChargedGrants
    <3>3. {} \cup {r} = {r}
      OBVIOUS
    <3>. QED
      BY <3>2, <3>3
  <2>6. pc' \in [Requests -> Stages]
    BY <1>1, <1>4 DEF Stages
  <2>. QED
    BY <1>1, <1>4, <2>2, <2>3, <2>4, <2>5, <2>6 DEF Kept, WellQueued
<1>5. CASE /\ ~ capacityClosed /\ Len(queue) < config.queue
           /\ Pump(Append(queue, r), capacity, r, "queued")
  <2>1. PICK p, q : p = [pc EXCEPT ![r] = "queued"] /\ q = Append(queue, r)
    OBVIOUS
  <2>2. WellQueued(q, p) /\ Len(q) = Len(queue) + 1
    BY <1>1, <2>1, JoinedQueue
  <2>3. Leased(p) = Leased(pc)
    <3>1. \A x \in Requests : p[x] = IF x = r THEN "queued" ELSE pc[x]
      BY <1>1, <2>1
    <3>. QED
      BY <3>1 DEF Leased, Holding
  <2>4. Sound(capacity, Leased(p)) /\ Pump(q, capacity, r, "queued")
    BY <1>5, <2>1, <2>3 DEF ManagerInv
  <2>5. /\ pc' \in [Requests -> Stages] /\ WellQueued(queue', pc') /\ Len(queue') <= Len(q)
        /\ Sound(capacity', Leased(pc'))
    BY <1>1, <2>1, <2>2, <2>4, PumpKeeps
  <2>6. Len(queue') \in Nat
    BY <2>5 DEF WellQueued
  <2>. QED
    BY <1>1, <1>2, <1>5, <2>2, <2>5, <2>6 DEF Kept
<1>6. Len(queue) >= config.queue \/ Len(queue) < config.queue
  BY <1>1, <1>2
<1>. QED
  BY <1>3, <1>4, <1>5, <1>6 DEF Acquire

\* close of the manager: every waiter is refused.
LEMMA CloseMovesOn ==
  ASSUME ManagerInv, CloseCapacity, capacity' = capacity
  PROVE  Kept /\ queue' = <<>>
<1>1. /\ pc \in [Requests -> Stages] /\ config.queue \in Nat
  BY TypeParts, ConfigurationType DEF ManagerInv
<1>2. /\ pc' = [x \in Requests |-> IF pc[x] = "queued" THEN "refused" ELSE pc[x]]
      /\ queue' = <<>>
  BY DEF CloseCapacity
<1>3. pc' \in [Requests -> Stages]
  BY <1>1, <1>2 DEF Stages
<1>4. {x \in Requests : pc'[x] = "queued"} = {}
  BY <1>2
<1>5. Leased(pc') = Leased(pc)
  BY <1>2 DEF Leased, Holding
<1>6. WellQueued(<<>>, pc')
  BY <1>4 DEF WellQueued, FirstOf
<1>. QED
  BY <1>1, <1>2, <1>3, <1>5, <1>6 DEF Kept, ManagerInv

\* A step that moves on and keeps its frame keeps ManagerInv.
LEMMA KeptInv ==
  ASSUME ManagerInv, Kept, config' = config,
         op' \in [Requests -> Outcomes], aborted' \subseteq Requests, awaits' \subseteq Requests,
         closing' \in {"open", "cancelling", "draining", "closed"},
         closing' \in {"draining", "closed"} => capacityClosed \/ queue' = <<>>
  PROVE  ManagerInv'
<1>1. config' \in Configurations
  BY DEF ManagerInv, OllamaTypeOK
<1>2. Sound(capacity', Leased(pc')) /\ capacity' \in Counters
  BY SoundType DEF Kept
<1>3. Sound(capacity, Leased(pc))'
  BY <1>2 DEF Sound, WithinLimits, Leased, Charged
<1>4. OllamaTypeOK'
  BY <1>1, <1>2 DEF Kept, OllamaTypeOK, WellQueued, Counters
<1>5. capacityClosed' => queue' = <<>>
  BY DEF capacityClosed, Kept
<1>. QED
  BY <1>3, <1>4, <1>5 DEF ManagerInv

\* Every step of the provider keeps ManagerInv.
LEMMA ManagerStep == ManagerInv /\ [OllamaNext]_ollamaVars => ManagerInv'
<1>. SUFFICES ASSUME ManagerInv, [OllamaNext]_ollamaVars PROVE ManagerInv'
  OBVIOUS
<1>0. /\ op \in [Requests -> Outcomes] /\ aborted \subseteq Requests /\ awaits \subseteq Requests
      /\ closing \in {"open", "cancelling", "draining", "closed"}
      /\ pc \in [Requests -> Stages] /\ WellQueued(queue, pc) /\ Len(queue) <= config.queue
      /\ config.queue \in Nat /\ Sound(capacity, Leased(pc)) /\ (capacityClosed => queue = <<>>)
  BY TypeParts, ConfigurationType DEF ManagerInv
\* The outcome of a cancelled operation.
<1>c. ASSUME NEW r, CancelOperation(r) PROVE op' \in [Requests -> Outcomes]
  BY <1>0, <1>c DEF CancelOperation, Outcomes
<1>1. ASSUME NEW r \in Requests, Start(r) PROVE ManagerInv'
  <2>1. Kept
    BY <1>1, MovesOn DEF Start, Stages, Holding
  <2>. QED
    BY <1>0, <1>1, <2>1, KeptInv DEF Start, capacityClosed
<1>2. ASSUME NEW r \in Requests, Validate(r) PROVE ManagerInv'
  <2>1. Kept
    <3>1. CASE pc' = [pc EXCEPT ![r] = "refused"] /\ UNCHANGED <<queue, capacity>>
      BY <1>2, <3>1, MovesOn DEF Validate, Stages, Holding
    <3>2. CASE Acquire(r)
      BY <1>2, <3>2, AcquireMovesOn DEF Validate
    <3>. QED
      BY <1>2, <3>1, <3>2 DEF Validate
  <2>. QED
    BY <1>0, <1>2, <2>1, KeptInv DEF Validate, capacityClosed
<1>3. ASSUME NEW r \in Requests, RequestStream(r) PROVE ManagerInv'
  <2>1. Kept
    <3>1. pc[r] = "admitted" /\ (Release(r) \/ (/\ pc' = [pc EXCEPT ![r] = "requesting"]
                                                 /\ UNCHANGED <<queue, capacity>>))
      BY <1>3 DEF RequestStream
    <3>2. CASE Release(r)
      BY <3>1, <3>2, ReleaseMovesOn DEF Holding
    <3>3. CASE pc' = [pc EXCEPT ![r] = "requesting"] /\ UNCHANGED <<queue, capacity>>
      BY <3>1, <3>3, MovesOn DEF Stages, Holding
    <3>. QED
      BY <3>1, <3>2, <3>3
  <2>. QED
    BY <1>0, <1>3, <2>1, KeptInv DEF RequestStream, capacityClosed
<1>4. ASSUME NEW r \in Requests, Respond(r) PROVE ManagerInv'
  <2>1. Kept
    BY <1>4, MovesOn DEF Respond, Stages, Holding
  <2>. QED
    BY <1>0, <1>4, <2>1, KeptInv DEF Respond, capacityClosed
<1>5. ASSUME NEW r \in Requests, RequestFails(r) \/ Finish(r) PROVE ManagerInv'
  <2>1. Kept
    BY <1>5, ReleaseMovesOn DEF RequestFails, Finish, Holding
  <2>. QED
    BY <1>0, <1>5, <2>1, KeptInv DEF RequestFails, Finish, capacityClosed
<1>6. ASSUME NEW r \in Requests, Open(r) PROVE ManagerInv'
  <2>1. Kept
    BY <1>6, MovesOn DEF Open, Stages, Holding
  <2>. QED
    BY <1>0, <1>6, <2>1, KeptInv DEF Open, capacityClosed
<1>7. ASSUME NEW r \in Requests, PumpEnds(r) PROVE ManagerInv'
  <2>1. Kept
    BY <1>7, MovesOn DEF PumpEnds, Stages, Holding
  <2>2. op' \in [Requests -> Outcomes]
    BY <1>0, <1>7 DEF PumpEnds, Outcomes
  <2>. QED
    BY <1>0, <1>7, <2>1, <2>2, KeptInv DEF PumpEnds, capacityClosed
<1>8. ASSUME NEW r \in Requests, AdmissionTimeout(r) PROVE ManagerInv'
  <2>1. Kept
    BY <1>8, SettleMovesOn DEF AdmissionTimeout
  <2>. QED
    BY <1>0, <1>8, <2>1, KeptInv DEF AdmissionTimeout, capacityClosed
<1>9. ASSUME NEW r \in Requests, Cancel(r) PROVE ManagerInv'
  <2>1. Kept
    BY <1>0, <1>9 DEF Cancel, Kept
  <2>. QED
    BY <1>0, <1>9, <1>c, <2>1, KeptInv DEF Cancel, capacityClosed
<1>10. ASSUME NEW r \in Requests, Abort(r) PROVE ManagerInv'
  <2>1. Kept
    <3>1. CASE pc[r] = "queued"
      BY <1>10, <3>1, SettleMovesOn DEF Abort
    <3>2. CASE pc[r] # "queued"
      BY <1>0, <1>10, <3>2 DEF Abort, Kept
    <3>. QED
      BY <3>1, <3>2
  <2>. QED
    BY <1>0, <1>10, <1>c, <2>1, KeptInv DEF Abort, capacityClosed
<1>11. ASSUME NEW rest \in SUBSET Requests, CloseFrom(rest), closing \in {"open", "cancelling"},
              UNCHANGED <<aborted, capacity, config>>
       PROVE  ManagerInv'
  <2>1. CASE rest = {}
    <3>1. CloseCapacity /\ closing' = "draining" /\ awaits' = Pumps /\ op' = op
      BY <1>11, <2>1 DEF CloseFrom
    <3>2. Kept /\ queue' = <<>>
      BY <1>11, <3>1, CloseMovesOn
    <3>3. awaits' \subseteq Requests
      BY <3>1 DEF Pumps
    <3>. QED
      BY <1>0, <1>11, <3>1, <3>2, <3>3, KeptInv
  <2>2. CASE rest # {}
    <3>1. PICK r \in rest : /\ CancelOperation(r) /\ closing' = "cancelling" /\ awaits' = rest \ {r}
                            /\ UNCHANGED <<pc, queue>>
      BY <1>11, <2>2 DEF CloseFrom
    <3>2. Kept
      BY <1>0, <1>11, <3>1 DEF Kept
    <3>3. awaits' \subseteq Requests /\ op' \in [Requests -> Outcomes]
      BY <1>c, <3>1
    <3>. QED
      BY <1>0, <1>11, <3>1, <3>2, <3>3, KeptInv
  <2>. QED
    BY <2>1, <2>2
<1>12. CASE Close
  BY <1>11, <1>12 DEF Close, closed, Pumps
<1>13. CASE CloseGoesOn
  BY <1>0, <1>11, <1>13 DEF CloseGoesOn
<1>14. CASE CloseReturns
  <2>1. Kept
    BY <1>0, <1>14 DEF CloseReturns, Kept
  <2>. QED
    BY <1>0, <1>14, <2>1, KeptInv DEF CloseReturns, capacityClosed
<1>15. CASE UNCHANGED ollamaVars
  <2>1. Kept
    BY <1>0, <1>15 DEF ollamaVars, Kept
  <2>. QED
    BY <1>0, <1>15, <2>1, KeptInv DEF ollamaVars, capacityClosed
<1>. QED
  BY <1>1, <1>2, <1>3, <1>4, <1>5, <1>6, <1>7, <1>8, <1>9, <1>10, <1>12, <1>13, <1>14, <1>15
     DEF OllamaNext, Advance, CloseAdvances

\* The initial state of the provider.
LEMMA ManagerInit == OllamaInit => ManagerInv
<1>. SUFFICES ASSUME OllamaInit PROVE ManagerInv
  OBVIOUS
<1>1. capacity = NoLease /\ Leased(pc) = {} /\ {} \in SUBSET Requests
  BY DEF OllamaInit, NoLease, Leased, Holding
<1>2. capacity = Charged(NoLease, {})
  BY <1>1, NoLeaseType, ChargedGrants
<1>3. /\ config.max \in Nat /\ \A m \in Models : config.perModel[m] \in Nat
      /\ config.queue \in Nat
  BY ProviderAssumption DEF OllamaInit
<1>4. WithinLimits(capacity)
  BY <1>1, <1>3 DEF WithinLimits, NoLease
<1>5. FirstOf(<<>>, 0) = {} /\ {x \in Requests : pc[x] = "queued"} = {}
  BY FirstOfSteps DEF OllamaInit
<1>6. WellQueued(queue, pc) /\ Len(queue) = 0
  BY <1>5 DEF OllamaInit, WellQueued
<1>7. OllamaTypeOK
  BY <1>1, <1>3, <1>6, NoLeaseType, TypeParts DEF OllamaInit, Stages, Outcomes
<1>. QED
  BY <1>1, <1>2, <1>4, <1>7 DEF ManagerInv, Sound, OllamaInit

\* The invariant of the capacity manager.
LEMMA ManagerInvariance == OllamaSpec => []ManagerInv
BY ManagerInit, ManagerStep, PTL DEF OllamaSpec

\* The state of the provider keeps its type.
THEOREM OllamaTypeCorrect == OllamaSpec => []OllamaTypeOK
BY ManagerInvariance, PTL DEF ManagerInv

\* On every path out of start() and out of the pump the lease is given back
\* once, and nobody is let in past one of the three limits.
THEOREM CapacityIsAccounted == OllamaSpec => []CapacityIsExact
<1>1. ManagerInv => CapacityIsExact
  BY DEF ManagerInv, Sound, WithinLimits, NoLease, Leased, Holders, CapacityIsExact
<1>. QED
  BY <1>1, ManagerInvariance, PTL

-----------------------------------------------------------------------------
(* The capacity manager: waiters are served in order                       *)

\* The step keeps the order of the waiters.
Ordered ==
  \A i, j \in 1 .. Len(queue) :
    i < j /\ pc'[queue[i]] = "queued" =>
      /\ pc'[queue[j]] # "admitted"
      /\ pc'[queue[j]] = "queued" =>
           \E k, l \in 1 .. Len(queue') : k < l /\ queue'[k] = queue[i] /\ queue'[l] = queue[j]

\* Who is in the queue waits, and is there once.
LEMMA InQueue ==
  ASSUME OllamaTypeOK
  PROVE  /\ queue \in Seq(Requests) /\ Len(queue) \in Nat
         /\ \A i \in 1 .. Len(queue) : queue[i] \in Requests /\ pc[queue[i]] = "queued"
         /\ \A i, j \in 1 .. Len(queue) : queue[i] = queue[j] => i = j
BY DEF OllamaTypeOK, FirstOf

\* A queue that is left alone keeps its order.
LEMMA SameOrder ==
  ASSUME OllamaTypeOK, queue' = queue,
         \A x \in Requests : pc[x] = "queued" => pc'[x] # "admitted"
  PROVE  Ordered
<1>. SUFFICES ASSUME NEW i \in 1 .. Len(queue), NEW j \in 1 .. Len(queue), i < j
              PROVE  /\ pc'[queue[j]] # "admitted"
                     /\ \E k, l \in 1 .. Len(queue') :
                          k < l /\ queue'[k] = queue[i] /\ queue'[l] = queue[j]
  BY DEF Ordered
<1>. QED
  BY InQueue

\* A waiter that is given up leaves the others in order.
LEMMA SettleOrder ==
  ASSUME OllamaTypeOK, NEW r \in Requests, Settle(r)
  PROVE  Ordered
<1>. SUFFICES ASSUME NEW i \in 1 .. Len(queue), NEW j \in 1 .. Len(queue), i < j,
                     pc'[queue[i]] = "queued"
              PROVE  /\ pc'[queue[j]] # "admitted"
                     /\ pc'[queue[j]] = "queued" => \E k, l \in 1 .. Len(queue') :
                          k < l /\ queue'[k] = queue[i] /\ queue'[l] = queue[j]
  BY DEF Ordered
<1>1. pc' = [pc EXCEPT ![r] = "refused"] /\ pc \in [Requests -> Stages]
  BY DEF Settle, OllamaTypeOK
<1>2. PICK n \in 1 .. Len(queue) : queue[n] = r /\ queue' = RemoveAt(queue, n)
  BY DEF Settle
<1>3. /\ queue' \in Seq(Requests) /\ Len(queue') = Len(queue) - 1
      /\ \A k \in 1 .. Len(queue') : queue'[k] = queue[IF k < n THEN k ELSE k + 1]
  <2>1. queue \in Seq(Requests)
    BY InQueue
  <2>. QED
    BY <1>2, <2>1, WithoutOne
<1>4. \A x \in Requests : pc'[x] = IF x = r THEN "refused" ELSE pc[x]
  BY <1>1
<1>5. pc'[queue[j]] # "admitted" /\ i # n
  BY <1>2, <1>4, InQueue
<1>6. ASSUME pc'[queue[j]] = "queued"
      PROVE  \E k, l \in 1 .. Len(queue') : k < l /\ queue'[k] = queue[i] /\ queue'[l] = queue[j]
  <2>0. Len(queue) \in Nat
    BY InQueue
  <2>1. j # n
    BY <1>2, <1>4, <1>6
  <2>2. PICK k, l : k = (IF i < n THEN i ELSE i - 1) /\ l = (IF j < n THEN j ELSE j - 1)
    OBVIOUS
  <2>3. k \in 1 .. Len(queue') /\ (IF k < n THEN k ELSE k + 1) = i
    BY <1>2, <1>3, <1>5, <2>0, <2>2
  <2>4. l \in 1 .. Len(queue') /\ (IF l < n THEN l ELSE l + 1) = j
    BY <1>2, <1>3, <2>0, <2>1, <2>2
  <2>5. k < l
    BY <1>2, <1>5, <2>0, <2>1, <2>2
  <2>6. queue'[k] = queue[i] /\ queue'[l] = queue[j]
    BY <1>3, <2>3, <2>4
  <2>. QED
    BY <2>3, <2>4, <2>5, <2>6
<1>. QED
  BY <1>5, <1>6

\* pump lets in whoever is first, and the others stay in order.
LEMMA PumpOrder ==
  ASSUME OllamaTypeOK, NEW r \in Requests, NEW stage \in {"queued", "done", "refused"},
         NEW q, NEW c, NEW p, p = [pc EXCEPT ![r] = stage], WellQueued(q, p),
         Len(queue) <= Len(q), \A i \in 1 .. Len(queue) : q[i] = queue[i],
         Pump(q, c, r, stage)
  PROVE  Ordered
<1>. SUFFICES ASSUME NEW i \in 1 .. Len(queue), NEW j \in 1 .. Len(queue), i < j,
                     pc'[queue[i]] = "queued"
              PROVE  /\ pc'[queue[j]] # "admitted"
                     /\ \E k, l \in 1 .. Len(queue') :
                          k < l /\ queue'[k] = queue[i] /\ queue'[l] = queue[j]
  BY DEF Ordered
<1>1. q \in Seq(Requests) /\ Len(q) \in Nat /\ p \in [Requests -> Stages] /\ Len(queue) \in Nat
  BY InQueue DEF OllamaTypeOK, WellQueued, Stages
<1>2. PICK n : n = Admitted(q, c)
  OBVIOUS
<1>3. n \in 0 .. Len(q)
  BY <1>1, <1>2, AdmittedPrefix
<1>4. PICK R : R = FirstOf(q, n)
  OBVIOUS
<1>5. /\ queue' = SubSeq(q, n + 1, Len(q))
      /\ pc' = [x \in Requests |-> IF x \in R THEN "admitted" ELSE IF x = r THEN stage ELSE pc[x]]
  BY <1>2, <1>4 DEF Pump, LetIn
<1>6. \A x \in Requests : pc'[x] = IF x \in R THEN "admitted" ELSE p[x]
  BY <1>5 DEF OllamaTypeOK
<1>7. /\ Len(queue') = Len(q) - n
      /\ \A k \in 1 .. Len(queue') : queue'[k] = q[k + n]
  BY <1>1, <1>3, <1>5, RestOfQueue
<1>8. \A x : x \in R <=> \E k \in 1 .. n : x = q[k]
  BY <1>4 DEF FirstOf
<1>9. /\ i \in 1 .. Len(q) /\ j \in 1 .. Len(q) /\ q[i] = queue[i] /\ q[j] = queue[j]
      /\ q[i] \in Requests /\ q[j] \in Requests
  BY <1>1
<1>10. i > n
  BY <1>3, <1>6, <1>8, <1>9
<1>11. pc'[queue[j]] # "admitted"
  <2>1. q[j] \notin R
    <3>. SUFFICES ASSUME NEW k \in 1 .. n, q[j] = q[k] PROVE FALSE
      BY <1>8
    <3>1. k \in 1 .. Len(q)
      BY <1>1, <1>3
    <3>2. j = k
      BY <1>9, <3>1 DEF WellQueued
    <3>. QED
      BY <1>3, <1>10, <3>2
  <2>2. p[q[j]] = "queued"
    BY <1>9 DEF WellQueued, FirstOf
  <2>. QED
    BY <1>6, <1>9, <2>1, <2>2
<1>12. /\ i - n \in 1 .. Len(queue') /\ j - n \in 1 .. Len(queue') /\ i - n < j - n
       /\ (i - n) + n = i /\ (j - n) + n = j
  BY <1>1, <1>3, <1>7, <1>9, <1>10
<1>13. queue'[i - n] = queue[i] /\ queue'[j - n] = queue[j]
  BY <1>7, <1>9, <1>12
<1>. QED
  BY <1>11, <1>12, <1>13

\* A lease that is released lets the first waiters in.
LEMMA ReleaseOrder ==
  ASSUME ManagerInv, NEW r \in Requests, pc[r] \in Holding, Release(r)
  PROVE  Ordered
<1>1. OllamaTypeOK /\ WellQueued(queue, pc) /\ pc \in [Requests -> Stages]
  BY TypeParts DEF ManagerInv
<1>2. PICK stage, p, c :
        /\ stage \in {"done", "refused"} /\ stage = Left(r) /\ p = [pc EXCEPT ![r] = stage]
        /\ c = Refunded(capacity, r)
  BY DEF Left
<1>3. \A x \in Requests : p[x] = IF x = r THEN stage ELSE pc[x]
  BY <1>1, <1>2
<1>4. {x \in Requests : p[x] = "queued"} = {x \in Requests : pc[x] = "queued"}
  BY <1>2, <1>3 DEF Holding
<1>5. WellQueued(queue, p)
  BY <1>1, <1>4 DEF WellQueued
<1>6. Pump(queue, c, r, stage)
  BY <1>2 DEF Release, Left
<1>7. Len(queue) <= Len(queue)
  BY <1>1, InQueue
<1>. QED
  BY <1>1, <1>2, <1>5, <1>6, <1>7, PumpOrder

\* A request is let in at once only when nobody waits.
LEMMA AcquireOrder ==
  ASSUME ManagerInv, NEW r \in Requests, pc[r] = "discovering", Acquire(r)
  PROVE  Ordered
<1>1. OllamaTypeOK /\ pc \in [Requests -> Stages]
  BY TypeParts DEF ManagerInv
<1>2. CASE queue' = queue /\ (pc' = [pc EXCEPT ![r] = "refused"] \/ pc' = [pc EXCEPT ![r] = "admitted"])
  BY <1>1, <1>2, SameOrder
<1>3. CASE Pump(Append(queue, r), capacity, r, "queued")
  <2>1. PICK p, q : p = [pc EXCEPT ![r] = "queued"] /\ q = Append(queue, r)
    OBVIOUS
  <2>2. /\ WellQueued(q, p) /\ Len(q) = Len(queue) + 1
        /\ \A i \in 1 .. Len(queue) : q[i] = queue[i]
    BY <1>1, <2>1, JoinedQueue
  <2>3. Len(queue) <= Len(q) /\ Pump(q, capacity, r, "queued")
    BY <1>1, <1>3, <2>1, <2>2, InQueue
  <2>. QED
    BY <1>1, <2>1, <2>2, <2>3, PumpOrder
<1>. QED
  BY <1>2, <1>3 DEF Acquire

\* Every step of the provider keeps the order of the waiters.
LEMMA OrderedStep == ManagerInv /\ OllamaNext => Ordered
<1>. SUFFICES ASSUME ManagerInv, OllamaNext PROVE Ordered
  OBVIOUS
<1>1. OllamaTypeOK /\ pc \in [Requests -> Stages]
  BY TypeParts DEF ManagerInv
<1>2. ASSUME NEW r \in Requests, Start(r) \/ Respond(r) \/ Open(r) \/ PumpEnds(r) \/ Cancel(r)
      PROVE  Ordered
  <2>1. queue' = queue
    BY <1>2 DEF Start, Respond, Open, PumpEnds, Cancel
  <2>2. \A x \in Requests : pc[x] = "queued" => pc'[x] # "admitted"
    BY <1>1, <1>2 DEF Start, Respond, Open, PumpEnds, Cancel
  <2>. QED
    BY <1>1, <2>1, <2>2, SameOrder
<1>3. ASSUME NEW r \in Requests, Validate(r) PROVE Ordered
  <2>1. CASE Acquire(r)
    BY <1>3, <2>1, AcquireOrder DEF Validate
  <2>2. CASE pc' = [pc EXCEPT ![r] = "refused"] /\ UNCHANGED <<queue, capacity>>
    BY <1>1, <2>2, SameOrder
  <2>. QED
    BY <1>3, <2>1, <2>2 DEF Validate
<1>4. ASSUME NEW r \in Requests, RequestStream(r) PROVE Ordered
  <2>1. CASE Release(r)
    BY <1>4, <2>1, ReleaseOrder DEF RequestStream, Holding
  <2>2. CASE pc' = [pc EXCEPT ![r] = "requesting"] /\ UNCHANGED <<queue, capacity>>
    BY <1>1, <2>2, SameOrder
  <2>. QED
    BY <1>4, <2>1, <2>2 DEF RequestStream
<1>5. ASSUME NEW r \in Requests, RequestFails(r) \/ Finish(r) PROVE Ordered
  BY <1>5, ReleaseOrder DEF RequestFails, Finish, Holding
<1>6. ASSUME NEW r \in Requests, AdmissionTimeout(r) \/ Abort(r) PROVE Ordered
  <2>1. CASE Settle(r)
    BY <1>1, <2>1, SettleOrder
  <2>2. CASE UNCHANGED <<pc, queue>>
    BY <1>1, <2>2, SameOrder
  <2>. QED
    BY <1>6, <2>1, <2>2 DEF AdmissionTimeout, Abort
<1>7. ASSUME NEW rest, CloseFrom(rest) PROVE Ordered
  <2>1. CASE CloseCapacity
    <3>1. \A x \in Requests : pc'[x] # "queued"
      BY <2>1 DEF CloseCapacity
    <3>. QED
      BY <1>1, <3>1, InQueue DEF Ordered
  <2>2. CASE UNCHANGED <<pc, queue>>
    BY <1>1, <2>2, SameOrder
  <2>. QED
    BY <1>7, <2>1, <2>2 DEF CloseFrom
<1>8. CASE CloseReturns
  BY <1>1, <1>8, SameOrder DEF CloseReturns
<1>. QED
  BY <1>2, <1>3, <1>4, <1>5, <1>6, <1>7, <1>8
     DEF OllamaNext, Advance, CloseAdvances, Close, CloseGoesOn

\* "Waiters queue strictly FIFO": no step lets anybody in past a waiter who goes
\* on waiting, or makes two waiters change places.
THEOREM WaitersAreServedInOrder == OllamaSpec => FirstComeFirstServed
<1>1. ManagerInv /\ [OllamaNext]_ollamaVars => [Ordered]_ollamaVars
  BY OrderedStep
<1>. QED
  BY <1>1, ManagerInvariance, PTL DEF OllamaSpec, FirstComeFirstServed, Ordered

\* Once the capacity manager is closed nobody waits in it and nobody is let in,
\* neither a request on its way to acquire nor a waiter behind a released lease.
THEOREM ClosedManagerAdmitsNobody == OllamaSpec => ClosedAdmitsNobody
<1>. DEFINE Shut == capacityClosed => queue' = <<>> /\ Holders' \subseteq Holders
<1>1. ManagerInv /\ [OllamaNext]_ollamaVars => [Shut]_ollamaVars
  <2>. SUFFICES ASSUME ManagerInv, OllamaNext, capacityClosed PROVE queue' = <<>> /\ Holders' \subseteq Holders
    OBVIOUS
  <2>1. ManagerInv' /\ OllamaTypeOK /\ pc \in [Requests -> Stages] /\ queue = <<>>
    BY ManagerStep, TypeParts DEF ManagerInv
  <2>2. closing \in {"draining", "closed"} /\ closing' \in {"draining", "closed"}
    BY DEF capacityClosed, OllamaNext, Start, Advance, Validate, RequestStream, Respond, RequestFails,
           Open, PumpEnds, Finish, AdmissionTimeout, Cancel, Abort, Close, closed, CloseAdvances,
           CloseGoesOn, CloseReturns
  <2>3. queue' = <<>>
    BY <2>1, <2>2 DEF ManagerInv, capacityClosed
  <2>4. ASSUME NEW q, NEW c, NEW r \in Requests, NEW stage \in {"done", "refused"},
               q = <<>>, Pump(q, c, r, stage)
        PROVE  Holders' \subseteq Holders
    <3>1. q \in Seq(Requests) /\ Len(q) = 0
      BY <2>4
    <3>2. Admitted(q, c) \in 0 .. Len(q)
      BY <3>1, AdmittedPrefix
    <3>3. pc' = [x \in Requests |-> IF x \in {} THEN "admitted" ELSE IF x = r THEN stage ELSE pc[x]]
      <4>1. Admitted(q, c) = 0
        BY <3>1, <3>2
      <4>. QED
        BY <2>4, <4>1, FirstOfSteps DEF Pump, LetIn
    <3>. QED
      BY <3>3 DEF Holders, Holding
  <2>5. ASSUME NEW r \in Requests, Release(r) PROVE Holders' \subseteq Holders
    <3>1. PICK stage : stage \in {"done", "refused"} /\ stage = Left(r)
      BY DEF Left
    <3>2. Pump(queue, Refunded(capacity, r), r, stage)
      BY <2>5, <3>1 DEF Release, Left
    <3>. QED
      BY <2>1, <2>4, <3>1, <3>2
  <2>6. ASSUME NEW r \in Requests, NEW stage \in Stages, pc' = [pc EXCEPT ![r] = stage],
               stage \in Holding => pc[r] \in Holding
        PROVE  Holders' \subseteq Holders
    BY <2>1, <2>6 DEF Holders
  <2>7. ASSUME NEW r \in Requests,
               Start(r) \/ Respond(r) \/ Open(r) \/ PumpEnds(r) \/ Settle(r) \/ Acquire(r)
        PROVE  Holders' \subseteq Holders
    BY <2>6, <2>7 DEF Start, Respond, Open, PumpEnds, Settle, Acquire, Holding, Stages
  <2>8. ASSUME pc' = pc \/ CloseCapacity PROVE Holders' \subseteq Holders
    BY <2>8 DEF Holders, CloseCapacity, Holding
  <2>9. ASSUME NEW r \in Requests, Validate(r) \/ RequestStream(r) \/ RequestFails(r) \/ Finish(r)
        PROVE  Holders' \subseteq Holders
    <3>1. CASE pc' = [pc EXCEPT ![r] = "refused"]
      BY <2>6, <3>1 DEF Stages, Holding
    <3>2. CASE RequestStream(r) /\ pc' = [pc EXCEPT ![r] = "requesting"]
      BY <2>6, <3>2 DEF RequestStream, Stages, Holding
    <3>. QED
      BY <2>5, <2>7, <2>9, <3>1, <3>2 DEF Validate, RequestStream, RequestFails, Finish
  <2>10. ASSUME NEW r \in Requests, AdmissionTimeout(r) \/ Cancel(r) \/ Abort(r)
         PROVE  Holders' \subseteq Holders
    BY <2>7, <2>8, <2>10 DEF AdmissionTimeout, Cancel, Abort
  <2>11. ASSUME Close \/ CloseAdvances PROVE Holders' \subseteq Holders
    BY <2>8, <2>11 DEF Close, CloseAdvances, CloseGoesOn, CloseReturns, CloseFrom
  <2>12. Holders' \subseteq Holders
    BY <2>7, <2>9, <2>10, <2>11 DEF OllamaNext, Advance
  <2>. QED
    BY <2>3, <2>12
<1>. QED
  BY <1>1, ManagerInvariance, PTL DEF OllamaSpec, ClosedAdmitsNobody

=============================================================================
