------------------------ MODULE RegressionStoreProofs ------------------------
(***************************************************************************)
(* Proofs about RegressionStore for every set of runs and test ids, with   *)
(* and without enforced foreign keys: whatever is planned, replaced,       *)
(* executed and deleted, a suite that was made from a run runs no test     *)
(* twice and a baseline loses no case unasked.                             *)
(***************************************************************************)
EXTENDS RegressionStore, FiniteSetTheorems, WellFoundedInduction, TLAPS

---------------------------------------------------------------------------
(* Sets of numbers and of rows.                                            *)

LEMMA LeastNat ==
    ASSUME NEW N \in SUBSET Nat, N # {}
    PROVE  \E m \in N : \A k \in N : m <= k
<1> DEFINE less == {p \in Nat \X Nat : p[1] < p[2]}
<1>1. IsWellFoundedOn(less, Nat)
  BY NatLessThanWellFounded DEF OpToRel
<1>2. \A k, m \in Nat : k < m => <<k, m>> \in less
  OBVIOUS
<1> HIDE DEF less
<1>3. N \subseteq Nat /\ N # {}
  OBVIOUS
<1>4. PICK m \in N : \A k \in N : ~ (<<k, m>> \in less)
  BY <1>1, <1>3, WFMin
<1>5. \A k \in N : m <= k
  <2> SUFFICES ASSUME NEW k \in N PROVE m <= k
    OBVIOUS
  <2>1. m \in Nat /\ k \in Nat /\ ~ (k < m)
    BY <1>2, <1>3, <1>4
  <2> QED
    BY <2>1
<1> QED
  BY <1>5

Results == {"Untested", "Pass", "Fail", "Skipped", "FailThenSkipped"}
Rows == [id : Nat, run : Runs, baseline : BOOLEAN, tc : TestIds, result : Results]

\* New rows: finitely many, one for every test id, with ids that are new.
LEMMA NewRowsAreNew ==
    ASSUME ids \in Nat, NEW r \in Runs, NEW baseline \in BOOLEAN, NEW T \in SUBSET TestIds,
           NEW f \in Numberings(T)
    PROVE  /\ IsFiniteSet(NewRows(r, baseline, T, f)) /\ NewRows(r, baseline, T, f) \subseteq Rows
           /\ Cardinality(T) \in Nat
           /\ \A c \in NewRows(r, baseline, T, f) : c.id > ids /\ c.id <= ids + Cardinality(T)
           /\ \A c, d \in NewRows(r, baseline, T, f) : c.id = d.id => c = d
<1> DEFINE Row(t) == [id |-> f[t], run |-> r, baseline |-> baseline, tc |-> t,
                      result |-> "Untested"]
           rowOf == [t \in T |-> Row(t)]
           new == NewRows(r, baseline, T, f)
<1>1. IsFiniteSet(T) /\ Cardinality(T) \in Nat
  BY TestIdsAssumption, FS_Subset, FS_CardinalityType
<1>2. /\ f \in [T -> ids + 1 .. ids + Cardinality(T)]
      /\ \A s, t \in T : s # t => f[s] # f[t]
  BY DEF Numberings
<1>3. \A t \in T : f[t] \in Nat /\ f[t] > ids /\ f[t] <= ids + Cardinality(T)
  BY <1>1, <1>2
<1>4. \A t \in T : Row(t) \in Rows /\ Row(t).id = f[t]
  BY <1>3 DEF Rows, Results
<1>5. new = {Row(t) : t \in T}
  BY DEF NewRows
<1>6. rowOf \in Surjection(T, new)
  BY <1>5 DEF Surjection
<1>7. IsFiniteSet(new)
  BY <1>1, <1>6, FS_Surjection
<1>8. \A c, d \in new : c.id = d.id => c = d
  BY <1>2, <1>5
<1> QED
  BY <1>1, <1>3, <1>4, <1>5, <1>7, <1>8

---------------------------------------------------------------------------
(* The inductive invariant.                                                *)

Suites == [id : Nat, run : Runs \cup {None}, listed : BOOLEAN, archived : BOOLEAN]
Links == [suite : Nat, copy : Nat, case : Nat, enabled : BOOLEAN]
LinksOf(s) == {l \in links : l.suite = s.id}

\* A row has an id of its own, and no id is given twice.
Stored ==
    /\ ids \in Nat /\ cases \subseteq Rows /\ IsFiniteSet(cases)
    /\ \A c \in cases : c.id <= ids
    /\ \A c, d \in cases : c.id = d.id => c = d
    /\ contexts \in [Runs -> (SUBSET TestIds) \cup {None}]

SuitesOK == IsFiniteSet(suites) /\ suites \subseteq Suites

\* A link belongs to a suite, and to a row that was there.
Linked ==
    /\ links \subseteq Links
    /\ \A l \in links : l.case <= ids /\ \E s \in suites : s.id = l.suite

\* Links to different rows, which are of different tests as far as they are there.
Apart(L, rows) ==
    /\ \A k, l \in L : k.case = l.case => k = l
    /\ \A k, l \in L : \A c, d \in rows :
          c.id = k.case /\ d.id = l.case /\ c.tc = d.tc => k.case = l.case

Distinct == \A s \in suites : s.listed = FALSE => Apart(LinksOf(s), cases)

IInv == Stored /\ SuitesOK /\ Linked /\ Distinct

---------------------------------------------------------------------------
(* How an action may change the rows and the links.                        *)

\* Links may go, and rows, if those that stay are of the same tests.
LEMMA ApartLess ==
    ASSUME NEW L, NEW M \in SUBSET L, NEW rows, NEW kept, Apart(L, rows),
           \A l \in M : \A c \in kept : c.id = l.case => \E b \in rows : b.id = c.id /\ b.tc = c.tc
    PROVE  Apart(M, kept)
<1>1. \A k, l \in M : k.case = l.case => k = l
  BY DEF Apart
<1>2. ASSUME NEW k \in M, NEW l \in M, NEW c \in kept, NEW d \in kept,
             c.id = k.case, d.id = l.case, c.tc = d.tc
      PROVE  k.case = l.case
  <2>1. PICK a \in rows : a.id = c.id /\ a.tc = c.tc
    BY <1>2
  <2>2. PICK b \in rows : b.id = d.id /\ b.tc = d.tc
    BY <1>2
  <2> QED
    BY <1>2, <2>1, <2>2 DEF Apart
<1> QED
  BY <1>1, <1>2 DEF Apart

\* Links may be rewritten one by one, if they keep their rows.
LEMMA ApartImage ==
    ASSUME NEW L, NEW M, NEW f, NEW rows, Apart(L, rows),
           \A k \in M : \E i \in L : k = f[i] /\ k.case = i.case
    PROVE  Apart(M, rows)
<1>1. ASSUME NEW k \in M, NEW l \in M, k.case = l.case
      PROVE  k = l
  <2>1. PICK i \in L : k = f[i] /\ k.case = i.case
    OBVIOUS
  <2>2. PICK j \in L : l = f[j] /\ l.case = j.case
    OBVIOUS
  <2>3. i = j
    BY <1>1, <2>1, <2>2 DEF Apart
  <2> QED
    BY <2>1, <2>2, <2>3
<1>2. ASSUME NEW k \in M, NEW l \in M, NEW c \in rows, NEW d \in rows,
             c.id = k.case, d.id = l.case, c.tc = d.tc
      PROVE  k.case = l.case
  <2>1. PICK i \in L : k.case = i.case
    OBVIOUS
  <2>2. PICK j \in L : l.case = j.case
    OBVIOUS
  <2> QED
    BY <1>2, <2>1, <2>2 DEF Apart
<1> QED
  BY <1>1, <1>2 DEF Apart

\* Rows may go, be updated in place, and be added with ids of their own; links may go.
LEMMA RowsChange ==
    ASSUME IInv, ids' \in Nat, ids <= ids',
           cases' \subseteq Rows, IsFiniteSet(cases'),
           \A c \in cases' : c.id <= ids' /\ (c.id <= ids => \E b \in cases : b.id = c.id /\ b.tc = c.tc),
           \A c, d \in cases' : c.id = d.id => c = d,
           contexts' \in [Runs -> (SUBSET TestIds) \cup {None}],
           links' \subseteq links, suites' = suites
    PROVE  IInv'
<1>1. ids \in Nat
  BY DEF IInv, Stored
<1>2. Stored'
  BY DEF Stored
<1>3. SuitesOK'
  BY DEF IInv, SuitesOK
<1>4. \A l \in links' : l \in Links /\ l.case <= ids
  BY DEF IInv, Linked
<1>5. Linked'
  <2>1. \A l \in links' : l.case <= ids'
    BY <1>1, <1>4 DEF Links
  <2> QED
    BY <2>1 DEF IInv, Linked
<1>6. Distinct'
  <2> SUFFICES ASSUME NEW s \in suites', s.listed = FALSE
               PROVE  Apart(LinksOf(s)', cases')
    BY DEF Distinct
  <2>1. Apart(LinksOf(s), cases)
    BY DEF IInv, Distinct
  <2>2. LinksOf(s)' \in SUBSET LinksOf(s) /\ \A l \in LinksOf(s)' : l \in links'
    BY DEF LinksOf
  <2>3. \A l \in LinksOf(s)' : \A c \in cases' :
            c.id = l.case => \E b \in cases : b.id = c.id /\ b.tc = c.tc
    BY <1>4, <2>2
  <2> QED
    BY <2>1, <2>2, <2>3, ApartLess
<1> QED
  BY <1>2, <1>3, <1>5, <1>6 DEF IInv

\* Rows go and new ones are inserted.
LEMMA RowsReplaced ==
    ASSUME IInv, NEW r \in Runs, NEW baseline \in BOOLEAN, NEW T \in SUBSET TestIds,
           NEW f \in Numberings(T), NEW gone,
           cases' = (cases \ gone) \cup NewRows(r, baseline, T, f),
           ids' = ids + Cardinality(T),
           contexts' \in [Runs -> (SUBSET TestIds) \cup {None}],
           links' \subseteq links, suites' = suites
    PROVE  IInv'
<1> DEFINE new == NewRows(r, baseline, T, f)
<1>1. /\ ids \in Nat /\ cases \subseteq Rows /\ IsFiniteSet(cases)
      /\ \A c \in cases : c.id <= ids
      /\ \A c, d \in cases : c.id = d.id => c = d
  BY DEF IInv, Stored
<1>2. /\ IsFiniteSet(new) /\ new \subseteq Rows /\ Cardinality(T) \in Nat
      /\ \A c \in new : c.id > ids /\ c.id <= ids + Cardinality(T)
      /\ \A c, d \in new : c.id = d.id => c = d
  BY <1>1, NewRowsAreNew
<1>3. cases' = (cases \ gone) \cup new
  OBVIOUS
<1> HIDE DEF new
<1>4. ids' \in Nat /\ ids <= ids'
  BY <1>1, <1>2
<1>5. IsFiniteSet(cases \ gone)
  BY <1>1, FS_Difference
<1>6. IsFiniteSet(cases')
  <2>1. IsFiniteSet((cases \ gone) \cup new)
    BY <1>2, <1>5, FS_Union
  <2> QED
    BY <1>3, <2>1
<1>7. cases' \subseteq Rows
  BY <1>1, <1>2, <1>3
<1>8. \A c \in cases' : c.id \in Nat
  BY <1>7 DEF Rows
<1>9. \A c \in cases' : c.id <= ids' /\ (c.id <= ids => \E b \in cases : b.id = c.id /\ b.tc = c.tc)
  BY <1>1, <1>2, <1>3, <1>8
<1>10. \A c, d \in cases' : c.id = d.id => c = d
  BY <1>1, <1>2, <1>3, <1>8
<1> QED
  BY <1>4, <1>6, <1>7, <1>9, <1>10, RowsChange

\* No row changes but in its result.
LEMMA RowsStay ==
    ASSUME IInv, ids' = ids, cases' \subseteq Rows, IsFiniteSet(cases'),
           \A c \in cases' : \E b \in cases : b.id = c.id /\ b.tc = c.tc,
           \A c, d \in cases' : c.id = d.id => c = d,
           links' \subseteq links, suites' = suites,
           contexts' \in [Runs -> (SUBSET TestIds) \cup {None}]
    PROVE  IInv'
<1>1. ids' \in Nat /\ ids <= ids' /\ \A c \in cases : c.id <= ids'
  BY DEF IInv, Stored
<1>2. \A c \in cases' : c.id <= ids'
  BY <1>1
<1> QED
  BY <1>1, <1>2, RowsChange

\* With the rows as they were, only the suites and the links count.
LEMMA SuitesChange ==
    ASSUME IInv, UNCHANGED <<ids, cases, contexts>>, SuitesOK', Linked', Distinct'
    PROVE  IInv'
BY DEF IInv, Stored

---------------------------------------------------------------------------
(* One lemma for every action.                                             *)

LEMMA InitialOK ==
    ASSUME Init PROVE IInv
<1>1. Stored /\ SuitesOK
  <2>1. IsFiniteSet(cases) /\ IsFiniteSet(suites)
    BY FS_EmptySet DEF Init
  <2> QED
    BY <2>1 DEF Init, Stored, SuitesOK
<1>2. Linked /\ Distinct
  BY DEF Init, Linked, Distinct
<1> QED
  BY <1>1, <1>2 DEF IInv

LEMMA CreateRunOK ==
    ASSUME IInv, NEW r \in Runs, CreateRun(r)
    PROVE  IInv'
<1>1. contexts' \in [Runs -> (SUBSET TestIds) \cup {None}]
  BY DEF IInv, Stored, CreateRun
<1> QED
  BY <1>1 DEF CreateRun, IInv, Stored, SuitesOK, Linked, Distinct, LinksOf

\* A plan adds rows; what is there stays.
LEMMA GeneratePlanOK ==
    ASSUME IInv, NEW r \in Runs, NEW T \in SUBSET TestIds, GeneratePlan(r, T)
    PROVE  IInv'
<1> DEFINE new == T \ TestIdsOf(PlanCases(r, FALSE))
<1>1. /\ ids' = ids + Cardinality(new) /\ contexts' = [contexts EXCEPT ![r] = T]
      /\ suites' = suites /\ links' = links
      /\ \E f \in Numberings(new) : cases' = cases \cup NewRows(r, FALSE, new, f)
  BY DEF GeneratePlan, Insert
<1>2. new \in SUBSET TestIds /\ FALSE \in BOOLEAN
  OBVIOUS
<1> HIDE DEF new
<1>3. PICK f \in Numberings(new) : cases' = cases \cup NewRows(r, FALSE, new, f)
  BY <1>1
<1>4. cases' = (cases \ {}) \cup NewRows(r, FALSE, new, f)
  BY <1>3
<1>5. contexts' \in [Runs -> (SUBSET TestIds) \cup {None}]
  BY <1>1 DEF IInv, Stored
<1> QED
  BY <1>1, <1>2, <1>4, <1>5, RowsReplaced

\* A baseline is deleted and inserted again; without foreign keys its links dangle.
LEMMA SaveBaselineOK ==
    ASSUME IInv, NEW r \in Runs, NEW overwrite \in BOOLEAN, SaveBaseline(r, overwrite)
    PROVE  IInv'
<1> DEFINE T == BaselineCases(r)
           gone == IF T = {} THEN {} ELSE PlanCases(r, TRUE)
<1>1. /\ ids' = ids + Cardinality(T) /\ contexts' = contexts /\ suites' = suites
      /\ links' = LinksWithout(gone)
      /\ \E f \in Numberings(T) : cases' = (cases \ gone) \cup NewRows(r, TRUE, T, f)
  BY DEF SaveBaseline, Insert
<1>2. T \in SUBSET TestIds /\ TRUE \in BOOLEAN
  BY DEF BaselineCases, IInv, Stored
<1> HIDE DEF T, gone
<1>3. PICK f \in Numberings(T) : cases' = (cases \ gone) \cup NewRows(r, TRUE, T, f)
  BY <1>1
<1>4. links' \subseteq links
  BY <1>1 DEF LinksWithout
<1>5. contexts' \in [Runs -> (SUBSET TestIds) \cup {None}]
  BY <1>1 DEF IInv, Stored
<1> QED
  BY <1>1, <1>2, <1>3, <1>4, <1>5, RowsReplaced

\* A new suite links to rows of different tests; its id is new, and so are its links.
LEMMA AddSuiteOK ==
    ASSUME IInv, NEW r \in Runs \cup {None}, NEW listed \in BOOLEAN, NEW new,
           \A l \in new : l \in Links /\ l.suite = NextSuite /\ l.case <= ids,
           listed = FALSE => Apart(new, cases),
           AddSuite(r, listed, new)
    PROVE  IInv'
<1> DEFINE n == NextSuite
           row == [id |-> n, run |-> r, listed |-> listed, archived |-> FALSE]
<1>1. /\ suites' = suites \cup {row} /\ row.id = n /\ row.listed = listed
      /\ links' = links \cup new
      /\ \A s \in suites : s.id # n
      /\ UNCHANGED <<ids, cases, contexts>>
  BY DEF AddSuite
<1>2. n \in Nat
  BY FS_CardinalityType DEF NextSuite, IInv, SuitesOK
<1>4. \A l \in new : l \in Links /\ l.suite = n /\ l.case <= ids
  OBVIOUS
<1>5. \A l \in links : l \in Links /\ l.case <= ids /\ l.suite # n /\ \E s \in suites : s.id = l.suite
  BY <1>1 DEF IInv, Linked
<1>6. row \in Suites
  BY <1>2 DEF Suites
<1> HIDE DEF n, row
<1>7. SuitesOK'
  <2>1. IsFiniteSet(suites')
    BY <1>1, FS_AddElement DEF IInv, SuitesOK
  <2> QED
    BY <1>1, <1>6, <2>1 DEF IInv, SuitesOK
<1>8. Linked'
  <2>1. \E s \in suites' : s.id = n
    BY <1>1
  <2>2. links' \subseteq Links
    BY <1>1, <1>4, <1>5
  <2>3. \A l \in links' : l.case <= ids' /\ \E s \in suites' : s.id = l.suite
    BY <1>1, <1>4, <1>5, <2>1
  <2> QED
    BY <2>2, <2>3 DEF Linked
<1>9. Distinct'
  <2> SUFFICES ASSUME NEW s \in suites', s.listed = FALSE
               PROVE  Apart(LinksOf(s)', cases)
    BY <1>1 DEF Distinct
  <2>1. CASE s \in suites
    <3>1. LinksOf(s)' = LinksOf(s)
      BY <1>1, <1>4, <2>1 DEF LinksOf
    <3> QED
      BY <2>1, <3>1 DEF IInv, Distinct
  <2>2. CASE s = row
    <3>1. LinksOf(s)' = new
      BY <1>1, <1>4, <1>5, <2>2 DEF LinksOf
    <3> QED
      BY <1>1, <2>2, <3>1
  <2> QED
    BY <1>1, <2>1, <2>2
<1> QED
  BY <1>1, <1>7, <1>8, <1>9, SuitesChange

\* The newest row of every test id is one row.
LEMMA NewestIsOne ==
    ASSUME IInv, NEW r
    PROVE  /\ NewestOfRun(r) \in SUBSET cases
           /\ \A c, d \in NewestOfRun(r) : c.tc = d.tc => c = d
<1>1. /\ \A c \in cases : c.id \in Nat
      /\ \A c, d \in cases : c.id = d.id => c = d
  BY DEF IInv, Stored, Rows
<1>2. \A c, d \in NewestOfRun(r) : c.tc = d.tc => c.id <= d.id /\ d.id <= c.id /\ c \in cases /\ d \in cases
  BY DEF NewestOfRun, CasesOfRun
<1>3. \A c, d \in NewestOfRun(r) : c.tc = d.tc => c = d
  BY <1>1, <1>2
<1> QED
  BY <1>3 DEF NewestOfRun, CasesOfRun

\* What a link of a new suite is.
LEMMA NewLink ==
    ASSUME IInv, NEW c \in cases, NEW copy \in Nat
    PROVE  /\ LinkTo(c, copy) \in Links /\ LinkTo(c, copy).suite = NextSuite
           /\ LinkTo(c, copy).copy = copy /\ LinkTo(c, copy).enabled = TRUE
           /\ LinkTo(c, copy).case = c.id /\ c.id <= ids
<1>1. NextSuite \in Nat
  BY FS_CardinalityType DEF NextSuite, IInv, SuitesOK
<1>2. c.id \in Nat /\ c.id <= ids
  BY DEF IInv, Stored, Rows
<1> QED
  BY <1>1, <1>2 DEF LinkTo, Links

LEMMA CreateSuiteOfRunOK ==
    ASSUME IInv, NEW r \in Runs, CreateSuiteOfRun(r)
    PROVE  IInv'
<1> DEFINE new == {LinkTo(c, 1) : c \in NewestOfRun(r)}
<1>1. /\ NewestOfRun(r) \in SUBSET cases
      /\ \A c, d \in NewestOfRun(r) : c.tc = d.tc => c = d
  BY NewestIsOne
<1>2. \A c, d \in cases : c.id = d.id => c = d
  BY DEF IInv, Stored
<1>3. \A c \in NewestOfRun(r) :
          /\ LinkTo(c, 1) \in Links /\ LinkTo(c, 1).suite = NextSuite
          /\ LinkTo(c, 1).case = c.id /\ c.id <= ids
  BY <1>1, NewLink
<1>4. AddSuite(r, FALSE, new)
  BY DEF CreateSuiteOfRun
<1>5. \A l \in new : \E c \in NewestOfRun(r) : l = LinkTo(c, 1)
  OBVIOUS
<1> HIDE DEF new
<1>6. \A l \in new : l \in Links /\ l.suite = NextSuite /\ l.case <= ids
  BY <1>3, <1>5
<1>7. Apart(new, cases)
  <2>1. ASSUME NEW k \in new, NEW l \in new, k.case = l.case
        PROVE  k = l
    <3>1. PICK c \in NewestOfRun(r) : k = LinkTo(c, 1)
      BY <1>5
    <3>2. PICK d \in NewestOfRun(r) : l = LinkTo(d, 1)
      BY <1>5
    <3>3. c.id = d.id
      BY <1>3, <2>1, <3>1, <3>2
    <3>4. c = d
      BY <1>1, <1>2, <3>3
    <3> QED
      BY <3>1, <3>2, <3>4
  <2>2. ASSUME NEW k \in new, NEW l \in new, NEW c \in cases, NEW d \in cases,
               c.id = k.case, d.id = l.case, c.tc = d.tc
        PROVE  k.case = l.case
    <3>1. PICK a \in NewestOfRun(r) : k = LinkTo(a, 1)
      BY <1>5
    <3>2. PICK b \in NewestOfRun(r) : l = LinkTo(b, 1)
      BY <1>5
    <3>3. a = c /\ b = d
      BY <1>1, <1>2, <1>3, <2>2, <3>1, <3>2
    <3> QED
      BY <1>1, <2>2, <3>1, <3>2, <3>3
  <2> QED
    BY <2>1, <2>2 DEF Apart
<1> QED
  BY <1>4, <1>6, <1>7, AddSuiteOK

\* A list may name what it likes: its suite is none of the distinct ones.
LEMMA CreateSuiteOfCasesOK ==
    ASSUME IInv, NEW r \in Runs \cup {None}, NEW n \in 0..MaxListed, CreateSuiteOfCases(r, n)
    PROVE  IInv'
<1>1. PICK list \in [1..n -> cases] :
          AddSuite(r, TRUE, {LinkTo(list[i], Occurrence(list, i)) : i \in 1..n})
  BY DEF CreateSuiteOfCases
<1> DEFINE new == {LinkTo(list[i], Occurrence(list, i)) : i \in 1..n}
<1>2. \A i \in 1..n : list[i] \in cases /\ Occurrence(list, i) \in Nat
  <2> SUFFICES ASSUME NEW i \in 1..n PROVE Occurrence(list, i) \in Nat
    BY <1>1
  <2>1. IsFiniteSet(1..i)
    BY FS_Interval DEF IInv
  <2>2. {j \in 1..i : list[j] = list[i]} \subseteq 1..i
    OBVIOUS
  <2>3. IsFiniteSet({j \in 1..i : list[j] = list[i]})
    BY <2>1, <2>2, FS_Subset
  <2> QED
    BY <2>3, FS_CardinalityType DEF Occurrence
<1>3. \A l \in new : \E c \in cases, copy \in Nat : l = LinkTo(c, copy)
  BY <1>2
<1>5. AddSuite(r, TRUE, new)
  BY <1>1
<1> HIDE DEF new
<1>6. ASSUME NEW l \in new PROVE l \in Links /\ l.suite = NextSuite /\ l.case <= ids
  <2>1. PICK c \in cases, copy \in Nat : l = LinkTo(c, copy)
    BY <1>3
  <2> QED
    BY <2>1, NewLink
<1> QED
  BY <1>5, <1>6, AddSuiteOK

\* Rewriting the links keeps them apart when every link keeps its suite and its row.
LEMMA ToggleCaseOK ==
    ASSUME IInv, NEW s \in suites, NEW id, ToggleCase(s, id)
    PROVE  IInv'
<1> DEFINE Toggled(l) == IF l.suite = s.id /\ l.case = id THEN [l EXCEPT !.enabled = ~@] ELSE l
<1>1. links' = {Toggled(l) : l \in links} /\ UNCHANGED <<ids, cases, contexts, suites>>
  BY DEF ToggleCase
<1>2. \A l \in links : Toggled(l) \in Links /\ Toggled(l).suite = l.suite /\ Toggled(l).case = l.case
  <2> SUFFICES ASSUME NEW l \in links
               PROVE  Toggled(l) \in Links /\ Toggled(l).suite = l.suite /\ Toggled(l).case = l.case
    OBVIOUS
  <2>1. l \in Links
    BY DEF IInv, Linked
  <2>2. PICK b \in BOOLEAN : l.enabled = b
    BY <2>1 DEF Links
  <2> QED
    BY <2>1, <2>2 DEF Links
<1> HIDE DEF Toggled
<1>3. \A k \in links' : \E l \in links : k = Toggled(l)
  BY <1>1
<1>4. SuitesOK'
  BY <1>1 DEF IInv, SuitesOK
<1>5. Linked'
  <2>1. links' \subseteq Links
    BY <1>2, <1>3
  <2>2. \A l \in links' : l.case <= ids' /\ \E t \in suites' : t.id = l.suite
    BY <1>1, <1>2, <1>3 DEF IInv, Linked
  <2> QED
    BY <2>1, <2>2 DEF Linked
<1>6. Distinct'
  <2> SUFFICES ASSUME NEW t \in suites, t.listed = FALSE
               PROVE  Apart(LinksOf(t)', cases)
    BY <1>1 DEF Distinct
  <2> DEFINE f == [l \in links |-> Toggled(l)]
  <2>1. \A k \in LinksOf(t)' : \E i \in LinksOf(t) : k = f[i] /\ k.case = i.case
    BY <1>2, <1>3 DEF LinksOf
  <2>2. Apart(LinksOf(t), cases)
    BY DEF IInv, Distinct
  <2> HIDE DEF f
  <2> QED
    BY <2>1, <2>2, ApartImage
<1> QED
  BY <1>1, <1>4, <1>5, <1>6, SuitesChange

\* The copies of a suite's links are links of the new suite, to the same rows.
LEMMA DuplicateSuiteOK ==
    ASSUME IInv, NEW s \in suites, DuplicateSuite(s)
    PROVE  IInv'
<1> DEFINE n == NextSuite
           row == [s EXCEPT !.id = n, !.archived = FALSE]
           Copy(l) == [l EXCEPT !.suite = n]
           old == {k \in links : k.suite = s.id}
           new == {Copy(l) : l \in old}
<1>1. /\ suites' = suites \cup {row} /\ links' = links \cup new
      /\ \A t \in suites : t.id # n
      /\ UNCHANGED <<ids, cases, contexts>>
  BY DEF DuplicateSuite
<1>2. n \in Nat
  BY FS_CardinalityType DEF NextSuite, IInv, SuitesOK
<1>3. suites \subseteq Suites
  BY DEF IInv, SuitesOK
<1>4. row.id = n /\ row.listed = s.listed /\ row \in Suites
  BY <1>2, <1>3 DEF Suites
<1>5. \A l \in old : Copy(l) \in Links /\ Copy(l).suite = n /\ Copy(l).case = l.case
                     /\ Copy(l).enabled = l.enabled /\ l \in links /\ l.suite = s.id
  BY <1>2 DEF IInv, Linked, Links
<1>6. \A l \in links : l \in Links /\ l.case <= ids /\ l.suite # n /\ \E t \in suites : t.id = l.suite
  BY <1>1 DEF IInv, Linked
<1>7. \A l \in new : \E k \in old : l = Copy(k)
  OBVIOUS
<1>0. old = LinksOf(s)
  BY DEF LinksOf
<1> HIDE DEF n, row, Copy, old, new
<1>8. SuitesOK'
  <2>1. IsFiniteSet(suites')
    BY <1>1, FS_AddElement DEF IInv, SuitesOK
  <2> QED
    BY <1>1, <1>3, <1>4, <2>1 DEF SuitesOK
<1>9. \A l \in new : /\ l \in Links /\ l.suite = n
                     /\ \E k \in old : l = Copy(k) /\ l.case = k.case
  BY <1>5, <1>7
<1>10. Linked'
  <2>1. \E t \in suites' : t.id = n
    BY <1>1, <1>4
  <2>2. links' \subseteq Links
    BY <1>1, <1>6, <1>9
  <2>3. \A l \in links' : l.case <= ids' /\ \E t \in suites' : t.id = l.suite
    BY <1>1, <1>5, <1>6, <1>9, <2>1
  <2> QED
    BY <2>2, <2>3 DEF Linked
<1>11. Distinct'
  <2> SUFFICES ASSUME NEW t \in suites', t.listed = FALSE
               PROVE  Apart(LinksOf(t)', cases)
    BY <1>1 DEF Distinct
  <2>1. CASE t \in suites
    <3>1. LinksOf(t)' = LinksOf(t)
      BY <1>1, <1>9, <2>1 DEF LinksOf
    <3> QED
      BY <2>1, <3>1 DEF IInv, Distinct
  <2>2. CASE t = row
    <3> DEFINE f == [l \in old |-> Copy(l)]
    <3>1. LinksOf(t)' = new
      BY <1>1, <1>4, <1>6, <1>9, <2>2 DEF LinksOf
    <3>2. Apart(old, cases)
      BY <1>0, <1>4, <2>2 DEF IInv, Distinct
    <3>3. \A k \in new : \E i \in old : k = f[i] /\ k.case = i.case
      BY <1>9
    <3> HIDE DEF f
    <3> QED
      BY <3>1, <3>2, <3>3, ApartImage
  <2> QED
    BY <1>1, <2>1, <2>2
<1> QED
  BY <1>1, <1>8, <1>10, <1>11, SuitesChange

LEMMA ArchiveSuiteOK ==
    ASSUME IInv, NEW s \in suites, ArchiveSuite(s)
    PROVE  IInv'
<1> DEFINE row == [s EXCEPT !.archived = TRUE]
<1>1. /\ suites' = (suites \ {s}) \cup {row} /\ UNCHANGED <<ids, cases, contexts, links>>
      /\ suites \subseteq Suites
  BY DEF ArchiveSuite, IInv, SuitesOK
<1>2. row \in Suites /\ row.id = s.id /\ row.listed = s.listed
  BY <1>1 DEF Suites
<1> HIDE DEF row
<1>3. IsFiniteSet(suites')
  <2>1. IsFiniteSet(suites \ {s})
    BY FS_Difference DEF IInv, SuitesOK
  <2>2. IsFiniteSet((suites \ {s}) \cup {row})
    BY <2>1, FS_AddElement
  <2> QED
    BY <1>1, <2>2
<1>4. SuitesOK'
  BY <1>1, <1>2, <1>3 DEF SuitesOK
<1>5. \A t \in suites : \E u \in suites' : u.id = t.id
  BY <1>1, <1>2
<1>6. Linked'
  BY <1>1, <1>5 DEF IInv, Linked
<1>7. Distinct'
  <2> SUFFICES ASSUME NEW t \in suites', t.listed = FALSE
               PROVE  Apart(LinksOf(t)', cases)
    BY <1>1 DEF Distinct
  <2>1. PICK u \in suites : u.id = t.id /\ u.listed = t.listed
    BY <1>1, <1>2
  <2>2. LinksOf(t)' = LinksOf(u)
    BY <1>1, <2>1 DEF LinksOf
  <2> QED
    BY <2>1, <2>2 DEF IInv, Distinct
<1> QED
  BY <1>1, <1>4, <1>6, <1>7, SuitesChange

LEMMA DeleteSuitesOK ==
    ASSUME IInv, NEW S \in SUBSET suites, DeleteSuites(S)
    PROVE  IInv'
<1>1. /\ suites' = suites \ S /\ UNCHANGED <<ids, cases, contexts>>
      /\ links' = {l \in links : l.suite \notin {s.id : s \in S}}
  BY DEF DeleteSuites
<1>2. SuitesOK'
  BY <1>1, FS_Difference DEF IInv, SuitesOK
<1>3. \A l \in links' : \E t \in suites' : t.id = l.suite
  BY <1>1 DEF IInv, Linked
<1>4. Linked'
  BY <1>1, <1>3 DEF IInv, Linked
<1>5. Distinct'
  <2> SUFFICES ASSUME NEW t \in suites', t.listed = FALSE
               PROVE  Apart(LinksOf(t)', cases)
    BY <1>1 DEF Distinct
  <2>1. LinksOf(t)' \in SUBSET LinksOf(t) /\ t \in suites
    BY <1>1 DEF LinksOf
  <2>2. Apart(LinksOf(t), cases)
    BY <2>1 DEF IInv, Distinct
  <2>3. \A l \in LinksOf(t)' : \A c \in cases : c.id = l.case => \E b \in cases : b.id = c.id /\ b.tc = c.tc
    OBVIOUS
  <2> QED
    BY <2>1, <2>2, <2>3, ApartLess
<1> QED
  BY <1>1, <1>2, <1>4, <1>5, SuitesChange

\* A run has an oldest row for every test id that it has a row for.
LEMMA OldestIsThere ==
    ASSUME IInv, NEW r, NEW t \in TestIdsOf(CasesOfRun(r))
    PROVE  Oldest(r, t) \in cases /\ Oldest(r, t).tc = t
<1> DEFINE N == {c.id : c \in {d \in CasesOfRun(r) : d.tc = t}}
<1>1. \A c \in CasesOfRun(r) : c \in cases /\ c.id \in Nat
  BY DEF CasesOfRun, IInv, Stored, Rows
<1>2. N \in SUBSET Nat /\ N # {}
  BY <1>1 DEF TestIdsOf
<1>3. /\ \A n \in N : \E c \in CasesOfRun(r) : c.tc = t /\ c.id = n
      /\ \A d \in CasesOfRun(r) : d.tc = t => d.id \in N
  OBVIOUS
<1> HIDE DEF N
<1>4. PICK m \in N : \A k \in N : m <= k
  BY <1>2, LeastNat
<1>5. PICK c \in CasesOfRun(r) : c.tc = t /\ c.id = m
  BY <1>3
<1>6. \A d \in CasesOfRun(r) : d.tc = t => c.id <= d.id
  BY <1>3, <1>4, <1>5
<1>7. /\ Oldest(r, t) \in CasesOfRun(r) /\ Oldest(r, t).tc = t
  BY <1>5, <1>6 DEF Oldest
<1> QED
  BY <1>1, <1>7

\* A result is written into rows that are there.
LEMMA ExecuteSuiteOK ==
    ASSUME IInv, NEW s \in suites, NEW r \in Runs, ExecuteSuite(s, r)
    PROVE  IInv'
<1> DEFINE known == TestIdsOf(SelectedCases(s)) \cap TestIdsOf(CasesOfRun(r))
           rows == {Oldest(r, t) : t \in known}
<1>1. \A c \in rows : c \in cases /\ c.tc \in known
  BY OldestIsThere
<1>2. /\ \E o \in [known -> Outcomes] :
            cases' = (cases \ rows) \cup {[c EXCEPT !.result = ResultOf(o[c.tc])] : c \in rows}
      /\ ids' = ids /\ contexts' = contexts /\ suites' = suites /\ links' = links
  BY DEF ExecuteSuite
<1> HIDE DEF known, rows
<1>3. PICK o \in [known -> Outcomes] :
        cases' = (cases \ rows) \cup {[c EXCEPT !.result = ResultOf(o[c.tc])] : c \in rows}
  BY <1>2
<1> DEFINE Written(c) == [c EXCEPT !.result = ResultOf(o[c.tc])]
           written == {Written(c) : c \in rows}
<1>4. cases \subseteq Rows /\ IsFiniteSet(cases) /\ \A c, d \in cases : c.id = d.id => c = d
  BY DEF IInv, Stored
<1>5. \A c \in rows : Written(c) \in Rows /\ Written(c).id = c.id /\ Written(c).tc = c.tc
  <2> SUFFICES ASSUME NEW c \in rows
               PROVE  Written(c) \in Rows /\ Written(c).id = c.id /\ Written(c).tc = c.tc
    OBVIOUS
  <2>1. c \in Rows /\ o[c.tc] \in Outcomes
    BY <1>1, <1>4
  <2>2. ResultOf(o[c.tc]) \in Results
    BY <2>1, OutcomesAssumption DEF ResultOf, Results
  <2> QED
    BY <2>1, <2>2 DEF Rows
<1>6. IsFiniteSet(written)
  <2>1. IsFiniteSet(rows)
    BY <1>1, <1>4, FS_Subset
  <2>2. [c \in rows |-> Written(c)] \in Surjection(rows, written)
    BY DEF Surjection
  <2> QED
    BY <2>1, <2>2, FS_Surjection
<1>7. cases' = (cases \ rows) \cup written /\ \A c \in written : \E b \in rows : c = Written(b)
  BY <1>3
<1> HIDE DEF Written, written
<1>8. cases' \subseteq Rows
  BY <1>4, <1>5, <1>7
<1>9. IsFiniteSet(cases')
  <2>1. IsFiniteSet(cases \ rows)
    BY <1>4, FS_Difference
  <2>2. IsFiniteSet((cases \ rows) \cup written)
    BY <1>6, <2>1, FS_Union
  <2> QED
    BY <1>7, <2>2
<1>10. \A c \in cases' : \E b \in cases : b.id = c.id /\ b.tc = c.tc
  BY <1>1, <1>5, <1>7
<1>11. \A c, d \in cases' : c.id = d.id => c = d
  <2> SUFFICES ASSUME NEW c \in cases', NEW d \in cases', c.id = d.id
               PROVE  c = d
    OBVIOUS
  <2>1. CASE c \in written
    <3>1. PICK b \in rows : c = Written(b)
      BY <1>7, <2>1
    <3>2. d \in written
      BY <1>1, <1>4, <1>5, <1>7, <3>1
    <3>3. PICK a \in rows : d = Written(a)
      BY <1>7, <3>2
    <3>4. a = b
      BY <1>1, <1>4, <1>5, <3>1, <3>3
    <3> QED
      BY <3>1, <3>3, <3>4
  <2>2. CASE d \in written
    <3>1. PICK b \in rows : d = Written(b)
      BY <1>7, <2>2
    <3>2. c \in written
      BY <1>1, <1>4, <1>5, <1>7, <3>1
    <3>3. PICK a \in rows : c = Written(a)
      BY <1>7, <3>2
    <3>4. a = b
      BY <1>1, <1>4, <1>5, <3>1, <3>3
    <3> QED
      BY <3>1, <3>3, <3>4
  <2>3. CASE c \in cases /\ d \in cases
    BY <1>4, <2>3
  <2> QED
    BY <1>7, <2>1, <2>2, <2>3
<1>12. contexts' \in [Runs -> (SUBSET TestIds) \cup {None}]
  BY <1>2 DEF IInv, Stored
<1> QED
  BY <1>2, <1>8, <1>9, <1>10, <1>11, <1>12, RowsStay

LEMMA DeleteRunOK ==
    ASSUME IInv, NEW r \in Runs, DeleteRun(r)
    PROVE  IInv'
<1> DEFINE gone == IF ForeignKeys THEN CasesOfRun(r) ELSE {}
<1>1. /\ cases' = cases \ gone /\ links' = LinksWithout(gone)
      /\ contexts' = [contexts EXCEPT ![r] = None] /\ UNCHANGED <<suites, ids>>
  BY DEF DeleteRun
<1> HIDE DEF gone
<1>2. cases \subseteq Rows /\ IsFiniteSet(cases) /\ \A c, d \in cases : c.id = d.id => c = d
  BY DEF IInv, Stored
<1>3. IsFiniteSet(cases')
  BY <1>1, <1>2, FS_Difference
<1>4. /\ cases' \subseteq Rows
      /\ \A c \in cases' : \E b \in cases : b.id = c.id /\ b.tc = c.tc
      /\ \A c, d \in cases' : c.id = d.id => c = d
  BY <1>1, <1>2
<1>5. links' \subseteq links
  BY <1>1 DEF LinksWithout
<1>6. contexts' \in [Runs -> (SUBSET TestIds) \cup {None}]
  BY <1>1 DEF IInv, Stored
<1> QED
  BY <1>1, <1>3, <1>4, <1>5, <1>6, RowsStay

---------------------------------------------------------------------------
(* The invariant holds.                                                    *)

LEMMA Inductive == IInv /\ [Next]_vars => IInv'
<1> SUFFICES ASSUME IInv, [Next]_vars PROVE IInv'
  OBVIOUS
<1>1. ASSUME NEW r \in Runs, CreateRun(r) PROVE IInv'
  BY <1>1, CreateRunOK
<1>2. ASSUME NEW r \in Runs, NEW T \in SUBSET TestIds, GeneratePlan(r, T) PROVE IInv'
  BY <1>2, GeneratePlanOK
<1>3. ASSUME NEW r \in Runs, NEW overwrite \in BOOLEAN, SaveBaseline(r, overwrite) PROVE IInv'
  BY <1>3, SaveBaselineOK
<1>4. ASSUME NEW r \in Runs, CreateSuiteOfRun(r) PROVE IInv'
  BY <1>4, CreateSuiteOfRunOK
<1>5. ASSUME NEW r \in Runs, DeleteRun(r) PROVE IInv'
  BY <1>5, DeleteRunOK
<1>6. ASSUME NEW r \in Runs \cup {None}, NEW n \in 0..MaxListed, CreateSuiteOfCases(r, n) PROVE IInv'
  BY <1>6, CreateSuiteOfCasesOK
<1>7. ASSUME NEW s \in suites, NEW id, ToggleCase(s, id) PROVE IInv'
  BY <1>7, ToggleCaseOK
<1>8. ASSUME NEW s \in suites, DuplicateSuite(s) PROVE IInv'
  BY <1>8, DuplicateSuiteOK
<1>9. ASSUME NEW s \in suites, ArchiveSuite(s) PROVE IInv'
  BY <1>9, ArchiveSuiteOK
<1>10. ASSUME NEW S \in SUBSET suites, DeleteSuites(S) PROVE IInv'
  BY <1>10, DeleteSuitesOK
<1>11. ASSUME NEW s \in suites, NEW r \in Runs, ExecuteSuite(s, r) PROVE IInv'
  BY <1>11, ExecuteSuiteOK
<1>12. CASE UNCHANGED vars
  BY <1>12 DEF vars, IInv, Stored, SuitesOK, Linked, Distinct, LinksOf
<1> QED
  BY <1>1, <1>2, <1>3, <1>4, <1>5, <1>6, <1>7, <1>8, <1>9, <1>10, <1>11, <1>12 DEF Next

\* The inductive invariant holds of every behaviour: the tables of repository.py under every
\* sequence of plans, baselines, suites, executions and deletions.
THEOREM Invariance == Spec => []IInv
BY InitialOK, Inductive, PTL DEF Spec

---------------------------------------------------------------------------
(* What a suite runs.                                                      *)

\* A link to a row that is there stands for that row.
LEMMA LinkedRow ==
    ASSUME IInv, NEW s, NEW l \in LiveLinks(s)
    PROVE  l \in links /\ l.suite = s.id /\ CaseOf(l.case) \in cases /\ CaseOf(l.case).id = l.case
BY DEF LiveLinks, CaseOf

\* No two cases of a suite that was made from a run, or shows one, are of one test.
LEMMA DistinctCases == IInv => SuiteCasesAreDistinct
<1> SUFFICES ASSUME IInv, NEW s \in suites, ~s.listed \/ LiveLinks(s) = {},
                    NEW d \in SuiteCases(s), NEW e \in SuiteCases(s), d.case.tc = e.case.tc
             PROVE  d = e
  BY DEF SuiteCasesAreDistinct
<1>1. CASE LiveLinks(s) # {}
  <2>0. s.listed = FALSE
    BY <1>1 DEF IInv, SuitesOK, Suites
  <2>1. SuiteCases(s) = {[case |-> CaseOf(l.case), copy |-> l.copy, enabled |-> l.enabled] : l \in LiveLinks(s)}
    BY <1>1 DEF SuiteCases
  <2>2. PICK k \in LiveLinks(s) : d = [case |-> CaseOf(k.case), copy |-> k.copy, enabled |-> k.enabled]
    BY <2>1
  <2>3. PICK l \in LiveLinks(s) : e = [case |-> CaseOf(l.case), copy |-> l.copy, enabled |-> l.enabled]
    BY <2>1
  <2>4. /\ k \in LinksOf(s) /\ CaseOf(k.case) \in cases /\ CaseOf(k.case).id = k.case
        /\ l \in LinksOf(s) /\ CaseOf(l.case) \in cases /\ CaseOf(l.case).id = l.case
    BY LinkedRow DEF LinksOf
  <2>5. CaseOf(k.case).tc = CaseOf(l.case).tc
    BY <2>2, <2>3
  <2>6. Apart(LinksOf(s), cases)
    BY <2>0 DEF IInv, Distinct
  <2>7. k = l
    BY <2>4, <2>5, <2>6 DEF Apart
  <2> QED
    BY <2>2, <2>3, <2>7
<1>2. CASE LiveLinks(s) = {}
  <2>1. PICK c \in NewestOfRun(s.run) : d = [case |-> c, copy |-> 1, enabled |-> TRUE]
    BY <1>2 DEF SuiteCases
  <2>2. PICK b \in NewestOfRun(s.run) : e = [case |-> b, copy |-> 1, enabled |-> TRUE]
    BY <1>2 DEF SuiteCases
  <2>3. c.tc = b.tc
    BY <2>1, <2>2
  <2>4. c = b
    BY <2>3, NewestIsOne
  <2> QED
    BY <2>1, <2>2, <2>4
<1> QED
  BY <1>1, <1>2

\* A suite that was made from a run, or shows one, never runs a test twice, whatever is planned
\* again, replaced or deleted under its links and those of its copies: repository.py resolves
\* the links to rows, or takes the newest row of every test.
THEOREM NoTestRunsTwice == Spec => []SuiteCasesAreDistinct
<1>1. Spec => []IInv
  BY Invariance
<1> QED
  BY <1>1, DistinctCases, PTL

---------------------------------------------------------------------------
(* What a baseline keeps.                                                  *)

Keeps(r) == \A c \in PlanCases(r, TRUE) : \E d \in PlanCases(r, TRUE)' : d.id = c.id /\ d.tc = c.tc

\* Rows that are there after the step keep the baseline.
LEMMA KeptRows ==
    ASSUME NEW r, \A c \in cases : c.run = r => c \in cases'
    PROVE  Keeps(r)
BY DEF Keeps, PlanCases

\* A confirmed overwrite is the only save that touches the baseline.
LEMMA SaveKeeps ==
    ASSUME IInv, NEW q \in Runs, NEW overwrite \in BOOLEAN, SaveBaseline(q, overwrite),
           NEW r \in Runs, HasPlan(r, TRUE)
    PROVE  Keeps(r) \/ SaveBaseline(r, TRUE)
<1>1. CASE q = r
  <2>1. overwrite = TRUE
    BY <1>1 DEF SaveBaseline, MaySave
  <2> QED
    BY <1>1, <2>1
<1>2. CASE q # r
  <2>1. \A c \in cases : c.run = r => c \in cases'
    BY <1>2 DEF SaveBaseline, PlanCases
  <2> QED
    BY <2>1, KeptRows
<1> QED
  BY <1>1, <1>2

LEMMA DeleteKeeps ==
    ASSUME IInv, NEW q \in Runs, DeleteRun(q), NEW r \in Runs
    PROVE  Keeps(r) \/ DeleteRun(r)
<1>1. CASE q # r
  <2>1. \A c \in cases : c.run = r => c \in cases'
    BY <1>1 DEF DeleteRun, CasesOfRun
  <2> QED
    BY <2>1, KeptRows
<1> QED
  BY <1>1

\* A result is all that an execution writes.
LEMMA ExecutionKeeps ==
    ASSUME IInv, NEW s \in suites, NEW q \in Runs, ExecuteSuite(s, q), NEW r \in Runs
    PROVE  Keeps(r)
<1> DEFINE known == TestIdsOf(SelectedCases(s)) \cap TestIdsOf(CasesOfRun(q))
           rows == {Oldest(q, t) : t \in known}
<1>1. PICK o \in [known -> Outcomes] :
        cases' = (cases \ rows) \cup {[c EXCEPT !.result = ResultOf(o[c.tc])] : c \in rows}
  BY DEF ExecuteSuite
<1> HIDE DEF known, rows
<1>2. cases \subseteq Rows
  BY DEF IInv, Stored
<1>3. ASSUME NEW c \in cases
      PROVE  \E d \in cases' : d.id = c.id /\ d.tc = c.tc /\ d.run = c.run /\ d.baseline = c.baseline
  <2>1. CASE c \notin rows
    BY <1>1, <2>1
  <2>2. CASE c \in rows
    <3> DEFINE d == [c EXCEPT !.result = ResultOf(o[c.tc])]
    <3>1. d \in cases'
      BY <1>1, <2>2
    <3>2. d.id = c.id /\ d.tc = c.tc /\ d.run = c.run /\ d.baseline = c.baseline
      BY <1>2 DEF Rows
    <3> HIDE DEF d
    <3> QED
      BY <3>1, <3>2
  <2> QED
    BY <2>1, <2>2
<1> QED
  BY <1>3 DEF Keeps, PlanCases

LEMMA BaselineStep ==
    ASSUME IInv, [Next]_vars, NEW r \in Runs, HasPlan(r, TRUE)
    PROVE  Keeps(r) \/ SaveBaseline(r, TRUE) \/ DeleteRun(r)
<1>1. ASSUME NEW q \in Runs, CreateRun(q) PROVE Keeps(r)
  BY <1>1, KeptRows DEF CreateRun
<1>2. ASSUME NEW q \in Runs, NEW T \in SUBSET TestIds, GeneratePlan(q, T) PROVE Keeps(r)
  <2>1. \A c \in cases : c \in cases'
    BY <1>2 DEF GeneratePlan
  <2> QED
    BY <2>1, KeptRows
<1>3. ASSUME NEW q \in Runs, CreateSuiteOfRun(q) PROVE Keeps(r)
  BY <1>3, KeptRows DEF CreateSuiteOfRun, AddSuite
<1>4. ASSUME NEW q \in Runs \cup {None}, NEW n \in 0..MaxListed, CreateSuiteOfCases(q, n) PROVE Keeps(r)
  <2>1. cases' = cases
    BY <1>4 DEF CreateSuiteOfCases, AddSuite
  <2> QED
    BY <2>1, KeptRows
<1>5. ASSUME NEW s \in suites, NEW id, ToggleCase(s, id) PROVE Keeps(r)
  BY <1>5, KeptRows DEF ToggleCase
<1>6. ASSUME NEW s \in suites, DuplicateSuite(s) PROVE Keeps(r)
  BY <1>6, KeptRows DEF DuplicateSuite
<1>7. ASSUME NEW s \in suites, ArchiveSuite(s) PROVE Keeps(r)
  BY <1>7, KeptRows DEF ArchiveSuite
<1>8. ASSUME NEW S \in SUBSET suites, DeleteSuites(S) PROVE Keeps(r)
  BY <1>8, KeptRows DEF DeleteSuites
<1>9. CASE UNCHANGED vars
  BY <1>9, KeptRows DEF vars
<1>10. ASSUME NEW q \in Runs, NEW overwrite \in BOOLEAN, SaveBaseline(q, overwrite)
       PROVE  Keeps(r) \/ SaveBaseline(r, TRUE)
  BY <1>10, SaveKeeps
<1>11. ASSUME NEW q \in Runs, DeleteRun(q) PROVE Keeps(r) \/ DeleteRun(r)
  BY <1>11, DeleteKeeps
<1>12. ASSUME NEW s \in suites, NEW q \in Runs, ExecuteSuite(s, q) PROVE Keeps(r)
  BY <1>12, ExecutionKeeps
<1> QED
  BY <1>1, <1>2, <1>3, <1>4, <1>5, <1>6, <1>7, <1>8, <1>9, <1>10, <1>11, <1>12 DEF Next

\* A baseline loses no case but by a confirmed overwrite (save_baseline) or with its run.
THEOREM OnlyConfirmedOverwrites == Spec => BaselineIsKept
<1>1. IInv /\ [Next]_vars =>
        [\A r \in Runs : HasPlan(r, TRUE) =>
            \/ \A c \in PlanCases(r, TRUE) : \E d \in PlanCases(r, TRUE)' : d.id = c.id /\ d.tc = c.tc
            \/ SaveBaseline(r, TRUE)
            \/ DeleteRun(r)]_vars
  BY BaselineStep DEF Keeps
<1>2. Spec => []IInv
  BY Invariance
<1> QED
  BY <1>1, <1>2, PTL DEF Spec, BaselineIsKept
=============================================================================
