----------------------------- MODULE VisitsProofs -----------------------------
(* Proofs about PlaceVisits, as MCPrivacy instantiates it: for any number of *)
(* days, calls and events, the table of visits holds the trips that the      *)
(* reference finds in all that was recorded. The prover has no induction     *)
(* over data: it is had here from the well-founded order of finite sets, as  *)
(* a principle about sets of numbers instead of one about predicates.        *)
EXTENDS DisclosureProofs, FiniteSetTheorems

-----------------------------------------------------------------------------
(* Induction and recursion.                                                  *)

(* Every set of numbers has a least one.                                     *)
LEMMA LeastNumber ==
    ASSUME NEW T \in SUBSET Nat, T # {}
    PROVE  \E n \in T : \A m \in T : n <= m
<1> DEFINE R == StrictSubsetOrdering(Nat)
           U == {1..n : n \in T}
<1>1. IsWellFoundedOn(R, FiniteSubsetsOf(Nat))
  BY FS_StrictSubsetOrderingWellFounded
<1>2. U \subseteq FiniteSubsetsOf(Nat) /\ U # {}
  <2>1. ASSUME NEW n \in T PROVE 1..n \in FiniteSubsetsOf(Nat)
    <3>1. IsFiniteSet(1..n)
      BY FS_Interval
    <3>2. 1..n \in SUBSET Nat
      OBVIOUS
    <3> QED
      BY <3>1, <3>2 DEF FiniteSubsetsOf
  <2> QED
    BY <2>1
<1> HIDE DEF R, U
<1>3. PICK x \in U : \A y \in U : ~(<<y, x>> \in R)
  BY <1>1, <1>2, WFMin
<1>4. PICK n \in T : x = 1..n
  BY DEF U
<1>5. ASSUME NEW m \in T, m < n PROVE FALSE
  <2>1. 1..m \in U
    BY DEF U
  <2>2. <<1..m, 1..n>> \in R
    <3>1. 1..m \subseteq 1..n /\ n \in 1..n /\ n \notin 1..m
      BY <1>5
    <3>2. 1..m # 1..n
      BY <3>1
    <3> QED
      BY <3>1, <3>2 DEF R, StrictSubsetOrdering
  <2> QED
    BY <1>3, <1>4, <2>1, <2>2
<1>6. \A m \in T : m \in Nat /\ n \in Nat
  OBVIOUS
<1> QED
  BY <1>4, <1>5, <1>6

(* Induction up to a bound, over the set of the numbers that something is    *)
(* true of.                                                                  *)
LEMMA Induction ==
    ASSUME NEW N \in Nat, NEW S, 0 \in S, \A n \in 0..(N - 1) : n \in S => n + 1 \in S
    PROVE  0..N \subseteq S
<1> DEFINE T == {n \in 0..N : n \notin S}
<1> SUFFICES ASSUME T # {} PROVE FALSE
  OBVIOUS
<1>1. PICK n \in T : \A m \in T : n <= m
  <2>1. T \in SUBSET Nat
    OBVIOUS
  <2> HIDE DEF T
  <2> QED
    BY <2>1, LeastNumber
<1>2. n \in 0..N /\ n # 0
  BY <1>1
<1>3. n - 1 \in 0..(N - 1) /\ ~(n <= n - 1)
  BY <1>2
<1>4. n - 1 \in S
  BY <1>1, <1>3
<1>5. n - 1 + 1 = n
  BY <1>2
<1> QED
  BY <1>1, <1>3, <1>4, <1>5

(* Values of which each determines the next.                                 *)
Iterates(f, N, base, F) == f[0] = base /\ \A n \in 1..N : f[n] = F[n][f[n - 1]]

(* There are such values.                                                    *)
LEMMA Recursion ==
    ASSUME NEW N \in Nat, NEW Values, NEW base \in Values, NEW F \in [1..N -> [Values -> Values]]
    PROVE  \E f \in [0..N -> Values] : Iterates(f, N, base, F)
<1> DEFINE Fits(f, k) == /\ f \in [0..k -> Values] /\ f[0] = base
                         /\ \A n \in 1..k : f[n] = F[n][f[n - 1]]
           S == {k \in 0..N : \E f \in [0..k -> Values] : Fits(f, k)}
<1>1. 0 \in S
  <2> DEFINE f == [n \in 0..0 |-> base]
  <2>1. f \in [0..0 -> Values] /\ f[0] = base /\ 1..0 = {}
    OBVIOUS
  <2> HIDE DEF f
  <2> QED
    BY <2>1
<1>2. ASSUME NEW k \in 0..(N - 1), k \in S PROVE k + 1 \in S
  <2>1. PICK f \in [0..k -> Values] : Fits(f, k)
    BY <1>2
  <2> DEFINE g == [n \in 0..(k + 1) |-> IF n = k + 1 THEN F[k + 1][f[k]] ELSE f[n]]
  <2>2. F[k + 1][f[k]] \in Values
    <3>1. k + 1 \in 1..N /\ f[k] \in Values
      BY <1>2
    <3> QED
      BY <3>1
  <2>3. g \in [0..(k + 1) -> Values]
    BY <2>2, <1>2
  <2>4. g[0] = base
    BY <2>1, <1>2
  <2>5. ASSUME NEW n \in 1..(k + 1) PROVE g[n] = F[n][g[n - 1]]
    <3>1. CASE n = k + 1
      <4>1. n - 1 = k /\ k \in 0..(k + 1) /\ k # k + 1 /\ n \in 0..(k + 1)
        BY <3>1, <1>2
      <4> QED
        BY <3>1, <4>1
    <3>2. CASE n # k + 1
      <4>1. n \in 1..k /\ n - 1 \in 0..(k + 1) /\ n - 1 # k + 1 /\ n \in 0..(k + 1)
        BY <3>2, <1>2
      <4> QED
        BY <3>2, <4>1, <2>1
    <3> QED
      BY <3>1, <3>2
  <2> HIDE DEF g
  <2>6. Fits(g, k + 1)
    BY <2>3, <2>4, <2>5
  <2>7. k + 1 \in 0..N
    BY <1>2
  <2> QED
    BY <2>3, <2>6, <2>7
<1> HIDE DEF S
<1>3. N \in S
  <2>1. \A k \in 0..(N - 1) : k \in S => k + 1 \in S
    BY <1>2
  <2>2. 0..N \subseteq S
    BY <1>1, <2>1, Induction
  <2> QED
    BY <2>2
<1> QED
  BY <1>3 DEF S, Iterates

-----------------------------------------------------------------------------
(* Days and counts.                                                          *)

(* The instance has its own copy of FiniteSets.                              *)
LEMMA VisitCardinality ==
    ASSUME NEW X
    PROVE  V!Cardinality(X) = Cardinality(X)
BY DEF V!Cardinality, Cardinality, V!IsFiniteSet, IsFiniteSet

(* The days are numbers up to the last.                                      *)
LEMMA DaysAre == LastDay \in Nat /\ Year \in Nat /\ V!Days = 0..LastDay
BY Assumptions DEF V!DaysAssumption, V!Days

(* What the module chooses as the least number is so.                        *)
LEMMA LeastIs ==
    ASSUME NEW S \in SUBSET Nat, S # {}
    PROVE  V!Least(S) \in S /\ \A y \in S : V!Least(S) <= y
<1>1. \E x \in S : \A y \in S : x <= y
  BY LeastNumber
<1> QED
  BY <1>1 DEF V!Least

(* A bounded set of numbers has a greatest one, which the module chooses.    *)
LEMMA GreatestIs ==
    ASSUME NEW N \in Nat, NEW S \in SUBSET (0..N), S # {}
    PROVE  V!Greatest(S) \in S /\ \A y \in S : V!Greatest(S) >= y
<1> DEFINE T == {N - x : x \in S}
<1>1. T \subseteq Nat /\ T # {}
  <2>1. \A x \in S : N - x \in Nat
    OBVIOUS
  <2>2. PICK x \in S : TRUE
    OBVIOUS
  <2> QED
    BY <2>1, <2>2
<1>2. PICK n \in T : \A m \in T : n <= m
  <2> HIDE DEF T
  <2> QED
    BY <1>1, LeastNumber
<1>3. PICK x \in S : n = N - x
  BY DEF T
<1>4. ASSUME NEW y \in S PROVE x >= y
  <2>1. N - y \in T
    BY DEF T
  <2>2. N - x <= N - y
    BY <1>2, <1>3, <2>1
  <2> QED
    BY <2>2
<1> QED
  BY <1>3, <1>4 DEF V!Greatest

(* The days of a set of stays, the last of each trip among them, and of each *)
(* that is recent.                                                           *)
Away(stays) == {d \in V!Days : \E s \in stays : s.overnight /\ s.first <= d /\ d <= s.last}

Ends(days) == {d \in days : d + 1 \notin days /\ d >= v7 - Year}

(* There are finitely many.                                                  *)
LEMMA EndsAreFinite ==
    ASSUME NEW days \in SUBSET V!Days
    PROVE  IsFiniteSet(Ends(days))
<1>1. IsFiniteSet(0..LastDay)
  BY DaysAre, FS_Interval
<1>2. Ends(days) \in SUBSET (0..LastDay)
  BY DaysAre DEF Ends
<1> QED
  BY <1>1, <1>2, FS_Subset

(* Things of which each ends on another day are as many as the days.         *)
LEMMA EndsCount ==
    ASSUME NEW days \in SUBSET V!Days, NEW S, NEW last,
           last \in [S -> Ends(days)],
           \A x, y \in S : last[x] = last[y] => x = y,
           \A d \in Ends(days) : \E x \in S : last[x] = d
    PROVE  IsFiniteSet(S) /\ Cardinality(S) = Cardinality(Ends(days))
<1>1. last \in Injection(S, Ends(days)) /\ last \in Surjection(S, Ends(days))
  BY DEF Injection, Surjection, IsInjective
<1>2. IsFiniteSet(Ends(days))
  BY EndsAreFinite
<1> QED
  BY <1>1, <1>2, FS_Injection

-----------------------------------------------------------------------------
(* The table.                                                                *)

TableRow == [first : V!Days, last : V!Days, source : V!Sources, overnight : BOOLEAN]

RowsTyped(rows) ==
    /\ rows \subseteq TableRow
    /\ \A v \in rows : v.first <= v.last /\ (v.overnight => v.first < v.last)
    /\ \A v, w \in rows : v.first = w.first /\ v.last = w.last => v = w

(* The overnight rows are the trips: what they cover are these days, and the *)
(* days before and after each are not among them.                            *)
Covers(rows, days) ==
    /\ \A v \in rows : v.overnight =>
        /\ v.first..v.last \subseteq days
        /\ v.first - 1 \notin days /\ v.last + 1 \notin days
    /\ \A d \in days : \E v \in rows : v.overnight /\ v.first <= d /\ d <= v.last

(* A row is known by its last day.                                           *)
LEMMA LastDayNames ==
    ASSUME NEW rows, NEW days, RowsTyped(rows), Covers(rows, days),
           NEW v \in rows, NEW w \in rows, v.overnight, w.overnight, v.last = w.last
    PROVE  v = w
<1>1. v \in TableRow /\ w \in TableRow /\ v.first <= v.last /\ w.first <= w.last
  BY DEF RowsTyped
<1>2. v.first \in Int /\ v.last \in Int /\ w.first \in Int /\ w.last \in Int
  BY <1>1, DaysAre DEF TableRow
<1>3. v.first = w.first
  <2>1. CASE v.first < w.first
    <3>1. w.first - 1 \in v.first..v.last
      BY <1>1, <1>2, <2>1
    <3> QED
      BY <3>1 DEF Covers
  <2>2. CASE w.first < v.first
    <3>1. v.first - 1 \in w.first..w.last
      BY <1>1, <1>2, <2>2
    <3> QED
      BY <3>1 DEF Covers
  <2> QED
    BY <1>2, <2>1, <2>2
<1> QED
  BY <1>3 DEF RowsTyped

(* The table has as many recent trips as the days have ends.                 *)
LEMMA TableCounts ==
    ASSUME NEW rows, NEW days \in SUBSET V!Days, RowsTyped(rows), Covers(rows, days),
           v7 \in V!Days
    PROVE  /\ V!Cardinality(V!Recent(rows, v7)) = Cardinality(Ends(days))
           /\ Cardinality(Ends(days)) \in Nat
<1> DEFINE S == V!Recent(rows, v7)
           last == [v \in S |-> v.last]
<1>1. ASSUME NEW v \in S PROVE v.last \in Ends(days)
  <2>1. v \in rows /\ v.overnight /\ v.last >= v7 - Year
    BY DEF V!Recent
  <2>2. v.first \in Int /\ v.last \in Int /\ v.first <= v.last
    BY <2>1, DaysAre DEF RowsTyped, TableRow
  <2> QED
    BY <2>1, <2>2 DEF Covers, Ends
<1>2. ASSUME NEW v \in S, NEW w \in S, v.last = w.last PROVE v = w
  BY <1>2, LastDayNames DEF V!Recent
<1>3. ASSUME NEW d \in Ends(days) PROVE \E v \in S : v.last = d
  <2>1. d \in days /\ d + 1 \notin days /\ d >= v7 - Year
    BY DEF Ends
  <2>2. PICK v \in rows : v.overnight /\ v.first <= d /\ d <= v.last
    BY <2>1 DEF Covers
  <2>3. v.first \in Int /\ v.last \in Int /\ d \in Int
    BY <2>1, DaysAre DEF RowsTyped, TableRow
  <2>4. v.last = d
    <3>1. CASE d < v.last
      <4>1. d + 1 \in v.first..v.last
        BY <2>2, <2>3, <3>1
      <4> QED
        BY <2>1, <2>2, <4>1 DEF Covers
    <3> QED
      BY <2>2, <2>3, <3>1
  <2> QED
    BY <2>1, <2>2, <2>4 DEF V!Recent
<1>4. last \in [S -> Ends(days)]
  BY <1>1
<1> HIDE DEF S
<1>5. IsFiniteSet(S) /\ Cardinality(S) = Cardinality(Ends(days))
  <2>1. \A v, w \in S : last[v] = last[w] => v = w
    BY <1>2
  <2>2. \A d \in Ends(days) : \E v \in S : last[v] = d
    BY <1>3
  <2> HIDE DEF last
  <2> QED
    BY <1>4, <2>1, <2>2, EndsCount
<1>6. Cardinality(Ends(days)) \in Nat
  BY EndsAreFinite, FS_CardinalityType
<1> QED
  BY <1>5, <1>6, VisitCardinality DEF S

(* A day, and the days of a stay or of a range.                              *)
LEMMA StaysAre ==
    /\ \A s \in V!Stays : /\ s.first \in V!Days /\ s.last \in V!Days /\ s.overnight \in BOOLEAN
                          /\ s.first <= s.last /\ (s.overnight => s.first < s.last)
    /\ \A r \in V!Ranges : r.first \in V!Days /\ r.last \in V!Days /\ r.first <= r.last
BY DEF V!Stays, V!Ranges

(* A range that a stay can be stored as.                                     *)
Fits(stay, range) ==
    /\ range \in V!Ranges
    /\ IF stay.overnight THEN range.first <= stay.first /\ stay.last <= range.last
       ELSE range = V!DaysOf(stay)

(* The hull of what a stay touches: it begins with the stay or with a row    *)
(* that the stay touches, before which nothing that it touches begins, and   *)
(* ends likewise.                                                            *)
Hull(rows, stay, range) ==
    /\ range.first = stay.first
       \/ \E v \in rows : V!Touches(v, stay) /\ range.first = v.first
    /\ range.last = stay.last
       \/ \E v \in rows : V!Touches(v, stay) /\ range.last = v.last
    /\ \A v \in rows : V!Touches(v, stay) => range.first <= v.first /\ v.last <= range.last

(* That is what the statement reads.                                         *)
LEMMA MergedIsHull ==
    ASSUME NEW rows, RowsTyped(rows), NEW stay \in V!Stays, stay.overnight
    PROVE  Fits(stay, V!Merged(rows, stay)) /\ Hull(rows, stay, V!Merged(rows, stay))
<1> DEFINE touched == {v \in rows : V!Touches(v, stay)}
           firsts == {stay.first} \cup {v.first : v \in touched}
           lasts == {stay.last} \cup {v.last : v \in touched}
<1>1. firsts \subseteq 0..LastDay /\ lasts \subseteq 0..LastDay
  BY DaysAre, StaysAre DEF RowsTyped, TableRow
<1>2. V!Least(firsts) \in firsts /\ \A x \in firsts : V!Least(firsts) <= x
  <2>1. firsts \in SUBSET Nat /\ firsts # {}
    BY <1>1, DaysAre
  <2> HIDE DEF firsts
  <2> QED
    BY <2>1, LeastIs
<1>3. V!Greatest(lasts) \in lasts /\ \A x \in lasts : V!Greatest(lasts) >= x
  <2>1. lasts \in SUBSET (0..LastDay) /\ lasts # {}
    BY <1>1
  <2> HIDE DEF lasts
  <2> QED
    BY <2>1, DaysAre, GreatestIs
<1>4. V!Merged(rows, stay) = [first |-> V!Least(firsts), last |-> V!Greatest(lasts)]
  BY DEF V!Merged
<1> PICK a, b : a = V!Least(firsts) /\ b = V!Greatest(lasts)
  OBVIOUS
<1>5. a \in firsts /\ b \in lasts /\ a <= stay.first /\ stay.last <= b
      /\ \A v \in touched : a <= v.first /\ v.last <= b
  <2>1. \A x \in firsts : a <= x
    BY <1>2
  <2>2. \A x \in lasts : x <= b
    <3>1. \A x \in lasts : b >= x
      BY <1>3
    <3> QED
      BY <3>1, <1>1, <1>3
  <2> QED
    BY <1>2, <1>3, <2>1, <2>2
<1>6. a \in V!Days /\ b \in V!Days /\ a <= b
  <2>1. a \in 0..LastDay /\ b \in 0..LastDay
    BY <1>1, <1>5
  <2> HIDE DEF firsts, lasts, touched
  <2> QED
    BY <1>5, <2>1, DaysAre, StaysAre
<1>7. V!Merged(rows, stay) = [first |-> a, last |-> b]
  BY <1>4
<1>8. /\ a = stay.first \/ \E v \in rows : V!Touches(v, stay) /\ a = v.first
      /\ b = stay.last \/ \E v \in rows : V!Touches(v, stay) /\ b = v.last
      /\ \A v \in rows : V!Touches(v, stay) => a <= v.first /\ v.last <= b
  BY <1>5
<1>9. Fits(stay, [first |-> a, last |-> b])
  BY <1>5, <1>6 DEF Fits, V!Ranges
<1>10. Hull(rows, stay, [first |-> a, last |-> b])
  BY <1>8 DEF Hull
<1> QED
  BY <1>7, <1>9, <1>10

(* Visits have the same days when they begin and end alike.                  *)
LEMMA DaysName ==
    /\ \A v, w : V!DaysOf(v) = V!DaysOf(w) <=> v.first = w.first /\ v.last = w.last
    /\ \A v, range : range \in V!Ranges =>
         (V!DaysOf(v) = range <=> v.first = range.first /\ v.last = range.last)
    /\ \A v \in TableRow : v.first <= v.last => V!DaysOf(v) \in V!Ranges
<1>1. \A v : V!DaysOf(v).first = v.first /\ V!DaysOf(v).last = v.last
  BY DEF V!DaysOf
<1>2. \A range \in V!Ranges : range = [first |-> range.first, last |-> range.last]
  BY DEF V!Ranges
<1>3. \A v \in TableRow : v.first <= v.last => V!DaysOf(v) \in V!Ranges
  BY DEF V!DaysOf, V!Ranges, TableRow
<1> QED
  BY <1>1, <1>2, <1>3 DEF V!DaysOf

(* What is left of the rows when those that a stay touches are deleted, and  *)
(* what then is there when the stay is stored.                               *)
Rest(rows, stay) == {v \in rows : ~(stay.overnight /\ V!Touches(v, stay))}

New(rows, stay, range, source) ==
    [first |-> range.first, last |-> range.last, source |-> source,
     overnight |-> stay.overnight
                   \/ \E v \in rows : V!DaysOf(v) = range /\ v.overnight]

Inserted(rows, stay, range, source) ==
    {v \in rows : V!DaysOf(v) # range} \cup {New(rows, stay, range, source)}

(* A statement that stores a stay leaves a typed table.                      *)
LEMMA InsertedTyped ==
    ASSUME NEW rows, RowsTyped(rows), NEW stay \in V!Stays, NEW range, Fits(stay, range),
           NEW source \in V!Sources
    PROVE  /\ RowsTyped(Inserted(rows, stay, range, source))
           /\ RowsTyped({New(rows, stay, range, source)})
           /\ V!DaysOf(New(rows, stay, range, source)) = range
<1> DEFINE new == New(rows, stay, range, source)
<1>1. new \in TableRow /\ new.first <= new.last /\ (new.overnight => new.first < new.last)
  <2>1. range.first \in V!Days /\ range.last \in V!Days /\ range.first <= range.last
    BY StaysAre DEF Fits
  <2>2. (stay.overnight \/ \E v \in rows : V!DaysOf(v) = range /\ v.overnight) \in BOOLEAN
    OBVIOUS
  <2>3. stay.overnight => range.first < range.last
    BY <2>1, DaysAre, StaysAre DEF Fits
  <2>4. \A v \in rows : V!DaysOf(v) = range /\ v.overnight => range.first < range.last
    BY DaysName DEF RowsTyped, Fits
  <2> QED
    BY <2>1, <2>2, <2>3, <2>4 DEF TableRow, New
<1>2. new.first = range.first /\ new.last = range.last
  BY DEF New
<1>3. V!DaysOf(new) = range
  BY <1>2, DaysName DEF Fits
<1> HIDE DEF new
<1>4. \A v \in Inserted(rows, stay, range, source) :
        v = new \/ (v \in rows /\ ~(v.first = new.first /\ v.last = new.last))
  BY <1>2, DaysName DEF Inserted, new, Fits
<1> QED
  BY <1>1, <1>3, <1>4 DEF RowsTyped, new

(* It leaves a table that covers the stay's days too.                        *)
LEMMA InsertedCovers ==
    ASSUME NEW rows, RowsTyped(rows), NEW days \in SUBSET V!Days, Covers(rows, days),
           NEW stay \in V!Stays, NEW source \in V!Sources, NEW range, Fits(stay, range),
           stay.overnight => range = V!Merged(rows, stay)
    PROVE  Covers(Inserted(Rest(rows, stay), stay, range, source), days \cup Away({stay}))
<1> DEFINE rest == Rest(rows, stay)
           same == {v \in rest : v.first = range.first /\ v.last = range.last}
           new == New(rest, stay, range, source)
           table == (rest \ same) \cup {new}
<1>1. Inserted(rest, stay, range, source) = table
  <2>1. \A v : V!DaysOf(v) = range <=> v.first = range.first /\ v.last = range.last
    BY DaysName DEF Fits
  <2> HIDE DEF rest
  <2> QED
    BY <2>1 DEF Inserted
<1>0. /\ new.first = range.first /\ new.last = range.last
      /\ new.overnight <=> stay.overnight \/ \E v \in same : v.overnight
  <2>1. \A v : V!DaysOf(v) = range <=> v.first = range.first /\ v.last = range.last
    BY DaysName DEF Fits
  <2> HIDE DEF rest
  <2> QED
    BY <2>1 DEF New
<1>2. stay.overnight => Hull(rows, stay, range)
  BY MergedIsHull
<1>3. /\ \A v \in rows : v.first \in Int /\ v.last \in Int /\ v.first <= v.last
      /\ range.first \in Int /\ range.last \in Int /\ range.first <= range.last
      /\ stay.first \in Int /\ stay.last \in Int /\ stay.first <= stay.last
      /\ \A d \in stay.first..stay.last : d \in V!Days
      /\ V!Days \subseteq Int
  <2>1. /\ stay.first \in V!Days /\ stay.last \in V!Days /\ stay.first <= stay.last
        /\ range.first \in V!Days /\ range.last \in V!Days /\ range.first <= range.last
    BY <1>2, StaysAre DEF Fits
  <2>2. \A v \in rows : v.first \in V!Days /\ v.last \in V!Days /\ v.first <= v.last
    BY DEF RowsTyped, TableRow
  <2> QED
    BY <2>1, <2>2, DaysAre
<1> HIDE DEF rest, Rest, same, new, table
<1>4. CASE ~stay.overnight
  <2>1. Away({stay}) = {}
    BY <1>4 DEF Away
  <2>2. rest = rows
    BY <1>4 DEF rest, Rest
  <2>3. ASSUME NEW v \in table, v.overnight
        PROVE  \E w \in rows : w.overnight /\ w.first = v.first /\ w.last = v.last
    <3>1. CASE v \in rest
      BY <2>2, <2>3, <3>1
    <3>2. CASE v = new
      <4>1. \E w \in same : w.overnight
        BY <1>0, <1>4, <2>3, <3>2
      <4>2. new.first = range.first /\ new.last = range.last
        BY <1>0
      <4>3. \A w \in same : w \in rows /\ w.first = range.first /\ w.last = range.last
        BY <2>2 DEF same
      <4> QED
        BY <3>2, <4>1, <4>2, <4>3
    <3> QED
      BY <3>1, <3>2 DEF table
  <2>4. ASSUME NEW w \in rows, w.overnight
        PROVE  \E v \in table : v.overnight /\ v.first = w.first /\ v.last = w.last
    <3>1. CASE w \in same
      <4>1. new.overnight
        BY <1>0, <2>4, <3>1
      <4>2. new.first = w.first /\ new.last = w.last
        BY <1>0, <3>1 DEF same
      <4> QED
        BY <4>1, <4>2 DEF table
    <3>2. CASE w \notin same
      BY <2>2, <2>4, <3>2 DEF table
    <3> QED
      BY <3>1, <3>2
  <2>5. Covers(table, days)
    BY <2>3, <2>4 DEF Covers
  <2> QED
    BY <1>1, <2>1, <2>5 DEF rest
<1>5. CASE stay.overnight
  <2> DEFINE U == days \cup Away({stay})
  <2>0. new.overnight /\ new.first = range.first /\ new.last = range.last
    BY <1>0, <1>5
  <2>1. \A d \in Int : d \in U <=> d \in days \/ (stay.first <= d /\ d <= stay.last)
    BY <1>3, <1>5 DEF Away
  <2>2. \A v \in rest : v \in rows
          /\ (v.overnight => stay.last + 1 < v.first \/ v.last < stay.first - 1)
    BY <1>3, <1>5 DEF V!Touches, rest, Rest
  <2> U \subseteq Int /\ days \subseteq U
    BY <1>3 DEF Away
  <2> HIDE DEF U
  <2>3. \A v \in rows : V!Touches(v, stay) =>
          v.overnight /\ v.first <= stay.last + 1 /\ v.last >= stay.first - 1
    BY DEF V!Touches
  <2>4. range.first <= stay.first /\ stay.last <= range.last
    BY <1>5 DEF Fits
  <2>5. ASSUME NEW d \in range.first..range.last PROVE d \in U
    <3>1. CASE d < stay.first
      <4>1. PICK v \in rows : V!Touches(v, stay) /\ range.first = v.first
        BY <1>2, <1>3, <1>5, <3>1 DEF Hull
      <4>2. d \in v.first..v.last
        BY <1>3, <2>3, <3>1, <4>1
      <4> QED
        BY <2>1, <2>3, <4>1, <4>2 DEF Covers
    <3>2. CASE d > stay.last
      <4>1. PICK v \in rows : V!Touches(v, stay) /\ range.last = v.last
        BY <1>2, <1>3, <1>5, <3>2 DEF Hull
      <4>2. d \in v.first..v.last
        BY <1>3, <2>3, <3>2, <4>1
      <4> QED
        BY <2>1, <2>3, <4>1, <4>2 DEF Covers
    <3> QED
      BY <1>3, <2>1, <3>1, <3>2
  <2>6. range.first - 1 \notin U
    <3> SUFFICES ASSUME range.first - 1 \in U PROVE FALSE
      OBVIOUS
    <3>1. range.first - 1 \in days
      BY <1>3, <2>1, <2>4
    <3>2. PICK v \in rows : v.overnight /\ v.first <= range.first - 1 /\ range.first - 1 <= v.last
      BY <3>1 DEF Covers
    <3>3. ~V!Touches(v, stay)
      BY <1>2, <1>3, <1>5, <3>2 DEF Hull
    <3>4. range.first # stay.first
      BY <1>3, <3>2, <3>3 DEF V!Touches
    <3>5. PICK w \in rows : V!Touches(w, stay) /\ range.first = w.first
      BY <1>2, <1>5, <3>4 DEF Hull
    <3> QED
      BY <2>3, <3>1, <3>5 DEF Covers
  <2>7. range.last + 1 \notin U
    <3> SUFFICES ASSUME range.last + 1 \in U PROVE FALSE
      OBVIOUS
    <3>1. range.last + 1 \in days
      BY <1>3, <2>1, <2>4
    <3>2. PICK v \in rows : v.overnight /\ v.first <= range.last + 1 /\ range.last + 1 <= v.last
      BY <3>1 DEF Covers
    <3>3. ~V!Touches(v, stay)
      BY <1>2, <1>3, <1>5, <3>2 DEF Hull
    <3>4. range.last # stay.last
      BY <1>3, <3>2, <3>3 DEF V!Touches
    <3>5. PICK w \in rows : V!Touches(w, stay) /\ range.last = w.last
      BY <1>2, <1>5, <3>4 DEF Hull
    <3> QED
      BY <2>3, <3>1, <3>5 DEF Covers
  <2>8. ASSUME NEW v \in rest, v.overnight
        PROVE  v.first..v.last \subseteq U /\ v.first - 1 \notin U /\ v.last + 1 \notin U
    <3>1. /\ v.first..v.last \subseteq days
          /\ v.first - 1 \notin days /\ v.last + 1 \notin days
      BY <2>2, <2>8 DEF Covers
    <3>2. v.first \in Int /\ v.last \in Int /\ v.first <= v.last
      BY <1>3, <2>2
    <3>3. stay.last + 1 < v.first \/ v.last < stay.first - 1
      BY <2>2, <2>8
    <3>4. v.first - 1 \notin U /\ v.last + 1 \notin U
      BY <1>3, <2>1, <3>1, <3>2, <3>3
    <3> QED
      BY <3>1, <3>4
  <2>9. ASSUME NEW d \in U PROVE \E v \in table : v.overnight /\ v.first <= d /\ d <= v.last
    <3>1. CASE range.first <= d /\ d <= range.last
      BY <2>0, <3>1 DEF table
    <3>2. CASE ~(range.first <= d /\ d <= range.last)
      <4>1. d \in days
        BY <1>3, <2>1, <2>4, <3>2 DEF Away
      <4>2. PICK v \in rows : v.overnight /\ v.first <= d /\ d <= v.last
        BY <4>1 DEF Covers
      <4>3. d \in Int
        BY <4>1, DaysAre
      <4>4. ~V!Touches(v, stay)
        BY <1>2, <1>3, <1>5, <3>2, <4>2, <4>3 DEF Hull
      <4>5. v \in rest \ same
        BY <3>2, <4>2, <4>4 DEF rest, Rest, same
      <4> QED
        BY <4>2, <4>5 DEF table
    <3> QED
      BY <3>1, <3>2
  <2>11. Covers(table, U)
    <3>1. \A v \in table : v \in rest \/ v = new
      BY DEF table
    <3>2. range.first..range.last \subseteq U
      BY <2>5
    <3> QED
      BY <2>6, <2>7, <2>8, <2>9, <2>0, <3>1, <3>2 DEF Covers
  <2> QED
    BY <1>1, <2>11 DEF U, rest
<1> QED
  BY <1>4, <1>5

-----------------------------------------------------------------------------
(* The reference: trips of a sequence of ranges that is in order.            *)

(* Trips of what a set of days holds, each apart from the next.              *)
Apart(trips, days) ==
    /\ trips \in Seq(V!Ranges)
    /\ \A i \in DOMAIN trips : trips[i].first..trips[i].last \subseteq days
    /\ \A i, j \in DOMAIN trips : i < j => trips[i].last + 1 < trips[j].first
    /\ \A d \in days : \E i \in DOMAIN trips : trips[i].first <= d /\ d <= trips[i].last

(* None begins after a day.                                                  *)
Behind(trips, day) == \A i \in DOMAIN trips : trips[i].first <= day

(* A range that begins after no trip begins is a trip or makes the last one  *)
(* longer.                                                                   *)
LEMMA TripApart ==
    ASSUME NEW trips, NEW days \in SUBSET V!Days, Apart(trips, days),
           NEW range \in V!Ranges, Behind(trips, range.first)
    PROVE  /\ Apart(V!Trip(range, trips), days \cup (range.first..range.last))
           /\ Behind(V!Trip(range, trips), range.first)
<1> DEFINE n == Len(trips)
           U == days \cup (range.first..range.last)
<1>1. /\ range.first \in Int /\ range.last \in Int /\ range.first <= range.last
      /\ range.first \in V!Days /\ range.last \in V!Days
      /\ n \in Nat /\ DOMAIN trips = 1..n
      /\ \A i \in 1..n : /\ trips[i] \in V!Ranges /\ trips[i].first \in V!Days
                         /\ trips[i].last \in V!Days /\ trips[i].first <= trips[i].last
      /\ V!Days \subseteq Int
  BY StaysAre, DaysAre DEF Apart
<1>2. /\ \A i \in 1..n : trips[i].first..trips[i].last \subseteq days
      /\ \A i, j \in 1..n : i < j => trips[i].last + 1 < trips[j].first
      /\ \A d \in days : \E i \in 1..n : trips[i].first <= d /\ d <= trips[i].last
      /\ \A i \in 1..n : trips[i].first <= range.first
  BY <1>1 DEF Apart, Behind
<1>3. /\ \A i \in 1..n : trips[i].first \in Int /\ trips[i].last \in Int /\ i \in Int
      /\ \A i \in 1..n : i # n => i < n
      /\ \A d \in U : d \in Int
  <2>1. \A i \in 1..n : i \in Int /\ i <= n
    BY <1>1
  <2>2. \A i \in 1..n : trips[i].first \in Int /\ trips[i].last \in Int
    BY <1>1
  <2>3. \A d \in U : d \in Int
    BY <1>1
  <2>4. \A i \in 1..n : i # n => i < n
    <3> HIDE DEF n
    <3> QED
      BY <1>1, <2>1
  <2> QED
    BY <2>1, <2>2, <2>3, <2>4
<1>4. CASE trips = <<>> \/ (trips # <<>> /\ range.first > V!Last(trips).last + 1)
  <2>1. V!Trip(range, trips) = Append(trips, range)
    <3>1. CASE trips = <<>>
      BY <3>1 DEF V!Trip
    <3>2. CASE trips # <<>>
      <4>1. n \in 1..n
        BY <1>1, <3>2
      <4>2. trips[n].last \in Int
        BY <1>1, <4>1
      <4>3. ~(range.first <= V!Last(trips).last + 1)
        BY <1>1, <1>4, <3>2, <4>2 DEF V!Last
      <4> QED
        BY <4>3 DEF V!Trip
    <3> QED
      BY <3>1, <3>2
  <2> DEFINE t == Append(trips, range)
  <2>2. /\ t \in Seq(V!Ranges) /\ DOMAIN t = 1..(n + 1) /\ t[n + 1] = range
        /\ \A i \in 1..n : t[i] = trips[i]
    BY <1>1 DEF Apart
  <2> HIDE DEF t
  <2>3. \A i \in 1..n : trips[i].last + 1 < range.first
    <3>1. ASSUME NEW i \in 1..n PROVE trips[i].last + 1 < range.first
      <4>1. n \in 1..n /\ trips # <<>>
        <5>1. n # 0
          BY <1>1
        <5> QED
          BY <1>1, <5>1
      <4>2. trips[n].last + 1 < range.first
        BY <1>1, <1>4, <4>1 DEF V!Last
      <4>3. CASE i = n
        BY <4>2, <4>3
      <4>4. CASE i # n
        <5>1. trips[i].last + 1 < trips[n].first
          BY <1>2, <1>3, <4>1, <4>4
        <5>2. trips[n].first <= range.first
          BY <1>2, <4>1
        <5>3. trips[i].last \in Int /\ trips[n].first \in Int
          BY <1>3, <4>1
        <5> QED
          BY <1>1, <5>1, <5>2, <5>3
      <4> QED
        BY <4>3, <4>4
    <3> QED
      BY <3>1
  <2>4. \A i \in 1..(n + 1) : i \in 1..n \/ i = n + 1
    BY <1>1
  <2>5. \A i, j \in DOMAIN t : i < j => t[i].last + 1 < t[j].first
    <3>1. ASSUME NEW i \in 1..(n + 1), NEW j \in 1..(n + 1), i < j
          PROVE  t[i].last + 1 < t[j].first
      <4>1. i \in 1..n
        BY <1>1, <3>1
      <4>2. CASE j = n + 1
        BY <2>2, <2>3, <4>1, <4>2
      <4>3. CASE j \in 1..n
        BY <1>1, <2>2, <3>1, <4>1, <4>3 DEF Apart
      <4> QED
        BY <2>4, <4>2, <4>3
    <3> QED
      BY <2>2, <3>1
  <2>6. \A i \in DOMAIN t : t[i].first..t[i].last \subseteq U
    BY <1>1, <2>2, <2>4 DEF Apart
  <2>7. ASSUME NEW d \in U PROVE \E i \in DOMAIN t : t[i].first <= d /\ d <= t[i].last
    <3>1. CASE d \in days
      <4>1. PICK i \in 1..n : trips[i].first <= d /\ d <= trips[i].last
        BY <1>1, <3>1 DEF Apart
      <4>2. i \in DOMAIN t
        BY <1>1, <2>2
      <4> QED
        BY <2>2, <4>1, <4>2
    <3>2. CASE d \in range.first..range.last
      <4>1. n + 1 \in DOMAIN t
        BY <1>1, <2>2
      <4> QED
        BY <1>1, <2>2, <3>2, <4>1
    <3> QED
      BY <3>1, <3>2
  <2>8. Behind(t, range.first)
    <3>1. \A i \in 1..n : trips[i].first <= range.first
      BY <1>1 DEF Behind
    <3> QED
      BY <1>1, <2>2, <2>4, <3>1 DEF Behind
  <2>9. Apart(t, U)
    <3> HIDE DEF U
    <3> QED
      BY <2>2, <2>5, <2>6, <2>7 DEF Apart
  <2> QED
    BY <2>1, <2>8, <2>9 DEF t
<1>5. CASE trips # <<>> /\ range.first <= V!Last(trips).last + 1
  <2>1. n \in 1..n
    BY <1>1, <1>5
  <2> PICK end : end = V!Greatest({trips[n].last, range.last})
    OBVIOUS
  <2>2. /\ end \in {trips[n].last, range.last}
        /\ trips[n].last <= end /\ range.last <= end
    <3>1. {trips[n].last, range.last} \in SUBSET (0..LastDay)
      BY <1>1, <2>1, DaysAre
    <3>2. /\ V!Greatest({trips[n].last, range.last}) \in {trips[n].last, range.last}
          /\ \A y \in {trips[n].last, range.last} :
               V!Greatest({trips[n].last, range.last}) >= y
      BY <3>1, DaysAre, GreatestIs
    <3>3. end >= trips[n].last /\ end >= range.last
      BY <3>2
    <3> QED
      BY <1>1, <2>1, <3>2, <3>3
  <2> DEFINE longer == [first |-> trips[n].first, last |-> end]
             t == [trips EXCEPT ![n] = longer]
  <2>3. longer \in V!Ranges
    <3>1. trips[n].first \in V!Days /\ end \in V!Days /\ trips[n].first <= end
      <4>1. trips[n].first \in Int /\ trips[n].last \in Int /\ end \in Int
        BY <1>1, <1>3, <2>1, <2>2
      <4> QED
        BY <1>1, <2>1, <2>2, <4>1
    <3> QED
      BY <3>1 DEF V!Ranges
  <2>4. V!Trip(range, trips) = t
    <3>1. V!Trip(range, trips) = [trips EXCEPT ![n].last = end]
      BY <1>5 DEF V!Trip
    <3>2. [trips[n] EXCEPT !.last = end] = longer
      BY <1>1, <2>1 DEF V!Ranges
    <3>3. [trips EXCEPT ![n].last = end] = [trips EXCEPT ![n] = [trips[n] EXCEPT !.last = end]]
      OBVIOUS
    <3> HIDE DEF longer
    <3> QED
      BY <3>1, <3>2, <3>3
  <2>5. /\ longer.first = trips[n].first /\ longer.last = end
    OBVIOUS
  <2> HIDE DEF longer
  <2>6. /\ t \in Seq(V!Ranges) /\ DOMAIN t = 1..n /\ t[n] = longer
        /\ \A i \in 1..n : i # n => t[i] = trips[i]
    BY <1>1, <2>1, <2>3 DEF Apart
  <2> HIDE DEF t
  <2>7. trips[n].first <= range.first /\ range.first <= trips[n].last + 1
    BY <1>1, <1>5, <2>1 DEF Behind, V!Last
  <2>8. ASSUME NEW i \in 1..n, NEW j \in 1..n, i < j PROVE t[i].last + 1 < t[j].first
    <3>1. i # n
      <4>1. i \in Int /\ j \in Int /\ j <= n
        BY <1>1
      <4> HIDE DEF n
      <4> QED
        BY <1>1, <2>8, <4>1
    <3>2. trips[i].last + 1 < trips[j].first
      BY <1>2, <2>8
    <3> QED
      BY <2>5, <2>6, <3>1, <3>2
  <2>9. ASSUME NEW i \in 1..n PROVE t[i].first..t[i].last \subseteq U
    <3>1. CASE i # n
      BY <1>1, <2>6, <3>1 DEF Apart
    <3>2. CASE i = n
      <4>1. \A d \in Int : trips[n].first <= d /\ d <= trips[n].last => d \in days
        <5>1. trips[n].first..trips[n].last \subseteq days
          BY <1>2, <2>1
        <5> QED
          BY <1>3, <2>1, <5>1
      <4>2. ASSUME NEW d \in trips[n].first..end PROVE d \in U
        <5>1. d \in Int /\ trips[n].first <= d /\ d <= end
          <6>1. trips[n].first \in Int /\ end \in Int
            BY <1>1, <1>3, <2>1, <2>2
          <6> QED
            BY <6>1
        <5>2. CASE d <= trips[n].last
          BY <4>1, <5>1, <5>2
        <5>3. CASE d > trips[n].last
          <6>1. end = range.last
            BY <1>3, <2>1, <2>2, <5>1, <5>3
          <6>2. range.first <= d /\ d <= range.last
            <7>1. trips[n].last \in Int /\ range.first \in Int /\ range.last \in Int
              BY <1>1, <1>3, <2>1
            <7>2. d >= trips[n].last + 1
              BY <5>1, <5>3, <7>1
            <7>3. range.first <= trips[n].last + 1
              BY <2>7
            <7> DEFINE e == trips[n].last
            <7> HIDE DEF e
            <7>4. range.first <= e + 1 /\ d >= e + 1 /\ e \in Int
              BY <7>1, <7>2, <7>3 DEF e
            <7>5. d \in Int /\ d <= range.last
              BY <5>1, <6>1
            <7> HIDE DEF n, U
            <7> QED
              BY <7>1, <7>4, <7>5
          <6> QED
            BY <1>1, <5>1, <6>2
        <5> QED
          BY <1>3, <2>1, <5>1, <5>2, <5>3
      <4> QED
        BY <2>5, <2>6, <3>2, <4>2
    <3> QED
      BY <3>1, <3>2
  <2>10. ASSUME NEW d \in U PROVE \E i \in 1..n : t[i].first <= d /\ d <= t[i].last
    <3>1. CASE d \in days
      <4>1. PICK i \in 1..n : trips[i].first <= d /\ d <= trips[i].last
        BY <1>1, <3>1 DEF Apart
      <4>2. CASE i # n
        BY <2>6, <4>1, <4>2
      <4>3. CASE i = n
        <5>1. d <= end
          <6>1. d \in Int /\ trips[n].last \in Int /\ end \in Int
            BY <1>1, <1>3, <2>1, <2>2
          <6>2. d <= trips[n].last /\ trips[n].last <= end
            BY <2>2, <4>1, <4>3
          <6> QED
            BY <6>1, <6>2
        <5> QED
          BY <2>1, <2>5, <2>6, <4>1, <4>3, <5>1
      <4> QED
        BY <4>2, <4>3
    <3>2. CASE d \in range.first..range.last
      <4>1. trips[n].first <= d /\ d <= end
        <5>1. d \in Int /\ trips[n].first \in Int /\ end \in Int
          BY <1>1, <1>3, <2>1, <2>2
        <5>2. range.first <= d /\ d <= range.last /\ range.last <= end
          BY <1>1, <2>2, <3>2
        <5> QED
          BY <1>1, <2>7, <5>1, <5>2
      <4> QED
        BY <2>1, <2>5, <2>6, <4>1
    <3> QED
      BY <3>1, <3>2
  <2>11. Behind(t, range.first)
    <3>1. \A i \in 1..n : trips[i].first <= range.first
      BY <1>1 DEF Behind
    <3> QED
      BY <2>5, <2>6, <2>7, <3>1 DEF Behind
  <2>12. Apart(t, U)
    <3> HIDE DEF U
    <3> QED
      BY <2>6, <2>8, <2>9, <2>10 DEF Apart
  <2> QED
    BY <2>4, <2>11, <2>12
<1> QED
  <2>1. ASSUME trips # <<>> PROVE V!Last(trips).last \in Int
    <3>1. n # 0
      BY <1>1, <2>1
    <3>2. n \in 1..n
      BY <1>1, <3>1
    <3> QED
      BY <1>3, <3>2 DEF V!Last
  <2> QED
    BY <1>1, <1>4, <1>5, <2>1

(* Trips that are apart are as many as their days have ends.                 *)
LEMMA ApartCounts ==
    ASSUME NEW trips, NEW days \in SUBSET V!Days, Apart(trips, days), v7 \in V!Days
    PROVE  V!Cardinality({i \in DOMAIN trips : trips[i].last >= v7 - Year})
               = Cardinality(Ends(days))
<1> DEFINE S == {i \in DOMAIN trips : trips[i].last >= v7 - Year}
           last == [i \in S |-> trips[i].last]
<1>1. /\ DOMAIN trips \subseteq Nat
      /\ \A i \in DOMAIN trips : /\ trips[i].first \in V!Days /\ trips[i].last \in V!Days
                                 /\ trips[i].first <= trips[i].last
      /\ V!Days \subseteq Int
  BY StaysAre, DaysAre DEF Apart
<1>2. /\ \A i \in DOMAIN trips : i \in Int /\ trips[i].first \in Int /\ trips[i].last \in Int
      /\ \A i, j \in DOMAIN trips : i < j => trips[i].last + 1 < trips[j].first
      /\ \A i, j \in DOMAIN trips : i < j \/ j < i \/ i = j
  <2>1. \A i \in DOMAIN trips : i \in Int /\ trips[i].first \in Int /\ trips[i].last \in Int
    BY <1>1
  <2>2. \A i, j \in DOMAIN trips : i < j => trips[i].last + 1 < trips[j].first
    BY DEF Apart
  <2>3. \A i, j \in DOMAIN trips : i < j \/ j < i \/ i = j
    BY <2>1
  <2> QED
    BY <2>1, <2>2, <2>3
<1>3. ASSUME NEW i \in S PROVE trips[i].last \in Ends(days)
  <2>1. trips[i].last \in days
    <3>1. trips[i].last \in trips[i].first..trips[i].last
      BY <1>2, <1>1
    <3> QED
      BY <3>1 DEF Apart
  <2>2. ASSUME trips[i].last + 1 \in days PROVE FALSE
    <3>1. PICK j \in DOMAIN trips :
            trips[j].first <= trips[i].last + 1 /\ trips[i].last + 1 <= trips[j].last
      BY <2>2 DEF Apart
    <3>2. i \in DOMAIN trips
      OBVIOUS
    <3>3. CASE i < j
      BY <1>2, <3>1, <3>2, <3>3
    <3>4. CASE j < i
      BY <1>2, <1>1, <3>1, <3>2, <3>4
    <3>5. CASE i = j
      BY <1>2, <3>1, <3>2, <3>5
    <3> QED
      BY <1>2, <3>2, <3>3, <3>4, <3>5
  <2> QED
    BY <2>1, <2>2 DEF Ends
<1>4. ASSUME NEW i \in S, NEW j \in S, trips[i].last = trips[j].last PROVE i = j
  <2>0. i \in DOMAIN trips /\ j \in DOMAIN trips
    OBVIOUS
  <2>1. CASE i < j
    BY <1>2, <1>1, <1>4, <2>0, <2>1
  <2>2. CASE j < i
    BY <1>2, <1>1, <1>4, <2>0, <2>2
  <2> QED
    BY <1>2, <2>0, <2>1, <2>2
<1>5. ASSUME NEW d \in Ends(days) PROVE \E i \in S : trips[i].last = d
  <2>1. d \in days /\ d + 1 \notin days /\ d >= v7 - Year
    BY DEF Ends
  <2>2. PICK i \in DOMAIN trips : trips[i].first <= d /\ d <= trips[i].last
    BY <2>1 DEF Apart
  <2>3. trips[i].last = d
    <3>1. CASE d < trips[i].last
      <4>1. d + 1 \in trips[i].first..trips[i].last
        BY <1>1, <2>1, <2>2, <3>1
      <4> QED
        BY <2>1, <4>1 DEF Apart
    <3> QED
      BY <1>1, <2>1, <2>2, <3>1
  <2> QED
    BY <2>1, <2>3
<1>6. last \in [S -> Ends(days)]
  BY <1>3
<1>7. /\ \A x, y \in S : last[x] = last[y] => x = y
      /\ \A d \in Ends(days) : \E x \in S : last[x] = d
  BY <1>4, <1>5
<1> HIDE DEF S, last
<1>8. Cardinality(S) = Cardinality(Ends(days))
  BY <1>6, <1>7, EndsCount
<1> QED
  BY <1>8, VisitCardinality DEF S

-----------------------------------------------------------------------------
(* The reference: the ranges in order.                                       *)

(* There are finitely many ranges.                                           *)
LEMMA RangesAreFinite == IsFiniteSet(V!Ranges)
<1> DEFINE Code == [r \in V!Ranges |-> <<r.first, r.last>>]
<1>1. IsFiniteSet(V!Days)
  BY DaysAre, FS_Interval
<1>2. IsFiniteSet(V!Days \X V!Days)
  BY <1>1, FS_Product
<1>3. Code \in Injection(V!Ranges, V!Days \X V!Days)
  <2>1. \A r \in V!Ranges : r = [first |-> r.first, last |-> r.last]
    BY DEF V!Ranges
  <2>2. \A r, q \in V!Ranges : <<r.first, r.last>> = <<q.first, q.last>> => r = q
    BY <2>1
  <2>3. \A r \in V!Ranges : <<r.first, r.last>> \in V!Days \X V!Days
    BY StaysAre
  <2> QED
    BY <2>2, <2>3 DEF Injection, IsInjective
<1> QED
  BY <1>2, <1>3, FS_Injection

(* Of two ranges one is before the other.                                    *)
LEMMA BeforeIsTotal ==
    /\ \A a, b \in V!Ranges : V!Before(a, b) \/ V!Before(b, a) \/ a = b
    /\ \A a \in V!Ranges : ~V!Before(a, a)
    /\ \A a, b, c \in V!Ranges : V!Before(a, b) /\ V!Before(b, c) => V!Before(a, c)
    /\ \A a, b \in V!Ranges : V!Before(a, b) => a.first <= b.first
<1>1. \A r \in V!Ranges : r.first \in Int /\ r.last \in Int
  BY StaysAre, DaysAre
<1>2. \A a, b \in V!Ranges : a.first = b.first /\ a.last = b.last => a = b
  BY DEF V!Ranges
<1> QED
  BY <1>1, <1>2 DEF V!Before

(* Ranges in order: all of them, no one twice, none after one that begins    *)
(* later.                                                                    *)
InOrder(s, ranges) ==
    /\ s \in Seq(V!Ranges)
    /\ \A i \in DOMAIN s : s[i] \in ranges
    /\ \A r \in ranges : \E i \in DOMAIN s : s[i] = r
    /\ \A i, j \in DOMAIN s : i < j => s[i].first <= s[j].first

(* The place of a range is the number of those before it.                    *)
LEMMA SortedInOrder ==
    ASSUME NEW ranges \in SUBSET V!Ranges
    PROVE  InOrder(V!Sorted(ranges), ranges)
<1> DEFINE n == Cardinality(ranges)
           earlier(r) == {q \in ranges : V!Before(q, r)}
           rank == [r \in ranges |-> Cardinality(earlier(r)) + 1]
<1>1. IsFiniteSet(ranges) /\ n \in Nat
  BY RangesAreFinite, FS_Subset, FS_CardinalityType
<1>2. ASSUME NEW r \in ranges
      PROVE  IsFiniteSet(earlier(r)) /\ Cardinality(earlier(r)) \in Nat
  <2>1. earlier(r) \in SUBSET ranges
    OBVIOUS
  <2> HIDE DEF earlier
  <2> QED
    BY <1>1, <2>1, FS_Subset, FS_CardinalityType
<1>3. ASSUME NEW a \in ranges, NEW b \in ranges, V!Before(a, b) PROVE rank[a] < rank[b]
  <2>1. earlier(a) \subseteq earlier(b) /\ a \in earlier(b) /\ a \notin earlier(a)
    BY <1>3, BeforeIsTotal
  <2>2. earlier(a) \in SUBSET earlier(b) /\ earlier(a) # earlier(b)
    BY <2>1
  <2> HIDE DEF earlier
  <2>3. Cardinality(earlier(a)) < Cardinality(earlier(b))
    BY <1>2, <2>2, FS_Subset
  <2> QED
    BY <1>2, <2>3
<1>4. ASSUME NEW r \in ranges PROVE rank[r] \in 1..n
  <2>1. earlier(r) \in SUBSET ranges /\ r \notin earlier(r)
    BY BeforeIsTotal
  <2>2. earlier(r) # ranges
    BY <2>1
  <2> HIDE DEF earlier
  <2>3. Cardinality(earlier(r)) < Cardinality(ranges)
    BY <1>1, <1>2, <2>1, <2>2, FS_Subset
  <2> QED
    BY <1>1, <1>2, <2>3
<1>5. \A a, b \in ranges : rank[a] = rank[b] => a = b
  <2>1. \A a \in ranges : rank[a] \in Int
    BY <1>1, <1>4
  <2>2. \A a, b \in ranges : a = b \/ rank[a] < rank[b] \/ rank[b] < rank[a]
    BY <1>3, BeforeIsTotal
  <2> HIDE DEF rank
  <2> QED
    BY <2>1, <2>2
<1>6. rank \in Bijection(ranges, 1..n)
  <2>1. rank \in Injection(ranges, 1..n)
    <3>1. rank \in [ranges -> 1..n]
      BY <1>4
    <3> HIDE DEF rank
    <3> QED
      BY <1>5, <3>1 DEF Injection, IsInjective
  <2>2. IsFiniteSet(1..n) /\ Cardinality(1..n) = n
    BY <1>1, FS_Interval
  <2> HIDE DEF rank
  <2>3. rank \in Surjection(ranges, 1..n)
    BY <1>1, <2>1, <2>2, FS_Injection
  <2> QED
    BY <2>1, <2>3 DEF Bijection
<1> DEFINE s == V!Sorted(ranges)
<1>7. s = [i \in 1..n |-> CHOOSE r \in ranges : rank[r] = i]
  <2>1. ASSUME NEW i \in 1..n, NEW r \in ranges
        PROVE  V!Cardinality({q \in ranges : V!Before(q, r)}) = i - 1 <=> rank[r] = i
    <3>1. V!Cardinality(earlier(r)) = Cardinality(earlier(r))
      BY VisitCardinality
    <3>2. rank[r] = Cardinality(earlier(r)) + 1
      OBVIOUS
    <3>3. i \in Int /\ Cardinality(earlier(r)) \in Int
      BY <1>1, <1>2
    <3> DEFINE k == Cardinality(earlier(r))
    <3>4. V!Cardinality({q \in ranges : V!Before(q, r)}) = k
      BY <3>1
    <3> HIDE DEF k, rank
    <3> QED
      BY <3>2, <3>3, <3>4 DEF k
  <2>2. V!Cardinality(ranges) = n
    BY VisitCardinality
  <2>3. s = [i \in 1..n |-> CHOOSE r \in ranges :
                V!Cardinality({q \in ranges : V!Before(q, r)}) = i - 1]
    BY <2>2 DEF V!Sorted
  <2>4. ASSUME NEW i \in 1..n
        PROVE  (CHOOSE r \in ranges : V!Cardinality({q \in ranges : V!Before(q, r)}) = i - 1)
                   = (CHOOSE r \in ranges : rank[r] = i)
    <3> HIDE DEF rank
    <3> QED
      BY <2>1
  <2> DEFINE A(i) == CHOOSE r \in ranges : V!Cardinality({q \in ranges : V!Before(q, r)}) = i - 1
             B(i) == CHOOSE r \in ranges : rank[r] = i
  <2>5. s = [i \in 1..n |-> A(i)] /\ \A i \in 1..n : A(i) = B(i)
    BY <2>3, <2>4
  <2>6. s = [i \in 1..n |-> B(i)]
    <3> HIDE DEF A, B, n, s
    <3> QED
      BY <2>5
  <2> QED
    BY <2>6
<1>8. ASSUME NEW i \in 1..n PROVE s[i] \in ranges /\ rank[s[i]] = i
  <2>1. \E r \in ranges : rank[r] = i
    <3> HIDE DEF rank
    <3> QED
      BY <1>6 DEF Bijection, Surjection
  <2> HIDE DEF rank, s
  <2> QED
    BY <1>7, <2>1
<1>9. DOMAIN s = 1..n /\ s \in Seq(V!Ranges)
  <2> HIDE DEF rank
  <2>1. DOMAIN s = 1..n /\ s = [i \in 1..n |-> s[i]]
    BY <1>7
  <2> HIDE DEF s
  <2>2. s \in [1..n -> V!Ranges]
    BY <1>8, <2>1
  <2> QED
    BY <1>1, <2>1, <2>2
<1>10. ASSUME NEW r \in ranges PROVE \E i \in 1..n : s[i] = r
  <2>1. rank[r] \in 1..n /\ s[rank[r]] \in ranges /\ rank[s[rank[r]]] = rank[r]
    BY <1>4, <1>8
  <2> HIDE DEF rank, s
  <2> QED
    BY <1>5, <2>1
<1>11. ASSUME NEW i \in 1..n, NEW j \in 1..n, i < j PROVE s[i].first <= s[j].first
  <2>1. s[i] \in ranges /\ s[j] \in ranges /\ rank[s[i]] < rank[s[j]]
    BY <1>8, <1>11
  <2>2. ~V!Before(s[j], s[i]) /\ s[i] # s[j]
    <3>1. rank[s[i]] \in Int /\ rank[s[j]] \in Int
      BY <1>1, <1>8
    <3> HIDE DEF rank
    <3> QED
      BY <1>3, <2>1, <3>1
  <2> QED
    BY <2>1, <2>2, BeforeIsTotal
<1> HIDE DEF s
<1> QED
  BY <1>8, <1>9, <1>10, <1>11 DEF InOrder, s

-----------------------------------------------------------------------------
(* The reference: the trips of all stays.                                    *)

(* Trips stay trips.                                                         *)
LEMMA TripTyped ==
    ASSUME NEW range \in V!Ranges, NEW trips \in Seq(V!Ranges)
    PROVE  V!Trip(range, trips) \in Seq(V!Ranges)
<1>1. CASE trips # <<>> /\ range.first <= V!Last(trips).last + 1
  <2> DEFINE n == Len(trips)
             end == V!Greatest({trips[n].last, range.last})
             longer == [trips[n] EXCEPT !.last = end]
  <2>1. n \in 1..n /\ trips[n] \in V!Ranges
    <3>1. n # 0
      BY <1>1
    <3> QED
      BY <3>1
  <2>2. trips[n].last <= end /\ end \in V!Days
    <3>1. {trips[n].last, range.last} \in SUBSET (0..LastDay)
      BY <2>1, StaysAre, DaysAre
    <3>2. end \in {trips[n].last, range.last} /\ \A y \in {trips[n].last, range.last} : end >= y
      BY <3>1, DaysAre, GreatestIs
    <3> HIDE DEF end
    <3>3. end >= trips[n].last
      BY <3>2
    <3> QED
      BY <3>1, <3>2, <3>3, DaysAre
  <2> HIDE DEF end
  <2>3. longer \in V!Ranges
    <3>1. trips[n].first <= end
      BY <2>1, <2>2, StaysAre, DaysAre
    <3> QED
      BY <2>1, <2>2, <3>1 DEF V!Ranges
  <2>4. V!Trip(range, trips) = [trips EXCEPT ![n] = longer]
    BY <1>1 DEF V!Trip, end
  <2> HIDE DEF longer
  <2> QED
    BY <2>1, <2>3, <2>4
<1>2. CASE ~(trips # <<>> /\ range.first <= V!Last(trips).last + 1)
  BY <1>2 DEF V!Trip
<1> QED
  BY <1>1, <1>2

(* The days of ranges.                                                       *)
Held(ranges) == {d \in V!Days : \E r \in ranges : r.first <= d /\ d <= r.last}

(* The merged ranges are the trips of the days that the ranges hold.         *)
LEMMA TripsApart ==
    ASSUME NEW s, NEW ranges \in SUBSET V!Ranges, InOrder(s, ranges)
    PROVE  Apart(V!Trips(s), Held(ranges))
<1> DEFINE N == Len(s)
           Is(f) == f = [n \in 0..N |-> IF n = 0 THEN <<>> ELSE V!Trip(s[n], f[n - 1])]
           merged == CHOOSE f : Is(f)
           F == [n \in 1..N |-> [t \in Seq(V!Ranges) |-> V!Trip(s[n], t)]]
           SoFar(n) == Held({s[i] : i \in 1..n})
           S == {n \in 0..N : /\ Apart(merged[n], SoFar(n))
                              /\ \A i \in 1..N : n < i => Behind(merged[n], s[i].first)}
<1>1. /\ s \in Seq(V!Ranges) /\ N \in Nat /\ DOMAIN s = 1..N
      /\ \A n \in 1..N : s[n] \in V!Ranges
      /\ \A i, j \in 1..N : i < j => s[i].first <= s[j].first
  BY DEF InOrder
<1>2. V!Trips(s) = merged[N]
  BY DEF V!Trips
<1>3. Is(merged)
  <2>1. F \in [1..N -> [Seq(V!Ranges) -> Seq(V!Ranges)]]
    BY <1>1, TripTyped
  <2>2. <<>> \in Seq(V!Ranges)
    OBVIOUS
  <2> HIDE DEF F, N
  <2>3. PICK f \in [0..N -> Seq(V!Ranges)] :
          f[0] = <<>> /\ \A n \in 1..N : f[n] = F[n][f[n - 1]]
    <3>1. N \in Nat
      BY <1>1
    <3>2. \E f \in [0..N -> Seq(V!Ranges)] : Iterates(f, N, <<>>, F)
      BY <2>1, <2>2, <3>1, Recursion
    <3> QED
      BY <3>2 DEF Iterates
  <2>4. \A n \in 1..N : f[n] = V!Trip(s[n], f[n - 1])
    <3>1. ASSUME NEW n \in 1..N PROVE f[n - 1] \in Seq(V!Ranges)
      <4>1. n - 1 \in 0..N
        BY <1>1
      <4> QED
        BY <4>1
    <3> QED
      BY <2>3, <3>1 DEF F
  <2>5. Is(f)
    <3>1. ASSUME NEW n \in 0..N PROVE f[n] = IF n = 0 THEN <<>> ELSE V!Trip(s[n], f[n - 1])
      <4>1. CASE n = 0
        BY <2>3, <4>1
      <4>2. CASE n # 0
        <5>1. n \in 1..N
          BY <1>1, <4>2
        <5> QED
          BY <2>4, <4>2, <5>1
      <4> QED
        BY <4>1, <4>2
    <3> QED
      BY <3>1
  <2> HIDE DEF Is
  <2> QED
    BY <2>5
<1>4. merged[0] = <<>> /\ \A n \in 1..N : merged[n] = V!Trip(s[n], merged[n - 1])
  <2> HIDE DEF merged, N
  <2>1. 0 \in 0..N /\ \A n \in 1..N : n \in 0..N /\ n # 0
    BY <1>1
  <2> QED
    BY <1>3, <2>1
<1> HIDE DEF merged, Is, F
<1>5. 0 \in S
  <2>1. SoFar(0) = {}
    BY DEF Held
  <2>2. Apart(<<>>, {})
    BY DEF Apart
  <2>3. \A day : Behind(<<>>, day)
    BY DEF Behind
  <2>4. 0 \in 0..N
    BY <1>1
  <2> HIDE DEF SoFar, N
  <2> QED
    BY <1>4, <2>1, <2>2, <2>3, <2>4
<1>6. ASSUME NEW n \in 0..(N - 1), n \in S PROVE n + 1 \in S
  <2>1. n + 1 \in 1..N /\ n + 1 \in 0..N /\ n < n + 1 /\ (n + 1) - 1 = n
    BY <1>1, <1>6
  <2> HIDE DEF N
  <2>2. Apart(merged[n], SoFar(n)) /\ Behind(merged[n], s[n + 1].first)
    BY <1>6, <2>1
  <2>3. SoFar(n + 1) = SoFar(n) \cup (s[n + 1].first..s[n + 1].last)
    <3>1. \A i : i \in 1..(n + 1) <=> i \in 1..n \/ i = n + 1
      BY <1>1, <1>6
    <3>2. \A d : d \in s[n + 1].first..s[n + 1].last
                   <=> d \in V!Days /\ s[n + 1].first <= d /\ d <= s[n + 1].last
      <4>1. s[n + 1].first \in 0..LastDay /\ s[n + 1].last \in 0..LastDay
        BY <1>1, <2>1, StaysAre, DaysAre
      <4> QED
        BY <4>1, DaysAre
    <3>3. \A d : d \in SoFar(n + 1) <=> d \in SoFar(n) \/ d \in s[n + 1].first..s[n + 1].last
      <4>1. ASSUME NEW d PROVE
              d \in SoFar(n + 1)
                <=> d \in V!Days /\ \E i \in 1..(n + 1) : s[i].first <= d /\ d <= s[i].last
        BY DEF Held
      <4>2. ASSUME NEW d PROVE
              d \in SoFar(n) <=> d \in V!Days /\ \E i \in 1..n : s[i].first <= d /\ d <= s[i].last
        BY DEF Held
      <4> HIDE DEF SoFar
      <4> QED
        BY <3>1, <3>2, <4>1, <4>2
    <3> HIDE DEF SoFar
    <3> QED
      BY <3>3
  <2>4. SoFar(n) \in SUBSET V!Days
    BY DEF Held
  <2> HIDE DEF SoFar
  <2>5. Apart(merged[n + 1], SoFar(n + 1)) /\ Behind(merged[n + 1], s[n + 1].first)
    <3>1. merged[n + 1] = V!Trip(s[n + 1], merged[n])
      BY <1>4, <2>1
    <3> QED
      <4> DEFINE range == s[n + 1]
      <4>1. range \in V!Ranges /\ Behind(merged[n], range.first)
        BY <1>1, <2>1, <2>2
      <4>2. merged[n + 1] = V!Trip(range, merged[n])
            /\ SoFar(n + 1) = SoFar(n) \cup (range.first..range.last)
        BY <2>3, <3>1
      <4> HIDE DEF range
      <4>3. /\ Apart(V!Trip(range, merged[n]), SoFar(n) \cup (range.first..range.last))
            /\ Behind(V!Trip(range, merged[n]), range.first)
        BY <2>2, <2>4, <4>1, TripApart
      <4>4. Apart(merged[n + 1], SoFar(n + 1)) /\ Behind(merged[n + 1], range.first)
        BY <4>2, <4>3
      <4> QED
        BY <4>4 DEF range
  <2>6. ASSUME NEW i \in 1..N, n + 1 < i PROVE Behind(merged[n + 1], s[i].first)
    <3>1. s[n + 1].first <= s[i].first
      BY <1>1, <2>1, <2>6
    <3>2. s[n + 1].first \in Int /\ s[i].first \in Int
      BY <1>1, <2>1, StaysAre, DaysAre
    <3>3. \A j \in DOMAIN merged[n + 1] : merged[n + 1][j].first \in Int
      BY <2>5, StaysAre, DaysAre DEF Apart
    <3> QED
      BY <2>5, <3>1, <3>2, <3>3 DEF Behind
  <2> QED
    BY <2>1, <2>5, <2>6
<1>7. N \in S
  <2>1. \A n \in 0..(N - 1) : n \in S => n + 1 \in S
    BY <1>6
  <2> HIDE DEF S, N
  <2>2. 0..N \subseteq S
    BY <1>1, <1>5, <2>1, Induction
  <2> QED
    BY <1>1, <2>2
<1>8. SoFar(N) = Held(ranges)
  <2>1. {s[i] : i \in 1..N} = ranges
    <3> HIDE DEF N
    <3> QED
      BY <1>1 DEF InOrder
  <2> QED
    BY <2>1
<1> HIDE DEF SoFar, N
<1> QED
  BY <1>2, <1>7, <1>8

(* The reference counts the trips of the days away.                          *)
LEMMA ReferenceCounts ==
    ASSUME NEW stays \in SUBSET V!Stays, v7 \in V!Days
    PROVE  V!qualifying_visit_count(stays) = Cardinality(Ends(Away(stays)))
<1> DEFINE ranges == V!Overnight(stays)
           trips == V!Trips(V!Sorted(ranges))
<1>1. ranges \in SUBSET V!Ranges
  BY StaysAre DEF V!Overnight, V!Ranges
<1>2. Held(ranges) = Away(stays)
  <2>1. ASSUME NEW d
        PROVE  (\E r \in ranges : r.first <= d /\ d <= r.last)
                 <=> \E t \in stays : t.overnight /\ t.first <= d /\ d <= t.last
    <3>1. ASSUME NEW r \in ranges, r.first <= d /\ d <= r.last
          PROVE  \E t \in stays : t.overnight /\ t.first <= d /\ d <= t.last
      BY <3>1 DEF V!Overnight
    <3>2. ASSUME NEW t \in stays, t.overnight /\ t.first <= d /\ d <= t.last
          PROVE  \E r \in ranges : r.first <= d /\ d <= r.last
      <4>1. [first |-> t.first, last |-> t.last] \in ranges
        BY <3>2 DEF V!Overnight
      <4> QED
        BY <3>2, <4>1
    <3> QED
      BY <3>1, <3>2
  <2> HIDE DEF ranges
  <2> QED
    BY <2>1 DEF Held, Away
<1> HIDE DEF ranges
<1>3. Apart(trips, Held(ranges))
  BY <1>1, SortedInOrder, TripsApart
<1>4. Held(ranges) \in SUBSET V!Days
  BY DEF Held
<1>5. V!qualifying_visit_count(stays)
        = V!Cardinality({i \in DOMAIN trips : trips[i].last >= v7 - Year})
  BY DEF V!qualifying_visit_count, ranges
<1> HIDE DEF trips
<1> QED
  BY <1>2, <1>3, <1>4, <1>5, ApartCounts

-----------------------------------------------------------------------------
(* Where the visits come from.                                               *)

Items(s) == {s[i] : i \in DOMAIN s}

(* Each overnight visit of the table has been made of what the owner has     *)
(* recorded, or of what devices have: it is of the one or the other.         *)
From(rows, owners, devices) ==
    \A v \in rows : v.overnight =>
        \E s \in (IF v.source = "manual" THEN owners ELSE devices) : V!Made(s, v)

(* What a statement stores has been made of the stay.                        *)
LEMMA InsertedFrom ==
    ASSUME NEW rows, NEW owners, NEW devices, From(rows, owners, devices),
           NEW stay \in V!Stays, NEW range, Fits(stay, range), NEW source \in V!Sources,
           stay \in (IF source = "manual" THEN owners ELSE devices)
    PROVE  From(Inserted(rows, stay, range, source), owners, devices)
<1> DEFINE new == New(rows, stay, range, source)
<1>1. new.first = range.first /\ new.last = range.last /\ new.source = source
  BY DEF New
<1>2. V!DaysOf(new) = range
  BY <1>1, DaysName DEF Fits
<1>3. V!Made(stay, new)
  BY <1>1, <1>2 DEF V!Made, Fits
<1> HIDE DEF new
<1>4. \A v \in Inserted(rows, stay, range, source) : v = new \/ v \in rows
  BY DEF Inserted, new
<1> QED
  BY <1>1, <1>3, <1>4 DEF From

(* An overnight stay lies within one of the visits that cover its days.      *)
LEMMA StayWithin ==
    ASSUME NEW rows, RowsTyped(rows), NEW stays \in SUBSET V!Stays, Covers(rows, Away(stays)),
           NEW v \in rows, v.overnight, NEW s \in stays, s.overnight,
           NEW d \in V!Days, s.first <= d, d <= s.last, v.first <= d, d <= v.last
    PROVE  V!Made(s, v)
<1>1. /\ s.first \in V!Days /\ s.last \in V!Days /\ v.first \in V!Days /\ v.last \in V!Days
      /\ V!Days = 0..LastDay /\ LastDay \in Nat
  BY StaysAre, DaysAre DEF RowsTyped, TableRow
<1>2. \A e \in s.first..s.last : e \in Away(stays)
  BY <1>1 DEF Away
<1>3. v.first - 1 \notin s.first..s.last /\ v.last + 1 \notin s.first..s.last
  BY <1>2 DEF Covers
<1>4. v.first <= s.first /\ s.last <= v.last
  BY <1>1, <1>3
<1> QED
  BY <1>4 DEF V!Made

(* When no visit was made of the owner's and of a device's, those that are   *)
(* not a device's are the trips of what the owner has recorded.              *)
LEMMA OwnersRemain ==
    ASSUME NEW rows, RowsTyped(rows), NEW owners \in SUBSET V!Stays,
           NEW devices \in SUBSET V!Stays,
           Covers(rows, Away(owners \cup devices)), From(rows, owners, devices),
           \A v \in rows, s \in owners, e \in devices :
             ~(v.overnight /\ V!Made(s, v) /\ V!Made(e, v))
    PROVE  Covers({v \in rows : v.source # "device_coarse"}, Away(owners))
<1> DEFINE kept == {v \in rows : v.source # "device_coarse"}
<1>1. \A v \in rows : v.source \in {"manual", "device_coarse"}
  BY DEF RowsTyped, TableRow, V!Sources
<1>2. ASSUME NEW v \in kept, v.overnight
      PROVE  /\ v.first..v.last \subseteq Away(owners)
             /\ v.first - 1 \notin Away(owners) /\ v.last + 1 \notin Away(owners)
  <2>1. v \in rows /\ v.source = "manual"
    BY <1>1
  <2>2. PICK own \in owners : V!Made(own, v)
    BY <1>2, <2>1 DEF From
  <2>3. ASSUME NEW d \in v.first..v.last PROVE d \in Away(owners)
    <3>1. d \in Away(owners \cup devices)
      BY <1>2, <2>1 DEF Covers
    <3>2. PICK s \in owners \cup devices : s.overnight /\ s.first <= d /\ d <= s.last
      BY <3>1 DEF Away
    <3>3. d \in V!Days /\ v.first <= d /\ d <= v.last
      <4>1. v.first \in Int /\ v.last \in Int
        BY <2>1, DaysAre DEF RowsTyped, TableRow
      <4> QED
        BY <3>1, <4>1 DEF Away
    <3>4. V!Made(s, v)
      BY <1>2, <2>1, <3>2, <3>3, StayWithin
    <3>5. s \in owners
      BY <1>2, <2>1, <2>2, <3>4
    <3> QED
      BY <3>2, <3>3, <3>5 DEF Away
  <2>4. \A d : d \in Away(owners) => d \in Away(owners \cup devices)
    BY DEF Away
  <2> QED
    BY <1>2, <2>1, <2>3, <2>4 DEF Covers
<1>3. ASSUME NEW d \in Away(owners)
      PROVE  \E v \in kept : v.overnight /\ v.first <= d /\ d <= v.last
  <2>1. PICK s \in owners : s.overnight /\ s.first <= d /\ d <= s.last
    BY DEF Away
  <2>2. d \in V!Days /\ d \in Away(owners \cup devices)
    BY DEF Away
  <2>3. PICK v \in rows : v.overnight /\ v.first <= d /\ d <= v.last
    BY <2>2 DEF Covers
  <2>4. V!Made(s, v)
    BY <2>1, <2>2, <2>3, StayWithin
  <2>5. v.source = "manual"
    BY <1>1, <2>3, <2>4 DEF From
  <2> QED
    BY <2>3, <2>5
<1> QED
  BY <1>2, <1>3 DEF Covers

-----------------------------------------------------------------------------
(* The invariant.                                                            *)

Preferences == {"none", "automatic", "pinned", "suppressed"}
Choices == {"none", "pin", "remove", "late"}

Clearing == {"clear", "clearing", "select"}
Storing == {"read", "delete", "deleting", "insert", "count", "test", "promote"}

Records ==
    [pc : {"idle", "commit"} \cup Clearing \cup Storing, stay : V!Stays, source : V!Sources,
     event : Nat, todo : Seq(V!Stays), day : Nat, range : V!Ranges,
     wanted : SUBSET V!Ranges, gone : SUBSET V!Ranges, added : SUBSET TableRow,
     preference : {"none", "automatic", "pinned"}]

(* What a statement makes of a call's record.                                *)
Found(r, pc, wanted) == [r EXCEPT !.pc = pc, !.wanted = wanted]
Deleted(r, pc, gone, added) ==
    [r EXCEPT !.pc = pc, !.wanted = {}, !.gone = gone, !.added = added]
Inserting(r, gone, added) == [r EXCEPT !.pc = "count", !.gone = gone, !.added = added]

(* It is typed as the record was.                                            *)
LEMMA RecordChanged ==
    ASSUME NEW r \in Records, NEW pc \in {"idle", "commit"} \cup Clearing \cup Storing,
           NEW wanted \in SUBSET V!Ranges, NEW gone \in SUBSET V!Ranges,
           NEW added \in SUBSET TableRow
    PROVE  /\ Found(r, pc, wanted) \in Records
           /\ Deleted(r, pc, gone, added) \in Records
           /\ Inserting(r, gone, added) \in Records
<1>1. Found(r, pc, wanted) \in Records
  BY DEF Records, Found
<1>2. Deleted(r, pc, gone, added) \in Records
  BY DEF Records, Deleted
<1>3. Inserting(r, gone, added) \in Records
  <2>1. "count" \in {"idle", "commit"} \cup Clearing \cup Storing
    BY DEF Storing
  <2> QED
    BY <2>1 DEF Records, Inserting
<1> QED
  BY <1>1, <1>2, <1>3

(* A call stores what fits, and hides the days of what it has stored.        *)
CallTyped(r) ==
    /\ r \in Records /\ r.event <= Len(v4) /\ r.day <= v7
    /\ RowsTyped(r.added) /\ \A v \in r.added : V!DaysOf(v) \in r.gone
    /\ r.pc \in Clearing => r.event # 0
    /\ r.pc \in Storing => r.todo # <<>>
    /\ r.pc \in {"delete", "deleting"} => Head(r.todo).overnight
    /\ r.pc \in {"delete", "deleting", "insert"} => Fits(Head(r.todo), r.range)

VisitsTyped ==
    /\ RowsTyped(v1) /\ v2 \in Preferences /\ v3 \in Choices
    /\ v4 \in Seq(V!Stays) /\ v5 \subseteq V!Stays
    /\ v6 \in [Calls -> Records] /\ \A c \in Calls : CallTyped(v6[c])
    /\ v7 \in V!Days /\ v8 \subseteq {"overlap", "entangled"}

(* The preference says what the owner chose last, unless a removal came late *)
(* and was overwritten; nothing else is overwritten by a call.               *)
Obeys(preference, choice) ==
    /\ preference = "pinned" <=> choice = "pin"
    /\ choice = "remove" => preference = "suppressed"
    /\ choice = "none" => preference \in {"none", "automatic"}
    /\ choice = "late" => preference \in {"suppressed", "automatic"}

(* What a call holds ready to commit obeys as well.                          *)
Keeps(r) ==
    /\ r.pc = "promote" => v3 # "remove"
    /\ r.preference # "none" => v3 # "remove" /\ (r.preference = "pinned" <=> v2 = "pinned")

Obedient ==
    /\ Obeys(v2, v3)
    /\ \A c \in Calls : Keeps(v6[c])
    /\ \A c, d \in Calls : v6[c].preference # "none" /\ v6[d].preference # "none" => c = d

(* The country is promoted when these rows are enough.                       *)
Promoted(preference, choice, rows) ==
    choice = "none" /\ Cardinality(V!Recent(rows, v7)) >= 2 => preference = "automatic"

(* What a call sees, and what will have been recorded when it commits.       *)
ViewOf(r) == {v \in v1 : V!DaysOf(v) \notin r.gone} \cup r.added

OwnOf(r) == IF r.preference = "none" THEN v2 ELSE r.preference

Owners(r) == IF r.source = "manual" THEN v5 \cup {r.stay} ELSE v5

Devices(r) ==
    IF r.source = "manual" THEN Items(v4)
    ELSE IF r.event = 0 THEN Items(v4) \cup {r.stay}
    ELSE Items([v4 EXCEPT ![r.event] = r.stay])

(* The days of what a DELETE condemns.                                       *)
Doomed(r, rows) ==
    {V!DaysOf(v) : v \in {w \in rows :
        IF r.pc \in {"clear", "clearing"} THEN w.source = "device_coarse"
        ELSE V!Touches(w, Head(r.todo))}}

(* The rows are those of the stays that were stored, and a statement of the  *)
(* call goes by what it still sees.                                          *)
Holds(r, stays) ==
    /\ r.pc \in {"read", "delete", "deleting", "count", "test", "promote", "commit"} =>
         Covers(ViewOf(r), Away(stays))
    /\ r.pc \in {"delete", "deleting"} => r.range = V!Merged(ViewOf(r), Head(r.todo))
    /\ r.pc = "deleting" => r.wanted = Doomed(r, ViewOf(r))
    /\ r.pc = "insert" => \E rows :
         /\ RowsTyped(rows) /\ Covers(rows, Away(stays))
         /\ ViewOf(r) = Rest(rows, Head(r.todo))
         /\ Head(r.todo).overnight => r.range = V!Merged(rows, Head(r.todo))
    /\ r.pc \in {"count", "test", "promote"} => Head(r.todo) \in stays

(* What a call that is alone has done so far.                                *)
Proceeds(r) ==
    /\ r.event # 0 => r.source = "device_coarse" /\ ~V!Entangled
    /\ r.pc \in {"clear", "clearing"} => r.gone = {} /\ r.added = {}
    /\ r.pc = "clearing" => r.wanted = Doomed(r, ViewOf(r))
    /\ r.pc = "select" => Covers(ViewOf(r), Away(v5))
    /\ r.pc \notin {"clear", "clearing"} => From(ViewOf(r), Owners(r), Devices(r))
    /\ r.pc \in Storing \cup {"commit"} =>
         /\ Items(r.todo) \subseteq IF r.source = "manual" THEN Owners(r) ELSE Devices(r)
         /\ \E stays \in SUBSET V!Stays :
              stays \cup Items(r.todo) = Owners(r) \cup Devices(r) /\ Holds(r, stays)
    /\ r.pc = "commit" => r.todo = <<>> /\ Promoted(OwnOf(r), v3, ViewOf(r))

VisitsRight ==
    /\ Covers(v1, Away(V!Stated)) /\ From(v1, v5, Items(v4)) /\ Promoted(v2, v3, v1)
    /\ \A c, d \in Calls : v6[c].pc # "idle" /\ v6[d].pc # "idle" => c = d
    /\ \A c \in Calls : v6[c].pc # "idle" => Proceeds(v6[c])

VisitsInv == VisitsTyped /\ Obedient /\ (V!Undisturbed => VisitsRight)

-----------------------------------------------------------------------------
(* What a call sees.                                                         *)

(* The module's words for it.                                                *)
LEMMA CallSees ==
    ASSUME NEW c \in Calls
    PROVE  /\ V!View(c) = ViewOf(v6[c]) /\ V!Own(c) = OwnOf(v6[c])
           /\ \A v : V!Condemned(c, v) <=>
                IF v6[c].pc \in {"clear", "clearing"} THEN v.source = "device_coarse"
                ELSE V!Touches(v, Head(v6[c].todo))
           /\ V!Stated = v5 \cup Items(v4)
BY DEF V!View, ViewOf, V!Own, OwnOf, V!Condemned, V!Stated, Items

(* A call sees a typed table, whatever is committed meanwhile.               *)
LEMMA ViewTyped ==
    ASSUME NEW r, CallTyped(r), RowsTyped(v1)
    PROVE  RowsTyped(ViewOf(r))
<1>1. ASSUME NEW v \in ViewOf(r), NEW w \in ViewOf(r), v.first = w.first /\ v.last = w.last
      PROVE  v = w
  <2>1. V!DaysOf(v) = V!DaysOf(w)
    BY <1>1, DaysName
  <2> QED
    BY <1>1, <2>1 DEF ViewOf, CallTyped, RowsTyped
<1> QED
  BY <1>1 DEF ViewOf, CallTyped, RowsTyped

(* It sees no more what it has deleted.                                      *)
LEMMA ViewDeleted ==
    ASSUME NEW r, CallTyped(r), RowsTyped(v1), NEW deleted \in SUBSET ViewOf(r), NEW next,
           next.gone = r.gone \cup {V!DaysOf(v) : v \in deleted},
           next.added = r.added \ deleted
    PROVE  ViewOf(next) = ViewOf(r) \ deleted
<1>1. ASSUME NEW v \in ViewOf(r), NEW w \in deleted, V!DaysOf(v) = V!DaysOf(w)
      PROVE  v = w
  BY <1>1, ViewTyped, DaysName DEF RowsTyped
<1> QED
  BY <1>1 DEF ViewOf

(* It sees what it has stored, instead of what was there.                    *)
LEMMA ViewInserted ==
    ASSUME NEW r, CallTyped(r), r.pc = "insert", NEW next,
           next.gone = r.gone \cup {r.range},
           next.added = (r.added \ {v \in ViewOf(r) : V!DaysOf(v) = r.range})
                        \cup {New(ViewOf(r), Head(r.todo), r.range, r.source)}
    PROVE  ViewOf(next) = Inserted(ViewOf(r), Head(r.todo), r.range, r.source)
<1> PICK new : new = New(ViewOf(r), Head(r.todo), r.range, r.source)
  OBVIOUS
<1> DEFINE same == {v \in ViewOf(r) : V!DaysOf(v) = r.range}
<1>1. r.added \ same = {v \in r.added : V!DaysOf(v) # r.range}
  BY DEF ViewOf
<1>2. ViewOf(next) = {v \in v1 : V!DaysOf(v) \notin r.gone \cup {r.range}}
                     \cup ((r.added \ same) \cup {new})
  BY DEF ViewOf
<1>3. Inserted(ViewOf(r), Head(r.todo), r.range, r.source)
        = {v \in ViewOf(r) : V!DaysOf(v) # r.range} \cup {new}
  BY DEF Inserted
<1> HIDE DEF same
<1> QED
  BY <1>1, <1>2, <1>3 DEF ViewOf

(* Nothing that what a call has done depends on changes.                     *)
Still == v1' = v1 /\ v2' = v2 /\ v3' = v3 /\ v4' = v4 /\ v5' = v5 /\ v7' = v7

(* Of what a call has done, nothing changes with the preference or the day,  *)
(* unless it is about to commit.                                             *)
LEMMA ProceedsRemains ==
    ASSUME v1' = v1, v4' = v4, v5' = v5, NEW c \in Calls, NEW r, v6'[c] = r, Proceeds(r),
           r.pc = "commit" => Promoted(OwnOf(v6[c]), v3, ViewOf(v6[c]))'
    PROVE  Proceeds(v6[c])'
<1>1. /\ ViewOf(v6[c])' = ViewOf(r) /\ Owners(v6[c])' = Owners(r)
      /\ Devices(v6[c])' = Devices(r) /\ V!Entangled' = V!Entangled
  BY DEF ViewOf, Owners, Devices, V!Entangled, Items
<1>2. Doomed(v6[c], ViewOf(v6[c]))' = Doomed(r, ViewOf(r))
  BY <1>1 DEF Doomed
<1>3. \A stays : Holds(v6[c], stays)' <=> Holds(r, stays)
  BY <1>1, <1>2 DEF Holds, Covers, RowsTyped
<1>4. (Covers(ViewOf(v6[c]), Away(v5))' <=> Covers(ViewOf(r), Away(v5)))
      /\ (From(ViewOf(v6[c]), Owners(v6[c]), Devices(v6[c]))'
           <=> From(ViewOf(r), Owners(r), Devices(r)))
  BY <1>1 DEF Covers, From, Away
<1> QED
  BY <1>1, <1>2, <1>3, <1>4 DEF Proceeds, Items

(* So nothing changes for a call that is the same.                           *)
LEMMA CallsRemain ==
    ASSUME Still, NEW c \in Calls, NEW r, v6'[c] = r
    PROVE  /\ CallTyped(v6[c])' <=> CallTyped(r)
           /\ Keeps(v6[c])' <=> Keeps(r)
           /\ Proceeds(r) => Proceeds(v6[c])'
<1> USE DEF Still
<1>1. (CallTyped(v6[c])' <=> CallTyped(r)) /\ (Keeps(v6[c])' <=> Keeps(r))
  BY DEF CallTyped, Keeps, RowsTyped
<1>2. ViewOf(v6[c])' = ViewOf(r) /\ OwnOf(v6[c])' = OwnOf(r)
  BY DEF ViewOf, OwnOf
<1>3. Promoted(OwnOf(v6[c]), v3, ViewOf(v6[c]))' <=> Promoted(OwnOf(r), v3, ViewOf(r))
  BY <1>2 DEF Promoted, V!Recent
<1>4. Proceeds(r) => Proceeds(v6[c])'
  <2>1. ASSUME Proceeds(r) PROVE Proceeds(v6[c])'
    <3>1. r.pc = "commit" => Promoted(OwnOf(v6[c]), v3, ViewOf(v6[c]))'
      BY <1>3, <2>1 DEF Proceeds
    <3> QED
      BY <2>1, <3>1, ProceedsRemains
  <2> QED
    BY <2>1
<1> QED
  BY <1>1, <1>4

-----------------------------------------------------------------------------
(* The steps of a call.                                                      *)

(* A call that goes on keeps the invariant when it keeps its own part.       *)
LEMMA GoesOn ==
    ASSUME VisitsInv, NEW c \in Calls, NEW next, Still, v8 \subseteq v8',
           v8' \subseteq {"overlap", "entangled"}, v6' = [v6 EXCEPT ![c] = next],
           CallTyped(next), Keeps(next),
           next.preference = "none" \/ next.preference = v6[c].preference
             \/ \A d \in Calls \ {c} : v6[d].preference = "none",
           V!Undisturbed' /\ VisitsRight =>
             \/ next.pc = "idle"
             \/ /\ Proceeds(next)
                /\ v6[c].pc # "idle" \/ \A d \in Calls : v6[d].pc = "idle"
    PROVE  VisitsInv'
<1>1. /\ v6 \in [Calls -> Records] /\ v6'[c] = next /\ \A d \in Calls : d # c => v6'[d] = v6[d]
      /\ next \in Records
  BY DEF VisitsInv, VisitsTyped, CallTyped
<1>2. VisitsTyped'
  <2>1. \A d \in Calls : CallTyped(v6[d])'
    <3>1. ASSUME NEW d \in Calls PROVE CallTyped(v6[d])'
      <4> PICK r : r = v6'[d]
        OBVIOUS
      <4>1. CallTyped(r)
        BY <1>1 DEF VisitsInv, VisitsTyped
      <4> QED
        BY <4>1, CallsRemain
    <3> QED
      BY <3>1
  <2>2. v6' \in [Calls -> Records]
    BY <1>1
  <2> QED
    BY <2>1, <2>2 DEF VisitsInv, VisitsTyped, Still, RowsTyped
<1>3. Obedient'
  <2>1. \A d \in Calls : Keeps(v6[d])'
    <3>1. ASSUME NEW d \in Calls PROVE Keeps(v6[d])'
      <4> PICK r : r = v6'[d]
        OBVIOUS
      <4>1. Keeps(r)
        BY <1>1 DEF VisitsInv, Obedient
      <4> QED
        BY <4>1, CallsRemain
    <3> QED
      BY <3>1
  <2>2. \A a, b \in Calls : v6'[a].preference # "none" /\ v6'[b].preference # "none" => a = b
    BY <1>1 DEF VisitsInv, Obedient
  <2>3. Obeys(v2, v3)'
    BY DEF VisitsInv, Obedient, Still, Obeys
  <2> QED
    BY <2>1, <2>2, <2>3 DEF Obedient
<1>4. ASSUME V!Undisturbed' PROVE VisitsRight'
  <2>1. VisitsRight
    BY <1>4 DEF V!Undisturbed, VisitsInv
  <2>2. \A a, b \in Calls : v6'[a].pc # "idle" /\ v6'[b].pc # "idle" => a = b
    BY <1>1, <1>4, <2>1 DEF VisitsRight
  <2>3. \A d \in Calls : v6'[d].pc # "idle" => Proceeds(v6[d])'
    <3>1. ASSUME NEW d \in Calls, v6'[d].pc # "idle" PROVE Proceeds(v6[d])'
      <4> PICK r : r = v6'[d]
        OBVIOUS
      <4>1. Proceeds(r)
        BY <1>1, <1>4, <2>1, <3>1 DEF VisitsRight
      <4> QED
        BY <4>1, CallsRemain
    <3> QED
      BY <3>1
  <2>4. Covers(v1, Away(V!Stated))' /\ From(v1, v5, Items(v4))' /\ Promoted(v2, v3, v1)'
    BY <2>1 DEF VisitsRight, Still, V!Stated, Covers, From, Away, Items, Promoted, V!Recent
  <2> QED
    BY <2>2, <2>3, <2>4 DEF VisitsRight
<1> QED
  BY <1>2, <1>3, <1>4 DEF VisitsInv

(* The record of a call that goes on without a change of the tables.         *)
LEMMA ToGoesOn ==
    ASSUME VisitsInv, NEW c \in Calls, NEW next, V!To(c, next),
           CallTyped(next), Keeps(next),
           next.preference = v6[c].preference \/ \A d \in Calls \ {c} : v6[d].preference = "none",
           V!Undisturbed /\ VisitsRight =>
             next.pc = "idle" \/ (v6[c].pc # "idle" /\ Proceeds(next))
    PROVE  VisitsInv'
<1>1. Still /\ v6' = [v6 EXCEPT ![c] = next] /\ v8' = v8 /\ v8 \subseteq {"overlap", "entangled"}
  BY DEF V!To, Still, VisitsInv, VisitsTyped
<1>2. V!Undisturbed' <=> V!Undisturbed
  BY <1>1 DEF V!Undisturbed
<1> QED
  BY <1>1, <1>2, GoesOn

(* What is known of a call: its types, and what it has done when it is alone.*)
LEMMA CallIs ==
    ASSUME VisitsInv, NEW c \in Calls
    PROVE  /\ v6[c] \in Records /\ CallTyped(v6[c]) /\ Keeps(v6[c]) /\ RowsTyped(v1)
           /\ RowsTyped(ViewOf(v6[c]))
           /\ V!Undisturbed /\ v6[c].pc # "idle" => VisitsRight /\ Proceeds(v6[c])
BY ViewTyped DEF VisitsInv, VisitsTyped, Obedient, VisitsRight

(* The range of a stay is read.                                              *)
LEMMA ReadKeeps ==
    ASSUME VisitsInv, NEW c \in Calls, V!Read(c)
    PROVE  VisitsInv'
<1> PICK r : r = v6[c]
  OBVIOUS
<1>1. r \in Records /\ CallTyped(r) /\ Keeps(r) /\ RowsTyped(ViewOf(r)) /\ r.pc = "read"
      /\ (V!Undisturbed => VisitsRight /\ Proceeds(r))
  BY CallIs DEF V!Read
<1> PICK stay : stay = Head(r.todo)
  OBVIOUS
<1>2. stay \in V!Stays
  BY <1>1 DEF CallTyped, Records, Storing
<1> DEFINE next == IF stay.overnight
                   THEN [r EXCEPT !.pc = "delete", !.range = V!Merged(ViewOf(r), stay)]
                   ELSE [r EXCEPT !.pc = "insert", !.range = V!DaysOf(stay)]
<1>3. V!To(c, next)
  BY CallSees DEF V!Read
<1>4. Fits(stay, next.range)
  <2>1. CASE stay.overnight
    BY <1>1, <1>2, <2>1, MergedIsHull DEF Records
  <2>2. CASE ~stay.overnight
    <3>1. V!DaysOf(stay) \in V!Ranges
      BY <1>2, StaysAre DEF V!DaysOf, V!Ranges
    <3> QED
      BY <1>1, <2>2, <3>1 DEF Records, Fits
  <2> QED
    BY <2>1, <2>2
<1>5. /\ next \in Records
      /\ next = [r EXCEPT !.pc = next.pc, !.range = next.range]
      /\ next.pc = IF stay.overnight THEN "delete" ELSE "insert"
      /\ stay.overnight => next.range = V!Merged(ViewOf(r), stay)
  <2>1. next.range \in V!Ranges
    BY <1>4 DEF Fits
  <2> QED
    BY <1>1, <2>1 DEF Records, Storing
<1> HIDE DEF next
<1>6. /\ next.todo = r.todo /\ next.gone = r.gone /\ next.added = r.added /\ next.event = r.event
      /\ next.source = r.source /\ next.stay = r.stay /\ next.day = r.day
      /\ next.preference = r.preference
  BY <1>1, <1>5 DEF Records
<1>7. CallTyped(next)
  BY <1>1, <1>4, <1>5, <1>6 DEF CallTyped, Clearing, Storing
<1>8. Keeps(next)
  BY <1>1, <1>5, <1>6 DEF Keeps
<1>9. ASSUME V!Undisturbed PROVE Proceeds(next)
  <2>1. Proceeds(r) /\ ViewOf(next) = ViewOf(r) /\ Owners(next) = Owners(r) /\ Devices(next) = Devices(r)
    BY <1>1, <1>6, <1>9 DEF ViewOf, Owners, Devices
  <2>2. PICK stays \in SUBSET V!Stays :
          stays \cup Items(r.todo) = Owners(r) \cup Devices(r) /\ Holds(r, stays)
    BY <1>1, <2>1 DEF Proceeds, Storing
  <2>3. Holds(next, stays)
    <3>1. Covers(ViewOf(r), Away(stays))
      BY <1>1, <2>2 DEF Holds
    <3>2. CASE stay.overnight
      BY <1>5, <1>6, <2>1, <3>1, <3>2 DEF Holds
    <3>3. CASE ~stay.overnight
      <4>1. ViewOf(next) = Rest(ViewOf(r), Head(next.todo))
        BY <1>6, <2>1, <3>3 DEF Rest
      <4> QED
        BY <1>1, <1>5, <1>6, <3>1, <3>3, <4>1 DEF Holds
    <3> QED
      BY <3>2, <3>3
  <2> QED
    BY <1>1, <1>5, <1>6, <2>1, <2>2, <2>3 DEF Proceeds, Storing
<1> QED
  BY <1>1, <1>3, <1>6, <1>7, <1>8, <1>9, ToGoesOn

(* A DELETE finds the visits that it condemns.                               *)
LEMMA FindKeeps ==
    ASSUME VisitsInv, NEW c \in Calls, V!Find(c)
    PROVE  VisitsInv'
<1> PICK r : r = v6[c]
  OBVIOUS
<1>1. r \in Records /\ CallTyped(r) /\ Keeps(r) /\ RowsTyped(ViewOf(r))
      /\ r.pc \in {"clear", "delete"}
      /\ (V!Undisturbed => VisitsRight /\ Proceeds(r))
  BY CallIs DEF V!Find
<1> PICK found : found = Doomed(r, ViewOf(r))
  OBVIOUS
<1> DEFINE next == Found(r, IF r.pc = "clear" THEN "clearing" ELSE "deleting", found)
<1>2. V!To(c, next)
  <2>1. {w \in V!View(c) : V!Condemned(c, w)}
          = {w \in ViewOf(r) : IF r.pc \in {"clear", "clearing"} THEN w.source = "device_coarse"
                               ELSE V!Touches(w, Head(r.todo))}
    BY CallSees
  <2>2. {V!DaysOf(v) : v \in {w \in V!View(c) : V!Condemned(c, w)}} = found
    BY <2>1 DEF Doomed
  <2> QED
    BY <2>2 DEF V!Find, Found
<1>3. found \in SUBSET V!Ranges
  BY <1>1, DaysName DEF Doomed, RowsTyped
<1>4. /\ next \in Records /\ next.wanted = found
      /\ next.pc = IF r.pc = "clear" THEN "clearing" ELSE "deleting"
  <2>1. /\ next.wanted = found
        /\ next.pc = IF r.pc = "clear" THEN "clearing" ELSE "deleting"
    BY <1>1 DEF Records, Found
  <2>2. (IF r.pc = "clear" THEN "clearing" ELSE "deleting")
          \in {"idle", "commit"} \cup Clearing \cup Storing
    BY DEF Clearing, Storing
  <2>3. next \in Records
    BY <1>1, <1>3, <2>2, RecordChanged
  <2> QED
    BY <2>1, <2>3
<1>5. /\ next.todo = r.todo /\ next.gone = r.gone /\ next.added = r.added /\ next.event = r.event
      /\ next.source = r.source /\ next.stay = r.stay /\ next.day = r.day
      /\ next.preference = r.preference /\ next.range = r.range
  BY <1>1 DEF Records, Found
<1> HIDE DEF next
<1>6. CallTyped(next)
  BY <1>1, <1>4, <1>5 DEF CallTyped, Clearing, Storing
<1>7. Keeps(next)
  BY <1>1, <1>4, <1>5 DEF Keeps
<1>8. ASSUME V!Undisturbed PROVE Proceeds(next)
  <2>1. Proceeds(r) /\ ViewOf(next) = ViewOf(r) /\ Owners(next) = Owners(r) /\ Devices(next) = Devices(r)
    BY <1>1, <1>5, <1>8 DEF ViewOf, Owners, Devices
  <2>2. found = Doomed(next, ViewOf(next))
    BY <1>1, <1>4, <1>5, <2>1 DEF Doomed
  <2>3. CASE r.pc = "clear"
    BY <1>4, <1>5, <2>1, <2>2, <2>3 DEF Proceeds, Storing
  <2>4. CASE r.pc = "delete"
    <3>1. PICK stays \in SUBSET V!Stays :
            stays \cup Items(r.todo) = Owners(r) \cup Devices(r) /\ Holds(r, stays)
      BY <2>1, <2>4 DEF Proceeds, Storing
    <3>2. Holds(next, stays)
      BY <1>4, <1>5, <2>1, <2>2, <2>4, <3>1 DEF Holds
    <3> QED
      BY <1>4, <1>5, <2>1, <2>4, <3>1, <3>2 DEF Proceeds, Storing
  <2> QED
    BY <1>1, <2>3, <2>4
<1> QED
  BY <1>1, <1>2, <1>5, <1>6, <1>7, <1>8, ToGoesOn

(* It deletes them: what a stay touches, or what devices have recorded.      *)
LEMMA DeleteKeeps ==
    ASSUME VisitsInv, NEW c \in Calls, V!Delete(c)
    PROVE  VisitsInv'
<1> PICK r : r = v6[c]
  OBVIOUS
<1>1. r \in Records /\ CallTyped(r) /\ Keeps(r) /\ RowsTyped(v1) /\ RowsTyped(ViewOf(r))
      /\ r.pc \in {"clearing", "deleting"}
      /\ (V!Undisturbed => VisitsRight /\ Proceeds(r))
  BY CallIs DEF V!Delete
<1> DEFINE condemned(v) == IF r.pc \in {"clear", "clearing"} THEN v.source = "device_coarse"
                           ELSE V!Touches(v, Head(r.todo))
<1> PICK deleted : deleted = {v \in ViewOf(r) : V!DaysOf(v) \in r.wanted /\ condemned(v)}
  OBVIOUS
<1> DEFINE next == Deleted(r, IF r.pc = "clearing" THEN "select" ELSE "insert",
                           r.gone \cup {V!DaysOf(v) : v \in deleted}, r.added \ deleted)
<1>2. V!To(c, next)
  <2>1. {v \in V!View(c) : V!DaysOf(v) \in r.wanted /\ V!Condemned(c, v)} = deleted
    BY CallSees
  <2> QED
    BY <2>1 DEF V!Delete, Deleted
<1>3. {V!DaysOf(v) : v \in deleted} \in SUBSET V!Ranges
  BY <1>1, DaysName DEF RowsTyped
<1>4. /\ next \in Records /\ next.wanted = {}
      /\ next.pc = IF r.pc = "clearing" THEN "select" ELSE "insert"
      /\ next.gone = r.gone \cup {V!DaysOf(v) : v \in deleted}
      /\ next.added = r.added \ deleted
  <2>1. r.gone \cup {V!DaysOf(v) : v \in deleted} \in SUBSET V!Ranges
    BY <1>1, <1>3 DEF Records
  <2>2. r.added \ deleted \in SUBSET TableRow
    BY <1>1 DEF Records
  <2>3. /\ next.wanted = {}
        /\ next.pc = IF r.pc = "clearing" THEN "select" ELSE "insert"
        /\ next.gone = r.gone \cup {V!DaysOf(v) : v \in deleted}
        /\ next.added = r.added \ deleted
    BY <1>1 DEF Records, Deleted
  <2>4. (IF r.pc = "clearing" THEN "select" ELSE "insert")
          \in {"idle", "commit"} \cup Clearing \cup Storing
    BY DEF Clearing, Storing
  <2>5. next \in Records
    <3>1. r \in Records /\ {} \in SUBSET V!Ranges
      BY <1>1
    <3> QED
      BY <2>1, <2>2, <2>4, <3>1, RecordChanged
  <2> QED
    BY <2>3, <2>5
<1>5. /\ next.todo = r.todo /\ next.event = r.event
      /\ next.source = r.source /\ next.stay = r.stay /\ next.day = r.day
      /\ next.preference = r.preference /\ next.range = r.range
  BY <1>1 DEF Records, Deleted
<1> HIDE DEF next
<1>6. CallTyped(next)
  <2>1. RowsTyped(next.added) /\ \A v \in next.added : V!DaysOf(v) \in next.gone
    BY <1>1, <1>4 DEF CallTyped, RowsTyped
  <2> QED
    BY <1>1, <1>4, <1>5, <2>1 DEF CallTyped, Clearing, Storing
<1>7. Keeps(next)
  BY <1>1, <1>4, <1>5 DEF Keeps
<1>8. ASSUME V!Undisturbed PROVE Proceeds(next)
  <2>1. Proceeds(r) /\ Owners(next) = Owners(r) /\ Devices(next) = Devices(r) /\ VisitsRight
    BY <1>1, <1>5, <1>8 DEF Owners, Devices
  <2>2. ViewOf(next) = ViewOf(r) \ deleted
    BY <1>1, <1>4, ViewDeleted
  <2>3. r.wanted = Doomed(r, ViewOf(r))
    BY <1>1, <2>1 DEF Proceeds, Storing, Holds
  <2>4. deleted = {v \in ViewOf(r) : condemned(v)}
    BY <2>3 DEF Doomed
  <2>5. CASE r.pc = "clearing"
    <3>1. ViewOf(r) = v1 /\ r.event # 0 /\ r.source = "device_coarse" /\ ~V!Entangled
      BY <1>1, <2>1, <2>5 DEF Proceeds, CallTyped, Clearing, ViewOf
    <3>2. ViewOf(next) = {v \in v1 : v.source # "device_coarse"}
      BY <2>2, <2>4, <2>5, <3>1
    <3>3. Covers(ViewOf(next), Away(v5))
      <4>1. \A v \in v1, s \in v5, e \in Items(v4) :
              ~(v.overnight /\ V!Made(s, v) /\ V!Made(e, v))
        BY <3>1 DEF V!Entangled, Items
      <4>2. v5 \in SUBSET V!Stays /\ Items(v4) \in SUBSET V!Stays
        BY DEF VisitsInv, VisitsTyped, Items
      <4>3. Covers(v1, Away(v5 \cup Items(v4))) /\ From(v1, v5, Items(v4))
        BY <2>1, CallSees DEF VisitsRight
      <4> QED
        BY <1>1, <3>2, <4>1, <4>2, <4>3, OwnersRemain
    <3>4. From(ViewOf(next), Owners(next), Devices(next))
      <4>1. Owners(next) = v5 /\ \A v \in ViewOf(next) : v \in v1 /\ v.source = "manual"
        BY <1>1, <1>5, <3>1, <3>2 DEF Owners, RowsTyped, TableRow, V!Sources
      <4> QED
        BY <2>1, <4>1 DEF VisitsRight, From
    <3> QED
      BY <1>4, <1>5, <2>1, <2>5, <3>3, <3>4 DEF Proceeds, Storing
  <2>6. CASE r.pc = "deleting"
    <3>1. PICK stays \in SUBSET V!Stays :
            stays \cup Items(r.todo) = Owners(r) \cup Devices(r) /\ Holds(r, stays)
      BY <2>1, <2>6 DEF Proceeds, Storing
    <3>2. ViewOf(next) = Rest(ViewOf(r), Head(next.todo))
      <4>1. Head(r.todo).overnight
        BY <1>1, <2>6 DEF CallTyped
      <4> QED
        BY <1>5, <2>2, <2>4, <2>6, <4>1 DEF Rest
    <3>3. Holds(next, stays)
      BY <1>1, <1>4, <1>5, <2>6, <3>1, <3>2 DEF Holds
    <3>4. From(ViewOf(next), Owners(next), Devices(next))
      BY <2>1, <2>2, <2>6 DEF Proceeds, From
    <3> QED
      BY <1>4, <1>5, <2>1, <2>6, <3>1, <3>3, <3>4 DEF Proceeds, Storing
  <2> QED
    BY <1>1, <2>5, <2>6
<1> QED
  BY <1>1, <1>2, <1>5, <1>6, <1>7, <1>8, ToGoesOn

(* The statement puts a visit in the place of those.                         *)
LEMMA InsertKeeps ==
    ASSUME VisitsInv, NEW c \in Calls, V!Insert(c)
    PROVE  VisitsInv'
<1> PICK r : r = v6[c]
  OBVIOUS
<1>1. r \in Records /\ CallTyped(r) /\ Keeps(r) /\ RowsTyped(v1) /\ RowsTyped(ViewOf(r))
      /\ r.pc = "insert"
      /\ (V!Undisturbed => VisitsRight /\ Proceeds(r))
  BY CallIs DEF V!Insert
<1> PICK stay, rows : stay = Head(r.todo) /\ rows = ViewOf(r)
  OBVIOUS
<1> PICK new : new = New(rows, stay, r.range, r.source)
  OBVIOUS
<1> DEFINE same == {v \in rows : V!DaysOf(v) = r.range}
           next == Inserting(r, r.gone \cup {r.range}, (r.added \ same) \cup {new})
<1>2. stay \in V!Stays /\ Fits(stay, r.range) /\ r.range \in V!Ranges /\ r.source \in V!Sources
  BY <1>1 DEF CallTyped, Records, Storing
<1>3. V!To(c, next)
  <2>1. V!Same(c) = same
    BY CallSees DEF V!Same
  <2>2. (stay.overnight \/ \E v \in same : v.overnight)
          <=> (stay.overnight \/ \E v \in rows : V!DaysOf(v) = r.range /\ v.overnight)
    OBVIOUS
  <2>3. V!NewVisit(c) = new
    BY <2>1, <2>2 DEF V!NewVisit, New
  <2> QED
    BY <2>1, <2>3 DEF V!Insert, Inserting
<1>4. RowsTyped(Inserted(rows, stay, r.range, r.source)) /\ RowsTyped({new})
      /\ V!DaysOf(new) = r.range
  <2>1. RowsTyped(rows)
    BY <1>1
  <2> HIDE DEF next
  <2>2. /\ RowsTyped(Inserted(rows, stay, r.range, r.source))
        /\ RowsTyped({New(rows, stay, r.range, r.source)})
        /\ V!DaysOf(New(rows, stay, r.range, r.source)) = r.range
    BY <1>2, <2>1, InsertedTyped
  <2> QED
    BY <2>2
<1>5. /\ next \in Records /\ next.pc = "count"
      /\ next.gone = r.gone \cup {r.range}
      /\ next.added = (r.added \ same) \cup {new}
  <2>1. r.gone \cup {r.range} \in SUBSET V!Ranges
    BY <1>1, <1>2 DEF Records
  <2>2. /\ next.pc = "count" /\ next.gone = r.gone \cup {r.range}
        /\ next.added = (r.added \ same) \cup {new}
    BY <1>1 DEF Records, Inserting
  <2>3. (r.added \ same) \cup {new} \in SUBSET TableRow
    BY <1>1, <1>4 DEF Records, RowsTyped
  <2>4. "count" \in {"idle", "commit"} \cup Clearing \cup Storing /\ {} \in SUBSET V!Ranges
    BY DEF Storing
  <2>5. next \in Records
    <3>1. r \in Records
      BY <1>1
    <3> QED
      BY <2>1, <2>3, <2>4, <3>1, RecordChanged
  <2> QED
    BY <2>2, <2>5
<1>6. /\ next.todo = r.todo /\ next.event = r.event /\ next.wanted = r.wanted
      /\ next.source = r.source /\ next.stay = r.stay /\ next.day = r.day
      /\ next.preference = r.preference /\ next.range = r.range
  BY <1>1 DEF Records, Inserting
<1> HIDE DEF next
<1>7. ViewOf(next) = Inserted(rows, stay, r.range, r.source)
  <2>1. next.added = (r.added \ {v \in ViewOf(r) : V!DaysOf(v) = r.range})
                     \cup {New(ViewOf(r), Head(r.todo), r.range, r.source)}
    BY <1>5
  <2>2. ViewOf(next) = Inserted(ViewOf(r), Head(r.todo), r.range, r.source)
    BY <1>1, <1>5, <2>1, ViewInserted
  <2> QED
    BY <2>2
<1>8. CallTyped(next)
  <2>1. \A v \in next.added : v \in ViewOf(next)
    BY DEF ViewOf
  <2>2. RowsTyped(next.added)
    BY <1>4, <1>7, <2>1 DEF RowsTyped
  <2>3. \A v \in next.added : V!DaysOf(v) \in next.gone
    BY <1>1, <1>4, <1>5 DEF CallTyped
  <2> QED
    BY <1>1, <1>5, <1>6, <2>2, <2>3 DEF CallTyped, Clearing, Storing
<1>9. Keeps(next)
  BY <1>1, <1>5, <1>6 DEF Keeps
<1>10. ASSUME V!Undisturbed PROVE Proceeds(next)
  <2>1. Proceeds(r) /\ Owners(next) = Owners(r) /\ Devices(next) = Devices(r)
    BY <1>1, <1>6, <1>10 DEF Owners, Devices
  <2>2. PICK stays \in SUBSET V!Stays :
          stays \cup Items(r.todo) = Owners(r) \cup Devices(r) /\ Holds(r, stays)
    BY <1>1, <2>1 DEF Proceeds, Storing
  <2>3. PICK before :
          /\ RowsTyped(before) /\ Covers(before, Away(stays)) /\ rows = Rest(before, stay)
          /\ stay.overnight => r.range = V!Merged(before, stay)
    BY <1>1, <2>2 DEF Holds
  <2>4. Covers(ViewOf(next), Away(stays \cup {stay}))
    <3>1. Away(stays) \in SUBSET V!Days
      BY DEF Away
    <3>2. Away(stays \cup {stay}) = Away(stays) \cup Away({stay})
      BY DEF Away
    <3>3. Covers(Inserted(Rest(before, stay), stay, r.range, r.source),
                 Away(stays) \cup Away({stay}))
      BY <1>2, <2>3, <3>1, InsertedCovers
    <3> QED
      BY <1>7, <2>3, <3>2, <3>3
  <2>5. stay \in Items(r.todo)
    BY <1>1 DEF CallTyped, Records, Items, Storing
  <2>6. (stays \cup {stay}) \cup Items(r.todo) = Owners(r) \cup Devices(r)
        /\ stays \cup {stay} \in SUBSET V!Stays
    BY <1>2, <2>2, <2>5
  <2>7. Holds(next, stays \cup {stay})
    BY <1>5, <1>6, <2>4 DEF Holds
  <2>8. From(ViewOf(next), Owners(r), Devices(r))
    <3>1. stay \in IF r.source = "manual" THEN Owners(r) ELSE Devices(r)
      BY <1>1, <2>1, <2>5 DEF Proceeds, Storing
    <3>2. From(rows, Owners(r), Devices(r))
      BY <1>1, <2>1 DEF Proceeds
    <3> QED
      BY <1>2, <1>7, <3>1, <3>2, InsertedFrom
  <2> QED
    BY <1>1, <1>5, <1>6, <2>1, <2>6, <2>7, <2>8 DEF Proceeds, Storing
<1> QED
  BY <1>1, <1>3, <1>6, <1>8, <1>9, <1>10, ToGoesOn

(* The visits of a table are finitely many, and so are the recent ones: the  *)
(* later the day, the fewer.                                                 *)
LEMMA FewerRecent ==
    ASSUME NEW rows, RowsTyped(rows), NEW day \in Nat, NEW later \in Nat, day <= later
    PROVE  /\ V!Cardinality(V!Recent(rows, later)) <= V!Cardinality(V!Recent(rows, day))
           /\ V!Cardinality(V!Recent(rows, later)) \in Nat
           /\ V!Cardinality(V!Recent(rows, day)) \in Nat
<1> DEFINE Code == [v \in rows |-> V!DaysOf(v)]
<1>1. Code \in Injection(rows, V!Ranges)
  BY DaysName DEF Injection, IsInjective, RowsTyped
<1>2. IsFiniteSet(rows)
  BY <1>1, RangesAreFinite, FS_Injection
<1>3. V!Recent(rows, day) \in SUBSET rows
  BY DEF V!Recent
<1>4. V!Recent(rows, later) \in SUBSET V!Recent(rows, day)
  <2>1. \A v \in rows : v.last \in Int
    BY DaysAre DEF RowsTyped, TableRow
  <2> QED
    BY <2>1, DaysAre DEF V!Recent
<1>5. IsFiniteSet(V!Recent(rows, day)) /\ IsFiniteSet(V!Recent(rows, later))
  BY <1>2, <1>3, <1>4, FS_Subset
<1>6. Cardinality(V!Recent(rows, later)) <= Cardinality(V!Recent(rows, day))
  BY <1>4, <1>5, FS_Subset
<1> QED
  BY <1>5, <1>6, VisitCardinality, FS_CardinalityType

(* One of the stays has been stored: the next is read, or all is done.       *)
Further(r, preference) ==
    [r EXCEPT !.pc = IF Len(r.todo) = 1 THEN "commit" ELSE "read",
              !.todo = Tail(@), !.preference = preference]

(* Then the call has done what it should, if it has promoted the country as  *)
(* far as it should.                                                         *)
LEMMA StoredProceeds ==
    ASSUME VisitsInv, NEW r, CallTyped(r), r.pc \in {"count", "test", "promote"},
           NEW preference \in {"none", "automatic", "pinned"}, NEW next,
           next = Further(r, preference)
    PROVE  /\ CallTyped(next) /\ next.preference = preference /\ next.pc \in {"read", "commit"}
           /\ Proceeds(r) /\ Promoted(OwnOf(next), v3, ViewOf(r)) => Proceeds(next)
<1> PICK todo : todo = r.todo
  OBVIOUS
<1>1. todo \in Seq(V!Stays) /\ todo # <<>> /\ r \in Records
  BY DEF CallTyped, Records, Storing
<1>2. /\ Tail(todo) \in Seq(V!Stays) /\ Head(todo) \in V!Stays
      /\ Len(todo) = 1 <=> Tail(todo) = <<>>
      /\ Items(todo) = {Head(todo)} \cup Items(Tail(todo))
  <2>1. /\ Tail(todo) \in Seq(V!Stays) /\ Head(todo) = todo[1] /\ Head(todo) \in V!Stays
        /\ Len(todo) \in Nat /\ Len(todo) > 0 /\ Len(Tail(todo)) = Len(todo) - 1
        /\ DOMAIN todo = 1..Len(todo) /\ DOMAIN Tail(todo) = 1..(Len(todo) - 1)
        /\ \A i \in 1..(Len(todo) - 1) : Tail(todo)[i] = todo[i + 1]
    BY <1>1
  <2>2. Len(todo) = 1 <=> Tail(todo) = <<>>
    <3>1. ASSUME Len(todo) = 1 PROVE Tail(todo) = <<>>
      <4> PICK t : t = Tail(todo)
        OBVIOUS
      <4>1. t \in Seq(V!Stays) /\ Len(t) = 0
        BY <2>1, <3>1
      <4>2. t = <<>>
        BY <4>1
      <4> QED
        BY <4>2
    <3>2. ASSUME Tail(todo) = <<>> PROVE Len(todo) = 1
      <4>1. Len(Tail(todo)) = 0
        BY <3>2
      <4> QED
        BY <2>1, <4>1
    <3> QED
      BY <3>1, <3>2
  <2>3. \A x : x \in Items(todo) => x = Head(todo) \/ x \in Items(Tail(todo))
    <3>1. ASSUME NEW i \in 1..Len(todo), i # 1 PROVE todo[i] \in Items(Tail(todo))
      <4>1. i - 1 \in 1..(Len(todo) - 1) /\ i - 1 + 1 = i
        BY <2>1, <3>1
      <4> QED
        BY <2>1, <4>1 DEF Items
    <3> QED
      BY <2>1, <3>1 DEF Items
  <2>4. \A x : x = Head(todo) \/ x \in Items(Tail(todo)) => x \in Items(todo)
    <3>1. \A i \in 1..(Len(todo) - 1) : i + 1 \in 1..Len(todo)
      BY <2>1
    <3> QED
      BY <2>1, <3>1 DEF Items
  <2> QED
    BY <2>1, <2>2, <2>3, <2>4
<1>3. /\ next \in Records /\ next.pc = (IF Len(todo) = 1 THEN "commit" ELSE "read")
      /\ next.todo = Tail(todo) /\ next.preference = preference
      /\ next.event = r.event /\ next.wanted = r.wanted /\ next.gone = r.gone
      /\ next.source = r.source /\ next.stay = r.stay /\ next.day = r.day
      /\ next.range = r.range /\ next.added = r.added
  BY <1>1, <1>2 DEF Records, Clearing, Storing, Further
<1>4. CallTyped(next)
  BY <1>2, <1>3 DEF CallTyped, Clearing, Storing
<1>5. ASSUME Proceeds(r), Promoted(OwnOf(next), v3, ViewOf(r)) PROVE Proceeds(next)
  <2>1. ViewOf(next) = ViewOf(r) /\ Owners(next) = Owners(r) /\ Devices(next) = Devices(r)
    BY <1>3 DEF ViewOf, Owners, Devices
  <2>2. PICK stays \in SUBSET V!Stays :
          stays \cup Items(todo) = Owners(r) \cup Devices(r) /\ Holds(r, stays)
    BY <1>5 DEF Proceeds, Storing
  <2>3. Covers(ViewOf(r), Away(stays)) /\ Head(todo) \in stays
    BY <2>2 DEF Holds
  <2>4. stays \cup Items(Tail(todo)) = Owners(r) \cup Devices(r)
    BY <1>2, <2>2, <2>3
  <2>5. Holds(next, stays)
    BY <1>3, <2>1, <2>3 DEF Holds
  <2>6. Items(next.todo) \subseteq IF r.source = "manual" THEN Owners(r) ELSE Devices(r)
    BY <1>2, <1>3, <1>5 DEF Proceeds, Storing
  <2>7. next.pc = "commit" => next.todo = <<>>
    BY <1>2, <1>3
  <2> QED
    BY <1>3, <1>5, <2>1, <2>2, <2>4, <2>5, <2>6, <2>7 DEF Proceeds, Storing
<1> QED
  BY <1>3, <1>4, <1>5

(* The recent visits are counted: when they are too few, on this day or on a *)
(* later one, nothing is promoted.                                           *)
LEMMA CountKeeps ==
    ASSUME VisitsInv, NEW c \in Calls, V!Count(c)
    PROVE  VisitsInv'
<1> PICK r : r = v6[c]
  OBVIOUS
<1>1. r \in Records /\ CallTyped(r) /\ Keeps(r) /\ RowsTyped(ViewOf(r)) /\ r.pc = "count"
      /\ (V!Undisturbed => VisitsRight /\ Proceeds(r))
  BY CallIs DEF V!Count
<1> PICK n : n = V!Cardinality(V!Recent(ViewOf(r), r.day))
  OBVIOUS
<1>2. /\ n >= 2 => V!To(c, [r EXCEPT !.pc = "test"])
      /\ ~(n >= 2) => V!To(c, [r EXCEPT !.pc = IF Len(r.todo) = 1 THEN "commit" ELSE "read",
                                        !.todo = Tail(@)])
  BY CallSees DEF V!Count, V!Stored
<1>3. CASE n >= 2
  <2> PICK next : next = [r EXCEPT !.pc = "test"]
    OBVIOUS
  <2>1. /\ next \in Records /\ next.pc = "test"
        /\ next.event = r.event /\ next.wanted = r.wanted /\ next.gone = r.gone
        /\ next.source = r.source /\ next.stay = r.stay /\ next.day = r.day
        /\ next.range = r.range /\ next.added = r.added
        /\ next.preference = r.preference /\ next.todo = r.todo
    BY <1>1 DEF Records, Storing
  <2>2. CallTyped(next) /\ Keeps(next)
    BY <1>1, <2>1 DEF CallTyped, Clearing, Storing, Keeps
  <2>3. ViewOf(next) = ViewOf(r) /\ Owners(next) = Owners(r) /\ Devices(next) = Devices(r)
    BY <2>1 DEF ViewOf, Owners, Devices
  <2>4. \A stays : Holds(r, stays) => Holds(next, stays)
    BY <1>1, <2>1, <2>3 DEF Holds
  <2>5. Proceeds(r) => Proceeds(next)
    BY <1>1, <2>1, <2>3, <2>4 DEF Proceeds, Storing
  <2> QED
    BY <1>1, <1>2, <1>3, <2>1, <2>2, <2>5, ToGoesOn
<1>4. CASE ~(n >= 2)
  <2> PICK next : next = Further(r, r.preference)
    OBVIOUS
  <2>1. next = [r EXCEPT !.pc = IF Len(r.todo) = 1 THEN "commit" ELSE "read", !.todo = Tail(@)]
    BY <1>1 DEF Records, Further
  <2>2. ~(Cardinality(V!Recent(ViewOf(r), v7)) >= 2)
    <3>1. r.day \in Nat /\ v7 \in Nat /\ r.day <= v7
      BY <1>1, DaysAre DEF CallTyped, Records, VisitsInv, VisitsTyped
    <3> QED
      BY <1>1, <1>4, <3>1, FewerRecent, VisitCardinality
  <2>3. Promoted(OwnOf(next), v3, ViewOf(r))
    BY <2>2 DEF Promoted
  <2>4. /\ CallTyped(next) /\ next.preference = r.preference /\ next.pc # "promote"
        /\ Proceeds(r) => Proceeds(next)
    <3>1. r.preference \in {"none", "automatic", "pinned"}
      BY <1>1 DEF Records
    <3> QED
      BY <1>1, <2>3, <3>1, StoredProceeds
  <2>5. Keeps(next)
    BY <1>1, <2>4 DEF Keeps
  <2> QED
    BY <1>1, <1>2, <1>4, <2>1, <2>4, <2>5, ToGoesOn
<1> QED
  BY <1>3, <1>4

(* It is tested whether the owner has removed the country.                   *)
LEMMA TestKeeps ==
    ASSUME VisitsInv, NEW c \in Calls, V!Test(c)
    PROVE  VisitsInv'
<1> PICK r : r = v6[c]
  OBVIOUS
<1>1. r \in Records /\ CallTyped(r) /\ Keeps(r) /\ r.pc = "test" /\ Obeys(v2, v3)
      /\ (V!Undisturbed => VisitsRight /\ Proceeds(r))
  BY CallIs DEF V!Test, VisitsInv, Obedient
<1>2. /\ OwnOf(r) # "suppressed" => V!To(c, [r EXCEPT !.pc = "promote"])
      /\ OwnOf(r) = "suppressed" =>
           V!To(c, [r EXCEPT !.pc = IF Len(r.todo) = 1 THEN "commit" ELSE "read",
                             !.todo = Tail(@)])
  BY CallSees DEF V!Test, V!Stored
<1>3. CASE OwnOf(r) # "suppressed"
  <2> PICK next : next = [r EXCEPT !.pc = "promote"]
    OBVIOUS
  <2>1. /\ next \in Records /\ next.pc = "promote"
        /\ next.event = r.event /\ next.wanted = r.wanted /\ next.gone = r.gone
        /\ next.source = r.source /\ next.stay = r.stay /\ next.day = r.day
        /\ next.range = r.range /\ next.added = r.added
        /\ next.preference = r.preference /\ next.todo = r.todo
    BY <1>1 DEF Records, Storing
  <2>2. CallTyped(next)
    BY <1>1, <2>1 DEF CallTyped, Clearing, Storing
  <2>3. Keeps(next)
    <3>1. v3 # "remove"
      BY <1>1, <1>3 DEF OwnOf, Obeys, Keeps
    <3> QED
      BY <1>1, <2>1, <3>1 DEF Keeps
  <2>4. ViewOf(next) = ViewOf(r) /\ Owners(next) = Owners(r) /\ Devices(next) = Devices(r)
    BY <2>1 DEF ViewOf, Owners, Devices
  <2>5. \A stays : Holds(r, stays) => Holds(next, stays)
    BY <1>1, <2>1, <2>4 DEF Holds
  <2>6. Proceeds(r) => Proceeds(next)
    BY <1>1, <2>1, <2>4, <2>5 DEF Proceeds, Storing
  <2> QED
    BY <1>1, <1>2, <1>3, <2>1, <2>2, <2>3, <2>6, ToGoesOn
<1>4. CASE OwnOf(r) = "suppressed"
  <2> PICK next : next = Further(r, r.preference)
    OBVIOUS
  <2>1. next = [r EXCEPT !.pc = IF Len(r.todo) = 1 THEN "commit" ELSE "read", !.todo = Tail(@)]
    BY <1>1 DEF Records, Further
  <2>2. r.preference \in {"none", "automatic", "pinned"} /\ r.preference # "suppressed"
    BY <1>1 DEF Records
  <2>3. Promoted(OwnOf(next), v3, ViewOf(r))
    BY <1>1, <1>4, <2>2 DEF Promoted, OwnOf, Obeys
  <2>4. /\ CallTyped(next) /\ next.preference = r.preference /\ next.pc # "promote"
        /\ Proceeds(r) => Proceeds(next)
    BY <1>1, <2>2, <2>3, StoredProceeds
  <2>5. Keeps(next)
    BY <1>1, <2>4 DEF Keeps
  <2> QED
    BY <1>1, <1>2, <1>4, <2>1, <2>4, <2>5, ToGoesOn
<1> QED
  BY <1>3, <1>4

(* The country is promoted, unless it is pinned.                             *)
LEMMA PromoteKeeps ==
    ASSUME VisitsInv, NEW c \in Calls, V!Promote(c)
    PROVE  VisitsInv'
<1> PICK r : r = v6[c]
  OBVIOUS
<1>1. r \in Records /\ CallTyped(r) /\ Keeps(r) /\ r.pc = "promote" /\ Obeys(v2, v3)
      /\ (V!Undisturbed => VisitsRight /\ Proceeds(r))
      /\ \A d \in Calls \ {c} : v6[d].preference = "none"
  BY CallIs DEF V!Promote, V!PreferenceFree, VisitsInv, Obedient
<1> PICK preference : preference = IF OwnOf(r) = "pinned" THEN "pinned" ELSE "automatic"
  OBVIOUS
<1> PICK next : next = Further(r, preference)
  OBVIOUS
<1>2. V!To(c, next)
  BY CallSees DEF V!Promote, V!Stored, Further
<1>3. Promoted(OwnOf(next), v3, ViewOf(r)) /\ next.preference = preference
  <2>1. next.preference = preference
    BY <1>1 DEF Records, Further
  <2>2. preference = "pinned" => v3 # "none"
    BY <1>1 DEF OwnOf, Obeys, Keeps
  <2> QED
    BY <2>1, <2>2 DEF Promoted, OwnOf
<1>4. /\ CallTyped(next) /\ next.pc # "promote"
      /\ Proceeds(r) => Proceeds(next)
  BY <1>1, <1>3, StoredProceeds
<1>5. Keeps(next)
  <2>1. preference = "pinned" <=> v2 = "pinned"
    BY <1>1 DEF OwnOf, Keeps
  <2> QED
    BY <1>1, <1>3, <1>4, <2>1 DEF Keeps
<1> QED
  BY <1>1, <1>2, <1>4, <1>5, ToGoesOn

(* The events are chosen, in some order that goes with their times.          *)
LEMMA SelectKeeps ==
    ASSUME VisitsInv, NEW c \in Calls, V!Select(c)
    PROVE  VisitsInv'
<1> PICK r : r = v6[c]
  OBVIOUS
<1>1. r \in Records /\ CallTyped(r) /\ Keeps(r) /\ r.pc = "select"
      /\ (V!Undisturbed => VisitsRight /\ Proceeds(r))
      /\ v4 \in Seq(V!Stays) /\ v5 \in SUBSET V!Stays
  BY CallIs DEF V!Select, VisitsInv, VisitsTyped
<1> PICK corrected : corrected = [v4 EXCEPT ![r.event] = r.stay]
  OBVIOUS
<1>2. PICK order \in V!SetToSeqs(DOMAIN v4) :
        V!To(c, [v6[c] EXCEPT !.pc = "read",
                              !.todo = [i \in DOMAIN v4 |->
                                  [v4 EXCEPT ![v6[c].event] = v6[c].stay][order[i]]]])
  BY Zenon DEF V!Select
<1> DEFINE n == Len(v4)
           stays == [i \in DOMAIN v4 |-> corrected[order[i]]]
<1>3. /\ n \in Nat /\ DOMAIN v4 = 1..n /\ r.event \in 1..n
      /\ corrected \in [1..n -> V!Stays]
  <2>1. n \in Nat /\ DOMAIN v4 = 1..n /\ v4 \in [1..n -> V!Stays]
    BY <1>1
  <2>2. r.event \in 1..n /\ r.stay \in V!Stays
    BY <1>1 DEF CallTyped, Records, Clearing
  <2> HIDE DEF n
  <2> QED
    BY <2>1, <2>2
<1>4. order \in Surjection(1..n, 1..n)
  <2>1. V!Cardinality(1..n) = n /\ Cardinality(1..n) = n /\ IsFiniteSet(1..n)
    <3> HIDE DEF n
    <3>1. Cardinality(1..n) = n /\ IsFiniteSet(1..n)
      BY <1>3, FS_Interval
    <3> QED
      BY <3>1, VisitCardinality
  <2>2. order \in [1..n -> 1..n] /\ \A i, j \in 1..n : i # j => order[i] # order[j]
    <3> HIDE DEF n
    <3> QED
      BY <1>3, <2>1 DEF V!SetToSeqs
  <2>3. order \in Injection(1..n, 1..n)
    <3> HIDE DEF n
    <3> QED
      BY <2>2 DEF Injection, IsInjective
  <2> HIDE DEF n
  <2> QED
    BY <2>1, <2>3, FS_Injection
<1>5. stays \in Seq(V!Stays) /\ stays # <<>> /\ Items(stays) = Items(corrected)
  <2>1. order \in [1..n -> 1..n] /\ \A j \in 1..n : \E i \in 1..n : order[i] = j
    <3> HIDE DEF n
    <3> QED
      BY <1>4 DEF Surjection
  <2>2. DOMAIN stays = 1..n /\ \A i \in 1..n : stays[i] = corrected[order[i]]
    BY <1>3
  <2>3. stays \in [1..n -> V!Stays]
    <3> HIDE DEF n
    <3> QED
      BY <1>3, <2>1
  <2> HIDE DEF stays, n
  <2>4. stays \in Seq(V!Stays)
    BY <1>3, <2>3
  <2>5. stays # <<>>
    BY <1>3, <2>2
  <2>6. \A x : x \in Items(corrected) => x \in Items(stays)
    <3>1. ASSUME NEW j \in 1..n PROVE corrected[j] \in Items(stays)
      <4>1. PICK i \in 1..n : order[i] = j
        BY <2>1
      <4> QED
        BY <2>2, <4>1 DEF Items
    <3> QED
      BY <1>3, <3>1 DEF Items
  <2>7. \A x : x \in Items(stays) => x \in Items(corrected)
    <3>1. ASSUME NEW i \in 1..n PROVE stays[i] \in Items(corrected)
      <4>1. order[i] \in 1..n /\ DOMAIN corrected = 1..n
        BY <1>3, <2>1
      <4> QED
        BY <2>2, <4>1 DEF Items
    <3> QED
      BY <2>2, <3>1 DEF Items
  <2> QED
    BY <2>4, <2>5, <2>6, <2>7
<1> PICK next : next = [r EXCEPT !.pc = "read", !.todo = stays]
  OBVIOUS
<1>6. V!To(c, next)
  BY <1>2
<1> HIDE DEF stays, n
<1>7. /\ next \in Records /\ next.pc = "read" /\ next.todo = stays
      /\ next.event = r.event /\ next.wanted = r.wanted /\ next.gone = r.gone
      /\ next.source = r.source /\ next.stay = r.stay /\ next.day = r.day
      /\ next.range = r.range /\ next.added = r.added /\ next.preference = r.preference
  BY <1>1, <1>5 DEF Records, Storing
<1>8. CallTyped(next) /\ Keeps(next)
  BY <1>1, <1>5, <1>7 DEF CallTyped, Clearing, Storing, Keeps
<1>9. ASSUME V!Undisturbed PROVE Proceeds(next)
  <2>0. Proceeds(r) /\ r.source = "device_coarse" /\ r.event # 0
    <3>1. r.event # 0
      BY <1>3
    <3> QED
      BY <1>1, <1>9, <3>1 DEF Proceeds
  <2>1. ViewOf(next) = ViewOf(r) /\ Owners(next) = Owners(r) /\ Devices(next) = Devices(r)
    BY <1>7 DEF ViewOf, Owners, Devices
  <2>2. Owners(r) = v5 /\ Devices(r) = Items(stays)
    BY <1>5, <2>0 DEF Owners, Devices
  <2>3. Holds(next, v5)
    BY <1>1, <1>7, <2>0, <2>1 DEF Holds, Proceeds
  <2> QED
    BY <1>1, <1>7, <2>0, <2>1, <2>2, <2>3 DEF Proceeds, Storing
<1> QED
  BY <1>1, <1>6, <1>7, <1>8, <1>9, ToGoesOn

(* A call that does nothing.                                                 *)
LEMMA IdleIs ==
    ASSUME VisitsInv
    PROVE  V!Idle \in Records /\ CallTyped(V!Idle) /\ Keeps(V!Idle)
<1>1. 0 \in V!Days /\ v7 \in V!Days /\ Len(v4) \in Nat
  BY DaysAre DEF VisitsInv, VisitsTyped
<1>2. V!Idle \in Records
  BY <1>1, DaysAre DEF V!Idle, Records, V!Stays, V!Ranges, V!Sources
<1>3. RowsTyped({})
  BY DEF RowsTyped
<1>4. CallTyped(V!Idle)
  BY <1>1, <1>2, <1>3, DaysAre DEF V!Idle, CallTyped, Clearing, Storing
<1> QED
  BY <1>2, <1>4 DEF V!Idle, Keeps

(* A call that is lost leaves nothing.                                       *)
LEMMA FailKeeps ==
    ASSUME VisitsInv, NEW c \in Calls, V!Fail(c)
    PROVE  VisitsInv'
<1>1. V!To(c, V!Idle)
  BY DEF V!Fail
<1>2. V!Idle.preference = "none" /\ V!Idle.pc = "idle"
  BY DEF V!Idle
<1>3. Still /\ v6' = [v6 EXCEPT ![c] = V!Idle] /\ v8' = v8 /\ v8 \subseteq {"overlap", "entangled"}
  BY <1>1 DEF V!To, Still, VisitsInv, VisitsTyped
<1> QED
  BY <1>2, <1>3, IdleIs, GoesOn

(* A visit is to be recorded: alone, the call sees what was recorded so far. *)
LEMMA AddKeeps ==
    ASSUME VisitsInv, NEW c \in Calls, V!add_place_visit(c)
    PROVE  VisitsInv'
<1>1. PICK stay \in V!Stays, source \in V!Sources :
        V!Begin(c, [V!Idle EXCEPT !.pc = "read", !.stay = stay, !.todo = <<stay>>,
                                  !.source = source, !.day = v7])
  BY DEF V!add_place_visit
<1> PICK next : next = [V!Idle EXCEPT !.pc = "read", !.stay = stay, !.todo = <<stay>>,
                                      !.source = source, !.day = v7]
  OBVIOUS
<1>2. v8' = v8 \cup (IF V!Active = {} THEN {} ELSE {"overlap"})
  BY DEF V!add_place_visit
<1>3. Still /\ v6' = [v6 EXCEPT ![c] = next]
  BY <1>1 DEF V!Begin, Still
<1>4. V!Idle \in Records /\ CallTyped(V!Idle) /\ RowsTyped(v1) /\ v7 \in Nat
      /\ v4 \in Seq(V!Stays) /\ v5 \in SUBSET V!Stays
      /\ v8 \subseteq {"overlap", "entangled"}
  BY IdleIs, DaysAre DEF VisitsInv, VisitsTyped
<1>5. /\ next \in Records /\ next.pc = "read" /\ next.todo = <<stay>> /\ next.stay = stay
      /\ next.source = source /\ next.day = v7 /\ next.event = 0 /\ next.gone = {}
      /\ next.added = {} /\ next.preference = "none"
  <2>1. <<stay>> \in Seq(V!Stays)
    OBVIOUS
  <2>2. V!Idle.event = 0 /\ V!Idle.gone = {} /\ V!Idle.added = {} /\ V!Idle.preference = "none"
    BY DEF V!Idle
  <2> QED
    BY <1>4, <2>1, <2>2 DEF Records, Storing
<1>6. CallTyped(next) /\ Keeps(next)
  <2>1. RowsTyped({}) /\ Len(v4) \in Nat
    BY <1>4 DEF RowsTyped
  <2>2. next.todo # <<>>
    BY <1>5
  <2> QED
    BY <1>4, <1>5, <2>1, <2>2 DEF CallTyped, Keeps, Clearing, Storing
<1>7. ASSUME V!Undisturbed', VisitsRight
      PROVE  Proceeds(next) /\ \A d \in Calls : v6[d].pc = "idle"
  <2>1. \A d \in Calls : v6[d].pc = "idle"
    BY <1>2, <1>7 DEF V!Undisturbed, V!Active
  <2>2. ViewOf(next) = v1
    BY <1>5 DEF ViewOf
  <2>3. Items(<<stay>>) = {stay}
    BY DEF Items
  <2>4. From(v1, Owners(next), Devices(next))
    <3>1. v5 \subseteq Owners(next) /\ Items(v4) \subseteq Devices(next)
      BY <1>5 DEF Owners, Devices
    <3> QED
      BY <1>7, <3>1 DEF VisitsRight, From
  <2>5. Items(<<stay>>) \subseteq IF source = "manual" THEN Owners(next) ELSE Devices(next)
    BY <1>5, <2>3 DEF Owners, Devices
  <2>6. V!Stated \cup Items(<<stay>>) = Owners(next) \cup Devices(next)
        /\ V!Stated \in SUBSET V!Stays
    <3>1. V!Stated = v5 \cup Items(v4) /\ Items(v4) \in SUBSET V!Stays
      BY <1>4, CallSees DEF Items
    <3> QED
      BY <1>4, <1>5, <2>3, <3>1 DEF Owners, Devices
  <2>7. Holds(next, V!Stated)
    BY <1>5, <1>7, <2>2 DEF Holds, VisitsRight
  <2> QED
    BY <1>5, <2>1, <2>2, <2>4, <2>5, <2>6, <2>7 DEF Proceeds, Storing
<1>8. v8 \subseteq v8' /\ v8' \subseteq {"overlap", "entangled"}
  BY <1>2, <1>4
<1> QED
  BY <1>3, <1>5, <1>6, <1>7, <1>8, GoesOn

(* A correction begins: nothing has been deleted yet.                        *)
LEMMA CorrectKeeps ==
    ASSUME VisitsInv, NEW c \in Calls, NEW e, V!correct_mobile_location_visit(c, e)
    PROVE  VisitsInv'
<1>1. PICK overnight \in BOOLEAN :
        /\ overnight => v4[e].first < v4[e].last
        /\ V!Begin(c, [V!Idle EXCEPT !.pc = "clear",
                                     !.stay = [v4[e] EXCEPT !.overnight = overnight],
                                     !.event = e, !.source = "device_coarse", !.day = v7])
  BY DEF V!correct_mobile_location_visit
<1> PICK stay : stay = [v4[e] EXCEPT !.overnight = overnight]
  OBVIOUS
<1> PICK next : next = [V!Idle EXCEPT !.pc = "clear", !.stay = stay, !.event = e,
                                      !.source = "device_coarse", !.day = v7]
  OBVIOUS
<1>2. /\ e \in DOMAIN v4
      /\ v8' = v8 \cup (IF V!Active = {} THEN {} ELSE {"overlap"})
                  \cup (IF V!Entangled THEN {"entangled"} ELSE {})
  BY DEF V!correct_mobile_location_visit
<1>3. Still /\ v6' = [v6 EXCEPT ![c] = next]
  BY <1>1 DEF V!Begin, Still
<1>4. V!Idle \in Records /\ CallTyped(V!Idle) /\ v7 \in Nat /\ v4 \in Seq(V!Stays)
      /\ v8 \subseteq {"overlap", "entangled"} /\ Len(v4) \in Nat
  BY IdleIs, DaysAre DEF VisitsInv, VisitsTyped
<1>5. e \in Nat /\ e # 0 /\ e <= Len(v4) /\ stay \in V!Stays
  <2>1. e \in 1..Len(v4) /\ v4[e] \in V!Stays
    BY <1>2, <1>4
  <2>2. stay \in V!Stays
    BY <1>1, <2>1 DEF V!Stays
  <2> QED
    BY <1>4, <2>1, <2>2
<1>6. /\ next \in Records /\ next.pc = "clear" /\ next.stay = stay
      /\ next.source = "device_coarse" /\ next.day = v7 /\ next.event = e /\ next.gone = {}
      /\ next.added = {} /\ next.preference = "none"
  <2>1. V!Idle.gone = {} /\ V!Idle.added = {} /\ V!Idle.preference = "none"
    BY DEF V!Idle
  <2> QED
    BY <1>4, <1>5, <2>1 DEF Records, Clearing, V!Sources
<1>7. CallTyped(next) /\ Keeps(next)
  <2>1. RowsTyped({})
    BY DEF RowsTyped
  <2> QED
    BY <1>4, <1>5, <1>6, <2>1 DEF CallTyped, Keeps, Clearing, Storing
<1>8. ASSUME V!Undisturbed' PROVE Proceeds(next) /\ \A d \in Calls : v6[d].pc = "idle"
  <2>1. (\A d \in Calls : v6[d].pc = "idle") /\ ~V!Entangled
    BY <1>2, <1>8 DEF V!Undisturbed, V!Active
  <2> QED
    BY <1>6, <2>1 DEF Proceeds, Storing
<1>9. v8 \subseteq v8' /\ v8' \subseteq {"overlap", "entangled"}
  BY <1>2, <1>4
<1> QED
  BY <1>3, <1>6, <1>7, <1>8, <1>9, GoesOn

(* A call commits: what it saw is the table, and what it has stored has been *)
(* recorded.                                                                 *)
LEMMA CommitKeeps ==
    ASSUME VisitsInv, NEW c \in Calls, V!Commit(c)
    PROVE  VisitsInv'
<1> PICK r : r = v6[c]
  OBVIOUS
<1>1. r \in Records /\ CallTyped(r) /\ Keeps(r) /\ RowsTyped(ViewOf(r)) /\ r.pc = "commit"
      /\ (V!Undisturbed => VisitsRight /\ Proceeds(r))
      /\ v4 \in Seq(V!Stays) /\ v5 \in SUBSET V!Stays /\ v6 \in [Calls -> Records]
      /\ V!Idle \in Records /\ CallTyped(V!Idle) /\ Keeps(V!Idle)
  BY CallIs, IdleIs DEF V!Commit, VisitsInv, VisitsTyped
<1>2. /\ v1' = ViewOf(r) /\ v2' = OwnOf(r) /\ v6' = [v6 EXCEPT ![c] = V!Idle]
      /\ v3' = v3 /\ v7' = v7 /\ v8' = v8
      /\ v5' = Owners(r)
      /\ v4' = IF r.source = "manual" THEN v4
               ELSE IF r.event = 0 THEN Append(v4, r.stay)
               ELSE [v4 EXCEPT ![r.event] = r.stay]
  BY CallSees DEF V!Commit, Owners
<1>3. v6'[c] = V!Idle /\ \A d \in Calls : d # c => v6'[d] = v6[d]
  BY <1>1, <1>2
<1>4. /\ v4' \in Seq(V!Stays) /\ Len(v4) \in Nat /\ Len(v4') \in Nat /\ Len(v4) <= Len(v4')
      /\ v5' \subseteq V!Stays /\ Items(v4') = Devices(r)
  <2>1. r.stay \in V!Stays /\ Len(v4) \in Nat /\ v5' \subseteq V!Stays
    BY <1>1, <1>2 DEF Records, Owners
  <2>2. CASE r.source = "manual"
    BY <1>1, <1>2, <2>1, <2>2 DEF Devices
  <2>3. CASE r.source # "manual" /\ r.event = 0
    <3>1. v4' = Append(v4, r.stay)
      BY <1>2, <2>3
    <3>2. v4' \in Seq(V!Stays) /\ Len(v4') = Len(v4) + 1
      BY <1>1, <2>1, <3>1
    <3>3. Items(v4') = Items(v4) \cup {r.stay}
      <4>1. DOMAIN v4' = 1..(Len(v4) + 1) /\ DOMAIN v4 = 1..Len(v4)
        BY <1>1, <3>2
      <4>2. v4'[Len(v4) + 1] = r.stay /\ \A e \in 1..Len(v4) : v4'[e] = v4[e]
        BY <1>1, <3>1
      <4>3. \A e : e \in 1..(Len(v4) + 1) <=> e \in 1..Len(v4) \/ e = Len(v4) + 1
        BY <2>1
      <4> QED
        BY <4>1, <4>2, <4>3 DEF Items
    <3> QED
      BY <2>1, <2>3, <3>2, <3>3 DEF Devices
  <2>4. CASE r.source # "manual" /\ r.event # 0
    <3>1. v4' = [v4 EXCEPT ![r.event] = r.stay]
      BY <1>2, <2>4
    <3>2. v4' \in Seq(V!Stays) /\ Len(v4') = Len(v4)
      <4>1. v4 \in [1..Len(v4) -> V!Stays] /\ r.event \in 1..Len(v4)
        BY <1>1, <2>1, <2>4 DEF CallTyped, Records
      <4>2. v4' \in [1..Len(v4) -> V!Stays]
        BY <2>1, <3>1, <4>1
      <4> QED
        BY <2>1, <4>2
    <3>3. Items(v4') = Devices(r)
      BY <2>4, <3>1 DEF Devices
    <3> QED
      BY <2>1, <3>2, <3>3
  <2> QED
    BY <2>2, <2>3, <2>4
<1>5. VisitsTyped'
  <2>1. \A d \in Calls : CallTyped(v6[d])'
    <3>1. ASSUME NEW d \in Calls PROVE CallTyped(v6[d])'
      <4> PICK o : o = v6'[d]
        OBVIOUS
      <4>1. CallTyped(o)
        BY <1>1, <1>3 DEF VisitsInv, VisitsTyped
      <4>2. o.event \in Nat
        BY <4>1 DEF CallTyped, Records
      <4>3. o.event <= Len(v4')
        BY <1>4, <4>1, <4>2 DEF CallTyped
      <4> QED
        BY <1>2, <4>1, <4>3 DEF CallTyped, RowsTyped
    <3> QED
      BY <3>1
  <2>2. v6' \in [Calls -> Records]
    BY <1>1, <1>2
  <2>3. RowsTyped(v1') /\ v2' \in Preferences
    BY <1>1, <1>2 DEF OwnOf, VisitsInv, VisitsTyped, Preferences, Records
  <2> QED
    BY <1>2, <1>4, <2>1, <2>2, <2>3 DEF VisitsInv, VisitsTyped, RowsTyped
<1>6. Obedient'
  <2>1. \A a, b \in Calls : v6'[a].preference # "none" /\ v6'[b].preference # "none" => a = b
    BY <1>3 DEF VisitsInv, Obedient, V!Idle
  <2>2. Obeys(v2, v3)'
    BY <1>1, <1>2 DEF VisitsInv, Obedient, Obeys, OwnOf, Keeps, Records, VisitsTyped, Choices
  <2>3. \A d \in Calls : Keeps(v6[d])'
    <3>1. ASSUME NEW d \in Calls, d # c PROVE Keeps(v6[d])'
      <4>1. Keeps(v6[d]) /\ (v6[d].preference # "none" => r.preference = "none")
        BY <3>1 DEF VisitsInv, Obedient
      <4>2. v6[d].preference # "none" => v2' = v2
        BY <1>2, <4>1 DEF OwnOf
      <4> QED
        BY <1>2, <1>3, <3>1, <4>1, <4>2 DEF Keeps
    <3>2. Keeps(v6[c])'
      BY <1>3 DEF Keeps, V!Idle
    <3> QED
      BY <3>1, <3>2
  <2> QED
    BY <2>1, <2>2, <2>3 DEF Obedient
<1>7. ASSUME V!Undisturbed' PROVE VisitsRight'
  <2>1. VisitsRight /\ Proceeds(r)
    BY <1>1, <1>2, <1>7 DEF V!Undisturbed
  <2>2. \A d \in Calls : v6'[d].pc = "idle"
    BY <1>1, <1>3, <2>1 DEF VisitsRight, V!Idle
  <2>3. PICK stays \in SUBSET V!Stays :
          stays \cup Items(r.todo) = Owners(r) \cup Devices(r) /\ Holds(r, stays)
    BY <1>1, <2>1 DEF Proceeds
  <2>4. stays = Owners(r) \cup Devices(r) /\ Covers(ViewOf(r), Away(stays))
    <3>1. Items(r.todo) = {}
      BY <1>1, <2>1 DEF Proceeds, Items
    <3> QED
      BY <1>1, <2>3, <3>1 DEF Holds
  <2>5. V!Stated' = v5' \cup Items(v4')
    BY DEF V!Stated, Items
  <2>6. V!Stated' = Owners(r) \cup Devices(r)
    BY <1>2, <1>4, <2>5
  <2>7. Covers(v1, Away(V!Stated))'
    <3>1. Away(V!Stated)' = Away(stays)
      BY <2>4, <2>6 DEF Away
    <3> QED
      BY <1>2, <2>4, <3>1 DEF Covers
  <2>8. From(v1, v5, Items(v4))'
    <3>1. From(ViewOf(r), Owners(r), Devices(r))
      BY <1>1, <2>1 DEF Proceeds
    <3>2. Items(v4)' = Devices(r)
      BY <1>4 DEF Items
    <3> QED
      BY <1>2, <3>1, <3>2 DEF From
  <2>9. Promoted(v2, v3, v1)'
    <3>1. Promoted(OwnOf(r), v3, ViewOf(r))
      BY <1>1, <2>1 DEF Proceeds
    <3> QED
      BY <1>2, <3>1 DEF Promoted, V!Recent
  <2> QED
    BY <2>2, <2>7, <2>8, <2>9 DEF VisitsRight
<1> QED
  BY <1>5, <1>6, <1>7 DEF VisitsInv

-----------------------------------------------------------------------------
(* The other steps.                                                          *)

(* Nothing has been recorded, and nothing is stored.                         *)
LEMMA VisitsBegin == V!Init => VisitsInv
<1> SUFFICES ASSUME V!Init PROVE VisitsInv
  OBVIOUS
<1> USE DEF V!Init
<1>1. 0 \in V!Days /\ v7 = 0 /\ v4 = <<>> /\ Len(v4) = 0 /\ \A c \in Calls : v6[c] = V!Idle
  BY DaysAre
<1>2. V!Idle \in Records
  BY <1>1, DaysAre DEF V!Idle, Records, V!Stays, V!Ranges, V!Sources
<1>3. CallTyped(V!Idle)
  <2>1. RowsTyped({})
    BY DEF RowsTyped
  <2> QED
    BY <1>1, <1>2, <2>1 DEF V!Idle, CallTyped, Clearing, Storing
<1>4. VisitsTyped
  <2>1. RowsTyped(v1) /\ v6 \in [Calls -> Records]
    BY <1>1, <1>2 DEF RowsTyped
  <2> QED
    BY <1>1, <1>3, <2>1 DEF VisitsTyped, Preferences, Choices
<1>5. Obedient
  BY <1>1 DEF Obedient, Obeys, Keeps, V!Idle
<1>6. VisitsRight
  <2>1. Away(V!Stated) = {} /\ Covers({}, {}) /\ From(v1, v5, Items(v4))
    BY DEF V!Stated, Away, Covers, From
  <2>2. Promoted(v2, v3, v1)
    <3>1. V!Recent(v1, v7) = {}
      BY DEF V!Recent
    <3>2. Cardinality(V!Recent(v1, v7)) = 0
      BY <3>1, FS_EmptySet, Zenon
    <3>3. ~(Cardinality(V!Recent(v1, v7)) >= 2)
      BY <3>2
    <3> QED
      BY <3>3 DEF Promoted
  <2>3. \A c \in Calls : v6[c].pc = "idle"
    BY <1>1 DEF V!Idle
  <2> QED
    BY <2>1, <2>2, <2>3 DEF VisitsRight
<1> QED
  BY <1>4, <1>5, <1>6 DEF VisitsInv

(* The owner pins the country or removes it: a call that was about to        *)
(* promote it makes the removal late.                                        *)
LEMMA PreferKeeps ==
    ASSUME VisitsInv, V!set_most_visited_preference
    PROVE  VisitsInv'
<1>1. /\ \A d \in Calls : v6[d].preference = "none"
      /\ \/ v3' = "pin" /\ v2' = "pinned"
         \/ /\ v3' = IF \E d \in Calls : v6[d].pc = "promote" THEN "late" ELSE "remove"
            /\ v2' = "suppressed"
      /\ v1' = v1 /\ v4' = v4 /\ v5' = v5 /\ v6' = v6 /\ v7' = v7 /\ v8' = v8
  BY DEF V!set_most_visited_preference
<1>2. VisitsTyped'
  BY <1>1 DEF VisitsInv, VisitsTyped, Preferences, Choices, RowsTyped, CallTyped
<1>3. Obedient'
  BY <1>1 DEF Obedient, Obeys, Keeps
<1>4. ASSUME V!Undisturbed' PROVE VisitsRight'
  <2>1. VisitsRight
    BY <1>1, <1>4 DEF VisitsInv, V!Undisturbed
  <2>2. v3' # "none"
    BY <1>1
  <2>3. \A d \in Calls : v6'[d].pc # "idle" => Proceeds(v6[d])'
    <3>1. ASSUME NEW d \in Calls, v6'[d].pc # "idle" PROVE Proceeds(v6[d])'
      <4> PICK r : r = v6'[d]
        OBVIOUS
      <4>1. Proceeds(r)
        BY <1>1, <2>1, <3>1 DEF VisitsRight
      <4>2. Promoted(OwnOf(v6[d]), v3, ViewOf(v6[d]))'
        BY <2>2 DEF Promoted
      <4> QED
        BY <1>1, <4>1, <4>2, ProceedsRemains
    <3> QED
      BY <3>1
  <2>4. Covers(v1, Away(V!Stated))' /\ From(v1, v5, Items(v4))' /\ Promoted(v2, v3, v1)'
    BY <1>1, <2>1, <2>2 DEF VisitsRight, V!Stated, Covers, From, Away, Items, Promoted
  <2> QED
    BY <1>1, <2>1, <2>3, <2>4 DEF VisitsRight
<1> QED
  BY <1>2, <1>3, <1>4 DEF VisitsInv

(* A day passes: fewer trips are recent.                                     *)
LEMMA DayKeeps ==
    ASSUME VisitsInv, V!DayPasses
    PROVE  VisitsInv'
<1>1. /\ v7' \in V!Days /\ v7' = v7 + 1 /\ v7 \in Nat /\ v7' \in Nat
      /\ v1' = v1 /\ v2' = v2 /\ v3' = v3 /\ v4' = v4 /\ v5' = v5 /\ v6' = v6 /\ v8' = v8
  BY DaysAre DEF V!DayPasses, VisitsInv, VisitsTyped
<1>2. VisitsTyped'
  <2>1. \A d \in Calls : CallTyped(v6[d])'
    <3>1. ASSUME NEW d \in Calls PROVE CallTyped(v6[d])'
      <4>1. CallTyped(v6[d]) /\ v6[d].day \in Nat
        BY DEF VisitsInv, VisitsTyped, Records
      <4>2. v6[d].day <= v7'
        BY <1>1, <4>1 DEF CallTyped
      <4> QED
        BY <1>1, <4>1, <4>2 DEF CallTyped, RowsTyped
    <3> QED
      BY <3>1
  <2> QED
    BY <1>1, <2>1 DEF VisitsInv, VisitsTyped, RowsTyped
<1>3. Obedient'
  BY <1>1 DEF VisitsInv, Obedient, Obeys, Keeps
<1>4. ASSUME NEW rows, RowsTyped(rows), NEW preference, Promoted(preference, v3, rows)
      PROVE  v3 = "none" /\ Cardinality(V!Recent(rows, v7')) >= 2 => preference = "automatic"
  BY <1>1, <1>4, FewerRecent, VisitCardinality DEF Promoted
<1>5. ASSUME V!Undisturbed' PROVE VisitsRight'
  <2>1. VisitsRight /\ RowsTyped(v1)
    BY <1>1, <1>5 DEF VisitsInv, VisitsTyped, V!Undisturbed
  <2>2. \A d \in Calls : v6'[d].pc # "idle" => Proceeds(v6[d])'
    <3>1. ASSUME NEW d \in Calls, v6'[d].pc # "idle" PROVE Proceeds(v6[d])'
      <4> PICK r : r = v6'[d]
        OBVIOUS
      <4>1. Proceeds(r) /\ RowsTyped(ViewOf(r))
        BY <1>1, <2>1, <3>1, CallIs DEF VisitsRight
      <4>2. r.pc = "commit" => Promoted(OwnOf(v6[d]), v3, ViewOf(v6[d]))'
        <5>1. ViewOf(v6[d])' = ViewOf(r) /\ OwnOf(v6[d])' = OwnOf(r)
          BY <1>1 DEF ViewOf, OwnOf
        <5>2. r.pc = "commit" => Promoted(OwnOf(r), v3, ViewOf(r))
          BY <4>1 DEF Proceeds
        <5>3. r.pc = "commit" =>
                (v3 = "none" /\ Cardinality(V!Recent(ViewOf(r), v7')) >= 2
                   => OwnOf(r) = "automatic")
          BY <1>4, <4>1, <5>2
        <5> QED
          BY <1>1, <5>1, <5>3 DEF Promoted, V!Recent
      <4> QED
        BY <1>1, <4>1, <4>2, ProceedsRemains
    <3> QED
      BY <3>1
  <2>3. Covers(v1, Away(V!Stated))' /\ From(v1, v5, Items(v4))'
    BY <1>1, <2>1 DEF VisitsRight, V!Stated, Covers, From, Away, Items
  <2>4. Promoted(v2, v3, v1)'
    <3>1. v3 = "none" /\ Cardinality(V!Recent(v1, v7')) >= 2 => v2 = "automatic"
      BY <1>4, <2>1 DEF VisitsRight
    <3> QED
      BY <1>1, <3>1 DEF Promoted, V!Recent
  <2> QED
    BY <1>1, <2>1, <2>2, <2>3, <2>4 DEF VisitsRight
<1> QED
  BY <1>2, <1>3, <1>5 DEF VisitsInv

(* Nothing happens.                                                          *)
LEMMA StutterKeeps ==
    ASSUME VisitsInv, UNCHANGED V!vars
    PROVE  VisitsInv'
<1>1. Still /\ v6' = v6 /\ v8' = v8
  BY DEF V!vars, Still
<1>2. ASSUME NEW d \in Calls
      PROVE  CallTyped(v6[d])' /\ Keeps(v6[d])' /\ (Proceeds(v6[d]) => Proceeds(v6[d])')
  <2> PICK r : r = v6'[d]
    OBVIOUS
  <2>1. CallTyped(r) /\ Keeps(r)
    BY <1>1 DEF VisitsInv, VisitsTyped, Obedient
  <2>2. r = v6[d]
    BY <1>1
  <2> QED
    BY <1>1, <2>1, <2>2, CallsRemain
<1>3. VisitsTyped' /\ Obedient'
  BY <1>1, <1>2 DEF VisitsInv, VisitsTyped, Obedient, Obeys, RowsTyped, Still
<1>4. ASSUME V!Undisturbed' PROVE VisitsRight'
  <2>1. VisitsRight
    BY <1>1, <1>4 DEF VisitsInv, V!Undisturbed
  <2>2. Covers(v1, Away(V!Stated))' /\ From(v1, v5, Items(v4))' /\ Promoted(v2, v3, v1)'
    BY <1>1, <2>1 DEF VisitsRight, V!Stated, Covers, From, Away, Items, Promoted, V!Recent, Still
  <2> QED
    BY <1>1, <1>2, <2>1, <2>2 DEF VisitsRight
<1> QED
  BY <1>3, <1>4 DEF VisitsInv

(* Every step of the component keeps the invariant, and so does a stutter.   *)
LEMMA VisitsKeep == VisitsInv /\ [V!Next]_V!vars => VisitsInv'
<1> SUFFICES ASSUME VisitsInv, [V!Next]_V!vars PROVE VisitsInv'
  OBVIOUS
<1>1. CASE \E c \in Calls : V!add_place_visit(c) \/ V!Step(c)
  <2> PICK c \in Calls : V!add_place_visit(c) \/ V!Step(c)
    BY <1>1
  <2> QED
    BY AddKeeps, ReadKeeps, FindKeeps, DeleteKeeps, InsertKeeps, CountKeeps, TestKeeps,
       PromoteKeeps, SelectKeeps, CommitKeeps, FailKeeps DEF V!Step
<1>2. CASE \E c \in Calls, e \in 1..MaxEvents : V!correct_mobile_location_visit(c, e)
  BY <1>2, CorrectKeeps
<1>3. CASE V!set_most_visited_preference
  BY <1>3, PreferKeeps
<1>4. CASE V!DayPasses
  BY <1>4, DayKeeps
<1>5. CASE UNCHANGED V!vars
  BY <1>5, StutterKeeps
<1> QED
  BY <1>1, <1>2, <1>3, <1>4, <1>5 DEF V!Next

-----------------------------------------------------------------------------
(* The theorems.                                                             *)

(* The invariant says that the variables have their types.                   *)
LEMMA VisitsTypesFollow == VisitsTyped => V!TypeOK
<1> SUFFICES ASSUME VisitsTyped PROVE V!TypeOK
  OBVIOUS
<1>1. RowsTyped(v1)
  BY DEF VisitsTyped
<1>2. ASSUME NEW rows, RowsTyped(rows), NEW v \in rows PROVE V!Row(v)
  BY <1>2 DEF RowsTyped, TableRow, V!Row, V!Stays
<1>3. ASSUME NEW v \in v1, NEW w \in v1, V!DaysOf(v) = V!DaysOf(w) PROVE v = w
  BY <1>1, <1>3, DaysName DEF RowsTyped
<1>4. ASSUME NEW c \in Calls
      PROVE  /\ v6[c].pc \in {"idle", "clear", "clearing", "select", "read", "delete",
                              "deleting", "insert", "count", "test", "promote", "commit"}
             /\ v6[c].stay \in V!Stays /\ v6[c].source \in V!Sources
             /\ v6[c].event \in 0..Len(v4) /\ v6[c].todo \in Seq(V!Stays)
             /\ v6[c].day \in 0..v7 /\ v6[c].range \in V!Ranges
             /\ v6[c].wanted \subseteq V!Ranges /\ v6[c].gone \subseteq V!Ranges
             /\ \A v \in v6[c].added : V!Row(v)
             /\ v6[c].preference \in {"none", "automatic", "pinned"}
  <2>1. CallTyped(v6[c]) /\ v7 \in Nat /\ Len(v4) \in Nat
    BY DaysAre DEF VisitsTyped
  <2> PICK r : r = v6[c]
    OBVIOUS
  <2>2. r \in Records /\ r.event <= Len(v4) /\ r.day <= v7 /\ RowsTyped(r.added)
    BY <2>1 DEF CallTyped
  <2>3. \A v \in r.added : V!Row(v)
    BY <1>2, <2>2
  <2> QED
    BY <2>1, <2>2, <2>3 DEF Records, Clearing, Storing
<1> QED
  BY <1>1, <1>2, <1>3, <1>4 DEF VisitsTyped, V!TypeOK, Preferences, Choices

(* It says that the table agrees with the reference.                         *)
LEMMA TripsFollow == VisitsInv => V!TripsAgree /\ V!PromotionAgrees
<1> SUFFICES ASSUME VisitsInv, V!Undisturbed PROVE
      /\ V!Cardinality(V!Recent(v1, v7)) = V!qualifying_visit_count(V!Stated)
      /\ (V!shown <=> V!promoted(V!Stated)) \/ (v3 = "late" /\ v2 = "automatic")
  BY DEF V!TripsAgree, V!PromotionAgrees
<1> DEFINE count == Cardinality(Ends(Away(V!Stated)))
<1>1. /\ RowsTyped(v1) /\ v7 \in V!Days /\ V!Stated \in SUBSET V!Stays /\ VisitsRight
      /\ v3 \in Choices /\ Obeys(v2, v3)
  BY DEF VisitsInv, VisitsTyped, Obedient, V!Stated
<1>2. Away(V!Stated) \in SUBSET V!Days
  BY DEF Away
<1>3. V!Cardinality(V!Recent(v1, v7)) = count
  BY <1>1, <1>2, TableCounts DEF VisitsRight
<1>4. V!qualifying_visit_count(V!Stated) = count
  BY <1>1, ReferenceCounts
<1>5. v3 = "none" /\ count >= 2 => v2 = "automatic"
  BY <1>1, <1>3, VisitCardinality DEF VisitsRight, Promoted
<1> HIDE DEF count
<1>6. V!shown <=> v2 = "pinned" \/ (v2 = "automatic" /\ count >= 2)
  BY <1>3 DEF V!shown
<1>7. V!promoted(V!Stated) <=> v3 = "pin" \/ (v3 = "none" /\ count >= 2)
  BY <1>4 DEF V!promoted
<1>8. (V!shown <=> V!promoted(V!Stated)) \/ (v3 = "late" /\ v2 = "automatic")
  BY <1>1, <1>5, <1>6, <1>7 DEF Obeys, Choices
<1> QED
  BY <1>3, <1>4, <1>8

(* The invariant holds of the component's behaviours: the focus is not lost. *)
LEMMA VisitsAreRight == Spec => [](focus = "visits" => VisitsInv)
<1> DEFINE Right == focus = "visits" => VisitsInv
<1>1. Init => Right
  BY VisitsBegin DEF Init
<1>2. Right /\ [Next]_vars => Right'
  <2> SUFFICES ASSUME Right, [Next]_vars, focus' = "visits" PROVE VisitsInv'
    BY DEF Right
  <2>1. CASE Converse
    BY <2>1 DEF Converse
  <2>2. CASE Visit
    BY <2>2, VisitsKeep DEF Visit
  <2>3. CASE UNCHANGED vars
    BY <2>3, VisitsKeep DEF vars, V!vars
  <2> QED
    BY <2>1, <2>2, <2>3 DEF Next
<1> QED
  BY <1>1, <1>2, PTL DEF Spec

(* The variables of conversations and of visits have their types, in every   *)
(* interleaving of their calls (_execute_turn, add_place_visit,              *)
(* correct_mobile_location_visit).                                           *)
THEOREM TypesHold == Spec => []TypeOK
<1>1. (focus = "visits" => VisitsInv) => (focus = "visits" => V!TypeOK)
  BY VisitsTypesFollow DEF VisitsInv
<1>2. (focus = "conversation" => D!TypeOK) /\ (focus = "visits" => V!TypeOK) => TypeOK
  BY DEF TypeOK
<1> QED
  BY <1>1, <1>2, ConversationIsTyped, VisitsAreRight, PTL

(* Merged, replayed, given up half-way and grown old, the table of visits    *)
(* holds as many recent trips as the reference finds in all that was         *)
(* recorded, unless calls overlapped or a correction met a visit made of the *)
(* owner's and of a device's; and the country is shown when the reference    *)
(* promotes it, unless a removal came late and was overwritten               *)
(* (add_place_visit, correct_mobile_location_visit,                          *)
(* set_most_visited_preference, qualifying_visit_count, promoted_countries). *)
THEOREM TripsAreCounted == Spec => []TripsAgree
<1>1. (focus = "visits" => VisitsInv) => TripsAgree
  BY TripsFollow DEF TripsAgree
<1> QED
  BY <1>1, VisitsAreRight, PTL
=============================================================================
