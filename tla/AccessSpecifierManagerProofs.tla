-------------------- MODULE AccessSpecifierManagerProofs --------------------
(***************************************************************************)
(* For every file: a method is what the file declares it as.  The inductive  *)
(* invariant says which sections the preprocessor has left, and that the list *)
(* of a visited class is sorted and holds its own access specifiers and the   *)
(* sections in it that no class before it took.                             *)
(***************************************************************************)
EXTENDS AccessSpecifierManager, WellFoundedInduction, TLAPS

-----------------------------------------------------------------------------
(* The inductive invariant.                                                *)

Elements(v) == {v[i] : i \in DOMAIN v}

\* The order of the lists: the access specifier of Q_SIGNALS comes before it.
Precedes(a, b) ==
    \/ a.loc.pos < b.loc.pos
    \/ a.loc.pos = b.loc.pos /\ a.loc.isMacroID /\ ~b.loc.isMacroID

InOrder(v) == \A i, j \in DOMAIN v : i < j => Precedes(v[i], v[j])

Section(p) == [loc |-> FileLoc(p), access |-> "none", qt |-> QtSection(At(p))]

\* What the preprocessor has come to.
Heard == {p \in Positions : parsed \/ p < next}

MarksAreHeard == \A mark \in MarkTokens : marked[mark] = {p + 1 : p \in {q \in Heard : At(q) = mark}}

OnlyParsedAreVisited == \A c \in Visited : parsed /\ c < next

SectionsAreLeft ==
    /\ InOrder(qtAccessSpecifiers)
    /\ Elements(qtAccessSpecifiers) =
          {Section(p) : p \in {q \in Heard : At(q) \in QtTokens /\ \A c \in Visited : ~Encloses(c, q)}}

OwnSpecifiers(c) == {AccessSpecDecl(p) : p \in {q \in Members(c) : At(q) \in SpecifierTokens}}

TakenSections(c) ==
    {Section(p) : p \in {q \in Positions : /\ At(q) \in QtTokens /\ Encloses(c, q)
                                           /\ \A d \in Visited : d < c => ~Encloses(d, q)}}

ClassesAreSorted ==
    \A c \in Visited : /\ InOrder(specifiersMap[c])
                       /\ Elements(specifiersMap[c]) = OwnSpecifiers(c) \cup TakenSections(c)

IInv == TypeOK /\ MarksAreHeard /\ OnlyParsedAreVisited /\ SectionsAreLeft /\ ClassesAreSorted
-----------------------------------------------------------------------------
(* Numbers, sequences and loops.                                           *)

\* A set of numbers has a least one.
LEMMA LeastExists ==
    ASSUME NEW S \in SUBSET Nat, S # {}
    PROVE  Min(S) \in S /\ \A y \in S : Min(S) <= y
<1>1. PICK x \in S : \A y \in S : ~(<<y, x>> \in OpToRel(<, Nat))
  BY NatLessThanWellFounded, WFMin
<1>2. \A y \in S : ~(y < x)
  BY <1>1 DEF OpToRel
<1>3. \A y \in S : x <= y
  BY <1>2
<1> QED BY <1>3 DEF Min

\* The greatest one is not below any other.
LEMMA GreatestIs ==
    ASSUME NEW S \in SUBSET Nat, NEW x \in S, \A y \in S : x >= y
    PROVE  Max(S) = x
<1>1. \E g \in S : \A y \in S : g >= y
  OBVIOUS
<1> DEFINE g == Max(S)
<1>2. g \in S /\ \A y \in S : g >= y
  BY <1>1 DEF Max
<1> HIDE DEF g
<1>3. g >= x /\ x >= g /\ g \in Nat /\ x \in Nat
  BY <1>2
<1>4. g = x
  BY <1>3
<1> QED BY <1>4 DEF g

\* Numbers below a bound have a greatest one.
LEMMA GreatestExists ==
    ASSUME NEW S \in SUBSET Nat, S # {}, NEW b \in Nat, \A y \in S : y <= b
    PROVE  Max(S) \in S /\ \A y \in S : Max(S) >= y
<1> DEFINE above == {n \in Nat : \A y \in S : n >= y}
           g == Min(above)
<1>1. above \in SUBSET Nat /\ b \in above
  OBVIOUS
<1>2. g \in above /\ \A n \in above : g <= n
  <2> HIDE DEF above
  <2> QED BY <1>1, LeastExists
<1> HIDE DEF g
<1>3. g \in S
  <2> SUFFICES ASSUME g \notin S PROVE FALSE
    OBVIOUS
  <2>1. PICK y \in S : TRUE
    OBVIOUS
  <2>2. g \in Nat /\ y \in Nat /\ g >= y /\ g # y
    BY <1>2
  <2>3. g - 1 \in Nat /\ ~(g <= g - 1)
    BY <2>2
  <2>4. \A z \in S : g - 1 >= z
    <3> TAKE z \in S
    <3>1. g >= z /\ g # z /\ z \in Nat
      BY <1>2
    <3> QED BY <2>2, <3>1
  <2> QED BY <1>2, <2>3, <2>4
<1>4. Max(S) = g
  BY <1>2, <1>3, GreatestIs
<1> QED BY <1>2, <1>3, <1>4

\* What holds at the beginning of a range, and for a number when it holds for
\* the one before, holds in the range.
LEMMA RangeInduction ==
    ASSUME NEW a \in Nat, NEW b \in Nat, NEW T, a \in T, \A n \in a + 1..b : n - 1 \in T => n \in T
    PROVE  a..b \subseteq T
<1> DEFINE bad == {n \in a..b : n \notin T}
<1> SUFFICES ASSUME bad # {} PROVE FALSE
  OBVIOUS
<1>1. bad \in SUBSET Nat
  OBVIOUS
<1> DEFINE m == Min(bad)
<1>2. m \in bad /\ \A n \in bad : m <= n
  <2> HIDE DEF bad
  <2> QED BY <1>1, LeastExists
<1> HIDE DEF m
<1>3. m \in a + 1..b /\ m - 1 \in a..b /\ ~(m <= m - 1)
  BY <1>2
<1> QED BY <1>2, <1>3

Steps(a, b, S) == [a + 1..b -> [S -> S]]
IsLoop(f, a, b, base, step) == f[a] = base /\ \A n \in a + 1..b : f[n] = step[n][f[n - 1]]

\* A loop runs: there is a function of the values it has after each step.
LEMMA LoopRuns ==
    ASSUME NEW a \in Nat, NEW b \in Nat, a <= b, NEW S, NEW base \in S, NEW step \in Steps(a, b, S)
    PROVE  \E f \in [a..b -> S] : IsLoop(f, a, b, base, step)
<1> DEFINE T == {k \in a..b : \E f \in [a..k -> S] : IsLoop(f, a, k, base, step)}
<1>1. a \in T
  <2> DEFINE f == [n \in a..a |-> base]
  <2>1. f \in [a..a -> S] /\ f[a] = base /\ a + 1..a = {} /\ a \in a..b
    OBVIOUS
  <2>2. IsLoop(f, a, a, base, step)
    BY <2>1 DEF IsLoop
  <2> HIDE DEF f
  <2> QED BY <2>1, <2>2
<1>2. ASSUME NEW k \in a + 1..b, k - 1 \in T PROVE k \in T
  <2>1. PICK f \in [a..k - 1 -> S] : IsLoop(f, a, k - 1, base, step)
    BY <1>2
  <2> DEFINE g == [n \in a..k |-> IF n = k THEN step[k][f[k - 1]] ELSE f[n]]
  <2>2. a \in a..k - 1 /\ k - 1 \in a..k - 1 /\ k \in a..k /\ k # a /\ k - 1 \in a..k /\ k - 1 # k
    BY <1>2
  <2>3. g \in [a..k -> S]
    <3>1. step[k][f[k - 1]] \in S
      BY <1>2, <2>1, <2>2 DEF Steps
    <3>2. \A n \in a..k : n # k => n \in a..k - 1
      BY <1>2
    <3> QED BY <2>1, <3>1, <3>2
  <2>4. g[a] = base
    BY <2>1, <2>2 DEF IsLoop
  <2>5. ASSUME NEW n \in a + 1..k PROVE g[n] = step[n][g[n - 1]]
    <3>1. n - 1 \in a..k /\ n \in a..k /\ n - 1 # k
      BY <1>2
    <3>2. g[n - 1] = f[n - 1]
      BY <3>1
    <3>3. CASE n = k
      BY <3>1, <3>2, <3>3
    <3>4. CASE n # k
      <4>1. n \in a + 1..k - 1
        BY <1>2, <3>4
      <4> QED BY <2>1, <3>1, <3>2, <3>4, <4>1 DEF IsLoop
    <3> QED BY <3>3, <3>4
  <2> HIDE DEF g
  <2>6. IsLoop(g, a, k, base, step)
    BY <2>4, <2>5 DEF IsLoop
  <2> QED BY <1>2, <2>3, <2>6
<1>3. b \in T
  <2> HIDE DEF T
  <2>1. a..b \subseteq T
    BY <1>1, <1>2, RangeInduction
  <2> QED BY <2>1
<1> QED BY <1>3
\* Inserting moves what is behind.
LEMMA InsertAtIs ==
    ASSUME NEW S, NEW v \in Seq(S), NEW e \in S, NEW u \in 1..Len(v) + 1
    PROVE  LET w == InsertAt(v, u, e) IN
             /\ w \in Seq(S) /\ Len(w) = Len(v) + 1
             /\ \A i \in 1..u - 1 : w[i] = v[i]
             /\ w[u] = e
             /\ \A i \in u + 1..Len(v) + 1 : w[i] = v[i - 1]
<1> DEFINE front == SubSeq(v, 1, u - 1)
           back == SubSeq(v, u, Len(v))
           w == (front \o <<e>>) \o back
<1>1. Len(v) \in Nat /\ u \in Nat /\ u - 1 \in Nat
  OBVIOUS
<1>2. /\ front \in Seq(S) /\ Len(front) = u - 1
      /\ \A i \in 1..u - 1 : front[i] = v[i]
  <2>1. u - 1 <= Len(v)
    OBVIOUS
  <2> QED BY <1>1, <2>1
<1>3. /\ back \in Seq(S) /\ Len(back) = Len(v) - (u - 1)
      /\ \A i \in 1..Len(v) - (u - 1) : back[i] = v[u + i - 1]
  <2>1. CASE u = Len(v) + 1
    BY <1>1, <2>1
  <2>2. CASE u <= Len(v)
    BY <1>1, <2>2
  <2> QED BY <2>1, <2>2
<1> HIDE DEF front, back
<1>4. front \o <<e>> \in Seq(S) /\ Len(front \o <<e>>) = u
  BY <1>1, <1>2
<1>5. w \in Seq(S) /\ Len(w) = Len(v) + 1
  <2>1. \A f, g \in Seq(S) : f \o g \in Seq(S) /\ Len(f \o g) = Len(f) + Len(g)
    OBVIOUS
  <2>2. w \in Seq(S) /\ Len(w) = Len(front \o <<e>>) + Len(back)
    BY <1>3, <1>4, <2>1
  <2>3. Len(front \o <<e>>) = u /\ Len(back) = Len(v) - (u - 1)
    BY <1>3, <1>4
  <2> HIDE DEF w
  <2>4. Len(w) = u + (Len(v) - (u - 1))
    BY <2>2, <2>3
  <2> QED BY <1>1, <2>2, <2>4
<1>6. \A i \in 1..u - 1 : w[i] = v[i]
  BY <1>1, <1>2, <1>3, <1>4
<1>7. w[u] = e
  BY <1>1, <1>2, <1>3, <1>4
<1>8. ASSUME NEW i \in u + 1..Len(v) + 1 PROVE w[i] = v[i - 1]
  <2>1. /\ i - u \in 1..Len(v) - (u - 1) /\ i \in Nat /\ i > u
        /\ i \in 1..Len(v) + 1 /\ u + (i - u) - 1 = i - 1
    BY <1>1
  <2>2. back[i - u] = v[i - 1]
    BY <1>3, <2>1
  <2>3. w[i] = back[i - u]
    BY <1>3, <1>4, <1>5, <2>1
  <2> QED BY <2>2, <2>3
<1>9. InsertAt(v, u, e) = w
  BY DEF InsertAt, front, back
<1> HIDE DEF w
<1> QED BY <1>5, <1>6, <1>7, <1>8, <1>9

\* std::upper_bound: nothing before it comes behind the item.
LEMMA UpperBoundIs ==
    ASSUME NEW S, NEW v \in Seq(S), NEW item
    PROVE  /\ UpperBound(v, item) \in 1..Len(v) + 1
           /\ \A i \in 1..UpperBound(v, item) - 1 : ~accessSpecifierCompare(item, v[i])
           /\ UpperBound(v, item) # Len(v) + 1 => accessSpecifierCompare(item, v[UpperBound(v, item)])
<1> DEFINE behind == {i \in DOMAIN v : accessSpecifierCompare(item, v[i])} \cup {Len(v) + 1}
           u == UpperBound(v, item)
<1>1. behind \in SUBSET (1..Len(v) + 1) /\ Len(v) + 1 \in behind /\ Len(v) \in Nat
  OBVIOUS
<1>2. u = Min(behind)
  BY DEF UpperBound
<1>3. u \in behind /\ \A y \in behind : u <= y
  <2> HIDE DEF behind, u
  <2> QED BY <1>1, <1>2, LeastExists
<1> HIDE DEF u
<1>4. u \in 1..Len(v) + 1
  BY <1>1, <1>3
<1>5. ASSUME NEW i \in 1..u - 1 PROVE ~accessSpecifierCompare(item, v[i])
  <2>1. i \in DOMAIN v /\ ~(u <= i)
    BY <1>1, <1>4
  <2> QED BY <1>3, <2>1
<1>6. u # Len(v) + 1 => accessSpecifierCompare(item, v[u])
  BY <1>3
<1> QED BY <1>4, <1>5, <1>6 DEF u

\* The comparison is a strict order of specifiers at different locations.
LEMMA Comparing ==
    ASSUME NEW a \in Specifier, NEW b \in Specifier, a.loc # b.loc
    PROVE  /\ accessSpecifierCompare(a, b) => Precedes(a, b)
           /\ ~accessSpecifierCompare(a, b) => Precedes(b, a)
<1>1. /\ a.loc.pos \in Nat /\ b.loc.pos \in Nat
      /\ a.loc.isMacroID \in BOOLEAN /\ b.loc.isMacroID \in BOOLEAN
      /\ a.loc = [pos |-> a.loc.pos, isMacroID |-> a.loc.isMacroID]
      /\ b.loc = [pos |-> b.loc.pos, isMacroID |-> b.loc.isMacroID]
  BY DEF Specifier, Location
<1>2. a.loc.pos = b.loc.pos => (a.loc.isMacroID <=> ~b.loc.isMacroID)
  BY <1>1
<1>3. a.loc.pos < b.loc.pos \/ a.loc.pos = b.loc.pos \/ b.loc.pos < a.loc.pos
  BY <1>1
<1>4. ~(a.loc.pos < b.loc.pos /\ b.loc.pos < a.loc.pos)
  BY <1>1
<1> QED BY <1>1, <1>2, <1>3, <1>4 DEF accessSpecifierCompare, Precedes

LEMMA PrecedesTransitive ==
    ASSUME NEW a \in Specifier, NEW b \in Specifier, NEW c \in Specifier, Precedes(a, b), Precedes(b, c)
    PROVE  Precedes(a, c)
<1>1. a.loc.pos \in Nat /\ b.loc.pos \in Nat /\ c.loc.pos \in Nat
  BY DEF Specifier, Location
<1>2. /\ a.loc.pos < b.loc.pos /\ b.loc.pos < c.loc.pos => a.loc.pos < c.loc.pos
      /\ a.loc.pos = b.loc.pos /\ b.loc.pos < c.loc.pos => a.loc.pos < c.loc.pos
      /\ a.loc.pos < b.loc.pos /\ b.loc.pos = c.loc.pos => a.loc.pos < c.loc.pos
  BY <1>1
<1> QED BY <1>2 DEF Precedes

\* A list stays sorted, and has the item afterwards.
LEMMA Inserted ==
    ASSUME NEW v \in Seq(Specifier), InOrder(v), NEW item \in Specifier,
           \A i \in DOMAIN v : v[i].loc # item.loc
    PROVE  /\ sorted_insert(v, item) \in Seq(Specifier)
           /\ InOrder(sorted_insert(v, item))
           /\ Elements(sorted_insert(v, item)) = Elements(v) \cup {item}
<1> DEFINE u == UpperBound(v, item)
           w == InsertAt(v, u, item)
           n == Len(v)
<1>1. n \in Nat /\ u \in 1..n + 1 /\ DOMAIN v = 1..n /\ \A i \in 1..n : v[i] \in Specifier
  BY UpperBoundIs
<1>2. /\ \A i \in 1..u - 1 : ~accessSpecifierCompare(item, v[i])
      /\ u # n + 1 => accessSpecifierCompare(item, v[u])
  BY UpperBoundIs
<1>3. /\ w \in Seq(Specifier) /\ Len(w) = n + 1 /\ DOMAIN w = 1..n + 1
      /\ \A i \in 1..u - 1 : w[i] = v[i]
      /\ w[u] = item
      /\ \A i \in u + 1..n + 1 : w[i] = v[i - 1]
  <2>1. u \in 1..Len(v) + 1
    BY <1>1
  <2> HIDE DEF u
  <2> QED BY <2>1, InsertAtIs
<1> HIDE DEF u, w
<1>4. ASSUME NEW i \in 1..u - 1 PROVE Precedes(v[i], item)
  <2>1. i \in 1..n
    BY <1>1
  <2>2. v[i] \in Specifier /\ item.loc # v[i].loc
    BY <1>1, <2>1
  <2> QED BY <1>2, <2>2, Comparing
<1>5. ASSUME NEW i \in u..n PROVE Precedes(item, v[i])
  <2>1. u # n + 1 /\ u \in 1..n /\ i \in 1..n /\ (i = u \/ u < i)
    BY <1>1
  <2>2. v[u] \in Specifier /\ item.loc # v[u].loc /\ v[i] \in Specifier
    BY <1>1, <2>1
  <2>3. Precedes(item, v[u])
    BY <1>2, <2>1, <2>2, Comparing
  <2>4. u < i => Precedes(v[u], v[i])
    BY <1>1, <2>1 DEF InOrder
  <2> QED BY <2>1, <2>2, <2>3, <2>4, PrecedesTransitive
<1>6. InOrder(w)
  <2> SUFFICES ASSUME NEW i \in 1..n + 1, NEW j \in 1..n + 1, i < j PROVE Precedes(w[i], w[j])
    BY <1>3 DEF InOrder
  <2>1. CASE j < u
    <3>1. i \in 1..u - 1 /\ j \in 1..u - 1 /\ i \in 1..n /\ j \in 1..n
      BY <1>1, <2>1
    <3> QED BY <1>1, <1>3, <3>1 DEF InOrder
  <2>2. CASE j = u
    <3>1. i \in 1..u - 1
      BY <1>1, <2>2
    <3> QED BY <1>3, <1>4, <2>2, <3>1
  <2>3. CASE j > u /\ i < u
    <3>1. i \in 1..u - 1 /\ j \in u + 1..n + 1 /\ i \in 1..n /\ j - 1 \in 1..n /\ i < j - 1
      BY <1>1, <2>3
    <3> QED BY <1>1, <1>3, <3>1 DEF InOrder
  <2>4. CASE j > u /\ i = u
    <3>1. j \in u + 1..n + 1 /\ j - 1 \in u..n
      BY <1>1, <2>4
    <3> QED BY <1>3, <1>5, <2>4, <3>1
  <2>5. CASE j > u /\ i > u
    <3>1. /\ i \in u + 1..n + 1 /\ j \in u + 1..n + 1
          /\ i - 1 \in 1..n /\ j - 1 \in 1..n /\ i - 1 < j - 1
      BY <1>1, <2>5
    <3> QED BY <1>1, <1>3, <3>1 DEF InOrder
  <2> QED BY <1>1, <2>1, <2>2, <2>3, <2>4, <2>5
<1>7. Elements(w) = Elements(v) \cup {item}
  <2>1. ASSUME NEW i \in 1..n + 1 PROVE w[i] \in Elements(v) \cup {item}
    <3>1. (i \in 1..u - 1 /\ i \in 1..n) \/ i = u \/ (i \in u + 1..n + 1 /\ i - 1 \in 1..n)
      BY <1>1
    <3> QED BY <1>1, <1>3, <3>1 DEF Elements
  <2>2. ASSUME NEW i \in 1..n PROVE v[i] \in Elements(w)
    <3>1. CASE i < u
      <4>1. i \in 1..u - 1 /\ i \in 1..n + 1
        BY <1>1, <3>1
      <4> QED BY <1>3, <4>1 DEF Elements
    <3>2. CASE ~(i < u)
      <4>1. i + 1 \in u + 1..n + 1 /\ i + 1 \in 1..n + 1 /\ (i + 1) - 1 = i
        BY <1>1, <3>2
      <4>2. w[i + 1] = v[i]
        BY <1>3, <4>1
      <4> QED BY <1>3, <4>1, <4>2 DEF Elements
    <3> QED BY <3>1, <3>2
  <2>3. item \in Elements(w)
    BY <1>1, <1>3 DEF Elements
  <2> QED BY <1>1, <1>3, <2>1, <2>2, <2>3 DEF Elements
<1>8. sorted_insert(v, item) = w
  BY DEF sorted_insert, w, u
<1> QED BY <1>3, <1>6, <1>7, <1>8

LEMMA InsertedType ==
    ASSUME NEW v \in Seq(Specifier), NEW item \in Specifier
    PROVE  sorted_insert(v, item) \in Seq(Specifier)
<1> DEFINE u == UpperBound(v, item)
<1>1. u \in 1..Len(v) + 1
  BY UpperBoundIs
<1> HIDE DEF u
<1>2. InsertAt(v, u, item) \in Seq(Specifier)
  BY <1>1, InsertAtIs
<1> QED BY <1>2 DEF sorted_insert, u

\* What is behind everything can be appended.
LEMMA Appended ==
    ASSUME NEW v \in Seq(Specifier), InOrder(v), NEW item \in Specifier,
           \A i \in DOMAIN v : Precedes(v[i], item)
    PROVE  /\ InOrder(Append(v, item))
           /\ Elements(Append(v, item)) = Elements(v) \cup {item}
<1> DEFINE w == Append(v, item)
           n == Len(v)
<1>1. /\ n \in Nat /\ DOMAIN v = 1..n /\ DOMAIN w = 1..n + 1 /\ w[n + 1] = item
      /\ \A i \in 1..n : w[i] = v[i]
  OBVIOUS
<1>2. \A i \in 1..n + 1 : i \in 1..n \/ i = n + 1
  BY <1>1
<1>3. 1..n \subseteq 1..n + 1 /\ n + 1 \in 1..n + 1
  BY <1>1
<1>4. \A i, j \in 1..n + 1 : i < j => i \in 1..n
  BY <1>1
<1> HIDE DEF w, n
<1>5. Elements(w) = Elements(v) \cup {item}
  BY <1>1, <1>2, <1>3 DEF Elements
<1>6. InOrder(w)
  <2> SUFFICES ASSUME NEW i \in 1..n + 1, NEW j \in 1..n + 1, i < j PROVE Precedes(w[i], w[j])
    BY <1>1 DEF InOrder
  <2>1. i \in 1..n
    BY <1>4
  <2>2. CASE j = n + 1
    BY <1>1, <2>1, <2>2
  <2>3. CASE j \in 1..n
    BY <1>1, <2>1, <2>3 DEF InOrder
  <2> QED BY <1>2, <2>2, <2>3
<1> QED BY <1>5, <1>6 DEF w

LEMMA Irreflexive ==
    ASSUME NEW a \in Specifier, NEW b \in Specifier, Precedes(a, b)
    PROVE  a.loc # b.loc
<1>1. a.loc.pos \in Nat /\ b.loc.pos \in Nat
  BY DEF Specifier, Location
<1>2. a.loc.pos < b.loc.pos => a.loc.pos # b.loc.pos
  BY <1>1
<1> QED BY <1>2 DEF Precedes

-----------------------------------------------------------------------------
(* The loops of VisitDeclaration.                                          *)

Lists == [specifiers : Seq(Specifier), left : Seq(Specifier)]

FetchStep(c, item, lists) ==
    IF TakenBy(c, item) THEN [lists EXCEPT !.specifiers = sorted_insert(@, item)]
    ELSE [lists EXCEPT !.left = Append(@, item)]

LEMMA FetchStepType ==
    ASSUME NEW c, NEW item \in Specifier, NEW lists \in Lists
    PROVE  FetchStep(c, item, lists) \in Lists
<1>1. lists.specifiers \in Seq(Specifier) /\ lists.left \in Seq(Specifier)
  BY DEF Lists
<1>2. sorted_insert(lists.specifiers, item) \in Seq(Specifier)
  BY <1>1, InsertedType
<1>3. Append(lists.left, item) \in Seq(Specifier)
  BY <1>1
<1> QED BY <1>2, <1>3 DEF FetchStep, Lists

\* The loop over the sections goes through all of them.
LEMMA FetchedLoop ==
    ASSUME NEW c, qtAccessSpecifiers \in Seq(Specifier)
    PROVE  \E f : /\ Fetched(c) = f[Len(qtAccessSpecifiers)]
                  /\ f[0] = [specifiers |-> << >>, left |-> << >>]
                  /\ \A n \in 1..Len(qtAccessSpecifiers) : f[n] = FetchStep(c, qtAccessSpecifiers[n], f[n - 1])
<1> DEFINE q == qtAccessSpecifiers
           N == Len(qtAccessSpecifiers)
           base == [specifiers |-> << >>, left |-> << >>]
           Is(f) == f = [n \in 0..N |-> IF n = 0 THEN base
                                        ELSE IF TakenBy(c, q[n])
                                        THEN [f[n - 1] EXCEPT !.specifiers = sorted_insert(@, q[n])]
                                        ELSE [f[n - 1] EXCEPT !.left = Append(@, q[n])]]
           loop == CHOOSE f : Is(f)
           step == [n \in 1..N |-> [x \in Lists |-> FetchStep(c, q[n], x)]]
<1>1. Fetched(c) = loop[N]
  BY DEF Fetched
<1>2. N \in Nat /\ base \in Lists /\ \A n \in 1..N : q[n] \in Specifier
  BY DEF Lists
<1>3. \A n \in 1..N : \A x \in Lists : step[n][x] = FetchStep(c, q[n], x) /\ step[n][x] \in Lists
  BY <1>2, FetchStepType
<1>4. PICK g \in [0..N -> Lists] : g[0] = base /\ \A n \in 1..N : g[n] = step[n][g[n - 1]]
  <2>1. 0 \in Nat /\ 0 <= N /\ 0 + 1 = 1
    BY <1>2
  <2>2. step \in Steps(0, N, Lists)
    BY <1>3, <2>1 DEF Steps
  <2> HIDE DEF step, base, N
  <2>3. \E g \in [0..N -> Lists] : IsLoop(g, 0, N, base, step)
    BY <1>2, <2>1, <2>2, LoopRuns
  <2> QED BY <2>1, <2>3 DEF IsLoop
<1>5. \A n \in 1..N : n - 1 \in 0..N /\ n \in 0..N /\ n # 0
  BY <1>2
<1>6. \A n \in 1..N : g[n] = FetchStep(c, q[n], g[n - 1])
  <2> TAKE n \in 1..N
  <2>1. g[n - 1] \in Lists
    BY <1>4, <1>5
  <2> QED BY <1>3, <1>4, <2>1
<1>7. Is(g)
  <2>1. ASSUME NEW n \in 0..N, n # 0
        PROVE  g[n] = IF TakenBy(c, q[n]) THEN [g[n - 1] EXCEPT !.specifiers = sorted_insert(@, q[n])]
                      ELSE [g[n - 1] EXCEPT !.left = Append(@, q[n])]
    <3>1. n \in 1..N
      BY <1>2, <2>1
    <3> QED BY <1>6, <3>1 DEF FetchStep
  <2>2. g = [n \in 0..N |-> g[n]]
    BY <1>4
  <2> HIDE DEF q, N, base
  <2> QED BY <1>4, <2>1, <2>2
<1>8. Is(loop)
  <2> HIDE DEF Is
  <2> QED BY <1>7
<1> HIDE DEF loop, q, base, N
<1>9. loop[0] = base
  BY <1>2, <1>8
<1>10. \A n \in 1..N : loop[n] = FetchStep(c, q[n], loop[n - 1])
  BY <1>5, <1>8 DEF FetchStep
<1> QED BY <1>1, <1>9, <1>10 DEF N, q, base

\* Those of the class are sorted into its list, and the others keep their order.
LEMMA FetchedIs ==
    ASSUME NEW c, qtAccessSpecifiers \in Seq(Specifier), InOrder(qtAccessSpecifiers)
    PROVE  /\ Fetched(c) \in Lists
           /\ InOrder(Fetched(c).specifiers) /\ InOrder(Fetched(c).left)
           /\ Elements(Fetched(c).specifiers) = {s \in Elements(qtAccessSpecifiers) : TakenBy(c, s)}
           /\ Elements(Fetched(c).left) = {s \in Elements(qtAccessSpecifiers) : ~TakenBy(c, s)}
<1> DEFINE q == qtAccessSpecifiers
           N == Len(qtAccessSpecifiers)
<1>1. PICK f : /\ Fetched(c) = f[N]
               /\ f[0] = [specifiers |-> << >>, left |-> << >>]
               /\ \A n \in 1..N : f[n] = FetchStep(c, q[n], f[n - 1])
  BY FetchedLoop
<1>2. N \in Nat /\ DOMAIN q = 1..N /\ \A n \in 1..N : q[n] \in Specifier
  OBVIOUS
<1>3. \A i, j \in 1..N : i < j => Precedes(q[i], q[j])
  BY <1>2 DEF InOrder
<1> DEFINE Taken(k) == {q[i] : i \in {j \in 1..k : TakenBy(c, q[j])}}
           Others(k) == {q[i] : i \in {j \in 1..k : ~TakenBy(c, q[j])}}
           Good(k) == /\ f[k] \in Lists
                      /\ InOrder(f[k].specifiers) /\ InOrder(f[k].left)
                      /\ Elements(f[k].specifiers) = Taken(k)
                      /\ Elements(f[k].left) = Others(k)
           T == {k \in 0..N : Good(k)}
<1> HIDE DEF q, N
<1>4. 0 \in T
  <2>1. f[0].specifiers = << >> /\ f[0].left = << >> /\ f[0] \in Lists
    BY <1>1 DEF Lists
  <2>2. DOMAIN << >> = {} /\ 1..0 = {}
    OBVIOUS
  <2>3. InOrder(<< >>) /\ Elements(<< >>) = {}
    BY <2>2 DEF InOrder, Elements
  <2>4. Taken(0) = {} /\ Others(0) = {}
    BY <2>2
  <2> QED BY <1>2, <2>1, <2>3, <2>4
<1>5. ASSUME NEW k \in 0 + 1..N, k - 1 \in T PROVE k \in T
  <2>1. k \in 1..N /\ k - 1 \in 0..N /\ k \in 0..N
    BY <1>2
  <2>2. Good(k - 1) /\ q[k] \in Specifier /\ f[k] = FetchStep(c, q[k], f[k - 1])
    BY <1>1, <1>2, <1>5, <2>1
  <2>3. \A i \in 1..k : i = k \/ i \in 1..k - 1
    BY <2>1
  <2>4. \A i \in 1..k - 1 : i \in 1..k /\ i \in 1..N /\ i < k
    BY <1>2, <2>1
  <2>5. k \in 1..k
    BY <2>1
  <2>6. \A s \in Taken(k - 1) \cup Others(k - 1) : Precedes(s, q[k])
    BY <1>3, <2>1, <2>4
  <2> DEFINE sp == f[k - 1].specifiers
             lf == f[k - 1].left
  <2>7. /\ sp \in Seq(Specifier) /\ lf \in Seq(Specifier)
        /\ InOrder(sp) /\ InOrder(lf)
        /\ Elements(sp) = Taken(k - 1) /\ Elements(lf) = Others(k - 1)
    BY <2>2 DEF Lists
  <2>8. f[k] \in Lists
    BY <2>2, FetchStepType
  <2>9. CASE TakenBy(c, q[k])
    <3>1. Taken(k) = Taken(k - 1) \cup {q[k]} /\ Others(k) = Others(k - 1)
      BY <2>3, <2>4, <2>5, <2>9
    <3>2. f[k].specifiers = sorted_insert(sp, q[k]) /\ f[k].left = lf
      BY <2>2, <2>9 DEF FetchStep, Lists
    <3> HIDE DEF sp, lf, Taken, Others
    <3>3. \A i \in DOMAIN sp : sp[i] \in Specifier /\ Precedes(sp[i], q[k])
      BY <2>6, <2>7 DEF Elements
    <3>4. \A i \in DOMAIN sp : sp[i].loc # q[k].loc
      BY <2>2, <3>3, Irreflexive
    <3>5. InOrder(sorted_insert(sp, q[k])) /\ Elements(sorted_insert(sp, q[k])) = Elements(sp) \cup {q[k]}
      BY <2>2, <2>7, <3>4, Inserted
    <3> QED BY <2>1, <2>7, <2>8, <3>1, <3>2, <3>5
  <2>10. CASE ~TakenBy(c, q[k])
    <3>1. Taken(k) = Taken(k - 1) /\ Others(k) = Others(k - 1) \cup {q[k]}
      BY <2>3, <2>4, <2>5, <2>10
    <3>2. f[k].specifiers = sp /\ f[k].left = Append(lf, q[k])
      BY <2>2, <2>10 DEF FetchStep, Lists
    <3> HIDE DEF sp, lf, Taken, Others
    <3>3. \A i \in DOMAIN lf : Precedes(lf[i], q[k])
      BY <2>6, <2>7 DEF Elements
    <3>4. InOrder(Append(lf, q[k])) /\ Elements(Append(lf, q[k])) = Elements(lf) \cup {q[k]}
      BY <2>2, <2>7, <3>3, Appended
    <3> QED BY <2>1, <2>7, <2>8, <3>1, <3>2, <3>4
  <2> QED BY <2>9, <2>10
<1>6. Good(N)
  <2> HIDE DEF T
  <2>1. 0..N \subseteq T
    BY <1>2, <1>4, <1>5, RangeInduction
  <2>2. N \in 0..N
    BY <1>2
  <2> QED BY <2>1, <2>2 DEF T
<1>7. /\ Taken(N) = {s \in Elements(q) : TakenBy(c, s)}
      /\ Others(N) = {s \in Elements(q) : ~TakenBy(c, s)}
  BY <1>2 DEF Elements
<1> HIDE DEF Taken, Others
<1> QED BY <1>1, <1>6, <1>7 DEF q

MergeStep(c, p, list) ==
    IF p \in Members(c) /\ At(p) \in SpecifierTokens THEN sorted_insert(list, AccessSpecDecl(p)) ELSE list

LEMMA AccessSpecDeclType ==
    ASSUME NEW p \in Nat
    PROVE  AccessSpecDecl(p) \in Specifier
BY DEF AccessSpecDecl, Specifier, Location, FileLoc, MacroLoc

LEMMA MergeStepType ==
    ASSUME NEW c, NEW p \in Nat, NEW list \in Seq(Specifier)
    PROVE  MergeStep(c, p, list) \in Seq(Specifier)
<1>1. sorted_insert(list, AccessSpecDecl(p)) \in Seq(Specifier)
  BY AccessSpecDeclType, InsertedType
<1> QED BY <1>1 DEF MergeStep

\* The loop over the declarations of a class goes through all of them.
LEMMA MergedLoop ==
    ASSUME NEW c \in Nat, Len(source) \in Nat, c <= Len(source), Fetched(c).specifiers \in Seq(Specifier)
    PROVE  \E f : /\ Merged(c) = f[Len(source)]
                  /\ f[c] = Fetched(c).specifiers
                  /\ \A p \in c + 1..Len(source) : f[p] = MergeStep(c, p, f[p - 1])
<1> DEFINE N == Len(source)
           base == Fetched(c).specifiers
           Is(f) == f = [p \in c..N |-> IF p = c THEN base
                                        ELSE IF p \in Members(c) /\ At(p) \in SpecifierTokens
                                        THEN sorted_insert(f[p - 1], AccessSpecDecl(p))
                                        ELSE f[p - 1]]
           added == CHOOSE f : Is(f)
           S == Seq(Specifier)
           step == [p \in c + 1..N |-> [x \in S |-> MergeStep(c, p, x)]]
<1>1. Merged(c) = added[N]
  BY DEF Merged
<1>2. N \in Nat /\ c <= N /\ base \in S
  OBVIOUS
<1>3. \A p \in c + 1..N : p - 1 \in c..N /\ p \in c..N /\ p # c /\ p \in Nat
  BY <1>2
<1>4. \A p \in c + 1..N : \A x \in S : step[p][x] = MergeStep(c, p, x) /\ step[p][x] \in S
  <2> HIDE DEF N
  <2> QED BY <1>3, MergeStepType
<1>5. PICK g \in [c..N -> S] : g[c] = base /\ \A p \in c + 1..N : g[p] = step[p][g[p - 1]]
  <2>1. step \in Steps(c, N, S)
    BY <1>4 DEF Steps
  <2> HIDE DEF step, base, N, S
  <2>2. \E g \in [c..N -> S] : IsLoop(g, c, N, base, step)
    BY <1>2, <2>1, LoopRuns
  <2> QED BY <2>2 DEF IsLoop
<1>6. \A p \in c + 1..N : g[p] = MergeStep(c, p, g[p - 1])
  <2> TAKE p \in c + 1..N
  <2>1. g[p - 1] \in S
    BY <1>3, <1>5
  <2> HIDE DEF S
  <2> QED BY <1>4, <1>5, <2>1
<1>7. Is(g)
  <2>1. ASSUME NEW p \in c..N, p # c
        PROVE  g[p] = IF p \in Members(c) /\ At(p) \in SpecifierTokens
                      THEN sorted_insert(g[p - 1], AccessSpecDecl(p)) ELSE g[p - 1]
    <3>1. p \in c + 1..N
      BY <1>2, <2>1
    <3> QED BY <1>6, <3>1 DEF MergeStep
  <2>2. g = [p \in c..N |-> g[p]]
    BY <1>5
  <2> HIDE DEF N, base
  <2> QED BY <1>5, <2>1, <2>2
<1>8. Is(added)
  <2> HIDE DEF Is
  <2> QED BY <1>7
<1> HIDE DEF added, base, N
<1>9. added[c] = base
  <2>1. c \in c..N
    BY <1>2
  <2> QED BY <1>8, <2>1
<1>10. \A p \in c + 1..N : added[p] = MergeStep(c, p, added[p - 1])
  BY <1>3, <1>8 DEF MergeStep
<1> QED BY <1>1, <1>9, <1>10 DEF N, base

\* The list of a class, when it is visited: sorted, with its own access
\* specifiers and the sections that were left.
LEMMA MergedIs ==
    ASSUME TypeOK, SectionsAreLeft, NEW c \in Classes
    PROVE  /\ Merged(c) \in Seq(Specifier)
           /\ InOrder(Merged(c))
           /\ Elements(Merged(c)) = OwnSpecifiers(c) \cup {s \in Elements(qtAccessSpecifiers) : TakenBy(c, s)}
<1> DEFINE N == Len(source)
           F == {s \in Elements(qtAccessSpecifiers) : TakenBy(c, s)}
<1>1. /\ N \in Nat /\ Positions = 1..N /\ c \in 1..N
      /\ qtAccessSpecifiers \in Seq(Specifier) /\ InOrder(qtAccessSpecifiers)
  <2>1. source \in Seq(Tokens)
    BY SourcesAssumption DEF TypeOK
  <2> QED BY <2>1 DEF TypeOK, Positions, Classes, SectionsAreLeft
<1>2. /\ Fetched(c).specifiers \in Seq(Specifier) /\ InOrder(Fetched(c).specifiers)
      /\ Elements(Fetched(c).specifiers) = F
  BY <1>1, FetchedIs DEF Lists
<1>3. PICK f : /\ Merged(c) = f[N] /\ f[c] = Fetched(c).specifiers
               /\ \A p \in c + 1..N : f[p] = MergeStep(c, p, f[p - 1])
  BY <1>1, <1>2, MergedLoop
<1>4. \A s \in F : \E p \in Positions : At(p) \in QtTokens /\ s.loc = FileLoc(p)
  BY DEF SectionsAreLeft, Heard, Section
<1>5. \A p \in Members(c) : p \in c + 1..N
  <2> SUFFICES ASSUME NEW p \in Members(c) PROVE p \in c + 1..N
    OBVIOUS
  <2>1. p \in 1..N /\ c < p
    BY <1>1 DEF Members, Encloses
  <2> QED BY <1>1, <2>1
<1> DEFINE Own(k) == {p \in Members(c) : p <= k /\ At(p) \in SpecifierTokens}
           Good(k) == /\ f[k] \in Seq(Specifier) /\ InOrder(f[k])
                      /\ Elements(f[k]) = F \cup {AccessSpecDecl(p) : p \in Own(k)}
           T == {k \in c..N : Good(k)}
<1> HIDE DEF N, F
<1>6. c \in T
  <2>1. Own(c) = {}
    BY <1>1, <1>5
  <2>2. c \in c..N
    BY <1>1
  <2> QED BY <1>2, <1>3, <2>1, <2>2
<1>7. ASSUME NEW k \in c + 1..N, k - 1 \in T PROVE k \in T
  <2>1. k \in c..N /\ k \in Nat /\ k \in 1..N
    BY <1>1
  <2>2. Good(k - 1) /\ f[k] = MergeStep(c, k, f[k - 1])
    BY <1>3, <1>7
  <2>3. \A p \in c + 1..N : p <= k <=> p = k \/ p <= k - 1
    BY <1>1
  <2>4. CASE k \in Members(c) /\ At(k) \in SpecifierTokens
    <3> DEFINE item == AccessSpecDecl(k)
    <3>1. Own(k) = Own(k - 1) \cup {k}
      BY <1>5, <2>3, <2>4
    <3>2. item \in Specifier
      BY <2>1, AccessSpecDeclType
    <3>3. \A s \in F : s.loc # item.loc
      <4> SUFFICES ASSUME NEW s \in F PROVE s.loc # item.loc
        OBVIOUS
      <4>1. PICK p \in Positions : At(p) \in QtTokens /\ s.loc = FileLoc(p)
        BY <1>4
      <4> QED BY <2>4, <4>1 DEF AccessSpecDecl, FileLoc, MacroLoc, QtTokens, SpecifierTokens
    <3>4. \A p \in Own(k - 1) : AccessSpecDecl(p).loc # item.loc
      <4>1. \A p \in Own(k - 1) : p # k
        BY <2>1, <1>5
      <4> QED BY <4>1 DEF AccessSpecDecl, FileLoc, MacroLoc
    <3> HIDE DEF item, Own
    <3>5. \A i \in DOMAIN f[k - 1] : f[k - 1][i].loc # item.loc
      <4> SUFFICES ASSUME NEW i \in DOMAIN f[k - 1] PROVE f[k - 1][i].loc # item.loc
        OBVIOUS
      <4>1. f[k - 1][i] \in F \cup {AccessSpecDecl(p) : p \in Own(k - 1)}
        BY <2>2 DEF Elements
      <4> QED BY <3>3, <3>4, <4>1
    <3>6. f[k] = sorted_insert(f[k - 1], item)
      BY <2>2, <2>4 DEF MergeStep, item
    <3>7. /\ f[k] \in Seq(Specifier) /\ InOrder(f[k])
          /\ Elements(f[k]) = Elements(f[k - 1]) \cup {item}
      BY <2>2, <3>2, <3>5, <3>6, Inserted
    <3>8. Elements(f[k]) = F \cup {AccessSpecDecl(p) : p \in Own(k)}
      BY <2>2, <3>1, <3>7 DEF item
    <3> QED BY <2>1, <3>7, <3>8
  <2>5. CASE ~(k \in Members(c) /\ At(k) \in SpecifierTokens)
    <3>1. Own(k) = Own(k - 1)
      BY <1>5, <2>3, <2>5
    <3>2. f[k] = f[k - 1]
      BY <2>2, <2>5 DEF MergeStep
    <3> HIDE DEF Own
    <3> QED BY <2>1, <2>2, <3>1, <3>2
  <2> QED BY <2>4, <2>5
<1>8. Good(N)
  <2> HIDE DEF T
  <2>0. c \in Nat /\ N \in Nat
    BY <1>1
  <2>1. c..N \subseteq T
    BY <2>0, <1>6, <1>7, RangeInduction
  <2>2. N \in c..N
    BY <1>1
  <2> QED BY <2>1, <2>2 DEF T
<1>9. Own(N) = {p \in Members(c) : At(p) \in SpecifierTokens}
  BY <1>1, <1>5
<1> HIDE DEF Own
<1> QED BY <1>3, <1>8, <1>9 DEF F, OwnSpecifiers

-----------------------------------------------------------------------------
(* The steps.                                                              *)

LEMMA FileType ==
    ASSUME TypeOK
    PROVE  /\ source \in Seq(Tokens) /\ Len(source) \in Nat /\ Positions = 1..Len(source)
           /\ next \in Nat /\ \A p \in Positions : p \in Nat
<1>1. source \in Seq(Tokens)
  BY SourcesAssumption DEF TypeOK
<1> QED BY <1>1 DEF TypeOK, Positions

\* The file stays, and what is read off it.
LEMMA SameFile ==
    ASSUME source' = source
    PROVE  /\ Positions' = Positions /\ Classes' = Classes
           /\ \A p : At(p)' = At(p) /\ Section(p)' = Section(p)
           /\ \A c, p : Encloses(c, p)' <=> Encloses(c, p)
           /\ \A c : OwnSpecifiers(c)' = OwnSpecifiers(c)
<1>1. Positions' = Positions /\ Classes' = Classes /\ \A p : At(p)' = At(p) /\ Section(p)' = Section(p)
  BY DEF Positions, Classes, At, Section
<1>2. \A c : EndOf(c)' = EndOf(c)
  BY <1>1 DEF EndOf
<1>3. \A c, p : Encloses(c, p)' <=> Encloses(c, p)
  BY <1>2 DEF Encloses
<1>4. \A p : Parent(p)' = Parent(p)
  BY <1>1, <1>2 DEF Parent, Encloses
<1>5. \A c : Members(c)' = Members(c)
  BY <1>1, <1>2, <1>4 DEF Members, Encloses
<1>6. \A p : AccessSpecDecl(p)' = AccessSpecDecl(p)
  BY DEF AccessSpecDecl, At
<1>7. \A c : OwnSpecifiers(c)' = OwnSpecifiers(c)
  BY <1>1, <1>5, <1>6 DEF OwnSpecifiers
<1> QED BY <1>1, <1>3, <1>7

LEMMA SectionType ==
    ASSUME NEW p \in Nat
    PROVE  Section(p) \in Specifier /\ Section(p).loc = FileLoc(p) /\ Section(p).loc.pos = p
BY DEF Section, Specifier, Location, FileLoc, QtSection

\* While the preprocessor is at work no class has been visited.
LEMMA NothingVisited ==
    ASSUME OnlyParsedAreVisited, ~parsed
    PROVE  Visited = {}
BY DEF OnlyParsedAreVisited

LEMMA InitStep ==
    ASSUME Init
    PROVE  IInv
<1>1. source \in Seq(Tokens)
  BY SourcesAssumption DEF Init
<1>2. Heard = {}
  BY <1>1 DEF Init, Heard, Positions
<1>3. DOMAIN << >> = {}
  OBVIOUS
<1>4. Visited = {}
  BY <1>3 DEF Init, Visited
<1>5. InOrder(<< >>) /\ Elements(<< >>) = {} /\ << >> \in Seq(Specifier)
  BY <1>3 DEF InOrder, Elements
<1>6. TypeOK
  <2>1. next \in 1..Len(source) + 1
    BY <1>1 DEF Init
  <2> QED BY <1>4, <1>5, <2>1 DEF Init, TypeOK
<1>7. MarksAreHeard
  BY <1>2 DEF Init, MarksAreHeard
<1>8. SectionsAreLeft
  BY <1>2, <1>5 DEF Init, SectionsAreLeft
<1> QED BY <1>4, <1>6, <1>7, <1>8 DEF IInv, OnlyParsedAreVisited, ClassesAreSorted

LEMMA MacroExpandsStep ==
    ASSUME IInv, MacroExpands
    PROVE  IInv'
<1>1. /\ TypeOK /\ MarksAreHeard /\ SectionsAreLeft /\ Visited = {} /\ parsed = FALSE
      /\ next \in Positions /\ next' = next + 1 /\ parsed' = FALSE
      /\ source' = source /\ visitsNonQObjects' = visitsNonQObjects
      /\ specifiersMap' = specifiersMap /\ Visited' = {}
  <2>1. parsed = FALSE /\ Visited = {}
    BY NothingVisited DEF IInv, MacroExpands, TypeOK
  <2> QED BY <2>1 DEF IInv, MacroExpands, Visited
<1>2. Positions = 1..Len(source) /\ Len(source) \in Nat /\ next \in Nat
  BY <1>1, FileType
<1>3. Positions' = Positions /\ \A p : At(p)' = At(p) /\ Section(p)' = Section(p)
  BY <1>1, SameFile
<1>4. Heard' = Heard \cup {next} /\ next \notin Heard /\ \A p \in Heard : p \in Nat /\ p < next
  BY <1>1, <1>2, <1>3 DEF Heard
<1>5. MarksAreHeard' /\ marked' \in [MarkTokens -> SUBSET Nat]
  <2>1. marked \in [MarkTokens -> SUBSET Nat]
    BY <1>1 DEF TypeOK
  <2>2. CASE At(next) \notin MarkTokens
    <3>1. marked' = marked
      BY <2>2 DEF MacroExpands
    <3> QED BY <1>1, <1>3, <1>4, <2>1, <2>2, <3>1 DEF MarksAreHeard
  <2>3. CASE At(next) \in MarkTokens
    <3>1. marked' = [marked EXCEPT ![At(next)] = @ \cup {next + 1}]
      BY <2>3 DEF MacroExpands, locForNextToken
    <3>2. marked' \in [MarkTokens -> SUBSET Nat]
      <4>1. next + 1 \in Nat
        BY <1>2
      <4>2. \A k, n : n \in Nat => [marked EXCEPT ![k] = @ \cup {n}] \in [MarkTokens -> SUBSET Nat]
        BY <2>1
      <4> QED BY <3>1, <4>1, <4>2
    <3>3. ASSUME NEW mark \in MarkTokens
          PROVE  marked'[mark] = {p + 1 : p \in {q \in Heard' : At(q)' = mark}}
      <4>1. marked[mark] = {p + 1 : p \in {q \in Heard : At(q) = mark}}
        BY <1>1 DEF MarksAreHeard
      <4>2. CASE mark = At(next)
        <5>1. marked'[mark] = marked[mark] \cup {next + 1}
          BY <2>1, <3>1, <4>2
        <5>2. {q \in Heard' : At(q)' = mark} = {q \in Heard : At(q) = mark} \cup {next}
          BY <1>3, <1>4, <4>2
        <5> QED BY <4>1, <5>1, <5>2
      <4>3. CASE mark # At(next)
        <5>1. marked'[mark] = marked[mark]
          BY <2>1, <3>1, <4>3
        <5>2. {q \in Heard' : At(q)' = mark} = {q \in Heard : At(q) = mark}
          BY <1>3, <1>4, <4>3
        <5> QED BY <4>1, <5>1, <5>2
      <4> QED BY <4>2, <4>3
    <3> QED BY <3>2, <3>3 DEF MarksAreHeard
  <2> QED BY <2>2, <2>3
<1>6. SectionsAreLeft' /\ qtAccessSpecifiers' \in Seq(Specifier)
  <2>1. /\ qtAccessSpecifiers \in Seq(Specifier) /\ InOrder(qtAccessSpecifiers)
        /\ Elements(qtAccessSpecifiers) = {Section(p) : p \in {q \in Heard : At(q) \in QtTokens}}
    BY <1>1 DEF TypeOK, SectionsAreLeft
  <2>2. CASE At(next) \notin QtTokens
    <3>1. qtAccessSpecifiers' = qtAccessSpecifiers
      BY <2>2 DEF MacroExpands
    <3>2. {q \in Heard' : At(q)' \in QtTokens} = {q \in Heard : At(q) \in QtTokens}
      BY <1>3, <1>4, <2>2
    <3> QED BY <1>1, <1>3, <2>1, <3>1, <3>2 DEF SectionsAreLeft
  <2>3. CASE At(next) \in QtTokens
    <3>1. qtAccessSpecifiers' = Append(qtAccessSpecifiers, Section(next))
      BY <2>3 DEF MacroExpands, Pushed, FileLoc, MacroLoc, Section
    <3>2. Section(next) \in Specifier
      BY <1>2, SectionType
    <3>3. \A i \in DOMAIN qtAccessSpecifiers : Precedes(qtAccessSpecifiers[i], Section(next))
      <4> SUFFICES ASSUME NEW i \in DOMAIN qtAccessSpecifiers
                   PROVE  Precedes(qtAccessSpecifiers[i], Section(next))
        OBVIOUS
      <4>1. qtAccessSpecifiers[i] \in Elements(qtAccessSpecifiers)
        BY DEF Elements
      <4>2. PICK p \in Heard : qtAccessSpecifiers[i] = Section(p)
        BY <2>1, <4>1
      <4> QED BY <1>2, <1>4, <4>2, SectionType DEF Precedes
    <3>4. /\ InOrder(qtAccessSpecifiers')
          /\ Elements(qtAccessSpecifiers') = Elements(qtAccessSpecifiers) \cup {Section(next)}
      BY <2>1, <3>1, <3>2, <3>3, Appended
    <3>5. {q \in Heard' : At(q)' \in QtTokens} = {q \in Heard : At(q) \in QtTokens} \cup {next}
      BY <1>3, <1>4, <2>3
    <3>6. Elements(qtAccessSpecifiers') = {Section(p)' : p \in {q \in Heard' : At(q)' \in QtTokens}}
      BY <1>3, <2>1, <3>4, <3>5
    <3>7. InOrder(qtAccessSpecifiers)' /\ Elements(qtAccessSpecifiers)' = Elements(qtAccessSpecifiers')
      BY <3>4 DEF InOrder, Elements
    <3> QED BY <1>1, <2>1, <3>1, <3>2, <3>6, <3>7 DEF SectionsAreLeft
  <2> QED BY <2>2, <2>3
<1>7. TypeOK'
  <2>1. next' \in 1..Len(source) + 1
    BY <1>1, <1>2
  <2> QED BY <1>1, <1>5, <1>6, <2>1 DEF TypeOK
<1> QED BY <1>1, <1>5, <1>6, <1>7 DEF IInv, OnlyParsedAreVisited, ClassesAreSorted

LEMMA EndOfFileStep ==
    ASSUME IInv, EndOfFile
    PROVE  IInv'
<1>1. /\ TypeOK /\ MarksAreHeard /\ SectionsAreLeft /\ Visited = {}
      /\ next \notin Positions /\ next' = 1 /\ parsed' = TRUE
      /\ source' = source /\ visitsNonQObjects' = visitsNonQObjects /\ marked' = marked
      /\ qtAccessSpecifiers' = qtAccessSpecifiers
      /\ specifiersMap' = specifiersMap /\ Visited' = {}
  <2>1. Visited = {}
    BY NothingVisited DEF IInv, EndOfFile
  <2> QED BY <2>1 DEF IInv, EndOfFile, Visited
<1>2. Positions = 1..Len(source) /\ Len(source) \in Nat /\ next \in 1..Len(source) + 1
  BY <1>1, FileType DEF TypeOK
<1>3. Positions' = Positions /\ \A p : At(p)' = At(p) /\ Section(p)' = Section(p)
  BY <1>1, SameFile
<1>4. Heard' = Positions /\ Heard = Positions
  BY <1>1, <1>2, <1>3 DEF Heard
<1>5. MarksAreHeard'
  BY <1>1, <1>3, <1>4 DEF MarksAreHeard
<1>6. SectionsAreLeft'
  BY <1>1, <1>3, <1>4 DEF SectionsAreLeft
<1>7. TypeOK'
  <2>1. next' \in 1..Len(source) + 1
    BY <1>1, <1>2
  <2> QED BY <1>1, <2>1 DEF TypeOK
<1> QED BY <1>1, <1>5, <1>6, <1>7 DEF IInv, OnlyParsedAreVisited, ClassesAreSorted

LEMMA VisitDeclarationStep ==
    ASSUME IInv, VisitDeclaration
    PROVE  IInv'
<1>1. /\ TypeOK /\ MarksAreHeard /\ OnlyParsedAreVisited /\ SectionsAreLeft /\ ClassesAreSorted
      /\ parsed = TRUE /\ parsed' = TRUE /\ next \in Positions /\ next' = next + 1
      /\ source' = source /\ visitsNonQObjects' = visitsNonQObjects /\ marked' = marked
  BY DEF IInv, VisitDeclaration, TypeOK
<1>2. Positions = 1..Len(source) /\ Len(source) \in Nat /\ next \in 1..Len(source)
  BY <1>1, FileType
<1>3. /\ Positions' = Positions /\ Classes' = Classes
      /\ \A p : At(p)' = At(p) /\ Section(p)' = Section(p)
      /\ \A c, p : Encloses(c, p)' <=> Encloses(c, p)
      /\ \A c : OwnSpecifiers(c)' = OwnSpecifiers(c)
  BY <1>1, SameFile
<1>4. Heard' = Positions /\ Heard = Positions
  BY <1>1, <1>3 DEF Heard
<1>5. MarksAreHeard'
  BY <1>1, <1>3, <1>4 DEF MarksAreHeard
<1>6. next' \in 1..Len(source') + 1 /\ next < next'
  BY <1>1, <1>2
<1>7. \A c \in Visited : c \in Nat /\ c < next
  BY <1>1, <1>2, FileType DEF TypeOK, Classes, OnlyParsedAreVisited
<1>8. \A c \in Visited \cup {next} : parsed' /\ c < next'
  BY <1>1, <1>2, <1>7
<1>9. CASE ~(next \in Classes /\ Visits(next))
  <2>1. /\ specifiersMap' = specifiersMap /\ qtAccessSpecifiers' = qtAccessSpecifiers
        /\ Visited' = Visited
    BY <1>9 DEF VisitDeclaration, Visited
  <2>2. TypeOK'
    BY <1>1, <1>3, <1>6, <2>1 DEF TypeOK
  <2>3. OnlyParsedAreVisited'
    BY <1>8, <2>1 DEF OnlyParsedAreVisited
  <2>4. SectionsAreLeft'
    BY <1>1, <1>3, <1>4, <2>1 DEF SectionsAreLeft
  <2>5. \A c : TakenSections(c)' = TakenSections(c)
    BY <1>3, <2>1 DEF TakenSections
  <2>6. ClassesAreSorted'
    BY <1>1, <1>3, <2>1, <2>5 DEF ClassesAreSorted
  <2> QED BY <1>5, <2>2, <2>3, <2>4, <2>6 DEF IInv
<1>10. CASE next \in Classes /\ Visits(next)
  <2> DEFINE left == Fetched(next).left
             list == Merged(next)
             new == [c \in Visited \cup {next} |-> IF c = next THEN list ELSE specifiersMap[c]]
  <2>1. specifiersMap' = new /\ qtAccessSpecifiers' = left
    BY <1>10 DEF VisitDeclaration
  <2>2. /\ qtAccessSpecifiers \in Seq(Specifier) /\ InOrder(qtAccessSpecifiers)
        /\ Elements(qtAccessSpecifiers) =
             {Section(p) : p \in {q \in Positions : At(q) \in QtTokens /\ \A c \in Visited : ~Encloses(c, q)}}
    BY <1>1, <1>4 DEF TypeOK, SectionsAreLeft
  <2>3. /\ left \in Seq(Specifier) /\ InOrder(left)
        /\ Elements(left) = {s \in Elements(qtAccessSpecifiers) : ~TakenBy(next, s)}
    BY <2>2, FetchedIs DEF Lists
  <2>4. /\ list \in Seq(Specifier) /\ InOrder(list)
        /\ Elements(list) = OwnSpecifiers(next) \cup {s \in Elements(qtAccessSpecifiers) : TakenBy(next, s)}
    BY <1>1, <1>10, MergedIs
  <2> HIDE DEF left, list
  <2>5. /\ Visited' = Visited \cup {next} /\ specifiersMap'[next] = list
        /\ \A c \in Visited : specifiersMap'[c] = specifiersMap[c]
    BY <1>7, <2>1 DEF Visited
  <2>6. \A p \in Positions : TakenBy(next, Section(p)) <=> Encloses(next, p)
    BY <1>2, FileType, <1>1, SectionType DEF TakenBy
  <2>7. TypeOK'
    <3>1. Visited' \subseteq Classes' /\ \A c \in Visited' : specifiersMap'[c] \in Seq(Specifier)
      BY <1>1, <1>3, <1>10, <2>4, <2>5 DEF TypeOK
    <3> QED BY <1>1, <1>6, <2>1, <2>3, <3>1 DEF TypeOK
  <2>8. OnlyParsedAreVisited'
    BY <1>8, <2>5 DEF OnlyParsedAreVisited
  <2>9. SectionsAreLeft'
    <3>1. Elements(left) =
            {Section(p) : p \in {q \in Positions : /\ At(q) \in QtTokens
                                                   /\ \A c \in Visited \cup {next} : ~Encloses(c, q)}}
      BY <2>2, <2>3, <2>6
    <3>2. InOrder(qtAccessSpecifiers)' /\ Elements(qtAccessSpecifiers)' = Elements(left)
      BY <2>1, <2>3 DEF InOrder, Elements
    <3> QED BY <1>3, <1>4, <2>5, <3>1, <3>2 DEF SectionsAreLeft
  <2>10. ClassesAreSorted'
    <3>1. ASSUME NEW c \in Visited
          PROVE  /\ InOrder(specifiersMap'[c])
                 /\ Elements(specifiersMap'[c]) = OwnSpecifiers(c)' \cup TakenSections(c)'
      <4>1. \A d \in Visited' : d < c => d \in Visited
        BY <1>2, <1>7, <2>5
      <4>2. TakenSections(c)' = TakenSections(c)
        BY <1>3, <2>5, <4>1 DEF TakenSections
      <4> QED BY <1>1, <1>3, <2>5, <4>2 DEF ClassesAreSorted
    <3>2. ASSUME NEW c, c = next
          PROVE  /\ InOrder(specifiersMap'[c])
                 /\ Elements(specifiersMap'[c]) = OwnSpecifiers(c)' \cup TakenSections(c)'
      <4>1. \A d \in Visited' : d < c <=> d \in Visited
        BY <1>2, <1>7, <2>5, <3>2
      <4>2. \A d \in Visited : d \in Visited'
        BY <2>5
      <4>3. TakenSections(c)' =
              {Section(p) : p \in {q \in Positions : /\ At(q) \in QtTokens /\ Encloses(c, q)
                                                     /\ \A d \in Visited : ~Encloses(d, q)}}
        BY <1>3, <4>1, <4>2 DEF TakenSections
      <4>4. TakenSections(c)' = {s \in Elements(qtAccessSpecifiers) : TakenBy(c, s)}
        BY <2>2, <2>6, <3>2, <4>3
      <4>5. OwnSpecifiers(c)' = OwnSpecifiers(c)
        BY <1>3
      <4>6. list = Merged(c) /\ specifiersMap'[c] = list
        BY <2>5, <3>2 DEF list
      <4> QED BY <2>4, <3>2, <4>4, <4>5, <4>6
    <3>3. \A c \in Visited' : /\ InOrder(specifiersMap'[c])
                              /\ Elements(specifiersMap'[c]) = OwnSpecifiers(c)' \cup TakenSections(c)'
      BY <2>5, <3>1, <3>2
    <3> QED BY <3>3 DEF ClassesAreSorted, InOrder, Elements
  <2> QED BY <1>5, <2>7, <2>8, <2>9, <2>10 DEF IInv
<1> QED BY <1>9, <1>10

LEMMA InductiveInvariant == Spec => []IInv
<1>1. Init => IInv
  BY InitStep
<1>2. IInv /\ [Next]_vars => IInv'
  <2> SUFFICES ASSUME IInv, [Next]_vars PROVE IInv'
    OBVIOUS
  <2>1. CASE Next
    BY <2>1, MacroExpandsStep, EndOfFileStep, VisitDeclarationStep DEF Next
  <2>2. CASE UNCHANGED vars
    <3>1. /\ source' = source /\ visitsNonQObjects' = visitsNonQObjects /\ next' = next /\ parsed' = parsed
          /\ qtAccessSpecifiers' = qtAccessSpecifiers /\ marked' = marked /\ specifiersMap' = specifiersMap
          /\ Visited' = Visited
      BY <2>2 DEF vars, Visited
    <3>2. /\ Positions' = Positions /\ Classes' = Classes
          /\ \A p : At(p)' = At(p) /\ Section(p)' = Section(p)
          /\ \A c, p : Encloses(c, p)' <=> Encloses(c, p)
          /\ \A c : OwnSpecifiers(c)' = OwnSpecifiers(c)
      BY <3>1, SameFile
    <3>3. Heard' = Heard
      BY <3>1, <3>2 DEF Heard
    <3>4. \A c : TakenSections(c)' = TakenSections(c)
      BY <3>1, <3>2 DEF TakenSections
    <3>5. TypeOK' /\ MarksAreHeard' /\ OnlyParsedAreVisited'
      BY <3>1, <3>2, <3>3 DEF IInv, TypeOK, MarksAreHeard, OnlyParsedAreVisited
    <3>6. SectionsAreLeft' /\ ClassesAreSorted'
      BY <3>1, <3>2, <3>3, <3>4 DEF IInv, SectionsAreLeft, ClassesAreSorted
    <3> QED BY <3>5, <3>6 DEF IInv
  <2> QED BY <2>1, <2>2
<1> QED BY <1>1, <1>2, PTL DEF Spec

\* The sections that are collected, the marked locations and the lists of the
\* classes are always of their types, and only classes have lists.
THEOREM TypeCorrect == Spec => []TypeOK
<1>1. IInv => TypeOK
  BY DEF IInv
<1> QED BY <1>1, InductiveInvariant, PTL

-----------------------------------------------------------------------------
(* What the answers are.                                                   *)

\* After the parse a location is marked exactly when the macro is before it.
LEMMA MarkedIsAdjacent ==
    ASSUME IInv, parsed, NEW m \in Positions, NEW mark \in MarkTokens
    PROVE  m \in marked[mark] <=> m - 1 \in Positions /\ At(m - 1) = mark
<1>1. marked[mark] = {p + 1 : p \in {q \in Positions : At(q) = mark}}
  BY DEF IInv, MarksAreHeard, Heard
<1>2. m \in Nat /\ \A p \in Positions : p \in Nat /\ (p + 1 = m <=> p = m - 1)
  BY FileType DEF IInv
<1> QED BY <1>1, <1>2

\* When only the token before a method may be a macro of it, it is one exactly
\* when the method has the mark.
LEMMA AdjacentMarks ==
    ASSUME TypeOK, NEW m \in Positions, NEW mark \in MarkTokens
    PROVE  /\ m - 1 \in Positions /\ At(m - 1) = mark => mark \in Marks(m)
           /\ MarksAreAdjacent(m) /\ mark \in Marks(m) => m - 1 \in Positions /\ At(m - 1) = mark
<1>1. Positions = 1..Len(source) /\ Len(source) \in Nat /\ m \in 1..Len(source)
  BY FileType
<1>2. ASSUME m - 1 \in Positions, At(m - 1) = mark PROVE mark \in Marks(m)
  <2>1. m - 1 \in 1..m - 1 /\ \A i \in m - 1..m - 1 : i = m - 1
    BY <1>1, <1>2
  <2>2. m - 1 \in MarksBefore(m)
    BY <1>2, <2>1 DEF MarksBefore
  <2> QED BY <1>2, <2>2 DEF Marks
<1>3. ASSUME MarksAreAdjacent(m), mark \in Marks(m) PROVE m - 1 \in Positions /\ At(m - 1) = mark
  <2>1. PICK p \in MarksBefore(m) : At(p) = mark
    BY <1>3 DEF Marks
  <2>2. p = m - 1 /\ p \in 1..m - 1
    BY <1>3, <2>1 DEF MarksAreAdjacent, MarksBefore
  <2>3. p \in Positions
    BY <1>1, <2>2
  <2> QED BY <2>1, <2>2, <2>3
<1> QED BY <1>2, <1>3

LEMMA MarkedAsDeclared ==
    ASSUME IInv, parsed, NEW m \in Positions, NEW mark \in MarkTokens
    PROVE  /\ m \in marked[mark] => mark \in Marks(m)
           /\ MarksAreAdjacent(m) => (m \in marked[mark] <=> mark \in Marks(m))
<1>1. m \in marked[mark] <=> m - 1 \in Positions /\ At(m - 1) = mark
  BY MarkedIsAdjacent
<1>2. TypeOK
  BY DEF IInv
<1> QED BY <1>1, <1>2, AdjacentMarks

\* A method is taken for a scriptable one only when a macro says so, and always
\* when it is the token before, whatever else the file has.
THEOREM ScriptablesAreSeen == Spec => []ScriptableIsSeen
<1>1. IInv => ScriptableIsSeen
  <2> SUFFICES ASSUME IInv, parsed, NEW c \in Classes, NEW m \in MethodsOf(c)
               PROVE  /\ isScriptable(m) => "Q_SCRIPTABLE" \in Marks(m)
                      /\ MarksAreAdjacent(m) /\ "Q_SCRIPTABLE" \in Marks(m) => isScriptable(m)
    BY DEF ScriptableIsSeen
  <2>1. m \in Positions /\ At(m) = "method" /\ "Q_SCRIPTABLE" \in MarkTokens
    BY DEF MethodsOf, Members, MarkTokens
  <2>2. /\ m \in marked["Q_SCRIPTABLE"] => "Q_SCRIPTABLE" \in Marks(m)
        /\ MarksAreAdjacent(m) => (m \in marked["Q_SCRIPTABLE"] <=> "Q_SCRIPTABLE" \in Marks(m))
    BY <2>1, MarkedAsDeclared
  <2> QED BY <2>1, <2>2 DEF isScriptable
<1> QED BY <1>1, InductiveInvariant, PTL

\* A class ends behind its beginning.
LEMMA ClassesEnd ==
    ASSUME TypeOK, NEW c \in Classes
    PROVE  EndOf(c) \in Nat
<1>1. source \in Sources /\ c \in DOMAIN source /\ source[c] \in ClassTokens
  BY DEF TypeOK, Classes, Positions, At
<1> DEFINE ends == {e \in Positions : Balanced(source, c, e)}
<1>2. ends # {}
  BY <1>1, SourcesAssumption DEF Positions
<1>3. ends \in SUBSET Nat
  BY FileType
<1>4. Min(ends) \in ends
  <2> HIDE DEF ends
  <2> QED BY <1>2, <1>3, LeastExists
<1> QED BY <1>3, <1>4 DEF EndOf

\* What is in a class is a member of it, or of a class in it.
LEMMA ParentIs ==
    ASSUME TypeOK, NEW c \in Classes, NEW p \in Positions, Encloses(c, p)
    PROVE  /\ Parent(p) \in Classes /\ p \in Members(Parent(p))
           /\ Parent(p) = c \/ Encloses(c, Parent(p))
<1> DEFINE around == {d \in Classes : Encloses(d, p)}
<1>1. c \in around /\ around \in SUBSET Nat /\ p \in Nat
  BY FileType DEF Classes
<1>2. \A d \in around : d <= p
  BY <1>1 DEF Encloses
<1>3. Max(around) \in around /\ \A d \in around : Max(around) >= d
  <2> HIDE DEF around
  <2> QED BY <1>1, <1>2, GreatestExists
<1> DEFINE d == Parent(p)
<1>4. d \in around /\ d >= c
  BY <1>1, <1>3 DEF Parent
<1> HIDE DEF d
<1>5. d \in Classes /\ Encloses(d, p)
  BY <1>4
<1>6. p \in Members(d)
  BY <1>5 DEF Members, d
<1>7. d = c \/ Encloses(c, d)
  <2>1. c \in Nat /\ d \in Nat /\ p \in Nat /\ EndOf(c) \in Nat
    BY <1>1, <1>4, ClassesEnd
  <2>2. d < p /\ p < EndOf(c)
    BY <1>5 DEF Encloses
  <2>3. d # c => c < d /\ d < EndOf(c)
    BY <1>4, <2>1, <2>2
  <2> QED BY <2>3 DEF Encloses
<1> QED BY <1>5, <1>6, <1>7 DEF d

\* When no nested class and no class around it interferes, a class has the
\* sections of its own.
LEMMA OwnSections ==
    ASSUME TypeOK, NEW c \in Visited, ~NestedSectionsMoved(c)
    PROVE  TakenSections(c) = {Section(p) : p \in {q \in Members(c) : At(q) \in QtTokens}}
<1>1. c \in Classes /\ c \in Nat
  BY FileType DEF TypeOK, Classes
<1>2. ASSUME NEW p \in Positions, At(p) \in QtTokens, Encloses(c, p)
      PROVE  p \in Members(c)
  <2>1. /\ Parent(p) \in Classes /\ p \in Members(Parent(p))
        /\ Parent(p) = c \/ Encloses(c, Parent(p))
    BY <1>1, <1>2, ParentIs
  <2>2. Parent(p) = c
    BY <1>2, <2>1 DEF NestedSectionsMoved, HasQtSections
  <2> QED BY <2>1, <2>2
<1>3. ASSUME NEW p \in Members(c), At(p) \in QtTokens, NEW d \in Visited, d < c
      PROVE  ~Encloses(d, p)
  <2>1. d \in Classes /\ d \in Nat /\ p \in Positions /\ p \in Nat /\ c < p
    BY FileType DEF TypeOK, Classes, Members, Encloses
  <2>2. EndOf(d) \in Nat
    BY <2>1, ClassesEnd
  <2>3. Encloses(d, p) => Encloses(d, c)
    BY <1>1, <1>3, <2>1, <2>2 DEF Encloses
  <2> QED BY <1>1, <1>3, <2>1, <2>3 DEF NestedSectionsMoved, HasQtSections
<1>4. \A p \in Members(c) : p \in Positions /\ Encloses(c, p)
  BY DEF Members
<1> QED BY <1>2, <1>3, <1>4 DEF TakenSections

Before(c, m) == {p \in Members(c) : p < m /\ At(p) \in SectionTokens}

AnswerOf(token) == IF token = "signals" THEN "signal" ELSE IF token = "slots" THEN "slot" ELSE "none"

\* The section one before the upper bound is the last one before the method.
LEMMA LastSectionIsFound ==
    ASSUME IInv, NEW c \in Visited, ~NestedSectionsMoved(c), NEW m \in Positions, At(m) = "method"
    PROVE  /\ Before(c, m) = {} => SectionBefore(specifiersMap[c], m) = "none"
           /\ Before(c, m) # {} => SectionBefore(specifiersMap[c], m) = AnswerOf(At(Max(Before(c, m))))
<1> DEFINE v == specifiersMap[c]
           n == Len(v)
           item == [loc |-> FileLoc(m)]
           u == UpperBound(v, item)
           Own(i, p) == v[i] = AccessSpecDecl(p) /\ At(p) \in SpecifierTokens
           Qt(i, p) == v[i] = Section(p) /\ At(p) \in QtTokens
<1>1. /\ TypeOK /\ v \in Seq(Specifier) /\ InOrder(v)
      /\ Elements(v) = OwnSpecifiers(c) \cup {Section(p) : p \in {q \in Members(c) : At(q) \in QtTokens}}
  BY OwnSections DEF IInv, TypeOK, ClassesAreSorted
<1>2. /\ n \in Nat /\ DOMAIN v = 1..n /\ m \in Nat
      /\ \A p \in Members(c) : p \in Positions /\ p \in Nat
  BY <1>1, FileType DEF Members
<1> HIDE DEF v, n
<1>3. ASSUME NEW i \in 1..n
      PROVE  \E p \in Members(c) : (Own(i, p) \/ Qt(i, p)) /\ v[i].loc.pos = p /\ At(p) \in SectionTokens
  <2>1. v[i] \in Elements(v)
    BY <1>2 DEF Elements
  <2>2. CASE v[i] \in OwnSpecifiers(c)
    <3>1. PICK p \in Members(c) : Own(i, p)
      BY <2>2 DEF OwnSpecifiers
    <3>2. v[i].loc.pos = p
      BY <3>1 DEF AccessSpecDecl, FileLoc, MacroLoc
    <3> QED BY <3>1, <3>2 DEF SectionTokens
  <2>3. CASE v[i] \notin OwnSpecifiers(c)
    <3>1. PICK p \in Members(c) : Qt(i, p)
      BY <1>1, <2>1, <2>3
    <3>2. v[i].loc.pos = p
      BY <1>2, <3>1, SectionType
    <3> QED BY <3>1, <3>2 DEF SectionTokens
  <2> QED BY <2>2, <2>3
<1>4. ASSUME NEW p \in Members(c)
      PROVE  /\ At(p) \in SpecifierTokens => \E i \in 1..n : Own(i, p)
             /\ At(p) \in QtTokens => \E i \in 1..n : Qt(i, p)
  <2>1. At(p) \in SpecifierTokens => AccessSpecDecl(p) \in Elements(v)
    BY <1>1 DEF OwnSpecifiers
  <2>2. At(p) \in QtTokens => Section(p) \in Elements(v)
    BY <1>1
  <2> QED BY <1>2, <2>1, <2>2 DEF Elements
<1> HIDE DEF Own, Qt
<1>5. \A i \in 1..n : v[i].loc.pos \in Nat /\ v[i].loc.pos # m
  <2> SUFFICES ASSUME NEW i \in 1..n PROVE v[i].loc.pos \in Nat /\ v[i].loc.pos # m
    OBVIOUS
  <2>1. PICK p \in Members(c) : v[i].loc.pos = p /\ At(p) \in SectionTokens
    BY <1>3
  <2> QED BY <1>2, <2>1 DEF SectionTokens, QtTokens, SpecifierTokens
<1>6. /\ u \in 1..n + 1
      /\ \A i \in 1..u - 1 : ~(m < v[i].loc.pos)
      /\ u # n + 1 => m < v[u].loc.pos
  BY <1>1, UpperBoundIs DEF n, accessSpecifierCompare, FileLoc
<1> HIDE DEF u
<1>7. ASSUME NEW i \in 1..n PROVE i < u <=> v[i].loc.pos < m
  <2>1. CASE i < u
    <3>1. i \in 1..u - 1
      BY <1>6, <2>1
    <3> QED BY <1>2, <1>5, <1>6, <2>1, <3>1
  <2>2. CASE ~(i < u)
    <3>1. u \in 1..n /\ u # n + 1 /\ (u = i \/ u < i)
      BY <1>2, <1>6, <2>2
    <3>2. u < i => Precedes(v[u], v[i])
      BY <1>1, <1>2, <3>1 DEF InOrder
    <3>3. u < i => v[u].loc.pos <= v[i].loc.pos
      BY <1>5, <3>1, <3>2 DEF Precedes
    <3>4. v[u].loc.pos \in Nat /\ v[i].loc.pos \in Nat /\ m < v[u].loc.pos
      BY <1>5, <1>6, <3>1
    <3> QED BY <1>2, <2>2, <3>1, <3>3, <3>4
  <2> QED BY <2>1, <2>2
<1>8. ASSUME NEW q \in Before(c, m) PROVE \E j \in 1..n : v[j].loc.pos = q /\ j < u
  <2>1. q \in Members(c) /\ q < m /\ (At(q) \in SpecifierTokens \/ At(q) \in QtTokens)
    BY DEF Before, SectionTokens
  <2>2. PICK j \in 1..n : Own(j, q) \/ Qt(j, q)
    BY <1>4, <2>1
  <2>3. v[j].loc.pos = q
    <3>1. Section(q).loc.pos = q
      BY <1>2, <2>1, SectionType
    <3>2. AccessSpecDecl(q).loc.pos = q
      BY DEF AccessSpecDecl, FileLoc, MacroLoc
    <3> QED BY <2>2, <3>1, <3>2 DEF Own, Qt
  <2> QED BY <1>7, <2>1, <2>3
<1>9. SectionBefore(v, m) = IF u = 1 THEN "none" ELSE v[u - 1].qt
  BY DEF SectionBefore, u
<1>10. CASE u = 1
  <2>1. Before(c, m) = {}
    BY <1>8, <1>10
  <2> QED BY <1>9, <1>10, <2>1 DEF v
<1>11. CASE u # 1
  <2> DEFINE k == u - 1
  <2>1. k \in 1..n /\ k < u /\ \A j \in 1..n : j < u => j = k \/ j < k
    BY <1>2, <1>6, <1>11
  <2> HIDE DEF k
  <2>2. PICK p \in Members(c) : (Own(k, p) \/ Qt(k, p)) /\ v[k].loc.pos = p /\ At(p) \in SectionTokens
    BY <1>3, <2>1
  <2>3. p \in Before(c, m)
    BY <1>7, <2>1, <2>2 DEF Before
  <2>4. \A j \in 1..n : j < u => j = k \/ Precedes(v[j], v[k])
    BY <1>1, <1>2, <2>1 DEF InOrder
  <2>5. ASSUME NEW q \in Before(c, m) PROVE p >= q
    <3>1. PICK j \in 1..n : v[j].loc.pos = q /\ j < u
      BY <1>8
    <3>2. j = k \/ v[j].loc.pos <= v[k].loc.pos
      BY <1>5, <2>1, <2>4, <3>1 DEF Precedes
    <3>3. p \in Nat /\ q \in Nat
      BY <1>2 DEF Before
    <3> QED BY <2>2, <3>1, <3>2, <3>3
  <2>6. Max(Before(c, m)) = p
    <3>1. Before(c, m) \in SUBSET Nat
      BY <1>2 DEF Before
    <3> QED BY <2>3, <2>5, <3>1, GreatestIs
  <2>7. v[k].qt = AnswerOf(At(p))
    <3>1. CASE At(p) \in QtTokens
      <4>1. PICK j \in 1..n : Qt(j, p)
        BY <1>4, <3>1
      <4>2. v[j].loc = FileLoc(p) /\ v[j].loc.pos = p /\ ~v[j].loc.isMacroID /\ v[j].qt = AnswerOf(At(p))
        BY <1>2, <2>2, <3>1, <4>1, SectionType DEF Qt, Section, FileLoc, QtSection, QtTokens, AnswerOf
      <4>3. j < u
        BY <1>7, <2>3, <4>2 DEF Before
      <4>4. ~Precedes(v[j], v[k])
        BY <1>2, <2>2, <4>2 DEF Precedes
      <4> QED BY <2>4, <4>2, <4>3, <4>4
    <3>2. CASE At(p) \notin QtTokens
      <4>1. v[k] = AccessSpecDecl(p)
        BY <2>2, <3>2 DEF Own, Qt
      <4> QED BY <3>2, <4>1 DEF AccessSpecDecl, AnswerOf, QtTokens
    <3> QED BY <3>1, <3>2
  <2> QED BY <1>9, <1>11, <2>3, <2>6, <2>7 DEF v, k
<1> QED BY <1>10, <1>11

\* From the visit of its class on a method is a signal, a slot or invokable
\* exactly when the file declares it as one, for every file: through all the
\* classes before it, and whatever their sections.
THEOREM MethodsAreDeclared == Spec => []TypeIsTheDeclaredOne
<1>1. IInv => TypeIsTheDeclaredOne
  <2> SUFFICES ASSUME IInv, NEW c \in Visited, NEW m \in MethodsOf(c),
                      MarksAreAdjacent(m), ~NestedSectionsMoved(c)
               PROVE  qtAccessSpecifierType(m) = DeclaredType(m)
    BY DEF TypeIsTheDeclaredOne
  <2>1. m \in Positions /\ At(m) = "method" /\ Parent(m) = c
    BY DEF MethodsOf, Members
  <2>2. parsed
    BY DEF IInv, OnlyParsedAreVisited
  <2>3. {"Q_SIGNAL", "Q_SLOT", "Q_INVOKABLE"} \subseteq MarkTokens
    BY DEF MarkTokens
  <2>4. /\ m \in marked["Q_SIGNAL"] <=> "Q_SIGNAL" \in Marks(m)
        /\ m \in marked["Q_SLOT"] <=> "Q_SLOT" \in Marks(m)
        /\ m \in marked["Q_INVOKABLE"] <=> "Q_INVOKABLE" \in Marks(m)
    BY <2>1, <2>2, <2>3, MarkedAsDeclared
  <2>5. SectionBefore(specifiersMap[c], m) = AnswerOf(LastSection(m))
    <3>1. LastSection(m) = IF Before(c, m) = {} THEN "private" ELSE At(Max(Before(c, m)))
      BY <2>1 DEF LastSection, Before
    <3> QED BY <2>1, <3>1, LastSectionIsFound DEF AnswerOf
  <2> QED BY <2>1, <2>4, <2>5 DEF qtAccessSpecifierType, DeclaredType, AnswerOf
<1> QED BY <1>1, InductiveInvariant, PTL
=============================================================================
