----------------------- MODULE ClazyVisitHelperProofs ------------------------
(***************************************************************************)
(* Theorems about the walk of ClazyVisitHelper, for any trees and any checks.  *)
(***************************************************************************)
EXTENDS ClazyVisitHelper, SequenceTheorems, WellFoundedInduction, TLAPS

\* The file that is walked and those still to come are parsed ones.
FilesAreParsed ==
    /\ IsTree(tree)
    /\ files \in Seq(SetOf(files))
    /\ \A file \in SetOf(files) : IsFile(file)

\* ParentMap::addStmt adds whole hierarchies.
MapIsClosed == \A i \in parentMap \cap Nodes : Below(i) \subseteq parentMap

\* A statement that the walk did not skip has the statements below it in the
\* map: it was there itself already, or was added as a root.
WalkedAreRoots ==
    ~stopped => \A i \in Walked : IsStmt(i) /\ ~Outside(i) => Below(i) \subseteq parentMap

\* The map holds statements.
MapIsOfStatements == \A i \in parentMap : i \in Nodes /\ IsStmt(i)

\* The last node of some kinds before a node, but for those the walk skips.
IsLatest(d, n, kinds) ==
    /\ d # 0 => d \in Nodes /\ d < n /\ Kind(d) \in kinds /\ ~Outside(d)
    /\ \A j \in Nodes : j < n /\ Kind(j) \in kinds /\ ~Outside(j) => j <= d

\* What ClazyContext tells every check of where the walk is.
ContextIsOfTheWalk ==
    /\ specified = {j \in Walked : Kind(j) \in Records}
    /\ IsLatest(lastDecl, next, Declarations)
    /\ IsLatest(lastFunctionDecl, next, Functions)
    /\ IsLatest(lastMethodDecl, next, Methods)

IInv ==
    /\ next \in Nat /\ {lastDecl, lastFunctionDecl, lastMethodDecl} \subseteq Nat
    /\ FilesAreParsed /\ MapIsClosed /\ MapIsOfStatements /\ WalkedAreRoots
    /\ ContextIsOfTheWalk

-----------------------------------------------------------------------------
(* Numbers.                                                                *)

\* A set of numbers has a least one.
LEMMA LeastExists ==
    ASSUME NEW S \in SUBSET Nat, S # {}
    PROVE  Min(S) \in S /\ \A y \in S : Min(S) <= y
<1>1. PICK x \in S : \A y \in S : ~(<<y, x>> \in OpToRel(<, Nat))
  BY NatLessThanWellFounded, WFMin
<1>2. \A y \in S : ~(y < x)
  BY <1>1 DEF OpToRel
<1>3. \A y \in S : x <= y
  BY <1>2
<1> QED BY <1>3 DEF Min

\* The greatest one is not below any other.
LEMMA GreatestIs ==
    ASSUME NEW S \in SUBSET Nat, NEW x \in S, \A y \in S : x >= y
    PROVE  Max(S) = x
<1>1. \E g \in S : \A y \in S : g >= y
  OBVIOUS
<1> DEFINE g == Max(S)
<1>2. g \in S /\ \A y \in S : g >= y
  BY <1>1 DEF Max
<1> HIDE DEF g
<1>3. g >= x /\ x >= g /\ g \in Nat /\ x \in Nat
  BY <1>2
<1>4. g = x
  BY <1>3
<1> QED BY <1>4 DEF g

\* Numbers below a bound have a greatest one.
LEMMA GreatestExists ==
    ASSUME NEW S \in SUBSET Nat, S # {}, NEW b \in Nat, \A y \in S : y <= b
    PROVE  Max(S) \in S /\ \A y \in S : Max(S) >= y
<1> DEFINE above == {n \in Nat : \A y \in S : n >= y}
           g == Min(above)
<1>1. above \in SUBSET Nat /\ b \in above
  OBVIOUS
<1>2. g \in above /\ \A n \in above : g <= n
  <2> HIDE DEF above
  <2> QED BY <1>1, LeastExists
<1> HIDE DEF g
<1>3. g \in S
  <2> SUFFICES ASSUME g \notin S PROVE FALSE
    OBVIOUS
  <2>1. PICK y \in S : TRUE
    OBVIOUS
  <2>2. g \in Nat /\ y \in Nat /\ g >= y /\ g # y
    BY <1>2
  <2>3. g - 1 \in Nat /\ ~(g <= g - 1)
    BY <2>2
  <2>4. \A z \in S : g - 1 >= z
    <3> TAKE z \in S
    <3>1. g >= z /\ g # z /\ z \in Nat
      BY <1>2
    <3> QED BY <2>2, <3>1
  <2> QED BY <1>2, <2>3, <2>4
<1>4. Max(S) = g
  BY <1>2, <1>3, GreatestIs
<1> QED BY <1>2, <1>3, <1>4

\* What holds at the beginning of a range, and for a number when it holds for
\* the one before, holds in the range.
LEMMA RangeInduction ==
    ASSUME NEW a \in Nat, NEW b \in Nat, NEW T, a \in T, \A n \in a + 1..b : n - 1 \in T => n \in T
    PROVE  a..b \subseteq T
<1> DEFINE bad == {n \in a..b : n \notin T}
<1> SUFFICES ASSUME bad # {} PROVE FALSE
  OBVIOUS
<1>1. bad \in SUBSET Nat
  OBVIOUS
<1> DEFINE m == Min(bad)
<1>2. m \in bad /\ \A n \in bad : m <= n
  <2> HIDE DEF bad
  <2> QED BY <1>1, LeastExists
<1> HIDE DEF m
<1>3. m \in a + 1..b /\ m - 1 \in a..b /\ ~(m <= m - 1)
  BY <1>2
<1> QED BY <1>2, <1>3

-----------------------------------------------------------------------------
(* Trees.                                                                  *)

\* The end of a sequence has no elements of its own.
LEMMA SeqOfItsOwn ==
    ASSUME NEW S, NEW s \in Seq(S), s # <<>>
    PROVE  /\ Tail(s) \in Seq(SetOf(Tail(s))) /\ SetOf(Tail(s)) \subseteq SetOf(s)
           /\ Head(s) \in SetOf(s)
<1> DEFINE t == Tail(s)
<1>1. Len(s) \in Nat \ {0} /\ DOMAIN s = 1..Len(s)
  BY LenProperties, EmptySeq
<1>2. /\ t \in Seq(S) /\ Len(t) = Len(s) - 1 /\ DOMAIN t = 1..Len(t)
      /\ \A k \in DOMAIN t : t[k] = s[k + 1] /\ k + 1 \in DOMAIN s
  BY <1>1, HeadTailProperties, LenProperties
<1>3. SetOf(t) \subseteq SetOf(s) /\ Head(s) \in SetOf(s)
  BY <1>1, <1>2 DEF SetOf
<1>4. t \in Seq(SetOf(t))
  BY <1>2, SeqOfRange, RangeEquality DEF SetOf
<1> QED BY <1>3, <1>4

LEMMA NoStmtIsDeclaration == Statements \cap Declarations = {} /\ "none" \notin Statements
BY DEF Statements, Declarations, Calls, Constructions, BinaryOperators, Casts, ExplicitCasts, NamedCasts, Loops,
       Functions, Methods, Records, Variables

\* A walk starts with nothing behind it.
LEMMA NothingBeforeOne ==
    ASSUME NEW t, IsTree(t) PROVE {i \in DOMAIN t \ {0} : i < 1} = {}
<1>1. PICK n \in 0..MaxNodes : DOMAIN t = 0..n
  BY DEF IsTree
<1> QED BY <1>1, MaxNodesAssumption

\* The numbers of the nodes, and the kinds they have.
LEMMA NodesAreNumbers ==
    ASSUME FilesAreParsed
    PROVE  /\ \E n \in Nat : DOMAIN tree = 0..n /\ Nodes = 1..n
           /\ Nodes \subseteq Nat \ {0} /\ Kind(0) = "none" /\ tree[0].parent = 0 /\ Below(0) = {}
           /\ \A i \in Nodes : 1..i - 1 \subseteq Nodes /\ Kind(i) \in Declarations \cup Statements
<1>1. PICK n \in 0..MaxNodes : DOMAIN tree = 0..n
  BY DEF FilesAreParsed, IsTree
<1>2. n \in Nat /\ Nodes = 1..n
  BY <1>1, MaxNodesAssumption DEF Nodes
<1>3. Kind(0) = "none" /\ tree[0].parent = 0 /\ Below(0) = {}
  BY DEF FilesAreParsed, IsTree, NullNode, Kind, Below
<1>4. \A i \in Nodes : Kind(i) \in Declarations \cup Statements
  BY DEF FilesAreParsed, IsTree, Nodes, Kind
<1> QED BY <1>1, <1>2, <1>3, <1>4

\* What is in a node is numbered behind it, up to its end.
LEMMA NodesAreNested ==
    ASSUME FilesAreParsed, NEW i \in Nodes
    PROVE  /\ tree[i].size \in Nat \ {0} /\ tree[i].parent \in 0..i - 1
           /\ tree[i].parent # 0 =>
                tree[i].parent \in Nodes /\ i + tree[i].size <= tree[i].parent + tree[tree[i].parent].size
           /\ \A j \in 1..i - 1 : i < j + tree[j].size => tree[i].parent >= j
<1>1. IsNumbered(tree)
  BY DEF FilesAreParsed, IsTree
<1>2. /\ tree[i].parent \in 0..i - 1 /\ tree[i].size \in Nat \ {0}
      /\ tree[i].parent # 0 => i + tree[i].size <= tree[i].parent + tree[tree[i].parent].size
      /\ \A j \in 1..i - 1 : i < j + tree[j].size => tree[i].parent >= j
  BY <1>1 DEF IsNumbered, Nodes
<1>3. i \in Nat \ {0} /\ 1..i - 1 \subseteq Nodes
  BY NodesAreNumbers
<1>4. tree[i].parent # 0 => tree[i].parent \in 1..i - 1
  BY <1>2, <1>3
<1> QED BY <1>2, <1>3, <1>4

\* The parents of statements.
LEMMA StatementsAreBelow ==
    ASSUME FilesAreParsed, NEW i \in Nodes
    PROVE  /\ StmtParent(i) \in 0..i - 1
           /\ IF Kind(tree[i].parent) \in Variables
              THEN tree[i].parent \in Nodes /\ StmtParent(i) = tree[tree[i].parent].parent
              ELSE StmtParent(i) = tree[i].parent
           /\ IsStmt(i) /\ HasStmtParent(i) => StmtParent(i) \in Nodes /\ i \in Below(StmtParent(i))
           /\ \A j \in Below(i) :
                 /\ j \in Nodes /\ i < j /\ j < i + tree[i].size /\ IsStmt(j)
                 /\ Below(j) \subseteq Below(i) /\ StmtParent(j) \in Below(i) \cup {i}
<1> DEFINE p == tree[i].parent
<1>1. AreBelow(tree)
  BY DEF FilesAreParsed, IsTree
<1>2. /\ tree[i].stmtParent = IF tree[p].kind \in Variables THEN tree[p].parent ELSE p
      /\ {tree[i].kind, tree[tree[i].stmtParent].kind} \subseteq Statements => i \in tree[tree[i].stmtParent].below
      /\ \A j \in tree[i].below :
            /\ j \in DOMAIN tree /\ i < j /\ j < i + tree[i].size
            /\ tree[j].kind \in Statements /\ tree[j].below \subseteq tree[i].below
            /\ tree[j].stmtParent \in tree[i].below \cup {i}
  BY <1>1 DEF AreBelow, Nodes
<1>3. p \in 0..i - 1 /\ (p # 0 => p \in Nodes) /\ i \in Nat \ {0}
  BY NodesAreNested, NodesAreNumbers
<1>4. Kind(p) \in Variables => p \in Nodes
  BY <1>3, NodesAreNumbers DEF Variables
<1>5. p \in Nodes => tree[p].parent \in 0..p - 1
  BY NodesAreNested
<1>6. /\ StmtParent(i) = IF Kind(p) \in Variables THEN tree[p].parent ELSE p
      /\ StmtParent(i) \in 0..i - 1
  <2>1. StmtParent(i) = IF Kind(p) \in Variables THEN tree[p].parent ELSE p
    BY <1>2 DEF StmtParent, Kind
  <2> HIDE DEF p
  <2> QED BY <1>3, <1>4, <1>5, <2>1
<1>7. HasStmtParent(i) => StmtParent(i) \in Nodes
  <2>1. HasStmtParent(i) => StmtParent(i) # 0
    BY NodesAreNumbers, NoStmtIsDeclaration DEF HasStmtParent, IsStmt
  <2>2. 1..i - 1 \subseteq Nodes
    BY NodesAreNumbers
  <2> QED BY <1>3, <1>6, <2>1, <2>2
<1>8. IsStmt(i) /\ HasStmtParent(i) => i \in Below(StmtParent(i))
  BY <1>2 DEF IsStmt, HasStmtParent, Below, StmtParent, Kind
<1>9. \A j \in Below(i) :
         /\ j \in Nodes /\ i < j /\ j < i + tree[i].size /\ IsStmt(j)
         /\ Below(j) \subseteq Below(i) /\ StmtParent(j) \in Below(i) \cup {i}
  <2>1. \A j \in DOMAIN tree : i < j => j \in Nodes
    BY <1>3, NodesAreNumbers
  <2> QED BY <1>2, <2>1 DEF Below, IsStmt, Kind, StmtParent
<1> QED BY <1>4, <1>6, <1>7, <1>8, <1>9

\* What IsTree says of the statements of the tree that is walked.
LEMMA TreeFacts ==
    ASSUME FilesAreParsed
    PROVE  /\ Nodes \subseteq Nat
           /\ \A i \in Nodes :
                 /\ Below(i) \subseteq {j \in Nodes : j > i}
                 /\ \A j \in Below(i) : Below(j) \subseteq Below(i)
                 /\ IsStmt(i) /\ HasStmtParent(i) => StmtParent(i) \in Nodes /\ i \in Below(StmtParent(i))
<1>1. Nodes \subseteq Nat
  BY NodesAreNumbers
<1>2. ASSUME NEW i \in Nodes, NEW j \in Below(i) PROVE j \in Nodes /\ j > i /\ Below(j) \subseteq Below(i)
  BY <1>1, StatementsAreBelow
<1>3. \A i \in Nodes : IsStmt(i) /\ HasStmtParent(i) => StmtParent(i) \in Nodes /\ i \in Below(StmtParent(i))
  BY StatementsAreBelow
<1> QED BY <1>1, <1>2, <1>3

-----------------------------------------------------------------------------
(* Up the tree.                                                            *)

\* A way up from every node of a range to node 0: what a search finds from a
\* node is made of what it finds from the one the way leads to.
Ways(n) == {way \in [1..n -> Nat] : \A j \in 1..n : way[j] < j}
IsSearch(f, n, way, base, step) == f[0] = base /\ \A j \in 1..n : f[j] = step[j][f[way[j]]]

\* A search runs: there is a function of what it finds from each node.
LEMMA SearchRuns ==
    ASSUME NEW n \in Nat, NEW S, NEW base \in S, NEW way \in Ways(n), NEW step \in [1..n -> [S -> S]]
    PROVE  \E f \in [0..n -> S] : IsSearch(f, n, way, base, step)
<1> DEFINE T == {k \in 0..n : \E f \in [0..k -> S] : IsSearch(f, k, way, base, step)}
<1>1. 0 \in T
  <2> DEFINE f == [j \in 0..0 |-> base]
  <2>1. f \in [0..0 -> S] /\ f[0] = base /\ 1..0 = {}
    OBVIOUS
  <2>2. IsSearch(f, 0, way, base, step)
    BY <2>1 DEF IsSearch
  <2> HIDE DEF f
  <2> QED BY <2>1, <2>2
<1>2. ASSUME NEW k \in 1..n, k - 1 \in T PROVE k \in T
  <2>1. PICK f \in [0..k - 1 -> S] : IsSearch(f, k - 1, way, base, step)
    BY <1>2
  <2>2. k \in Nat /\ way[k] \in 0..k - 1 /\ k - 1 \in 0..n
    BY <1>2 DEF Ways
  <2>3. f[way[k]] \in S
    BY <2>1, <2>2
  <2> DEFINE g == [j \in 0..k |-> IF j = k THEN step[k][f[way[k]]] ELSE f[j]]
  <2>4. step[k][f[way[k]]] \in S
    BY <1>2, <2>3
  <2>5. \A j \in 0..k : j # k => j \in 0..k - 1
    BY <2>2
  <2>6. g \in [0..k -> S]
    BY <2>1, <2>4, <2>5
  <2>7. 0 \in 0..k /\ 0 # k /\ k \in 0..k
    BY <1>2
  <2>8. g[0] = base
    BY <2>1, <2>7 DEF IsSearch
  <2>9. ASSUME NEW j \in 1..k PROVE g[j] = step[j][g[way[j]]]
    <3>1. j \in 1..n /\ way[j] \in 0..j - 1 /\ j \in 0..k
      BY <1>2, <2>9 DEF Ways
    <3>2. way[j] \in 0..k /\ way[j] # k
      BY <2>2, <3>1
    <3>3. g[way[j]] = f[way[j]]
      BY <3>2
    <3>4. CASE j = k
      BY <3>1, <3>3, <3>4
    <3>5. CASE j # k
      <4>1. j \in 1..k - 1
        BY <2>9, <3>5
      <4> QED BY <2>1, <3>1, <3>3, <3>5, <4>1 DEF IsSearch
    <3> QED BY <3>4, <3>5
  <2> HIDE DEF g
  <2>10. IsSearch(g, k, way, base, step)
    BY <2>8, <2>9 DEF IsSearch
  <2>11. k \in 0..n
    BY <1>2
  <2> QED BY <2>6, <2>10, <2>11
<1>3. n \in T
  <2>1. 0 + 1..n = 1..n /\ n \in 0..n
    OBVIOUS
  <2> HIDE DEF T
  <2>2. 0..n \subseteq T
    BY <1>1, <1>2, <2>1, RangeInduction
  <2> QED BY <2>1, <2>2
<1> QED BY <1>3

\* What holds for node 0, and for a node when it holds for the one the way
\* leads to, holds for every node of the range.
LEMMA WayInduction ==
    ASSUME NEW n \in Nat, NEW way \in Ways(n), NEW T, 0 \in T, \A j \in 1..n : way[j] \in T => j \in T
    PROVE  0..n \subseteq T
<1> DEFINE bad == {j \in 0..n : j \notin T}
<1> SUFFICES ASSUME bad # {} PROVE FALSE
  OBVIOUS
<1>1. bad \in SUBSET Nat
  OBVIOUS
<1> DEFINE m == Min(bad)
<1>2. m \in bad /\ \A j \in bad : m <= j
  <2> HIDE DEF bad
  <2> QED BY <1>1, LeastExists
<1> HIDE DEF m
<1>3. m \in 1..n
  BY <1>2
<1>4. way[m] \in 0..n /\ ~(m <= way[m])
  BY <1>3 DEF Ways
<1> QED BY <1>2, <1>3, <1>4

\* The parents in the tree are such a way, and so are those of the statements.
Parents(i) == [j \in 1..i |-> tree[j].parent]

LEMMA ParentsLeadUp ==
    ASSUME FilesAreParsed, NEW i \in Nodes
    PROVE  i \in Nat /\ Parents(i) \in Ways(i) /\ 1..i \subseteq Nodes /\ \A j \in 1..i : Parents(i)[j] = tree[j].parent
<1>1. i \in Nat \ {0} /\ 1..i - 1 \subseteq Nodes
  BY NodesAreNumbers
<1>2. 1..i \subseteq Nodes
  BY <1>1
<1>3. \A j \in 1..i : tree[j].parent \in 0..j - 1
  BY <1>2, NodesAreNested
<1>4. \A j \in 1..i : tree[j].parent \in Nat /\ tree[j].parent < j
  BY <1>1, <1>3
<1> QED BY <1>1, <1>2, <1>4 DEF Parents, Ways

\* The search of Around.
LEMMA AroundRuns ==
    ASSUME FilesAreParsed, NEW i \in Nodes, NEW kinds
    PROVE  \E f \in [0..i -> 0..i] :
              /\ f[0] = 0 /\ \A j \in 1..i : f[j] = IF Kind(j) \in kinds THEN j ELSE f[tree[j].parent]
              /\ Around(i, kinds) = f[tree[i].parent]
<1> DEFINE RunOf(f) == f = [j \in 0..i |-> IF j = 0 \/ Kind(j) \in kinds THEN j ELSE f[tree[j].parent]]
           up == CHOOSE f : RunOf(f)
           step == [j \in 1..i |-> [x \in 0..i |-> IF Kind(j) \in kinds THEN j ELSE x]]
<1>1. i \in Nat \ {0} /\ Parents(i) \in Ways(i) /\ \A j \in 1..i : Parents(i)[j] = tree[j].parent
  BY ParentsLeadUp, NodesAreNumbers
<1>2. Around(i, kinds) = up[tree[i].parent]
  BY <1>1 DEF Around
<1>3. step \in [1..i -> [0..i -> 0..i]] /\ 0 \in 0..i
  BY <1>1
<1>4. PICK g \in [0..i -> 0..i] : IsSearch(g, i, Parents(i), 0, step)
  <2> HIDE DEF step
  <2> QED BY <1>1, <1>3, SearchRuns
<1>5. \A j \in 1..i : tree[j].parent \in 0..i
  <2> TAKE j \in 1..i
  <2>1. tree[j].parent \in 0..j - 1
    BY ParentsLeadUp, NodesAreNested
  <2>2. i \in Nat /\ j \in Nat /\ j <= i
    BY <1>1
  <2>3. \A x \in 0..j - 1 : x \in 0..i
    BY <2>2
  <2> QED BY <2>1, <2>3
<1>6. \A j \in 1..i : g[j] = IF Kind(j) \in kinds THEN j ELSE g[tree[j].parent]
  BY <1>1, <1>4, <1>5 DEF IsSearch
<1>7. RunOf(g)
  <2>1. \A j \in 0..i : j # 0 => j \in 1..i
    BY <1>1
  <2>2. g[0] = 0
    BY <1>4 DEF IsSearch
  <2>3. g = [j \in 0..i |-> g[j]]
    BY <1>4
  <2> QED BY <1>6, <2>1, <2>2, <2>3
<1>8. RunOf(up)
  <2> HIDE DEF RunOf
  <2> QED BY <1>7
<1> HIDE DEF up
<1>9. up[0] = 0 /\ DOMAIN up = 0..i /\ up = [j \in 0..i |-> up[j]]
  BY <1>1, <1>8
<1>10. \A j \in 1..i : up[j] = IF Kind(j) \in kinds THEN j ELSE up[tree[j].parent]
  <2>1. \A j \in 1..i : j \in 0..i /\ j # 0
    BY <1>1
  <2> QED BY <1>8, <2>1
<1>11. up \in [0..i -> 0..i]
  <2> DEFINE T == {j \in 0..i : up[j] \in 0..i}
  <2>1. 0 \in T
    BY <1>1, <1>9
  <2>2. ASSUME NEW j \in 1..i, Parents(i)[j] \in T PROVE j \in T
    <3>1. up[Parents(i)[j]] \in 0..i
      BY <2>2
    <3>2. up[tree[j].parent] \in 0..i
      BY <1>1, <3>1
    <3>3. j \in 0..i
      BY <1>1
    <3>4. up[j] = j \/ up[j] = up[tree[j].parent]
      BY <1>10
    <3> QED BY <3>2, <3>3, <3>4
  <2> HIDE DEF T
  <2>3. 0..i \subseteq T
    BY <1>1, <2>1, <2>2, WayInduction
  <2> QED BY <1>9, <2>3 DEF T
<1> QED BY <1>2, <1>9, <1>10, <1>11

\* A node is in those whose end it lies before; the nearest of some kinds, the
\* node itself included, is the last of them.
IsNearest(x, j, kinds) ==
    /\ x \in 0..j
    /\ x # 0 => x \in Nodes /\ Kind(x) \in kinds /\ j + tree[j].size <= x + tree[x].size
    /\ \A g \in 1..j : Kind(g) \in kinds /\ j < g + tree[g].size => g <= x

LEMMA NearestOfParent ==
    ASSUME FilesAreParsed, NEW j \in Nodes, NEW kinds, NEW x, IsNearest(x, tree[j].parent, kinds)
    PROVE  /\ x \in 0..j - 1
           /\ x # 0 => x \in Nodes /\ Kind(x) \in kinds /\ j + tree[j].size <= x + tree[x].size
           /\ \A g \in 1..j - 1 : Kind(g) \in kinds /\ j < g + tree[g].size => g <= x
<1> DEFINE p == tree[j].parent
<1>1. /\ j \in Nat \ {0} /\ tree[j].size \in Nat \ {0} /\ p \in 0..j - 1
      /\ p # 0 => p \in Nodes /\ j + tree[j].size <= p + tree[p].size
      /\ \A g \in 1..j - 1 : j < g + tree[g].size => p >= g
  BY NodesAreNested, NodesAreNumbers
<1>2. /\ x \in 0..p
      /\ x # 0 => x \in Nodes /\ Kind(x) \in kinds /\ p + tree[p].size <= x + tree[x].size
      /\ \A g \in 1..p : Kind(g) \in kinds /\ p < g + tree[g].size => g <= x
  BY DEF IsNearest
<1> HIDE DEF p
<1>3. x \in 0..j - 1
  BY <1>1, <1>2
<1>4. ASSUME x # 0 PROVE x \in Nodes /\ Kind(x) \in kinds /\ j + tree[j].size <= x + tree[x].size
  <2>1. p # 0 /\ x \in Nodes
    BY <1>1, <1>2, <1>4
  <2>2. tree[x].size \in Nat /\ tree[p].size \in Nat /\ x \in Nat /\ p \in Nat
    BY <1>1, <2>1, NodesAreNested, NodesAreNumbers
  <2> QED BY <1>1, <1>2, <1>4, <2>1, <2>2
<1>5. ASSUME NEW g \in 1..j - 1, Kind(g) \in kinds, j < g + tree[g].size PROVE g <= x
  <2>1. p >= g /\ g \in 1..p
    BY <1>1, <1>5
  <2>2. tree[g].size \in Nat /\ g \in Nat /\ p < j
    BY <1>1, <1>5, NodesAreNested, NodesAreNumbers
  <2>3. p < g + tree[g].size
    BY <1>1, <1>5, <2>1, <2>2
  <2> QED BY <1>2, <1>5, <2>1, <2>3
<1> QED BY <1>3, <1>4, <1>5

\* Around finds the nearest node that a node is in.
LEMMA AroundIs ==
    ASSUME FilesAreParsed, NEW i \in Nodes, NEW kinds
    PROVE  /\ Around(i, kinds) \in 0..i - 1
           /\ Around(i, kinds) # 0 =>
                /\ Around(i, kinds) \in Nodes /\ Kind(Around(i, kinds)) \in kinds
                /\ i + tree[i].size <= Around(i, kinds) + tree[Around(i, kinds)].size
           /\ \A g \in 1..i - 1 : Kind(g) \in kinds /\ i < g + tree[g].size => g <= Around(i, kinds)
<1>1. PICK f \in [0..i -> 0..i] :
         /\ f[0] = 0 /\ \A j \in 1..i : f[j] = IF Kind(j) \in kinds THEN j ELSE f[tree[j].parent]
         /\ Around(i, kinds) = f[tree[i].parent]
  BY AroundRuns
<1>2. i \in Nat \ {0} /\ Parents(i) \in Ways(i) /\ 1..i \subseteq Nodes /\ \A j \in 1..i : Parents(i)[j] = tree[j].parent
  BY ParentsLeadUp, NodesAreNumbers
<1> DEFINE T == {j \in 0..i : IsNearest(f[j], j, kinds)}
<1>3. 0 \in T
  <2>1. 1..0 = {} /\ 0 \in 0..i
    BY <1>2
  <2> QED BY <1>1, <2>1 DEF IsNearest
<1>4. ASSUME NEW j \in 1..i, Parents(i)[j] \in T PROVE j \in T
  <2>1. IsNearest(f[tree[j].parent], tree[j].parent, kinds) /\ j \in Nodes /\ j \in 0..i
    <3>1. Parents(i)[j] = tree[j].parent
      BY <1>2
    <3>2. tree[j].parent \in T
      BY <1>4, <3>1, Zenon
    <3>3. j \in Nodes /\ j \in 0..i
      BY <1>2
    <3> QED BY <3>2, <3>3, Zenon
  <2>2. CASE Kind(j) \in kinds
    <3>1. f[j] = j /\ j \in Nat \ {0} /\ tree[j].size \in Nat
      BY <1>1, <2>1, <2>2, NodesAreNested, NodesAreNumbers
    <3>2. \A g \in 1..j : g <= j
      BY <3>1
    <3> QED BY <2>1, <2>2, <3>1, <3>2 DEF IsNearest
  <2>3. CASE Kind(j) \notin kinds
    <3> DEFINE x == f[tree[j].parent]
    <3>1. f[j] = x
      BY <1>1, <2>3
    <3>2. /\ x \in 0..j - 1
          /\ x # 0 => x \in Nodes /\ Kind(x) \in kinds /\ j + tree[j].size <= x + tree[x].size
          /\ \A g \in 1..j - 1 : Kind(g) \in kinds /\ j < g + tree[g].size => g <= x
      BY <2>1, NearestOfParent
    <3> HIDE DEF x
    <3>3. j \in Nat /\ x \in 0..j /\ \A g \in 1..j : g # j => g \in 1..j - 1
      BY <2>1, <3>2, NodesAreNumbers
    <3>4. IsNearest(x, j, kinds)
      BY <2>3, <3>2, <3>3 DEF IsNearest
    <3> QED BY <2>1, <3>1, <3>4
  <2> QED BY <2>2, <2>3
<1>5. tree[i].parent \in 0..i
  <2>1. tree[i].parent \in 0..i - 1
    BY NodesAreNested
  <2> QED BY <1>2, <2>1
<1>6. IsNearest(f[tree[i].parent], tree[i].parent, kinds)
  <2> HIDE DEF T
  <2>1. 0..i \subseteq T
    BY <1>2, <1>3, <1>4, WayInduction
  <2> QED BY <1>5, <2>1 DEF T
<1> DEFINE around == Around(i, kinds)
<1>7. IsNearest(around, tree[i].parent, kinds)
  BY <1>1, <1>6
<1> HIDE DEF around
<1>8. /\ around \in 0..i - 1
      /\ around # 0 => around \in Nodes /\ Kind(around) \in kinds /\ i + tree[i].size <= around + tree[around].size
      /\ \A g \in 1..i - 1 : Kind(g) \in kinds /\ i < g + tree[g].size => g <= around
  BY <1>7, NearestOfParent
<1> QED BY <1>8 DEF around

\* The search of Upwards, by the map the walk has made.
ByTheMap(i) == [j \in 1..i |-> IF j \in parentMap' THEN StmtParent(j) ELSE 0]

LEMMA TheMapLeadsUp ==
    ASSUME FilesAreParsed, NEW i \in Nodes
    PROVE  /\ ByTheMap(i) \in Ways(i)
           /\ \A j \in 1..i : ByTheMap(i)[j] = IF j \in parentMap' THEN StmtParent(j) ELSE 0
<1>1. i \in Nat /\ 1..i \subseteq Nodes
  BY ParentsLeadUp
<1>2. ASSUME NEW j \in 1..i PROVE StmtParent(j) \in Nat /\ StmtParent(j) < j /\ 0 < j
  <2>1. StmtParent(j) \in 0..j - 1 /\ j \in Nat \ {0}
    BY <1>1, StatementsAreBelow, NodesAreNumbers
  <2> QED BY <2>1
<1> QED BY <1>2 DEF ByTheMap, Ways

LEMMA UpwardsRuns ==
    ASSUME FilesAreParsed, NEW i \in Nodes
    PROVE  \E f \in [0..i -> SUBSET (0..i)] :
              /\ f[0] = {} /\ \A j \in 1..i : f[j] = {j} \cup f[ByTheMap(i)[j]]
              /\ Upwards(i) = f[i]
<1> DEFINE way == ByTheMap(i)
           RunOf(f) == f = [j \in 0..i |-> IF j = 0 THEN {} ELSE {j} \cup f[IF j \in parentMap' THEN StmtParent(j) ELSE 0]]
           up == CHOOSE f : RunOf(f)
           S == SUBSET (0..i)
           step == [j \in 1..i |-> [x \in S |-> {j} \cup x]]
<1>1. i \in Nat /\ way \in Ways(i) /\ \A j \in 1..i : way[j] = IF j \in parentMap' THEN StmtParent(j) ELSE 0
  BY TheMapLeadsUp, ParentsLeadUp
<1>2. Upwards(i) = up[i]
  BY DEF Upwards, parent
<1> HIDE DEF way
<1>3. \A j \in 1..i : j \in 0..i /\ j # 0 /\ way[j] \in 0..i
  <2> TAKE j \in 1..i
  <2>1. way[j] \in Nat /\ way[j] < j
    BY <1>1 DEF Ways
  <2> QED BY <1>1, <2>1
<1>4. PICK g \in [0..i -> S] : IsSearch(g, i, way, {}, step)
  <2>1. step \in [1..i -> [S -> S]] /\ {} \in S
    BY <1>1
  <2> HIDE DEF step, S
  <2> QED BY <1>1, <2>1, SearchRuns
<1>5. \A j \in 1..i : g[j] = {j} \cup g[way[j]]
  <2> TAKE j \in 1..i
  <2>1. g[way[j]] \in S
    BY <1>3, <1>4
  <2>2. g[j] = step[j][g[way[j]]]
    BY <1>4 DEF IsSearch
  <2> HIDE DEF S
  <2> QED BY <2>1, <2>2
<1>6. RunOf(g)
  <2>1. \A j \in 0..i : j # 0 => j \in 1..i
    BY <1>1
  <2>2. g[0] = {} /\ g = [j \in 0..i |-> g[j]]
    BY <1>4 DEF IsSearch
  <2> HIDE DEF S, step
  <2> QED BY <1>1, <1>5, <2>1, <2>2
<1>7. RunOf(up)
  <2> HIDE DEF RunOf
  <2> QED BY <1>6
<1> HIDE DEF up
<1>8. 0 \in 0..i /\ up[0] = {} /\ up = [j \in 0..i |-> up[j]]
  BY <1>1, <1>7
<1>9. \A j \in 1..i : up[j] = {j} \cup up[way[j]]
  BY <1>1, <1>3, <1>7
<1>10. up \in [0..i -> S]
  <2> DEFINE T == {j \in 0..i : up[j] \in S}
  <2>1. 0 \in T
    BY <1>8
  <2>2. ASSUME NEW j \in 1..i, way[j] \in T PROVE j \in T
    BY <1>3, <1>9, <2>2
  <2> HIDE DEF T
  <2>3. 0..i \subseteq T
    BY <1>1, <2>1, <2>2, WayInduction
  <2> HIDE DEF S
  <2> QED BY <1>8, <2>3 DEF T
<1> QED BY <1>2, <1>8, <1>9, <1>10 DEF way

\* Upwards finds a statement exactly where the node is below it, if the map
\* knows what is below that.
LEMMA UpwardsIs ==
    ASSUME FilesAreParsed, NEW i \in Nodes, \A j \in parentMap' : j \in Nodes /\ IsStmt(j)
    PROVE  /\ Upwards(i) \subseteq 1..i
           /\ \A l \in Upwards(i) : IsStmt(l) /\ l # i => i \in Below(l)
           /\ \A l \in Nodes : i \in Below(l) /\ Below(l) \subseteq parentMap' => l \in Upwards(i)
<1> DEFINE way == ByTheMap(i)
<1>1. PICK f \in [0..i -> SUBSET (0..i)] :
         /\ f[0] = {} /\ \A j \in 1..i : f[j] = {j} \cup f[way[j]]
         /\ Upwards(i) = f[i]
  BY UpwardsRuns
<1>2. /\ i \in Nat \ {0} /\ way \in Ways(i) /\ 1..i \subseteq Nodes
      /\ \A j \in 1..i : way[j] = IF j \in parentMap' THEN StmtParent(j) ELSE 0
  BY TheMapLeadsUp, ParentsLeadUp, NodesAreNumbers
<1> HIDE DEF way
<1>3. \A j \in 1..i : j \in 0..i /\ j # 0 /\ way[j] \in 0..j - 1
  BY <1>2 DEF Ways
<1> DEFINE Sound(j) == f[j] \subseteq 1..j /\ \A l \in f[j] : IsStmt(l) /\ l # j => j \in Below(l)
           Full(j) == \A l \in Nodes : j \in Below(l) /\ Below(l) \subseteq parentMap' => l \in f[j]
           T == {j \in 0..i : Sound(j) /\ Full(j)}
<1>4. 0 \in T
  <2>1. Full(0)
    BY StatementsAreBelow, NodesAreNumbers
  <2>2. Sound(0) /\ 0 \in 0..i
    BY <1>1, <1>2
  <2> QED BY <2>1, <2>2
<1>5. ASSUME NEW j \in 1..i, way[j] \in T PROVE j \in T
  <2> DEFINE q == way[j]
  <2>1. /\ j \in Nodes /\ j \in 0..i /\ f[j] = {j} \cup f[q] /\ q \in 0..j - 1 /\ Sound(q) /\ Full(q)
        /\ q = IF j \in parentMap' THEN StmtParent(j) ELSE 0
    BY <1>1, <1>2, <1>3, <1>5
  <2> HIDE DEF q
  <2>2. f[j] \subseteq 1..j
    <3>1. f[q] \subseteq 1..q /\ j \in Nat \ {0}
      BY <2>1, NodesAreNumbers
    <3>2. 1..q \subseteq 1..j /\ j \in 1..j
      BY <2>1, <3>1
    <3> QED BY <2>1, <3>1, <3>2
  <2>3. ASSUME NEW l \in f[j], IsStmt(l), l # j PROVE j \in Below(l)
    <3>1. l \in f[q] /\ l \in 1..q
      BY <2>1, <2>3
    <3>2. q # 0
      BY <3>1
    <3>3. j \in parentMap' /\ q = StmtParent(j) /\ IsStmt(j)
      BY <2>1, <3>2
    <3>4. CASE l = q
      BY <2>1, <2>3, <3>3, <3>4, StatementsAreBelow DEF HasStmtParent
    <3>5. CASE l # q
      <4>1. q \in Below(l)
        BY <2>1, <2>3, <3>1, <3>5
      <4>2. l \in Nodes
        <5>1. l \in 1..j - 1 /\ 1..j - 1 \subseteq Nodes
          BY <2>1, <3>1, NodesAreNumbers
        <5> QED BY <5>1
      <4>3. IsStmt(q) /\ Below(q) \subseteq Below(l)
        BY <4>1, <4>2, StatementsAreBelow
      <4>4. j \in Below(q)
        BY <2>1, <3>3, <4>3, StatementsAreBelow DEF HasStmtParent
      <4> QED BY <4>3, <4>4
    <3> QED BY <3>4, <3>5
  <2>4. ASSUME NEW l \in Nodes, j \in Below(l), Below(l) \subseteq parentMap' PROVE l \in f[j]
    <3>1. q = StmtParent(j) /\ StmtParent(j) \in Below(l) \cup {l}
      BY <2>1, <2>4, StatementsAreBelow
    <3>2. CASE q \in Below(l)
      BY <2>1, <2>4, <3>2
    <3>3. CASE q = l
      <4>1. q \in 1..i
        BY <1>2, <2>1, <3>3, NodesAreNumbers
      <4>2. q \in f[q]
        BY <1>1, <4>1
      <4> QED BY <2>1, <3>3, <4>2
    <3> QED BY <3>1, <3>2, <3>3
  <2> QED BY <2>1, <2>2, <2>3, <2>4
<1>6. Sound(i) /\ Full(i)
  <2> HIDE DEF T
  <2>1. 0..i \subseteq T
    BY <1>2, <1>4, <1>5, WayInduction
  <2> QED BY <1>2, <2>1 DEF T
<1> QED BY <1>1, <1>6

\* Nothing of some kinds is found where nothing of them is on the way up.
LEMMA NoParentOfType ==
    ASSUME FilesAreParsed, NEW i \in Nodes, \A j \in parentMap' : j \in Nodes /\ IsStmt(j), NEW kinds
    PROVE  getFirstParentOfType(i, kinds) = 0 <=> \A l \in Upwards(i) : Kind(l) \notin kinds
<1> DEFINE S == {l \in Upwards(i) : Kind(l) \in kinds}
<1>1. i \in Nat /\ Upwards(i) \subseteq 1..i
  BY UpwardsIs, NodesAreNumbers
<1>2. getFirstParentOfType(i, kinds) = IF S = {} THEN 0 ELSE Max(S)
  BY DEF getFirstParentOfType, Nearest
<1>3. ASSUME S # {} PROVE Max(S) # 0
  <2>1. S \in SUBSET Nat /\ \A y \in S : y <= i /\ y # 0
    BY <1>1
  <2>2. Max(S) \in S
    <3> HIDE DEF S
    <3> QED BY <1>1, <1>3, <2>1, GreatestExists
  <2> HIDE DEF S
  <2> QED BY <2>1, <2>2
<1> QED BY <1>2, <1>3

\* What is in a constructor is not below a lambda around it.
LEMMA ConstructorsAreNotInLambdas ==
    ASSUME FilesAreParsed, NEW i \in Nodes, Kind(DeclContext(i)) = "CXXConstructorDecl",
           NEW l \in Nodes, Kind(l) = "LambdaExpr", i \in Below(l)
    PROVE  FALSE
<1> DEFINE F == DeclContext(i)
<1>1. l < i /\ i < l + tree[l].size /\ l \in Nat \ {0} /\ i \in Nat \ {0}
  BY StatementsAreBelow, NodesAreNumbers
<1>2. /\ F \in Nodes /\ F \in 1..i - 1 /\ i + tree[i].size <= F + tree[F].size /\ l <= F
  <2>1. F # 0
    BY NodesAreNumbers
  <2>2. l \in 1..i - 1 /\ Kind(l) \in Contexts
    BY <1>1 DEF Contexts, FunctionContexts
  <2> QED BY <1>1, <2>1, <2>2, AroundIs DEF DeclContext
<1>3. tree[i].size \in Nat \ {0} /\ tree[F].size \in Nat /\ Kind(F) \notin Variables \cup Statements
  BY <1>2, NodesAreNested, NoStmtIsDeclaration DEF Variables, Declarations, Functions, Methods
<1> HIDE DEF F
<1>4. l < F /\ i < F + tree[F].size /\ F \in Nat \ {0} /\ F < i
  <2>1. l # F
    BY DEF F
  <2> QED BY <1>1, <1>2, <1>3, <2>1
<1> DEFINE bad == {j \in Below(l) : F < j /\ j < F + tree[F].size}
           m == Min(bad)
<1>5. bad \in SUBSET Nat /\ i \in bad
  <2>1. \A j \in Below(l) : j \in Nat
    BY StatementsAreBelow, NodesAreNumbers
  <2> QED BY <1>4, <2>1
<1>6. m \in bad /\ \A j \in bad : m <= j
  <2> HIDE DEF bad
  <2> QED BY <1>5, LeastExists
<1> HIDE DEF m
<1> DEFINE p == tree[m].parent
           q == StmtParent(m)
<1>7. m \in Below(l) /\ F < m /\ m < F + tree[F].size /\ m \in Nodes /\ m \in Nat \ {0}
  BY <1>6, StatementsAreBelow, NodesAreNumbers
<1>8. p >= F /\ p \in 0..m - 1
  <2>1. F \in 1..m - 1
    BY <1>4, <1>7
  <2> QED BY <1>7, <2>1, NodesAreNested
<1>9. q >= F
  <2>1. CASE Kind(p) \in Variables
    <3>1. p \in Nodes /\ q = tree[p].parent /\ p # F
      BY <1>3, <1>7, <2>1, StatementsAreBelow
    <3>2. F \in 1..p - 1 /\ p < F + tree[F].size
      BY <1>3, <1>4, <1>7, <1>8, <3>1
    <3> QED BY <3>1, <3>2, NodesAreNested
  <2>2. CASE Kind(p) \notin Variables
    BY <1>7, <1>8, <2>2, StatementsAreBelow
  <2> QED BY <2>1, <2>2
<1>10. q \in Below(l) \cup {l} /\ q \in 0..m - 1
  BY <1>7, StatementsAreBelow
<1> HIDE DEF q, p
<1>11. q \in Below(l)
  BY <1>4, <1>9, <1>10
<1>12. q # F
  BY <1>3, <1>11, StatementsAreBelow DEF IsStmt
<1>13. q \in bad /\ ~(m <= q)
  BY <1>3, <1>4, <1>7, <1>9, <1>10, <1>11, <1>12
<1> QED BY <1>6, <1>13

-----------------------------------------------------------------------------
(* What a step does to the map and the walk.                               *)

KeepsFile == UNCHANGED <<files, tree>>

\* The preprocessor and the matchers come before and behind the walk.
LEMMA OthersKeepTheMap ==
    Preprocess \/ MatchAST \/ UNCHANGED vars =>
        KeepsFile /\ UNCHANGED <<next, stopped, parentMap, specified, lastDecl, lastFunctionDecl, lastMethodDecl>>
BY DEF Preprocess, MatchAST, vars, program, context, KeepsFile

\* A visited node is behind the walk; a statement that checks are called for
\* is in the map, or else is a new root.
LEMMA VisitMoves ==
    ASSUME NEW i, Visit(i)
    PROVE  /\ KeepsFile /\ next' = i + 1 /\ i \in Nodes
           /\ stopped' \/ stopped' = stopped
           /\ \/ parentMap' = parentMap /\ (stopped' \/ Kind(i) \in Declarations \/ Outside(i))
              \/ parentMap' = ParentMapAfter(i)
<1>1. KeepsFile /\ next' = i + 1 /\ i \in Nodes
  BY DEF Visit, program, KeepsFile
<1>2. CASE VisitDecl(i)
  BY <1>1, <1>2 DEF VisitDecl
<1>3. CASE SkipStmt(i)
  BY <1>1, <1>3 DEF SkipStmt, context
<1>4. CASE StopAtErrors(i)
  BY <1>1, <1>4 DEF StopAtErrors, context
<1>5. CASE CallForStmt(i)
  BY <1>1, <1>5 DEF CallForStmt
<1> QED BY <1>2, <1>3, <1>4, <1>5 DEF Visit, VisitStmt

\* A visited declaration is noted where it belongs.
LEMMA VisitNotes ==
    ASSUME NEW i, Visit(i)
    PROVE  /\ specified' = IF Kind(i) \in Records THEN specified \cup {i} ELSE specified
           /\ lastDecl' = IF Kind(i) \in Declarations /\ ~Outside(i) THEN i ELSE lastDecl
           /\ lastFunctionDecl' = IF Kind(i) \in Functions /\ ~Outside(i) THEN i ELSE lastFunctionDecl
           /\ lastMethodDecl' = IF Kind(i) \in Methods /\ ~Outside(i) THEN i ELSE lastMethodDecl
<1>1. CASE VisitDecl(i)
  BY <1>1 DEF VisitDecl, SpecifiedAfter, LastMethodAfter
<1>2. CASE VisitStmt(i)
  <2>1. Kind(i) \notin Declarations
    BY <1>2, NoStmtIsDeclaration DEF VisitStmt, IsStmt
  <2>2. Kind(i) \notin Records /\ Kind(i) \notin Functions /\ Kind(i) \notin Methods
    BY <2>1 DEF Declarations, Functions
  <2>3. UNCHANGED <<specified, lastDecl, lastFunctionDecl, lastMethodDecl>>
    BY <1>2 DEF VisitStmt, SkipStmt, StopAtErrors, CallForStmt, context
  <2> QED BY <2>1, <2>2, <2>3
<1> QED BY <1>1, <1>2 DEF Visit


\* The latest node is the visited one or the one before.
LEMMA LatestStep ==
    ASSUME FilesAreParsed, NEW n \in Nodes, NEW kinds, NEW d \in Nat, IsLatest(d, n, kinds),
           NEW e, e = IF Kind(n) \in kinds /\ ~Outside(n) THEN n ELSE d
    PROVE  e \in Nat /\ IsLatest(e, n + 1, kinds)
<1>1. n \in Nat \ {0} /\ Nodes \subseteq Nat
  BY NodesAreNumbers
<1>2. \A j \in Nodes : j < n + 1 => j < n \/ j = n
  BY <1>1
<1>3. CASE Kind(n) \in kinds /\ ~Outside(n)
  <2>1. e = n /\ n < n + 1 /\ \A j \in Nodes : j < n + 1 => j <= n
    BY <1>1, <1>3
  <2> QED BY <1>1, <1>3, <2>1 DEF IsLatest
<1>4. CASE ~(Kind(n) \in kinds /\ ~Outside(n))
  <2>1. e = d /\ (d < n => d < n + 1)
    BY <1>1, <1>4
  <2> QED BY <1>2, <1>4, <2>1 DEF IsLatest
<1> QED BY <1>3, <1>4

\* Visiting the next node keeps the map closed, gives a statement that is not
\* skipped its hierarchy, and notes a declaration.
LEMMA VisitStep == IInv /\ Visit(next) => IInv'
<1> SUFFICES ASSUME IInv, Visit(next) PROVE IInv'
  OBVIOUS
<1> DEFINE i == next
<1>1. /\ KeepsFile /\ next' = i + 1 /\ i \in Nodes
      /\ stopped' \/ stopped' = stopped
      /\ \/ parentMap' = parentMap /\ (stopped' \/ Kind(i) \in Declarations \/ Outside(i))
         \/ parentMap' = ParentMapAfter(i)
  BY VisitMoves
<1>2. /\ Nodes \subseteq Nat
      /\ Below(i) \subseteq {j \in Nodes : j > i}
      /\ \A j \in Below(i) : Below(j) \subseteq Below(i)
  BY <1>1, TreeFacts DEF IInv
<1>3. FilesAreParsed'
  BY <1>1 DEF KeepsFile, IInv, FilesAreParsed
<1>4. parentMap' = parentMap \/ parentMap' = parentMap \cup Below(i)
  BY <1>1 DEF ParentMapAfter
<1>5. Nodes' = Nodes /\ \A j : Below(j)' = Below(j) /\ IsStmt(j)' = IsStmt(j) /\ Outside(j)' = Outside(j) /\ Kind(j)' = Kind(j)
  BY <1>1 DEF KeepsFile, Nodes, Below, IsStmt, Kind, Outside
<1>6. MapIsClosed'
  BY <1>2, <1>4, <1>5 DEF IInv, MapIsClosed
<1>7. MapIsOfStatements'
  <2>1. \A j \in Below(i) : j \in Nodes /\ IsStmt(j)
    BY <1>1, StatementsAreBelow DEF IInv
  <2> QED BY <1>4, <1>5, <2>1 DEF IInv, MapIsOfStatements
<1>8. ASSUME ~stopped', NEW j \in Nodes, j < i + 1, IsStmt(j), ~Outside(j)
      PROVE  Below(j) \subseteq parentMap'
  <2>1. CASE j < i
    BY <1>1, <1>4, <1>8, <2>1 DEF IInv, WalkedAreRoots, Walked
  <2>2. CASE j = i
    <3>1. Kind(i) \notin Declarations
      BY <1>8, <2>2, NoStmtIsDeclaration DEF IsStmt
    <3>2. parentMap' = ParentMapAfter(i)
      BY <1>1, <1>8, <2>2, <3>1
    <3> QED BY <1>1, <2>2, <3>2 DEF ParentMapAfter, IInv, MapIsClosed
  <2> QED BY <1>1, <1>2, <1>8, <2>1, <2>2
<1>9. WalkedAreRoots'
  BY <1>1, <1>5, <1>8 DEF WalkedAreRoots, Walked
<1>10. specified' = {j \in Walked' : Kind(j)' \in Records}
  <2>1. specified' = IF Kind(i) \in Records THEN specified \cup {i} ELSE specified
    BY VisitNotes
  <2>2. specified = {j \in Nodes : j < i /\ Kind(j) \in Records}
    BY DEF IInv, ContextIsOfTheWalk, Walked
  <2>3. \A j \in Nodes : j < i + 1 <=> j < i \/ j = i
    BY <1>1, <1>2
  <2> QED BY <1>1, <1>5, <2>1, <2>2, <2>3 DEF Walked
<1>11. /\ lastDecl' \in Nat /\ IsLatest(lastDecl', i + 1, Declarations)
       /\ lastFunctionDecl' \in Nat /\ IsLatest(lastFunctionDecl', i + 1, Functions)
       /\ lastMethodDecl' \in Nat /\ IsLatest(lastMethodDecl', i + 1, Methods)
  BY <1>1, VisitNotes, LatestStep DEF IInv, ContextIsOfTheWalk
<1>12. ContextIsOfTheWalk'
  BY <1>1, <1>5, <1>10, <1>11 DEF ContextIsOfTheWalk, IsLatest
<1> QED BY <1>1, <1>2, <1>3, <1>6, <1>7, <1>9, <1>11, <1>12 DEF IInv

LEMMA OtherSteps ==
    IInv /\ (Preprocess \/ MatchAST \/ UNCHANGED vars) => IInv'
<1> SUFFICES ASSUME IInv, Preprocess \/ MatchAST \/ UNCHANGED vars PROVE IInv'
  OBVIOUS
<1>1. UNCHANGED <<files, tree, next, stopped, parentMap, specified, lastDecl, lastFunctionDecl, lastMethodDecl>>
  BY OthersKeepTheMap DEF KeepsFile
<1> QED BY <1>1 DEF IInv, FilesAreParsed, MapIsClosed, MapIsOfStatements, WalkedAreRoots, ContextIsOfTheWalk, IsLatest,
                    Walked, Nodes, Below, IsStmt, Kind, Outside

\* A walk starts with nothing noted.
LEMMA WalksStart ==
    ASSUME FilesAreParsed, next = 1, parentMap = {}, specified = {},
           lastDecl = 0, lastFunctionDecl = 0, lastMethodDecl = 0
    PROVE  IInv
<1>1. Walked = {} /\ \A j \in Nodes : ~(j < 1)
  BY NothingBeforeOne DEF FilesAreParsed, Walked, Nodes
<1>2. \A kinds : IsLatest(0, 1, kinds)
  BY <1>1 DEF IsLatest
<1> QED BY <1>1, <1>2 DEF IInv, MapIsClosed, MapIsOfStatements, WalkedAreRoots, ContextIsOfTheWalk

\* The next file is walked from its start, with a map of its own.
LEMMA NextFileStep == IInv /\ NextTranslationUnit => IInv'
<1> SUFFICES ASSUME IInv, NextTranslationUnit PROVE IInv'
  OBVIOUS
<1>1. /\ files # <<>> /\ tree' = Head(files).tree /\ files' = Tail(files)
      /\ next' = 1 /\ parentMap' = {} /\ specified' = {}
      /\ lastDecl' = 0 /\ lastFunctionDecl' = 0 /\ lastMethodDecl' = 0
  BY DEF NextTranslationUnit
<1>2. files \in Seq(SetOf(files)) /\ \A file \in SetOf(files) : IsFile(file)
  BY DEF IInv, FilesAreParsed
<1>3. IsTree(tree')
  BY <1>1, <1>2 DEF IsFile
<1>4. files' \in Seq(SetOf(files')) /\ SetOf(files') \subseteq SetOf(files)
  BY <1>1, <1>2, SeqOfItsOwn
<1>5. FilesAreParsed'
  BY <1>2, <1>3, <1>4 DEF FilesAreParsed
<1>6. Walked' = {} /\ \A j \in Nodes' : ~(j < 1)
  BY <1>1, <1>3, NothingBeforeOne DEF Walked, Nodes
<1> QED BY <1>1, <1>5, <1>6 DEF IInv, MapIsClosed, MapIsOfStatements, WalkedAreRoots, ContextIsOfTheWalk, IsLatest

LEMMA InitStep == Init => IInv
<1> SUFFICES ASSUME Init PROVE IInv
  OBVIOUS
<1>1. PICK process \in Jobs : /\ files = Tail(process.files) /\ tree = Head(process.files).tree
  BY DEF Init
<1>2. next = 1 /\ parentMap = {} /\ specified = {} /\ lastDecl = 0 /\ lastFunctionDecl = 0 /\ lastMethodDecl = 0
  BY DEF Init
<1>3. /\ process.files # <<>> /\ process.files \in Seq(SetOf(process.files))
      /\ \A file \in SetOf(process.files) : IsFile(file)
  BY JobsAssumption
<1>4. /\ files \in Seq(SetOf(files)) /\ SetOf(files) \subseteq SetOf(process.files)
      /\ Head(process.files) \in SetOf(process.files)
  BY <1>1, <1>3, SeqOfItsOwn
<1>5. FilesAreParsed
  BY <1>1, <1>3, <1>4 DEF FilesAreParsed, IsFile
<1> QED BY <1>2, <1>5, WalksStart

LEMMA WalkIsKept == Spec => []IInv
<1>1. IInv /\ [Next]_vars => IInv'
  BY VisitStep, OtherSteps, NextFileStep DEF Next
<1> QED BY InitStep, <1>1, PTL DEF Spec

\* ClazyASTConsumer::VisitStmt: a check never meets a statement without a way
\* to its parent, whatever the tree, the file before and the checks are, as
\* long as the walk saw the parent.
THEOREM ParentsKnown == Spec => []ParentsAreKnown
<1>1. IInv => ParentsAreKnown
  <2> SUFFICES ASSUME IInv, ~stopped, NEW i \in Walked,
                      IsStmt(i), HasStmtParent(i), ~Outside(StmtParent(i))
               PROVE  i \in parentMap
    BY DEF ParentsAreKnown
  <2>1. /\ i \in Nodes /\ i < next /\ Nodes \subseteq Nat
        /\ StmtParent(i) \in Nodes /\ i \in Below(StmtParent(i)) /\ i > StmtParent(i)
    BY TreeFacts DEF IInv, Walked
  <2>2. next \in Nat /\ \A p \in Nat : p < i => p < next
    BY <2>1 DEF IInv
  <2>3. StmtParent(i) < next
    BY <2>1, <2>2
  <2> QED BY <2>1, <2>3 DEF IInv, WalkedAreRoots, Walked, HasStmtParent
<1> QED BY WalkIsKept, <1>1, PTL

\* ClazyASTConsumer::VisitDecl: what ClazyContext holds between two visits is
\* the last declaration, function and method of user code behind the walk and
\* the classes it has met, of this file alone, whatever came before.
THEOREM ContextKept == Spec => []ContextIsOfTheWalk
BY WalkIsKept, PTL DEF IInv
-----------------------------------------------------------------------------
(* What the checks say.                                                    *)

\* Nothing that was said of a file is taken back while it is walked.
LEMMA ReportsStay ==
    Preprocess \/ Visit(next) \/ MatchAST \/ UNCHANGED vars => reports \subseteq reports'
BY DEF Preprocess, Visit, VisitDecl, VisitStmt, SkipStmt, StopAtErrors, CallForStmt, MatchAST, Emit, vars

LEMMA AskedAboutReturns ==
    \A i : CheckStmt("returning-void-expression", i) = ReturningVoidExpression_VisitStmt(i)
BY DEF CheckStmt

LEMMA AskedAboutEmits ==
    \A i : CheckStmt("incorrect-emit", i) = IncorrectEmit_VisitStmt(i)
BY DEF CheckStmt

\* A walk that goes on calls the checks for a statement of user code.
LEMMA VisitAsks ==
    ASSUME NEW i, Visit(i), ~stopped', IsStmt(i), ~Outside(i)
    PROVE  CallForStmt(i)
<1>1. ~VisitDecl(i)
  BY NoStmtIsDeclaration DEF VisitDecl, IsStmt
<1> QED BY <1>1 DEF Visit, VisitStmt, SkipStmt, StopAtErrors

\* What a check answers is reported.
LEMMA AnswersAreReported ==
    ASSUME NEW i, CallForStmt(i), NEW check \in Called(i, visitStmts), NEW w \in CheckStmt(check, i)
    PROVE  <<check, w[1], w[2]>> \in reports'
BY DEF CallForStmt, Emit, Said

-----------------------------------------------------------------------------
(* returning-void-expression.                                              *)

\* What user code is in is user code.
LEMMA UserCodeIsInUserCode ==
    ASSUME FilesAreParsed, NEW i \in Nodes, ~Outside(i), NEW g \in 1..i - 1, i < g + tree[g].size
    PROVE  ~Outside(g)
<1> DEFINE T == {j \in 0..i : \A h \in 1..j : ~Outside(j) /\ j < h + tree[h].size => ~Outside(h)}
<1>1. i \in Nat \ {0} /\ Parents(i) \in Ways(i) /\ 1..i \subseteq Nodes /\ \A j \in 1..i : Parents(i)[j] = tree[j].parent
  BY ParentsLeadUp, NodesAreNumbers
<1>2. 0 \in T
  BY <1>1
<1>3. ASSUME NEW j \in 1..i, Parents(i)[j] \in T PROVE j \in T
  <2> DEFINE p == tree[j].parent
  <2>1. j \in Nodes /\ j \in 0..i /\ p \in T /\ p \in 0..j - 1 /\ (p # 0 => p \in Nodes)
    <3>1. j \in Nodes /\ j \in 0..i /\ p \in T
      <4> HIDE DEF T
      <4> QED BY <1>1, <1>3
    <3> QED BY <3>1, NodesAreNested
  <2> SUFFICES ASSUME NEW h \in 1..j, ~Outside(j), j < h + tree[h].size PROVE ~Outside(h)
    BY <2>1
  <2>2. CASE h # j
    <3>1. j \in Nat /\ h \in 1..j - 1 /\ h \in Nodes
      BY <1>1, <2>1, <2>2, NodesAreNumbers
    <3>2. p >= h /\ tree[h].size \in Nat
      BY <2>1, <3>1, NodesAreNested
    <3>3. p # 0 /\ h \in 1..p /\ p < h + tree[h].size
      <4> HIDE DEF p
      <4> QED BY <2>1, <3>1, <3>2
    <3>4. ~Outside(p)
      BY <2>1, <3>3 DEF FilesAreParsed, IsTree, Nodes, Outside, Places
    <3> QED BY <2>1, <3>3, <3>4
  <2> QED BY <2>2
<1>4. i \in T
  <2> HIDE DEF T
  <2>1. 0..i \subseteq T
    BY <1>1, <1>2, <1>3, WayInduction
  <2> QED BY <1>1, <2>1
<1>5. g \in 1..i
  BY <1>1
<1> QED BY <1>4, <1>5

\* The function, method or class around a node is user code.
LEMMA ContextsOfUserCode ==
    ASSUME FilesAreParsed, NEW i \in Nodes, ~Outside(i), DeclContext(i) # 0
    PROVE  /\ DeclContext(i) \in Nodes /\ Kind(DeclContext(i)) \in Contexts /\ ~Outside(DeclContext(i))
           /\ DeclContext(i) \in 1..i - 1 /\ i < DeclContext(i) + tree[DeclContext(i)].size
<1> DEFINE F == DeclContext(i)
<1>1. F \in 0..i - 1 /\ F \in Nodes /\ Kind(F) \in Contexts /\ i + tree[i].size <= F + tree[F].size
  BY AroundIs DEF DeclContext
<1>2. i \in Nat \ {0} /\ tree[i].size \in Nat \ {0} /\ tree[F].size \in Nat /\ F # 0
  BY <1>1, NodesAreNested, NodesAreNumbers
<1> HIDE DEF F
<1>3. F \in 1..i - 1 /\ i < F + tree[F].size
  BY <1>1, <1>2
<1>4. ~Outside(F)
  BY <1>3, UserCodeIsInUserCode
<1> QED BY <1>1, <1>3, <1>4 DEF F

\* The last declaration leads to the function around a statement, when
\* nothing else with declarations of its own has come in between.
LEMMA LastDeclIsInTheFunction ==
    ASSUME FilesAreParsed, NEW i \in Nodes, ~Outside(i), Kind(DeclContext(i)) \in Functions,
           ~IsBehind(i, DeclContext(i), Contexts), NEW m \in Nat, IsLatest(m, i, Declarations)
    PROVE  contextForDecl(m) = DeclContext(i) /\ m # 0
<1> DEFINE F == DeclContext(i)
<1>0. F # 0
  BY NodesAreNumbers DEF Functions, Methods
<1>1. F \in Nodes /\ Kind(F) \in Functions /\ ~Outside(F) /\ F \in 1..i - 1 /\ i < F + tree[F].size
  BY <1>0, ContextsOfUserCode
<1>2. \A C \in Nodes : Kind(C) \in Contexts /\ C < i => C <= F
  <2> SUFFICES ASSUME NEW C \in Nodes, Kind(C) \in Contexts, C < i, ~(C <= F) PROVE FALSE
    OBVIOUS
  <2>1. i \in Nat /\ C \in Nat \ {0} /\ tree[C].size \in Nat /\ F \in Nat
    BY <1>1, NodesAreNested, NodesAreNumbers
  <2>2. ~(i < C + tree[C].size)
    <3>1. C \in 1..i - 1
      BY <2>1
    <3> QED BY <3>1, AroundIs DEF DeclContext
  <2> HIDE DEF F
  <2>3. C \in F + 1..i - 1 /\ C + tree[C].size <= i
    BY <2>1, <2>2
  <2> QED BY <2>3 DEF IsBehind, F
<1>4. Kind(F) \in Declarations /\ Kind(F) \in Contexts
  BY <1>1 DEF Declarations, Contexts, FunctionContexts
<1>5. F <= m /\ m # 0 /\ m \in Nodes /\ m < i
  <2>1. F < i /\ F \in Nat \ {0}
    BY <1>1, NodesAreNumbers
  <2>2. F <= m
    BY <1>1, <1>4, <2>1 DEF IsLatest
  <2> HIDE DEF F
  <2>3. m # 0
    BY <2>1, <2>2
  <2> QED BY <2>2, <2>3 DEF IsLatest
<1>6. CASE Kind(m) \in Contexts
  <2>1. m <= F /\ F \in Nat
    BY <1>1, <1>2, <1>5, <1>6
  <2> HIDE DEF F
  <2>2. m = F
    BY <1>5, <2>1
  <2> QED BY <1>5, <1>6, <2>2 DEF contextForDecl, F
<1>7. CASE Kind(m) \notin Contexts
  <2> DEFINE C == DeclContext(m)
  <2>1. i \in Nat /\ F \in Nat \ {0} /\ m \in Nat \ {0} /\ F # m
    BY <1>1, <1>4, <1>5, <1>7, NodesAreNumbers
  <2>2. F \in 1..m - 1 /\ m < F + tree[F].size
    <3>1. tree[F].size \in Nat
      BY <1>1, NodesAreNested
    <3> HIDE DEF F
    <3> QED BY <1>1, <1>5, <2>1, <3>1
  <2>3. F <= C /\ C \in 0..m - 1 /\ (C # 0 => C \in Nodes /\ Kind(C) \in Contexts)
    BY <1>4, <1>5, <2>2, AroundIs DEF DeclContext
  <2> HIDE DEF F, C
  <2>4. C # 0 /\ C < i
    BY <1>5, <2>1, <2>3
  <2>5. C <= F
    BY <1>2, <2>3, <2>4
  <2>6. C = F
    BY <2>1, <2>3, <2>5
  <2> QED BY <1>5, <1>7, <2>6 DEF contextForDecl, F, C
<1> QED BY <1>6, <1>7

\* What a walk does not change, and what the properties make of that.
LEMMA ProgramStays ==
    Preprocess \/ Visit(next) \/ MatchAST \/ UNCHANGED vars => UNCHANGED <<requestedChecks, unit, tree, classes>>
BY DEF Preprocess, Visit, MatchAST, vars, program

LEMMA NodesStay ==
    ASSUME UNCHANGED <<requestedChecks, unit, tree>>
    PROVE  /\ Nodes' = Nodes /\ addedChecks' = addedChecks
           /\ \A i : Kind(i)' = Kind(i) /\ IsStmt(i)' = IsStmt(i) /\ Outside(i)' = Outside(i) /\ Begin(i)' = Begin(i)
           /\ \A i : IsFromIgnorableInclude(i)' = IsFromIgnorableInclude(i)
<1>1. \A i : Kind(i)' = Kind(i) /\ IsStmt(i)' = IsStmt(i) /\ Outside(i)' = Outside(i)
  BY DEF Kind, IsStmt, Outside
<1>2. \A i : Begin(i)' = Begin(i)
  BY SMT DEF Begin, Kind, Attr, Child
<1> QED BY <1>1, <1>2 DEF Nodes, addedChecks, shouldCheckFile, IsFromIgnorableInclude

LEMMA ContextsStay ==
    ASSUME tree' = tree PROVE \A i : DeclContext(i)' = DeclContext(i)
BY SMT DEF DeclContext, Around, Kind

\* A statement that a check was asked about by now was examined before, or is
\* the one that the walk just came to.
LEMMA ExaminedStep ==
    ASSUME IInv, Preprocess \/ Visit(next) \/ MatchAST \/ UNCHANGED vars, NEW check, NEW i \in Examined(check)'
    PROVE  \/ i \in Examined(check)
           \/ /\ Visit(i) /\ i = next /\ ~stopped'
              /\ i \in Nodes /\ IsStmt(i) /\ ~Outside(i) /\ check \in addedChecks
              /\ ~(IsFromIgnorableInclude(i) /\ canIgnoreIncludes(check))
<1>1. UNCHANGED <<requestedChecks, unit, tree>>
  BY ProgramStays
<1>2. /\ ~stopped' /\ check \in addedChecks /\ i \in Nodes /\ i < next' /\ IsStmt(i) /\ ~Outside(i)
      /\ ~(IsFromIgnorableInclude(i) /\ canIgnoreIncludes(check))
  BY <1>1, NodesStay DEF Examined, Walked, canIgnoreIncludes
<1>3. CASE Preprocess \/ MatchAST \/ UNCHANGED vars
  BY <1>2, <1>3, OthersKeepTheMap DEF Examined, Walked
<1>4. CASE Visit(next)
  <2>1. ~stopped /\ next' = next + 1
    BY <1>4 DEF Visit
  <2>2. next \in Nat /\ i \in Nat
    BY <1>2, NodesAreNumbers DEF IInv
  <2>3. i < next \/ i = next
    BY <1>2, <2>1, <2>2
  <2> QED BY <1>2, <1>4, <2>1, <2>3 DEF Examined, Walked
<1> QED BY <1>3, <1>4

\* ReturningVoidExpression::VisitStmt warns about what a function returns.
LEMMA VoidReturnIsSeen ==
    ASSUME IInv, Visit(next), ~stopped', NEW i, i = next, i \in Nodes, IsStmt(i), ~Outside(i),
           ReturnsVoid(i), ~IsBehind(i, DeclContext(i), Contexts)
    PROVE  <<Begin(i), "returning a void expression">> \in ReturningVoidExpression_VisitStmt(i)
<1>1. lastDecl' = lastDecl /\ UNCHANGED <<requestedChecks, unit, tree>>
  BY VisitNotes, NoStmtIsDeclaration, ProgramStays DEF IsStmt
<1>2. lastDecl \in Nat /\ IsLatest(lastDecl, i, Declarations)
  BY DEF IInv, ContextIsOfTheWalk
<1>3. contextForDecl(lastDecl) = DeclContext(i) /\ lastDecl # 0
  BY <1>2, LastDeclIsInTheFunction DEF IInv, ReturnsVoid
<1>4. contextForDecl(lastDecl') = contextForDecl(lastDecl)
  BY <1>1
<1> QED BY <1>1, <1>3, <1>4 DEF ReturningVoidExpression_VisitStmt, ReturnsVoid, WarnIf, Warn, FunctionContexts

LEMMA VoidReturnsStep == IInv /\ VoidReturnsAreWarned /\ [Next]_vars => VoidReturnsAreWarned'
<1> SUFFICES ASSUME IInv, VoidReturnsAreWarned, [Next]_vars PROVE VoidReturnsAreWarned'
  OBVIOUS
<1> DEFINE check == "returning-void-expression"
           text == "returning a void expression"
<1>1. CASE NextTranslationUnit
  <2>1. IInv' /\ next' = 1
    BY <1>1, NextFileStep DEF NextTranslationUnit
  <2>2. Walked' = {}
    BY <2>1, NothingBeforeOne DEF IInv, FilesAreParsed, Walked, Nodes
  <2> QED BY <2>2 DEF VoidReturnsAreWarned, Examined
<1>2. CASE Preprocess \/ Visit(next) \/ MatchAST \/ UNCHANGED vars
  <2>1. UNCHANGED <<requestedChecks, unit, tree>> /\ reports \subseteq reports'
    BY <1>2, ProgramStays, ReportsStay
  <2>2. ASSUME NEW i \in Examined(check)', ReturnsVoid(i), ~IsBehind(i, DeclContext(i), Contexts)
        PROVE  <<check, Begin(i), text>> \in reports'
    <3>1. CASE i \in Examined(check)
      BY <2>1, <2>2, <3>1 DEF VoidReturnsAreWarned, Reported
    <3>2. CASE i \notin Examined(check)
      <4>1. /\ Visit(i) /\ i = next /\ ~stopped'
            /\ i \in Nodes /\ IsStmt(i) /\ ~Outside(i) /\ check \in addedChecks
            /\ ~(IsFromIgnorableInclude(i) /\ canIgnoreIncludes(check))
        BY <1>2, <2>2, <3>2, ExaminedStep
      <4>2. check \in Called(i, visitStmts)
        BY <4>1 DEF Called, visitStmts, StmtChecks
      <4>3. CallForStmt(i) /\ <<Begin(i), text>> \in CheckStmt(check, i)
        BY <2>2, <4>1, VisitAsks, VoidReturnIsSeen, AskedAboutReturns
      <4>4. <<check, <<Begin(i), text>>[1], <<Begin(i), text>>[2]>> \in reports'
        BY <4>2, <4>3, AnswersAreReported
      <4> QED BY <4>4
    <3> QED BY <3>1, <3>2
  <2>3. \A i : Begin(i)' = Begin(i) /\ DeclContext(i)' = DeclContext(i)
    BY <2>1, NodesStay, ContextsStay
  <2>4. \A i : ReturnsVoid(i)' = ReturnsVoid(i)
    BY <2>1, <2>3 DEF ReturnsVoid, Kind, Child, TypeOf, FunctionOf, Attr, IsVoid, IsPlain
  <2>5. \A i : IsBehind(i, DeclContext(i), Contexts)' <=> IsBehind(i, DeclContext(i), Contexts)
    BY <2>1, <2>3 DEF IsBehind, Kind
  <2> QED BY <2>2, <2>3, <2>4, <2>5 DEF VoidReturnsAreWarned, Reported
<1> QED BY <1>1, <1>2 DEF Next

\* ReturningVoidExpression::VisitStmt asks ClazyContext for the last
\* declaration, and that is in the function of the statement whatever came
\* before: parameters, variables, members of other classes.
THEOREM VoidReturnsWarned == Spec => []VoidReturnsAreWarned
<1>1. Init => VoidReturnsAreWarned
  <2> SUFFICES ASSUME Init PROVE VoidReturnsAreWarned
    OBVIOUS
  <2>1. Walked = {}
    BY InitStep, NothingBeforeOne DEF Init, IInv, FilesAreParsed, Walked, Nodes
  <2> QED BY <2>1 DEF VoidReturnsAreWarned, Examined
<1> QED BY <1>1, VoidReturnsStep, WalkIsKept, PTL DEF Spec

-----------------------------------------------------------------------------
(* incorrect-emit.                                                         *)

\* The last method is the one around a statement, when no method of a local
\* class has come in between.
LEMMA LastMethodIsAround ==
    ASSUME FilesAreParsed, NEW i \in Nodes, ~Outside(i), Kind(DeclContext(i)) \in Methods, ~IsMistaken(i),
           NEW m \in Nat, IsLatest(m, i, Methods)
    PROVE  m = DeclContext(i)
<1> DEFINE F == DeclContext(i)
<1>1. F # 0
  BY NodesAreNumbers DEF Methods
<1>2. F \in Nodes /\ Kind(F) \in Methods /\ ~Outside(F) /\ F \in 1..i - 1 /\ i \in Nat
  BY <1>1, ContextsOfUserCode, NodesAreNumbers
<1>3. F <= m /\ F \in Nat \ {0}
  BY <1>2 DEF IsLatest
<1>4. m # 0
  <2> HIDE DEF F
  <2> QED BY <1>3
<1>5. m \in Nodes /\ m < i /\ Kind(m) \in Methods /\ tree[m].size \in Nat
  BY <1>4, NodesAreNested DEF IsLatest
<1>6. CASE i < m + tree[m].size
  <2>1. m \in 1..i - 1 /\ Kind(m) \in Contexts
    BY <1>2, <1>4, <1>5 DEF Contexts, FunctionContexts, Functions
  <2>2. m <= F
    BY <1>6, <2>1, AroundIs DEF DeclContext
  <2> HIDE DEF F
  <2>3. m = F
    BY <1>3, <2>2
  <2> QED BY <2>3 DEF F
<1>7. CASE ~(i < m + tree[m].size)
  <2> HIDE DEF F
  <2>1. m # F => m \in F + 1..i - 1 /\ m + tree[m].size <= i
    BY <1>2, <1>3, <1>5, <1>7
  <2>2. m = F
    BY <1>5, <2>1 DEF IsMistaken, IsBehind, F
  <2> QED BY <2>2 DEF F
<1> QED BY <1>6, <1>7

\* The map leads from what is in a constructor to no lambda.
LEMMA NoLambdaAround ==
    ASSUME FilesAreParsed, NEW i \in Nodes, Kind(DeclContext(i)) = "CXXConstructorDecl", Kind(i) # "LambdaExpr",
           \A j \in parentMap' : j \in Nodes /\ IsStmt(j)
    PROVE  getFirstParentOfType(i, {"LambdaExpr"}) = 0
<1> SUFFICES ASSUME NEW l \in Upwards(i), Kind(l) = "LambdaExpr" PROVE FALSE
  BY NoParentOfType
<1>1. l \in Nodes
  BY UpwardsIs, ParentsLeadUp
<1>2. IsStmt(l) /\ l # i
  BY DEF IsStmt, Statements
<1>3. i \in Below(l)
  BY <1>2, UpwardsIs
<1> QED BY <1>1, <1>3, ConstructorsAreNotInLambdas

\* The map leads from a call that is no part of another call to none.
LEMMA NoCallAround ==
    ASSUME FilesAreParsed, NEW i \in Nodes, IsStmt(i), \A j \in parentMap' : j \in Nodes /\ IsStmt(j),
           \A j \in 1..i - 1 : Kind(j) = "CXXMemberCallExpr" => i \notin Below(j)
    PROVE  parent(i) # 0 => getFirstParentOfType(parent(i), {"CXXMemberCallExpr"}) = 0
<1> SUFFICES ASSUME StmtParent(i) # 0
             PROVE  getFirstParentOfType(StmtParent(i), {"CXXMemberCallExpr"}) = 0
  BY DEF parent
<1> DEFINE p == StmtParent(i)
<1>1. p \in 0..i - 1 /\ i \in Nat \ {0} /\ 1..i - 1 \subseteq Nodes
  BY StatementsAreBelow, NodesAreNumbers
<1>2. p \in Nodes
  <2> HIDE DEF p
  <2>1. p # 0 => p \in 1..i - 1
    BY <1>1
  <2> QED BY <1>1, <2>1 DEF p
<1> SUFFICES ASSUME NEW l \in Upwards(p), Kind(l) = "CXXMemberCallExpr" PROVE FALSE
  BY <1>2, NoParentOfType
<1>3. l \in 1..p /\ (IsStmt(l) /\ l # p => p \in Below(l))
  BY <1>2, UpwardsIs
<1>4. l \in 1..i - 1 /\ l \in Nodes
  <2> HIDE DEF p
  <2>1. l \in 1..i - 1
    BY <1>1, <1>3
  <2> QED BY <1>1, <2>1
<1>5. IsStmt(l)
  BY DEF IsStmt, Statements, Calls
<1>6. CASE l = p
  BY <1>4, <1>5, <1>6, StatementsAreBelow DEF HasStmtParent
<1>7. CASE l # p
  <2>1. p \in Below(l)
    BY <1>3, <1>5, <1>7
  <2>2. IsStmt(p) /\ Below(p) \subseteq Below(l)
    BY <1>4, <2>1, StatementsAreBelow
  <2>3. i \in Below(p)
    BY <2>2, StatementsAreBelow DEF HasStmtParent
  <2> QED BY <1>4, <2>2, <2>3
<1> QED BY <1>6, <1>7

\* IncorrectEmit::VisitStmt finds the constructor around a signal.
LEMMA ConstructorEmitIsSeen ==
    ASSUME IInv, Visit(next), ~stopped', NEW i, i = next, i \in Nodes, IsStmt(i), ~Outside(i),
           EmitsItsOwn(i), Kind(DeclContext(i)) = "CXXConstructorDecl", ~IsMistaken(i)
    PROVE  <<Begin(i), "emit in constructor">> \in IncorrectEmit_VisitStmt(i)
<1> DEFINE f == CalleeOf(i)
<1>1. /\ lastMethodDecl' = lastMethodDecl /\ specified' = specified
      /\ FilesAreParsed /\ \A j \in parentMap' : j \in Nodes /\ IsStmt(j)
  <2>1. IInv' /\ UNCHANGED tree
    BY VisitStep, ProgramStays
  <2>2. \A j \in parentMap' : j \in Nodes /\ IsStmt(j)
    BY <2>1 DEF IInv, MapIsOfStatements, Nodes, IsStmt, Kind
  <2>3. Kind(i) \notin Declarations /\ Kind(i) \notin Records /\ Kind(i) \notin Methods
    BY NoStmtIsDeclaration DEF IsStmt, Declarations, Functions
  <2> QED BY <2>2, <2>3, VisitNotes DEF IInv
<1>2. lastMethodDecl \in Nat /\ IsLatest(lastMethodDecl, i, Methods)
  BY DEF IInv, ContextIsOfTheWalk
<1>3. Kind(lastMethodDecl') = "CXXConstructorDecl"
  <2>1. lastMethodDecl = DeclContext(i)
    BY <1>1, <1>2, LastMethodIsAround DEF Methods
  <2> QED BY <1>1, <2>1
<1>4. ~Is(i, "moc file") /\ Kind(i) = "CXXMemberCallExpr" /\ Kind(ImplicitObject(i)) = "CXXThisExpr"
  BY DEF EmitsItsOwn
<1>5. IsMethod(f) /\ "signal" \in f.is /\ ~IsUnknown(f)
  BY DEF EmitsItsOwn
<1>6. HasMet(f.class)
  <2>1. \A j \in Nodes : Kind(j) \in Records /\ Name(j) = f.class => j < i
    BY DEF EmitsItsOwn
  <2>2. specified' = {j \in Nodes : j < i /\ Kind(j) \in Records}
    BY <1>1 DEF IInv, ContextIsOfTheWalk, Walked
  <2> QED BY <2>1, <2>2 DEF HasMet
<1>7. checkCallSignalInsideCTOR(i)
  BY <1>1, <1>3, <1>4, NoLambdaAround DEF checkCallSignalInsideCTOR
<1>8. ~(parent(i) # 0 /\ getFirstParentOfType(parent(i), {"CXXMemberCallExpr"}) # 0)
  BY <1>1, NoCallAround DEF EmitsItsOwn
<1>9. WarnIf(IsSignal(f) /\ checkCallSignalInsideCTOR(i), i, "emit in constructor") \subseteq IncorrectEmit_VisitStmt(i)
  BY <1>4, <1>5, <1>8 DEF IncorrectEmit_VisitStmt
<1> QED BY <1>5, <1>6, <1>7, <1>9 DEF WarnIf, Warn, IsSignal

LEMMA EmitWarnings ==
    ASSUME NEW i, NEW w \in IncorrectEmit_VisitStmt(i), w[2] = "emit in constructor"
    PROVE  /\ ~Is(i, "moc file") /\ Kind(i) = "CXXMemberCallExpr"
           /\ w[1] = Begin(i) /\ checkCallSignalInsideCTOR(i)
<1>1. \A text : w \in Warn(i, text) => w = <<Begin(i), text>>
  BY DEF Warn
<1>2. ~Is(i, "moc file") /\ Kind(i) = "CXXMemberCallExpr"
  BY DEF IncorrectEmit_VisitStmt, Silence
<1>3. \/ w \in Warn(i, "missing emit") \/ w \in Warn(i, "emit of non-signal")
      \/ w \in Warn(i, "emit in constructor") /\ checkCallSignalInsideCTOR(i)
  BY DEF IncorrectEmit_VisitStmt, Silence, WarnIf
<1>4. w # <<Begin(i), "missing emit">> /\ w # <<Begin(i), "emit of non-signal">>
  <2>1. \A text : <<Begin(i), text>>[2] = text
    OBVIOUS
  <2>2. w[2] # "missing emit" /\ w[2] # "emit of non-signal"
    OBVIOUS
  <2> QED BY <2>1, <2>2, Zenon
<1>5. w = <<Begin(i), "emit in constructor">> /\ checkCallSignalInsideCTOR(i)
  BY <1>1, <1>3, <1>4
<1> QED BY <1>2, <1>5

\* And nothing else that is in a method or below a lambda.
LEMMA OnlyConstructorEmitsAreSeen ==
    ASSUME IInv, Visit(next), ~stopped', NEW i, i = next, i \in Nodes, IsStmt(i), ~Outside(i),
           Kind(i) = "CXXMemberCallExpr", checkCallSignalInsideCTOR(i)
    PROVE  /\ Kind(ImplicitObject(i)) = "CXXThisExpr"
           /\ Kind(DeclContext(i)) = "CXXConstructorDecl" \/ IsMistaken(i) \/ IsInitializer(i)
<1> DEFINE F == DeclContext(i)
<1>1. /\ lastMethodDecl' = lastMethodDecl /\ parentMap \subseteq parentMap'
      /\ FilesAreParsed /\ \A j \in parentMap' : j \in Nodes /\ IsStmt(j)
  <2>1. IInv' /\ UNCHANGED tree
    BY VisitStep, ProgramStays
  <2>2. \A j \in parentMap' : j \in Nodes /\ IsStmt(j)
    BY <2>1 DEF IInv, MapIsOfStatements, Nodes, IsStmt, Kind
  <2>3. Kind(i) \notin Methods
    BY NoStmtIsDeclaration DEF IsStmt, Declarations, Functions
  <2> QED BY <2>2, <2>3, VisitNotes, VisitMoves DEF IInv, ParentMapAfter
<1>2. lastMethodDecl \in Nat /\ IsLatest(lastMethodDecl, i, Methods) /\ ~stopped
  BY DEF IInv, ContextIsOfTheWalk, Visit
<1>4. /\ Kind(lastMethodDecl') = "CXXConstructorDecl" /\ Kind(ImplicitObject(i)) = "CXXThisExpr"
      /\ getFirstParentOfType(i, {"LambdaExpr"}) = 0
  BY DEF checkCallSignalInsideCTOR
<1>5. CASE Kind(F) \in Methods
  <2>1. ~IsMistaken(i) => lastMethodDecl = F
    BY <1>1, <1>2, <1>5, LastMethodIsAround
  <2> QED BY <1>1, <1>4, <2>1
<1>6. ASSUME Kind(F) = "LambdaExpr", i \in Below(F) PROVE FALSE
  <2>1. F # 0
    BY <1>1, <1>6, NodesAreNumbers
  <2>2. F \in Nodes /\ ~Outside(F) /\ F \in 1..i - 1 /\ IsStmt(F)
    BY <1>1, <1>6, <2>1, ContextsOfUserCode DEF IsStmt, Statements
  <2>3. F < next
    <3>1. i \in Nat
      BY <1>1, NodesAreNumbers
    <3>2. F < i
      <4> HIDE DEF F
      <4> QED BY <2>2, <3>1
    <3> QED BY <3>2
  <2>4. Below(F) \subseteq parentMap
    BY <1>2, <2>2, <2>3 DEF IInv, WalkedAreRoots, Walked
  <2>5. F \in Upwards(i)
    BY <1>1, <1>6, <2>2, <2>4, UpwardsIs
  <2> QED BY <1>1, <1>4, <1>6, <2>5, NoParentOfType
<1> QED BY <1>4, <1>5, <1>6 DEF IsInitializer

\* What is new of a check that visits statements is of the last one.
LEMMA NewReports ==
    ASSUME Preprocess \/ Visit(next) \/ MatchAST \/ UNCHANGED vars, NEW r \in reports', r \notin reports,
           r[1] \notin UNION {visitDecls, visitAllTypedefDecls, PreprocessorCallbacks, Matchers}
    PROVE  /\ Visit(next) /\ CallForStmt(next) /\ IsStmt(next) /\ ~stopped'
           /\ \E w \in CheckStmt(r[1], next) : r = <<r[1], w[1], w[2]>>
<1>1. \A c, warnings : r \in Said(c, warnings) => r[1] = c /\ \E w \in warnings : r = <<c, w[1], w[2]>>
  BY DEF Said
<1>2. ~UNCHANGED vars
  BY DEF vars
<1>3. ~Preprocess
  <2> SUFFICES ASSUME Preprocess PROVE FALSE
    OBVIOUS
  <2>1. PICK c \in PreprocessorCallbacks \cap addedChecks : r \in Said(c, CheckDirective(c, Head(directives)))
    BY DEF Preprocess, Emit
  <2> QED BY <1>1, <2>1
<1>4. ~MatchAST
  <2> SUFFICES ASSUME MatchAST PROVE FALSE
    OBVIOUS
  <2>1. PICK c \in Matchers \cap addedChecks, i \in Nodes : r \in Said(c, Match(c, i))
    BY DEF MatchAST, Emit
  <2> QED BY <1>1, <2>1
<1>5. ~VisitDecl(next)
  <2> SUFFICES ASSUME VisitDecl(next) PROVE FALSE
    OBVIOUS
  <2>1. PICK c \in CalledForDecl(next) : r \in Said(c, CheckDecl(c, next))
    BY DEF VisitDecl, Emit
  <2>2. c \in visitDecls \cup visitAllTypedefDecls
    BY <2>1 DEF CalledForDecl, Called
  <2> QED BY <1>1, <2>1, <2>2
<1>6. Visit(next) /\ CallForStmt(next) /\ IsStmt(next)
  BY <1>2, <1>3, <1>4, <1>5 DEF Visit, VisitStmt, SkipStmt, StopAtErrors
<1>7. ~stopped'
  BY <1>6 DEF Visit, CallForStmt
<1>8. PICK c \in Called(next, visitStmts) : r \in Said(c, CheckStmt(c, next))
  BY <1>6 DEF CallForStmt, Emit
<1> QED BY <1>1, <1>6, <1>7, <1>8

\* The call that a warning about a signal in a constructor is about.
IsEmitOf(i, r) ==
    /\ ~Is(i, "moc file") /\ Kind(i) = "CXXMemberCallExpr" /\ Kind(ImplicitObject(i)) = "CXXThisExpr" /\ r[2] = Begin(i)
    /\ Kind(DeclContext(i)) = "CXXConstructorDecl" \/ IsMistaken(i) \/ IsInitializer(i)

LEMMA EmitsStay ==
    ASSUME UNCHANGED <<requestedChecks, unit, tree>>
    PROVE  \A i : /\ EmitsItsOwn(i)' <=> EmitsItsOwn(i)
                  /\ IsMistaken(i)' <=> IsMistaken(i)
                  /\ \A r : IsEmitOf(i, r)' <=> IsEmitOf(i, r)
<1>1. /\ Nodes' = Nodes
      /\ \A i : Kind(i)' = Kind(i) /\ Begin(i)' = Begin(i) /\ DeclContext(i)' = DeclContext(i)
  BY NodesStay, ContextsStay
<1>2. \A i : /\ ImplicitObject(i)' = ImplicitObject(i) /\ CalleeOf(i)' = CalleeOf(i)
             /\ Name(i)' = Name(i) /\ Below(i)' = Below(i) /\ (Is(i, "moc file")' <=> Is(i, "moc file"))
  BY DEF ImplicitObject, Kind, Child, CalleeOf, Name, Attr, Below, Is
<1>3. \A i : IsMistaken(i)' <=> IsMistaken(i)
  BY <1>1 DEF IsMistaken, IsBehind, Kind
<1>4. \A i : EmitsItsOwn(i)' <=> EmitsItsOwn(i)
  BY <1>1, <1>2 DEF EmitsItsOwn, IsMethod, IsUnknown
<1>5. \A i, r : IsEmitOf(i, r)' <=> IsEmitOf(i, r)
  BY <1>1, <1>2, <1>3 DEF IsEmitOf, IsInitializer
<1> QED BY <1>3, <1>4, <1>5

LEMMA EmitsAreWarnedStep ==
    ASSUME IInv, ConstructorEmitsAreWarned, Preprocess \/ Visit(next) \/ MatchAST \/ UNCHANGED vars,
           NEW i \in Examined("incorrect-emit")',
           EmitsItsOwn(i), Kind(DeclContext(i)) = "CXXConstructorDecl", ~IsMistaken(i)
    PROVE  <<"incorrect-emit", Begin(i), "emit in constructor">> \in reports'
<1> DEFINE check == "incorrect-emit"
           w == <<Begin(i), "emit in constructor">>
<1>1. CASE i \in Examined(check)
  BY <1>1, ReportsStay DEF ConstructorEmitsAreWarned, Reported
<1>2. CASE i \notin Examined(check)
  <2>1. /\ Visit(i) /\ i = next /\ ~stopped'
        /\ i \in Nodes /\ IsStmt(i) /\ ~Outside(i) /\ check \in addedChecks
        /\ ~(IsFromIgnorableInclude(i) /\ canIgnoreIncludes(check))
    BY <1>2, ExaminedStep
  <2>2. check \in Called(i, visitStmts)
    BY <2>1 DEF Called, visitStmts, StmtChecks
  <2>3. CallForStmt(i) /\ w \in CheckStmt(check, i)
    BY <2>1, VisitAsks, ConstructorEmitIsSeen, AskedAboutEmits
  <2>4. <<check, w[1], w[2]>> \in reports'
    BY <2>2, <2>3, AnswersAreReported
  <2> QED BY <2>4
<1> QED BY <1>1, <1>2

\* What is behind the walk stays there.
LEMMA WalkedStay ==
    ASSUME IInv, Preprocess \/ Visit(next) \/ MatchAST \/ UNCHANGED vars
    PROVE  (Visit(next) => next < next') /\ \A i \in Walked : i < next'
<1>1. next' = next \/ next' = next + 1
  BY OthersKeepTheMap DEF Visit
<1>2. next \in Nat /\ \A i \in Walked : i \in Nat /\ i < next
  BY NodesAreNumbers DEF Walked, IInv
<1>3. Visit(next) => next' = next + 1
  BY DEF Visit
<1> QED BY <1>1, <1>2, <1>3

LEMMA OnlyEmitsAreWarnedStep ==
    ASSUME IInv, ConstructorEmitsAreWarned, Preprocess \/ Visit(next) \/ MatchAST \/ UNCHANGED vars,
           NEW r \in reports', r[1] = "incorrect-emit", r[3] = "emit in constructor"
    PROVE  \E i \in Nodes : i < next' /\ IsEmitOf(i, r)
<1>1. CASE r \in reports
  <2>1. PICK i \in Walked : IsEmitOf(i, r)
    BY <1>1 DEF ConstructorEmitsAreWarned, IsEmitOf
  <2> QED BY <2>1, WalkedStay DEF Walked
<1>2. CASE r \notin reports
  <2>1. r[1] \notin UNION {visitDecls, visitAllTypedefDecls, PreprocessorCallbacks, Matchers}
    BY DEF visitDecls, visitAllTypedefDecls, PreprocessorCallbacks, Matchers, DeclChecks, DeclChecksOfIncludes, MixedChecks,
           MixedChecksOfIncludes, TypedefChecks
  <2>2. /\ Visit(next) /\ CallForStmt(next) /\ IsStmt(next) /\ ~stopped'
        /\ \E w \in CheckStmt(r[1], next) : r = <<r[1], w[1], w[2]>>
    BY <1>2, <2>1, NewReports
  <2>3. PICK w \in IncorrectEmit_VisitStmt(next) : r = <<"incorrect-emit", w[1], w[2]>>
    BY <2>2, AskedAboutEmits
  <2>4. r[2] = w[1] /\ w[2] = "emit in constructor"
    BY <2>3
  <2>5. ~Is(next, "moc file") /\ Kind(next) = "CXXMemberCallExpr" /\ r[2] = Begin(next) /\ checkCallSignalInsideCTOR(next)
    BY <2>4, EmitWarnings
  <2>6. next \in Nodes /\ ~Outside(next)
    BY <2>2 DEF Visit, CallForStmt
  <2>7. /\ Kind(ImplicitObject(next)) = "CXXThisExpr"
        /\ Kind(DeclContext(next)) = "CXXConstructorDecl" \/ IsMistaken(next) \/ IsInitializer(next)
    BY <2>2, <2>5, <2>6, OnlyConstructorEmitsAreSeen
  <2>8. next < next'
    BY <2>2, WalkedStay
  <2> QED BY <2>5, <2>6, <2>7, <2>8 DEF IsEmitOf
<1> QED BY <1>1, <1>2

\* Nothing is walked and nothing is said where a file begins.
LEMMA FilesBeginWithoutEmits ==
    ASSUME FilesAreParsed, next = 1, reports = {} PROVE ConstructorEmitsAreWarned
<1>1. Walked = {}
  BY NothingBeforeOne DEF FilesAreParsed, Walked, Nodes
<1> QED BY <1>1 DEF ConstructorEmitsAreWarned, Examined

\* IncorrectEmit::checkCallSignalInsideCTOR asks ClazyContext for the last
\* method and the map of parents for a lambda: together they tell a signal
\* that a constructor emits from all others, but for a local class in between.
THEOREM ConstructorEmitsWarned == Spec => []ConstructorEmitsAreWarned
<1>1. Init => ConstructorEmitsAreWarned
  BY InitStep, FilesBeginWithoutEmits DEF Init, IInv
<1>2. IInv /\ ConstructorEmitsAreWarned /\ [Next]_vars => ConstructorEmitsAreWarned'
  <2> SUFFICES ASSUME IInv, ConstructorEmitsAreWarned, [Next]_vars PROVE ConstructorEmitsAreWarned'
    OBVIOUS
  <2>1. CASE NextTranslationUnit
    <3>1. IInv' /\ next' = 1 /\ reports' = {}
      BY <2>1, NextFileStep DEF NextTranslationUnit
    <3>2. Walked' = {}
      BY <3>1, NothingBeforeOne DEF IInv, FilesAreParsed, Walked, Nodes
    <3> QED BY <3>1, <3>2 DEF ConstructorEmitsAreWarned, Examined
  <2>2. CASE Preprocess \/ Visit(next) \/ MatchAST \/ UNCHANGED vars
    <3>1. UNCHANGED <<requestedChecks, unit, tree>>
      BY <2>2, ProgramStays
    <3>2. ASSUME NEW i \in Examined("incorrect-emit")',
                 EmitsItsOwn(i)' /\ Kind(DeclContext(i))' = "CXXConstructorDecl" /\ ~IsMistaken(i)'
          PROVE  Reported("incorrect-emit", i, "emit in constructor")'
      <4>1. EmitsItsOwn(i) /\ Kind(DeclContext(i)) = "CXXConstructorDecl" /\ ~IsMistaken(i) /\ Begin(i)' = Begin(i)
        BY <3>1, <3>2, EmitsStay, NodesStay, ContextsStay
      <4> QED BY <2>2, <4>1, EmitsAreWarnedStep DEF Reported
    <3>3. ASSUME NEW r \in reports', r[1] = "incorrect-emit" /\ r[3] = "emit in constructor"
          PROVE  \E i \in Walked' : IsEmitOf(i, r)'
      <4>1. PICK i \in Nodes : i < next' /\ IsEmitOf(i, r)
        BY <2>2, <3>3, OnlyEmitsAreWarnedStep
      <4> QED BY <3>1, <4>1, NodesStay, EmitsStay DEF Walked
    <3> QED BY <3>2, <3>3 DEF ConstructorEmitsAreWarned, IsEmitOf
  <2> QED BY <2>1, <2>2 DEF Next
<1> QED BY <1>1, <1>2, WalkIsKept, PTL DEF Spec

-----------------------------------------------------------------------------
(* old-style-connect.                                                      *)

Unfixable == {"disconnect2", "disconnect3", "open"}

\* OldStyleConnect::fixits goes through the arguments.
LEMMA FixitsRun ==
    ASSUME NEW kind, kind \notin Unfixable, NEW i, NEW static, Len(Args(i)) \in Nat
    PROVE  \E f : /\ f[0] = BeforeArgs(static)
                  /\ \A k \in 1..Len(Args(i)) : f[k] = AfterArg(kind, i, Args(i)[k], f[k - 1])
                  /\ Fixits(kind, i, static) = f[Len(Args(i))]
<1> DEFINE n == Len(Args(i))
           RunOf(f, m) == f = [k \in 0..m |-> IF k = 0 THEN BeforeArgs(static) ELSE AfterArg(kind, i, Args(i)[k], f[k - 1])]
           after == CHOOSE f : RunOf(f, n)
           T == {m \in 0..n : \E f : RunOf(f, m)}
<1>1. 0 \in T
  <2> DEFINE f == [k \in 0..0 |-> BeforeArgs(static)]
  <2>1. RunOf(f, 0)
    <3>1. \A k \in 0..0 : k = 0
      OBVIOUS
    <3> QED BY <3>1
  <2>2. 0 \in 0..n
    OBVIOUS
  <2> HIDE DEF f, RunOf, n
  <2> QED BY <2>1, <2>2
<1>2. ASSUME NEW m \in 1..n, m - 1 \in T PROVE m \in T
  <2> DEFINE Next1(k, before) == AfterArg(kind, i, Args(i)[k], before)
  <2>1. PICK f : RunOf(f, m - 1)
    BY <1>2
  <2> DEFINE g == [k \in 0..m |-> IF k = m THEN Next1(m, f[m - 1]) ELSE f[k]]
  <2>2. m \in Nat \ {0} /\ 0..m - 1 \subseteq 0..m /\ 0 \in 0..m - 1 /\ m \in 0..m /\ m \in 0..n /\ m \notin 0..m - 1
    BY <1>2
  <2>3. \A k \in 0..m - 1 : f[k] = IF k = 0 THEN BeforeArgs(static) ELSE Next1(k, f[k - 1])
    <3> HIDE DEF Next1
    <3> QED BY <2>1 DEF Next1
  <2>4. \A k \in 1..m : k - 1 \in 0..m - 1 /\ k - 1 \in 0..m /\ k - 1 # m /\ (k # m => k \in 0..m - 1)
    BY <2>2
  <2>5. \A k \in 0..m : k # 0 => k \in 1..m
    BY <2>2
  <2> HIDE DEF Next1
  <2>6. \A k \in 0..m - 1 : g[k] = f[k]
    BY <2>2
  <2>7. g[m] = Next1(m, f[m - 1]) /\ g[m - 1] = f[m - 1]
    BY <2>2, <2>4, <2>6
  <2>8. g[0] = BeforeArgs(static)
    BY <2>2, <2>3, <2>6
  <2>9. \A k \in 1..m : g[k] = Next1(k, g[k - 1])
    <3> TAKE k \in 1..m
    <3>1. CASE k = m
      BY <2>7, <3>1
    <3>2. CASE k # m
      <4>1. k \in 0..m - 1 /\ k - 1 \in 0..m - 1 /\ k # 0
        BY <2>4, <3>2
      <4> QED BY <2>3, <2>6, <4>1
    <3> QED BY <3>1, <3>2
  <2>10. g = [k \in 0..m |-> g[k]]
    OBVIOUS
  <2> HIDE DEF g
  <2>11. g = [k \in 0..m |-> IF k = 0 THEN BeforeArgs(static) ELSE Next1(k, g[k - 1])]
    BY <2>5, <2>8, <2>9, <2>10
  <2>12. RunOf(g, m)
    BY <2>11 DEF Next1
  <2> HIDE DEF RunOf
  <2> QED BY <2>2, <2>12
<1>3. n \in T
  <2>1. 0 + 1..n = 1..n /\ n \in 0..n
    OBVIOUS
  <2> HIDE DEF T, n
  <2>2. n \in Nat
    BY DEF n
  <2>3. 0..n \subseteq T
    BY <1>1, <1>2, <2>1, <2>2, RangeInduction
  <2> QED BY <2>1, <2>3
<1>4. RunOf(after, n)
  <2> HIDE DEF RunOf
  <2> QED BY <1>3
<1>5. Fixits(kind, i, static) = after[n]
  BY DEF Fixits, Unfixable
<1> HIDE DEF after
<1>6. after[0] = BeforeArgs(static)
  <2>1. 0 \in 0..n
    OBVIOUS
  <2> QED BY <1>4, <2>1
<1>7. \A k \in 1..n : after[k] = AfterArg(kind, i, Args(i)[k], after[k - 1])
  <2>1. \A k \in 1..n : k \in 0..n /\ k # 0
    OBVIOUS
  <2> QED BY <1>4, <2>1
<1> QED BY <1>5, <1>6, <1>7

\* What an argument does to the class: a macro forgets it or is why the search
\* fails, an object with a class gives it a new one.
HasState(s) == {"class", "failed"} \subseteq DOMAIN s

ForgetsOrLearns(arg, before, after) ==
    /\ HasState(after)
    /\ \/ after.failed # ""
       \/ before.failed = "" /\ isSignalOrSlot(arg) /\ after.class = ""
       \/ /\ before.failed = "" /\ ~isSignalOrSlot(arg)
          /\ getBestDynamicClassType(arg) # "" \/ after.class = before.class

LEMMA ArgumentsStep ==
    ASSUME NEW kind, NEW i, NEW arg, NEW before, HasState(before)
    PROVE  ForgetsOrLearns(arg, before, AfterArg(kind, i, arg, before))
<1> DEFINE class == IF before.class # "" \/ kind # "connect4" THEN before.class ELSE recordForMemberCall(i).class
           why == WhyNot(kind, i, arg, class, before.sender)
           f == CHOOSE m \in methodsFromString(class, Attr(arg, "method", "")) : TRUE
           after == AfterArg(kind, i, arg, before)
<1>1. CASE before.failed # ""
  <2>1. after = before
    BY <1>1 DEF AfterArg
  <2> QED BY <1>1, <2>1 DEF ForgetsOrLearns
<1>2. CASE before.failed = "" /\ ~isSignalOrSlot(arg)
  <2>1. after = IF getBestDynamicClassType(arg) = "" THEN before
                ELSE [before EXCEPT !.class = getBestDynamicClassType(arg)]
    BY <1>2 DEF AfterArg
  <2>2. HasState(after)
    BY <2>1 DEF HasState
  <2> QED BY <1>2, <2>1, <2>2 DEF ForgetsOrLearns
<1>3. CASE before.failed = "" /\ isSignalOrSlot(arg) /\ why # ""
  <2>1. after = [before EXCEPT !.class = class, !.failed = why, !.at = arg]
    BY <1>3 DEF AfterArg
  <2> HIDE DEF class, why
  <2>2. HasState(after) /\ after.failed = why
    BY <2>1 DEF HasState
  <2> QED BY <1>3, <2>2 DEF ForgetsOrLearns
<1>4. CASE before.failed = "" /\ isSignalOrSlot(arg) /\ why = ""
  <2>1. after = [before EXCEPT !.class = "", !.macros = @ + 1, !.qualified = @ \/ NeededContexts(f, arg) # <<>>,
                               !.sender = IF before.macros = 0 THEN f ELSE @]
    BY <1>4 DEF AfterArg
  <2> HIDE DEF f, class, why
  <2>2. DOMAIN after = DOMAIN before /\ after.class = ""
    BY <2>1 DEF HasState
  <2>3. HasState(after)
    BY <2>2 DEF HasState
  <2> QED BY <1>4, <2>2, <2>3 DEF ForgetsOrLearns
<1> QED BY <1>1, <1>2, <1>3, <1>4

\* An argument with a class comes behind all macros.
LEMMA ClassBehindArguments ==
    ASSUME NEW kind, kind \notin Unfixable, NEW i, NEW static, Len(Args(i)) \in Nat
    PROVE  \/ Fixits(kind, i, static).failed # ""
           \/ Fixits(kind, i, static).class \in {"", static}
           \/ \E j \in 1..Len(Args(i)) :
                 /\ getBestDynamicClassType(Args(i)[j]) # ""
                 /\ \A l \in 1..Len(Args(i)) : isSignalOrSlot(Args(i)[l]) => l < j
<1> DEFINE n == Len(Args(i))
           A == Args(i)
<1>1. PICK f : /\ f[0] = BeforeArgs(static)
               /\ \A k \in 1..n : f[k] = AfterArg(kind, i, A[k], f[k - 1])
               /\ Fixits(kind, i, static) = f[n]
  BY FixitsRun
<1> DEFINE Behind(k) == \E j \in 1..k : /\ getBestDynamicClassType(A[j]) # ""
                                        /\ \A l \in 1..k : isSignalOrSlot(A[l]) => l < j
           Holds(k) == HasState(f[k]) /\ (f[k].failed # "" \/ f[k].class \in {"", static} \/ Behind(k))
           T == {k \in 0..n : Holds(k)}
<1>2. 0 \in T
  <2>1. f[0].class = static /\ HasState(f[0])
    <3>1. BeforeArgs(static).class = static /\ HasState(BeforeArgs(static))
      BY DEF BeforeArgs, HasState
    <3> QED BY <1>1, <3>1
  <2>2. 0 \in 0..n
    OBVIOUS
  <2> HIDE DEF Behind, n
  <2> QED BY <2>1, <2>2
<1>3. ASSUME NEW k \in 1..n, k - 1 \in T PROVE k \in T
  <2>1. /\ k \in Nat \ {0} /\ k \in 0..n /\ k \in 1..k /\ 1..k - 1 \subseteq 1..k
        /\ \A l \in 1..k : l # k => l < k /\ l \in 1..k - 1
    OBVIOUS
  <2>2. HasState(f[k - 1]) /\ f[k] = AfterArg(kind, i, A[k], f[k - 1])
    BY <1>1, <1>3
  <2>3. /\ HasState(f[k])
        /\ \/ f[k].failed # ""
           \/ f[k - 1].failed = "" /\ isSignalOrSlot(A[k]) /\ f[k].class = ""
           \/ /\ f[k - 1].failed = "" /\ ~isSignalOrSlot(A[k])
              /\ getBestDynamicClassType(A[k]) # "" \/ f[k].class = f[k - 1].class
    <3>1. ForgetsOrLearns(A[k], f[k - 1], f[k])
      BY <2>2, ArgumentsStep
    <3> QED BY <3>1 DEF ForgetsOrLearns
  <2>4. ASSUME ~isSignalOrSlot(A[k]), getBestDynamicClassType(A[k]) # "" PROVE Behind(k)
    BY <2>1, <2>4
  <2>5. ASSUME ~isSignalOrSlot(A[k]), Behind(k - 1) PROVE Behind(k)
    BY <2>1, <2>5
  <2>6. Holds(k - 1)
    BY <1>3
  <2> HIDE DEF Behind
  <2>7. Holds(k)
    BY <2>3, <2>4, <2>5, <2>6
  <2> QED BY <2>1, <2>7
<1>4. Holds(n)
  <2>1. n \in 0..n /\ 0 + 1..n = 1..n
    OBVIOUS
  <2> HIDE DEF T, n
  <2>2. n \in Nat
    BY DEF n
  <2>3. 0..n \subseteq T
    BY <1>2, <1>3, <2>1, <2>2, RangeInduction
  <2> QED BY <2>1, <2>3 DEF T
<1> QED BY <1>1, <1>4

\* The class that outlives a call: that of the last argument, when that comes
\* behind the macros; that of the call before; or what a failure leaves.
LEMMA ClassOfFixits ==
    ASSUME NEW i, NEW static, Len(Args(i)) \in Nat, DOMAIN Args(i) = 1..Len(Args(i)), classifyConnect(i) \notin {"", "bogus"}
    PROVE  \/ Fixits(classifyConnect(i), i, static).failed # ""
           \/ Fixits(classifyConnect(i), i, static).class \in {"", static}
           \/ IsLeftBehind(i)
<1> DEFINE kind == classifyConnect(i)
<1>1. CASE kind \in Unfixable
  <2> DEFINE r == [BeforeArgs(static) EXCEPT !.failed = "not implemented", !.at = i]
  <2>1. Fixits(kind, i, static) = r
    BY <1>1 DEF Fixits, Unfixable
  <2>2. r.failed = "not implemented"
    BY DEF BeforeArgs
  <2> HIDE DEF r
  <2> QED BY <2>1, <2>2
<1>2. CASE kind \notin Unfixable
  BY <1>2, ClassBehindArguments DEF IsLeftBehind
<1> QED BY <1>1, <1>2

\* An argument left behind by a connection stays that while the file is walked.
LEMMA LeftBehindStays ==
    ASSUME UNCHANGED <<tree, classes>>
    PROVE  \A i : Instance(i)' = Instance(i) /\ (IsLeftBehind(i)' <=> IsLeftBehind(i))
<1>1. \A i : Instance(i)' = Instance(i) /\ Args(i)' = Args(i)
  BY DEF Instance, Kind, Args
<1>2. \A i : CalleeOf(i)' = CalleeOf(i) /\ (isSignalOrSlot(i)' <=> isSignalOrSlot(i))
  BY DEF CalleeOf, isSignalOrSlot, Macro, Attr
<1>3. \A i : NumLiterals(i)' = NumLiterals(i)
  BY SMT DEF NumLiterals, Args, isSignalOrSlot, Macro, Attr
<1>4. ASSUME NEW i PROVE classifyConnect(i)' = classifyConnect(i)
  <2> DEFINE f == CalleeOf(i)
             kind == ConnectKind(f)
  <2>1. kind' = kind /\ (connectHasPMFStyle(f)' <=> connectHasPMFStyle(f))
    BY <1>2, SMT
  <2>2. AreLiterals(kind, i)' <=> AreLiterals(kind, i)
    BY <1>2, <1>3, <2>1, SMT DEF AreLiterals
  <2>3. classifyConnect(i) = IF kind = "" \/ connectHasPMFStyle(f) \/ ~AreLiterals(kind, i) THEN "" ELSE kind
    BY DEF classifyConnect
  <2>4. classifyConnect(i)' =
          IF kind' = "" \/ connectHasPMFStyle(f)' \/ ~AreLiterals(kind, i)' THEN "" ELSE kind'
    BY DEF classifyConnect
  <2> HIDE DEF kind
  <2> QED BY <2>1, <2>2, <2>3, <2>4
<1>5. \A arg : getBestDynamicClassType(arg)' = getBestDynamicClassType(arg)
  BY SMT DEF getBestDynamicClassType, RecordOf, IsClass, Pointee, TypeOf, Kind, Attr, Child
<1> QED BY <1>1, <1>2, <1>4, <1>5 DEF IsLeftBehind

LEMMA ArgsAreSeqs ==
    ASSUME FilesAreParsed, NEW i \in Nodes PROVE Len(Args(i)) \in Nat /\ DOMAIN Args(i) = 1..Len(Args(i))
<1>1. Args(i) \in Seq(DOMAIN tree)
  BY DEF FilesAreParsed, IsTree, Nodes, Args
<1> QED BY <1>1, LenProperties

LEMMA AskedAboutConnections ==
    \A i : CheckStmt("old-style-connect", i) = OldStyleConnect_VisitStmt(i)
BY DEF CheckStmt

\* OldStyleConnect::VisitStmt warns about every connection it looks at.
LEMMA FailureIsSaid ==
    ASSUME NEW i, IsLookedAt(i), classifyConnect(i) # "bogus",
           Fixits(classifyConnect(i), i, lastRecordDecl[Instance(i)]).failed # ""
    PROVE  <<Begin(i), "old style">> \in OldStyleConnect_VisitStmt(i)
BY DEF OldStyleConnect_VisitStmt, Warn

\* Only a connection changes the statics.
LEMMA ClassesChange ==
    ASSUME Preprocess \/ Visit(next) \/ MatchAST \/ UNCHANGED vars, lastRecordDecl' # lastRecordDecl
    PROVE  /\ Visit(next) /\ CallForStmt(next) /\ IsStmt(next) /\ ~stopped'
           /\ "old-style-connect" \in Called(next, visitStmts)
           /\ IsLookedAt(next) /\ classifyConnect(next) # "bogus"
           /\ lastRecordDecl' =
                [lastRecordDecl EXCEPT ![Instance(next)] =
                    Fixits(classifyConnect(next), next, lastRecordDecl[Instance(next)]).class]
<1>1. ~(Preprocess \/ MatchAST \/ UNCHANGED vars)
  BY DEF Preprocess, RememberDirective, MatchAST, vars, statics
<1>2. ~VisitDecl(next) /\ ~SkipStmt(next) /\ ~StopAtErrors(next)
  BY DEF VisitDecl, RememberDecl, SkipStmt, StopAtErrors, statics
<1>3. Visit(next) /\ CallForStmt(next) /\ IsStmt(next) /\ ~stopped'
  BY <1>1, <1>2 DEF Visit, VisitStmt, CallForStmt
<1>4. lastRecordDecl' =
        IF "old-style-connect" \in Called(next, visitStmts) THEN LastRecordDeclAfter(next) ELSE lastRecordDecl
  BY <1>3 DEF CallForStmt, RememberStmt
<1>5. "old-style-connect" \in Called(next, visitStmts) /\ lastRecordDecl' = LastRecordDeclAfter(next)
  BY <1>4
<1> QED BY <1>3, <1>5 DEF LastRecordDeclAfter

\* Why there is a class in the static of an instance.
HasReason(instance) ==
    \/ \E r \in reports : r[1] = "old-style-connect" /\ r[3] = "old style"
    \/ \E i \in Walked : Instance(i) = instance /\ IsLeftBehind(i)
    \/ earlier # <<>> /\ earlier[Len(earlier)].lastRecordDecl[instance] # ""

LEMMA ReasonsStay ==
    ASSUME IInv, Preprocess \/ Visit(next) \/ MatchAST \/ UNCHANGED vars
    PROVE  \A instance : HasReason(instance) => HasReason(instance)'
<1>1. UNCHANGED <<requestedChecks, unit, tree, classes>> /\ reports \subseteq reports' /\ earlier' = earlier
  BY ProgramStays, ReportsStay DEF Preprocess, Visit, MatchAST, vars
<1>2. Walked \subseteq Walked'
  BY <1>1, WalkedStay, NodesStay DEF Walked
<1> QED BY <1>1, <1>2, LeftBehindStays DEF HasReason

LEMMA ClassesStep ==
    ASSUME IInv, ClassesAreForgotten, Preprocess \/ Visit(next) \/ MatchAST \/ UNCHANGED vars
    PROVE  ClassesAreForgotten'
<1> SUFFICES ASSUME NEW instance \in DOMAIN lastRecordDecl', lastRecordDecl'[instance] # ""
             PROVE  HasReason(instance)'
  BY DEF ClassesAreForgotten, HasReason
<1>1. instance \in DOMAIN lastRecordDecl /\ lastRecordDecl[instance] # "" => HasReason(instance)'
  BY ReasonsStay DEF ClassesAreForgotten, HasReason
<1>2. CASE lastRecordDecl' = lastRecordDecl
  BY <1>1, <1>2
<1>3. CASE lastRecordDecl' # lastRecordDecl
  <2> DEFINE i == next
             fixits == Fixits(classifyConnect(i), i, lastRecordDecl[Instance(i)])
  <2>1. /\ Visit(i) /\ CallForStmt(i) /\ IsStmt(i) /\ ~stopped'
        /\ "old-style-connect" \in Called(i, visitStmts)
        /\ IsLookedAt(i) /\ classifyConnect(i) # "bogus"
        /\ lastRecordDecl' = [lastRecordDecl EXCEPT ![Instance(i)] = fixits.class]
    BY <1>3, ClassesChange
  <2>2. i \in Nodes /\ classifyConnect(i) \notin {"", "bogus"}
    BY <2>1 DEF Visit, IsLookedAt
  <2>3. instance \in DOMAIN lastRecordDecl /\ (instance # Instance(i) => lastRecordDecl'[instance] = lastRecordDecl[instance])
    <3> HIDE DEF fixits
    <3> QED BY <2>1
  <2>4. CASE instance # Instance(i)
    BY <1>1, <2>3, <2>4
  <2>5. CASE instance = Instance(i)
    <3>1. lastRecordDecl'[instance] = fixits.class
      <4> HIDE DEF fixits
      <4> QED BY <2>1, <2>3, <2>5
    <3>2. \/ fixits.failed # "" \/ fixits.class \in {"", lastRecordDecl[Instance(i)]} \/ IsLeftBehind(i)
      BY <2>2, ClassOfFixits, ArgsAreSeqs DEF IInv
    <3>3. CASE fixits.failed # ""
      <4>1. <<Begin(i), "old style">> \in CheckStmt("old-style-connect", i)
        BY <2>1, <3>3, FailureIsSaid, AskedAboutConnections
      <4> DEFINE w == <<Begin(i), "old style">>
      <4>2. <<"old-style-connect", w[1], w[2]>> \in reports'
        BY <2>1, <4>1, AnswersAreReported
      <4> QED BY <4>2 DEF HasReason
    <3>4. CASE fixits.class \in {"", lastRecordDecl[Instance(i)]}
      <4>1. lastRecordDecl[instance] # ""
        <5> HIDE DEF fixits
        <5> QED BY <2>5, <3>1, <3>4
      <4> QED BY <1>1, <2>3, <4>1
    <3>5. CASE IsLeftBehind(i)
      <4>1. UNCHANGED <<requestedChecks, unit, tree, classes>> /\ i < next'
        BY <2>1, ProgramStays, WalkedStay
      <4>2. i \in Walked'
        BY <2>2, <4>1, NodesStay DEF Walked
      <4>3. \E j \in Walked' : Instance(j)' = instance /\ IsLeftBehind(j)'
        <5>1. \A j : j = i => Instance(j)' = instance /\ IsLeftBehind(j)'
          BY <2>5, <3>5, <4>1, LeftBehindStays
        <5> QED BY <4>2, <5>1
      <4> QED BY <4>3 DEF HasReason
    <3> QED BY <3>2, <3>3, <3>4, <3>5
  <2> QED BY <2>4, <2>5
<1> QED BY <1>2, <1>3

\* The files before are known one after the other.
EarlierIsSeq == earlier \in Seq(SetOf(earlier))

LEMMA AppendToItsOwn ==
    ASSUME NEW s, s \in Seq(SetOf(s)), NEW e
    PROVE  /\ Append(s, e) \in Seq(SetOf(Append(s, e))) /\ Append(s, e) # <<>>
           /\ Append(s, e)[Len(Append(s, e))] = e
<1> DEFINE S == SetOf(s) \cup {e}
           t == Append(s, e)
<1>1. s \in Seq(S) /\ e \in S
  <2>1. DOMAIN s = 1..Len(s) /\ Len(s) \in Nat
    BY LenProperties
  <2>2. \A k \in 1..Len(s) : s[k] \in S
    BY <2>1, ElementOfSeq
  <2> QED BY <2>1, <2>2, LenProperties
<1>2. t \in Seq(S) /\ Len(t) = Len(s) + 1 /\ t[Len(s) + 1] = e /\ t # <<>>
  BY <1>1, AppendProperties, EmptySeq, LenProperties
<1>3. t \in Seq(SetOf(t))
  <2> HIDE DEF t, S
  <2>1. DOMAIN t = 1..Len(t)
    BY <1>2, LenProperties
  <2> QED BY <1>2, <2>1, SeqOfRange, RangeEquality DEF SetOf
<1> QED BY <1>2, <1>3

LEMMA EarlierIsKept == Spec => []EarlierIsSeq
<1>1. Init => EarlierIsSeq
  BY EmptySeq DEF Init, EarlierIsSeq
<1>2. EarlierIsSeq /\ [Next]_vars => EarlierIsSeq'
  <2> SUFFICES ASSUME EarlierIsSeq, [Next]_vars PROVE EarlierIsSeq'
    OBVIOUS
  <2>1. CASE NextTranslationUnit
    <3>1. earlier' = Append(earlier, [unit |-> unit, reports |-> reports, lastRecordDecl |-> lastRecordDecl])
      BY <2>1 DEF NextTranslationUnit
    <3> QED BY <3>1, AppendToItsOwn DEF EarlierIsSeq
  <2>2. CASE Preprocess \/ Visit(next) \/ MatchAST \/ UNCHANGED vars
    <3>1. earlier' = earlier
      BY <2>2 DEF Preprocess, Visit, MatchAST, vars
    <3> QED BY <3>1 DEF EarlierIsSeq
  <2> QED BY <2>1, <2>2 DEF Next
<1> QED BY <1>1, <1>2, PTL DEF Spec

\* OldStyleConnect::fixits keeps the class of an argument in a static for the
\* macro behind it and forgets it when the macro was replaced.  Whatever the
\* connections and the files are, it only outlives its call where a connection
\* failed, where an argument with a class comes behind all macros, or where
\* the file before left it.
THEOREM ClassesForgotten == Spec => []ClassesAreForgotten
<1>1. Init => ClassesAreForgotten
  BY DEF Init, StaticsInit, ClassesAreForgotten
<1>2. IInv /\ EarlierIsSeq /\ ClassesAreForgotten /\ [Next]_vars => ClassesAreForgotten'
  <2> SUFFICES ASSUME IInv, EarlierIsSeq, ClassesAreForgotten, [Next]_vars PROVE ClassesAreForgotten'
    OBVIOUS
  <2>1. CASE NextTranslationUnit
    <3> DEFINE file == [unit |-> unit, reports |-> reports, lastRecordDecl |-> lastRecordDecl]
    <3>1. earlier' = Append(earlier, file) /\ lastRecordDecl' = lastRecordDecl
      BY <2>1 DEF NextTranslationUnit, statics
    <3> HIDE DEF file
    <3>2. earlier' # <<>> /\ earlier'[Len(earlier')] = file
      BY <3>1, AppendToItsOwn DEF EarlierIsSeq
    <3>3. file.lastRecordDecl = lastRecordDecl
      BY DEF file
    <3>4. \A instance \in DOMAIN lastRecordDecl' :
            lastRecordDecl'[instance] # ""
            => earlier' # <<>> /\ earlier'[Len(earlier')].lastRecordDecl[instance] # ""
      BY <3>1, <3>2, <3>3
    <3> QED BY <3>4 DEF ClassesAreForgotten
  <2>2. CASE Preprocess \/ Visit(next) \/ MatchAST \/ UNCHANGED vars
    BY <2>2, ClassesStep
  <2> QED BY <2>1, <2>2 DEF Next
<1> QED BY <1>1, <1>2, WalkIsKept, EarlierIsKept, PTL DEF Spec

-----------------------------------------------------------------------------
(* Where errors end a walk.                                                *)

\* The checks that look at more than statements.
OtherChecks == UNION {visitDecls, visitAllTypedefDecls, PreprocessorCallbacks, Matchers}

\* VisitStmt gives up before it makes the map of parents, or never: a stopped
\* walk has asked about no statement at all, whatever the checks are, and only
\* stops where something reported an error; a check that is a matcher, or
\* visits declarations, has its say.  The matchers wait for the end of a walk.
WalksStopAtTheFirstStatement ==
    /\ stopped => unrecoverableError /\ ~hasParentMap
    /\ ~hasParentMap =>
         /\ parentMap = {}
         /\ \A r \in reports : r[1] \in OtherChecks
         /\ \A i \in Walked : IsStmt(i) => Outside(i) \/ (stopped /\ next = i + 1)
    /\ matched => WalkIsOver
    /\ \A r \in reports : r[1] \in asErrors => unrecoverableError

\* A declaration stops nothing.
LEMMA DeclsKeepStops ==
    ASSUME IInv, WalksStopAtTheFirstStatement, Visit(next), VisitDecl(next)
    PROVE  /\ hasParentMap' = hasParentMap /\ parentMap' = parentMap /\ stopped' = stopped
           /\ unrecoverableError => unrecoverableError'
           /\ ~IsStmt(next)
           /\ \A r \in reports' : r \in reports \/ (r[1] \in OtherChecks /\ (r[1] \in asErrors => unrecoverableError'))
<1>1. ~IsStmt(next)
  BY NoStmtIsDeclaration DEF VisitDecl, IsStmt
<1>2. /\ hasParentMap' = hasParentMap /\ parentMap' = parentMap /\ stopped' = stopped
      /\ unrecoverableError => unrecoverableError'
  BY DEF VisitDecl, Emit
<1>3. ASSUME NEW r \in reports', r \notin reports
      PROVE  r[1] \in OtherChecks /\ (r[1] \in asErrors => unrecoverableError')
  <2>1. PICK c \in CalledForDecl(next) : r \in Said(c, CheckDecl(c, next))
    BY <1>3 DEF VisitDecl, Emit
  <2>2. r[1] = c
    BY <2>1 DEF Said
  <2>3. c \in OtherChecks
    BY <2>1 DEF CalledForDecl, Called, OtherChecks
  <2>4. r[1] \in asErrors => unrecoverableError'
    BY <2>1 DEF VisitDecl, Emit
  <2> QED BY <2>2, <2>3, <2>4
<1> QED BY <1>1, <1>2, <1>3

\* A statement is skipped, or stops the walk, or every statement from here on is
\* asked about.
LEMMA VisitKeepsStops == IInv /\ WalksStopAtTheFirstStatement /\ Visit(next) => WalksStopAtTheFirstStatement'
<1> SUFFICES ASSUME IInv, WalksStopAtTheFirstStatement, Visit(next) PROVE WalksStopAtTheFirstStatement'
  OBVIOUS
<1>1. /\ UNCHANGED <<requestedChecks, unit, tree, asErrors, matched>> /\ ~stopped /\ next' = next + 1 /\ next \in Nodes
      /\ next \in Nat
  BY ProgramStays DEF Visit, program, IInv
<1>2. ~matched
  BY <1>1 DEF WalksStopAtTheFirstStatement, WalkIsOver
<1>3. /\ Nodes' = Nodes /\ \A i : IsStmt(i)' = IsStmt(i) /\ Outside(i)' = Outside(i)
  BY <1>1, NodesStay
<1>4. \A i \in Walked' : i \in Walked \/ i = next
  <2>1. \A i \in Nodes : i < next + 1 => i < next \/ i = next
    BY <1>1, NodesAreNumbers DEF IInv
  <2> QED BY <1>1, <1>3, <2>1 DEF Walked
<1>5. CASE VisitDecl(next)
  <2>1. /\ hasParentMap' = hasParentMap /\ parentMap' = parentMap /\ stopped' = stopped
        /\ unrecoverableError => unrecoverableError'
        /\ ~IsStmt(next)
        /\ \A r \in reports' : r \in reports \/ (r[1] \in OtherChecks /\ (r[1] \in asErrors => unrecoverableError'))
    BY <1>5, DeclsKeepStops
  <2> QED BY <1>1, <1>2, <1>3, <1>4, <2>1 DEF WalksStopAtTheFirstStatement
<1>6. CASE SkipStmt(next)
  BY <1>1, <1>2, <1>3, <1>4, <1>6 DEF SkipStmt, context, WalksStopAtTheFirstStatement
<1>7. CASE StopAtErrors(next)
  BY <1>1, <1>2, <1>3, <1>4, <1>7 DEF StopAtErrors, context, WalksStopAtTheFirstStatement
<1>8. CASE CallForStmt(next)
  <2>1. hasParentMap' /\ ~stopped' /\ (unrecoverableError => unrecoverableError')
    BY <1>1, <1>8 DEF CallForStmt, Emit
  <2>2. ASSUME NEW r \in reports', r[1] \in asErrors' PROVE unrecoverableError'
    <3>1. CASE r \in reports
      BY <1>1, <2>1, <2>2, <3>1 DEF WalksStopAtTheFirstStatement
    <3>2. CASE r \notin reports
      BY <1>1, <1>8, <2>2, <3>2 DEF CallForStmt, Emit
    <3> QED BY <3>1, <3>2
  <2> QED BY <1>1, <1>2, <2>1, <2>2 DEF WalksStopAtTheFirstStatement
<1> QED BY <1>5, <1>6, <1>7, <1>8 DEF Visit, VisitStmt

LEMMA OthersKeepStops ==
    IInv /\ WalksStopAtTheFirstStatement /\ (Preprocess \/ MatchAST \/ UNCHANGED vars) => WalksStopAtTheFirstStatement'
<1> SUFFICES ASSUME IInv, WalksStopAtTheFirstStatement, Preprocess \/ MatchAST \/ UNCHANGED vars
             PROVE  WalksStopAtTheFirstStatement'
  OBVIOUS
<1>1. UNCHANGED <<requestedChecks, unit, tree, asErrors, next, stopped, hasParentMap, parentMap>>
  BY DEF Preprocess, MatchAST, vars, program, context
<1>2. /\ unrecoverableError => unrecoverableError'
      /\ matched' => WalkIsOver'
  <2>1. CASE Preprocess
    <3>1. directives # <<>> /\ matched' = matched
      BY <2>1 DEF Preprocess
    <3>2. ~matched'
      BY <3>1 DEF WalkIsOver, WalksStopAtTheFirstStatement
    <3> QED BY <2>1, <3>2 DEF Preprocess, Emit
  <2>2. CASE MatchAST
    <3>1. WalkIsOver /\ directives' = directives /\ Nodes' = Nodes
      BY <1>1, <2>2, NodesStay DEF MatchAST
    <3>2. WalkIsOver'
      BY <1>1, <3>1 DEF WalkIsOver
    <3>3. unrecoverableError => unrecoverableError'
      <4> DEFINE said == UNION {Said(d, Match(d, j)) : d \in Matchers \cap addedChecks, j \in Nodes}
      <4>1. Emit(said)
        BY <2>2 DEF MatchAST
      <4> HIDE DEF said
      <4> QED BY <4>1 DEF Emit
    <3> QED BY <3>2, <3>3
  <2>3. CASE UNCHANGED vars
    BY <1>1, <2>3, NodesStay DEF vars, WalkIsOver, WalksStopAtTheFirstStatement
  <2> QED BY <2>1, <2>2, <2>3
<1>3. ASSUME NEW r \in reports', r \notin reports
      PROVE  r[1] \in OtherChecks /\ (r[1] \in asErrors => unrecoverableError')
  <2>1. CASE Preprocess
    <3>1. PICK c \in PreprocessorCallbacks \cap addedChecks : r \in Said(c, CheckDirective(c, Head(directives)))
      BY <1>3, <2>1 DEF Preprocess, Emit
    <3>2. r[1] \in asErrors => unrecoverableError'
      BY <2>1, <3>1 DEF Preprocess, Emit
    <3> QED BY <3>1, <3>2 DEF Said, OtherChecks
  <2>2. CASE MatchAST
    <3>1. PICK c \in Matchers \cap addedChecks, i \in Nodes : r \in Said(c, Match(c, i))
      BY <1>3, <2>2 DEF MatchAST, Emit
    <3>2. r[1] \in asErrors => unrecoverableError'
      <4> DEFINE said == UNION {Said(d, Match(d, j)) : d \in Matchers \cap addedChecks, j \in Nodes}
      <4>1. Emit(said)
        BY <2>2 DEF MatchAST
      <4>2. r \in said
        BY <3>1
      <4> HIDE DEF said
      <4> QED BY <4>1, <4>2 DEF Emit
    <3> QED BY <3>1, <3>2 DEF Said, OtherChecks
  <2>3. CASE UNCHANGED vars
    BY <1>3, <2>3 DEF vars
  <2> QED BY <2>1, <2>2, <2>3
<1>4. Walked' = Walked /\ \A i : IsStmt(i)' = IsStmt(i) /\ Outside(i)' = Outside(i)
  BY <1>1, NodesStay DEF Walked
<1> QED BY <1>1, <1>2, <1>3, <1>4 DEF WalksStopAtTheFirstStatement

\* ClazyASTConsumer::VisitStmt: an error ends the walk before the first
\* statement or not at all, so no check has seen half of a file's statements.
THEOREM StopsAtTheFirstStatement == Spec => []WalksStopAtTheFirstStatement
<1>1. Init => WalksStopAtTheFirstStatement
  <2> SUFFICES ASSUME Init PROVE WalksStopAtTheFirstStatement
    OBVIOUS
  <2>1. Walked = {}
    BY InitStep, NothingBeforeOne DEF Init, IInv, FilesAreParsed, Walked, Nodes
  <2> QED BY <2>1 DEF Init, WalksStopAtTheFirstStatement
<1>2. IInv /\ WalksStopAtTheFirstStatement /\ NextTranslationUnit => WalksStopAtTheFirstStatement'
  <2> SUFFICES ASSUME IInv, NextTranslationUnit PROVE WalksStopAtTheFirstStatement'
    OBVIOUS
  <2>1. IInv' /\ next' = 1
    BY NextFileStep DEF NextTranslationUnit
  <2>2. Walked' = {}
    BY <2>1, NothingBeforeOne DEF IInv, FilesAreParsed, Walked, Nodes
  <2> QED BY <2>2 DEF NextTranslationUnit, WalksStopAtTheFirstStatement
<1>3. IInv /\ WalksStopAtTheFirstStatement /\ [Next]_vars => WalksStopAtTheFirstStatement'
  BY <1>2, VisitKeepsStops, OthersKeepStops DEF Next
<1> QED BY <1>1, <1>3, WalkIsKept, PTL DEF Spec

=============================================================================
