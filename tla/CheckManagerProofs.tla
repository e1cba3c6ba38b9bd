------------------------- MODULE CheckManagerProofs -------------------------
(***************************************************************************)
(* The cached environment of CheckManager is invisible: for any checks, any *)
(* environment and any sequence of requests.                               *)
(***************************************************************************)
EXTENDS CheckManager, WellFoundedInduction, TLAPS

\* What CLAZY_CHECKS asks for and disables, parsed without a cache.
ParsedChecks ==
    IF env = NoEnv THEN {}
    ELSE IF env = AllChecks THEN AvailableChecks(MaxCheckLevel)
    ELSE CommaSeparated(env)

ParsedDisabled == IF env = NoEnv \/ env = AllChecks THEN {} ELSE AllDisabled(env)

\* The answer to a request in a process that parses the variable every time.
FreshChecks(args) ==
    IF NothingToRequest(Remaining(args)) THEN {}
    ELSE Selected(args, ParsedChecks, ParsedDisabled)

FreshAnswer(caller, args) ==
    [caller |-> caller, args |-> args, checks |-> FreshChecks(args),
     accepted |-> Accepted(caller, Remaining(args), FreshChecks(args))]

\* The statics hold nothing or all of what the variable says, and once there
\* are checks there is everything that is disabled, too.
StaticsOK ==
    /\ envChecks \in {{}, ParsedChecks}
    /\ envDisabled \in {{}, ParsedDisabled}
    /\ envChecks # {} => envDisabled = ParsedDisabled

CacheInv == StaticsOK /\ \A p \in answered : p = FreshAnswer(p.caller, p.args)

-----------------------------------------------------------------------------
\* What a list names or disables is a check.
LEMMA ListType ==
    /\ \A list : CommaSeparated(list) \subseteq Checks /\ AllDisabled(list) \subseteq Checks
    /\ \A n : ChecksForLevel(n) \subseteq Checks /\ AvailableChecks(n) \subseteq Checks
BY DEF CommaSeparated, AllDisabled, NamedBy, DisabledBy, ChecksForLevel, AvailableChecks

\* With the statics in order, requestedChecksThroughEnv returns what the
\* variable says, from the cache or not.
LEMMA EnvironmentNow ==
    ASSUME StaticsOK
    PROVE  EnvChecksNow = ParsedChecks /\ EnvDisabledNow = ParsedDisabled
<1>1. CASE EnvParsed
  <2>1. CASE env = NoEnv
    BY <1>1, <2>1 DEF StaticsOK, EnvParsed, EnvChecksNow, EnvDisabledNow, ParsedChecks,
                      ParsedDisabled
  <2>2. CASE env # NoEnv
    <3>1. envChecks # {}
      BY <1>1, <2>2 DEF EnvParsed
    <3> QED
      BY <1>1, <3>1 DEF StaticsOK, EnvChecksNow, EnvDisabledNow
  <2> QED
    BY <2>1, <2>2
<1>2. CASE ~EnvParsed
  <2>1. env # NoEnv
    BY <1>2 DEF EnvParsed
  <2>2. EnvChecksNow = ParsedChecks
    BY <1>2, <2>1 DEF EnvChecksNow, ParsedChecks
  <2>3. EnvDisabledNow = ParsedDisabled
    <3>1. CASE env = AllChecks
      BY <1>2, <3>1 DEF StaticsOK, EnvDisabledNow, ParsedDisabled
    <3>2. CASE env # AllChecks
      BY <1>2, <2>1, <3>2 DEF StaticsOK, EnvDisabledNow, ParsedDisabled
    <3> QED
      BY <3>1, <3>2
  <2> QED
    BY <2>2, <2>3
<1> QED
  BY <1>1, <1>2

\* A request adds the answer of a fresh process, and leaves the statics in order.
LEMMA RequestStep ==
    ASSUME CacheInv, NEW caller, NEW args, Request(caller, args)
    PROVE  /\ env' = env
           /\ StaticsOK'
           /\ answered' = answered \cup {FreshAnswer(caller, args)}
<1>1. env' = env
  BY DEF Request, RefuseRequest, AnswerRequest
<1>2. ParsedChecks' = ParsedChecks /\ ParsedDisabled' = ParsedDisabled
  BY <1>1 DEF ParsedChecks, ParsedDisabled
<1>3. CASE RefuseRequest(caller, args)
  <2>1. answered' = answered \cup {FreshAnswer(caller, args)}
    BY <1>3 DEF RefuseRequest, RequestedChecks, FreshAnswer, FreshChecks
  <2>2. StaticsOK'
    BY <1>2, <1>3 DEF CacheInv, StaticsOK, RefuseRequest
  <2> QED
    BY <1>1, <2>1, <2>2
<1>4. CASE AnswerRequest(caller, args)
  <2>1. EnvChecksNow = ParsedChecks /\ EnvDisabledNow = ParsedDisabled
    BY EnvironmentNow DEF CacheInv
  <2>2. envChecks' = ParsedChecks /\ envDisabled' = ParsedDisabled
    BY <1>4, <2>1 DEF AnswerRequest
  <2>3. StaticsOK'
    BY <1>2, <2>2 DEF StaticsOK
  <2>4. answered' = answered \cup {FreshAnswer(caller, args)}
    BY <1>4, <2>1 DEF AnswerRequest, RequestedChecks, FreshAnswer, FreshChecks
  <2> QED
    BY <1>1, <2>3, <2>4
<1> QED
  BY <1>3, <1>4 DEF Request

\* A fresh answer does not change while the environment stays.
LEMMA FreshAnswerStays ==
    ASSUME env' = env
    PROVE  \A caller, args : FreshAnswer(caller, args)' = FreshAnswer(caller, args)
<1>1. ParsedChecks' = ParsedChecks /\ ParsedDisabled' = ParsedDisabled
  BY DEF ParsedChecks, ParsedDisabled
<1>2. ASSUME NEW caller, NEW args
      PROVE  FreshAnswer(caller, args)' = FreshAnswer(caller, args)
  <2>1. FreshChecks(args)' = FreshChecks(args)
    BY <1>1 DEF FreshChecks, Selected
  <2> QED
    BY <2>1 DEF FreshAnswer, Accepted
<1> QED
  BY <1>2

\* The static that requestedChecks fills from CLAZY_CHECKS is either untouched
\* or what a fresh reading of the environment gives, and so every answer is
\* the one a fresh process would give.
LEMMA CacheInductive == Spec => []CacheInv
<1>1. Init => CacheInv
  BY DEF Init, CacheInv, StaticsOK
<1>2. CacheInv /\ [Next]_vars => CacheInv'
  <2> SUFFICES ASSUME CacheInv, [Next]_vars PROVE CacheInv'
    OBVIOUS
  <2>1. CASE UNCHANGED vars
    <3>1. env' = env /\ answered' = answered /\ envChecks' = envChecks
          /\ envDisabled' = envDisabled
      BY <2>1 DEF vars
    <3>2. StaticsOK'
      BY <3>1 DEF CacheInv, StaticsOK, ParsedChecks, ParsedDisabled
    <3>3. \A p \in answered' : p = FreshAnswer(p.caller, p.args)'
      BY <3>1, FreshAnswerStays DEF CacheInv
    <3> QED
      BY <3>2, <3>3 DEF CacheInv
  <2>2. ASSUME NEW caller, NEW args, Request(caller, args) PROVE CacheInv'
    <3>1. env' = env /\ StaticsOK' /\ answered' = answered \cup {FreshAnswer(caller, args)}
      BY <2>2, RequestStep
    <3>2. \A p \in answered' : p = FreshAnswer(p.caller, p.args)
      BY <3>1 DEF CacheInv, FreshAnswer
    <3>3. \A p \in answered' : p = FreshAnswer(p.caller, p.args)'
      BY <3>1, <3>2, FreshAnswerStays
    <3> QED
      BY <3>1, <3>3 DEF CacheInv
  <2> QED
    BY <2>1, <2>2 DEF Next
<1> QED
  BY <1>1, <1>2, PTL DEF Spec

-----------------------------------------------------------------------------
\* However many requests a process answers, and in whatever order, the same
\* request has the same answer: CheckManager::requestedChecksThroughEnv may
\* cache the environment.
THEOREM HistoryInvisible == Spec => []AnswersDoNotDependOnHistory
<1>1. CacheInv => AnswersDoNotDependOnHistory
  BY DEF CacheInv, AnswersDoNotDependOnHistory
<1> QED
  BY <1>1, CacheInductive, PTL

\* The arguments that are left over are arguments.
LEMMA RemainingChecks ==
    ASSUME CacheInv, NEW caller, NEW args
    PROVE  FreshChecks(args) \in SUBSET Checks
<1>1. ParsedChecks \subseteq Checks
  BY ListType DEF ParsedChecks
<1> QED
  BY <1>1, ListType DEF FreshChecks, Selected

\* Every answer of CheckManager is a set of registered checks for a request
\* that one of the two callers made, and so are the statics.
THEOREM TypeCorrect == Spec => []TypeOK
<1>1. Init => TypeOK
  BY DEF Init, TypeOK
<1>2. TypeOK /\ CacheInv /\ [Next]_vars => TypeOK'
  <2> SUFFICES ASSUME TypeOK, CacheInv, [Next]_vars PROVE TypeOK'
    OBVIOUS
  <2>1. CASE UNCHANGED vars
    BY <2>1 DEF vars, TypeOK
  <2>2. ASSUME NEW caller \in {"plugin", "standalone"}, NEW args \in Seq(Seq(Item)),
               Request(caller, args)
        PROVE  TypeOK'
    <3>1. env' = env /\ StaticsOK' /\ answered' = answered \cup {FreshAnswer(caller, args)}
      BY <2>2, RequestStep
    <3>2. ParsedChecks' \subseteq Checks /\ ParsedDisabled' \subseteq Checks
      BY ListType DEF ParsedChecks, ParsedDisabled
    <3>3. envChecks' \in SUBSET Checks /\ envDisabled' \in SUBSET Checks
      BY <3>1, <3>2 DEF StaticsOK
    <3>4. FreshAnswer(caller, args) \in Answer
      <4>1. FreshChecks(args) \in SUBSET Checks
        BY RemainingChecks
      <4>2. Accepted(caller, Remaining(args), FreshChecks(args)) \in BOOLEAN
        BY DEF Accepted
      <4> QED
        BY <4>1, <4>2 DEF FreshAnswer, Answer
    <3> QED
      BY <3>1, <3>3, <3>4 DEF TypeOK
  <2>3. ASSUME NEW args \in PluginArgs, Request("plugin", args) PROVE TypeOK'
    BY <2>2, <2>3, ListsAssumption
  <2>4. ASSUME NEW list \in CheckLists, Request("standalone", CheckListArgs(list)) PROVE TypeOK'
    <3>1. LevelName(1) \in Item
      BY DEF LevelName, Item, Names
    <3>2. list \in Seq(Item)
      BY <2>4, ListsAssumption
    <3>3. CheckListArgs(list) \in Seq(Seq(Item))
      BY <3>1, <3>2 DEF CheckListArgs
    <3> QED
      BY <2>2, <2>4, <3>3
  <2> QED
    BY <2>1, <2>3, <2>4 DEF Next
<1> QED
  BY <1>1, <1>2, CacheInductive, PTL DEF Spec

-----------------------------------------------------------------------------
(* What runs is what was asked for.                                         *)

\* A set of numbers has a least one.
LEMMA LeastNumber ==
    ASSUME NEW I \in SUBSET Nat, I # {}
    PROVE  \E m \in I : \A n \in I : m <= n
<1>1. PICK m \in I : \A n \in I : ~(<<n, m>> \in OpToRel(<, Nat))
  BY NatLessThanWellFounded, WFMin
<1>2. \A n \in I : ~(n < m)
  BY <1>1 DEF OpToRel
<1> QED
  BY <1>2

\* Removing the first occurrence leaves what is before and behind it.
LEMMA FirstIndex ==
    ASSUME NEW S, NEW s \in Seq(S), NEW x, \E i \in 1..Len(s) : s[i] = x
    PROVE  \E k \in 1..Len(s) :
              s[k] = x /\ RemoveFirst(s, x) = SubSeq(s, 1, k-1) \o SubSeq(s, k+1, Len(s))
<1> DEFINE I == {i \in 1..Len(s) : s[i] = x}
<1>1. I # {} /\ I \subseteq Nat
  OBVIOUS
<1>2. \E m \in I : \A n \in I : m <= n
  BY <1>1, LeastNumber
<1>3. Min(I) \in I
  BY <1>2 DEF Min
<1>4. SelectInSeq(s, LAMBDA v : v = x) = Min(I)
  BY <1>1 DEF SelectInSeq
<1>5. RemoveFirst(s, x) = RemoveAt(s, Min(I))
  BY <1>4 DEF RemoveFirst
<1> QED
  BY <1>3, <1>5 DEF RemoveAt

\* A sequence that is a single element, at most, without the first x.
LEMMA RemoveFirstShort ==
    ASSUME NEW S, NEW s \in Seq(S), NEW x \in S, \E i \in 1..Len(s) : s[i] = x,
           Len(RemoveFirst(s, x)) <= 1
    PROVE  \/ s = <<x>> /\ RemoveFirst(s, x) = <<>>
           \/ \E y \in S :
                 /\ s = <<x, y>> \/ s = <<y, x>>
                 /\ RemoveFirst(s, x) = <<y>>
<1>1. PICK k \in 1..Len(s) :
         s[k] = x /\ RemoveFirst(s, x) = SubSeq(s, 1, k-1) \o SubSeq(s, k+1, Len(s))
  BY FirstIndex
<1> DEFINE before == SubSeq(s, 1, k-1)
           behind == SubSeq(s, k+1, Len(s))
<1>2. /\ before \in Seq(S) /\ Len(before) = k - 1
      /\ behind \in Seq(S) /\ Len(behind) = Len(s) - k
      /\ \A i \in 1..Len(before) : before[i] = s[i]
      /\ \A i \in 1..Len(behind) : behind[i] = s[k + i]
  OBVIOUS
<1>3. RemoveFirst(s, x) = before \o behind
  BY <1>1
<1> HIDE DEF before, behind
<1>4. Len(s) \in Nat /\ k \in Nat /\ k >= 1 /\ k <= Len(s)
  OBVIOUS
<1>5. Len(before \o behind) = Len(before) + Len(behind)
  <2>1. before \in Seq(S) /\ behind \in Seq(S)
    BY <1>2
  <2> QED
    BY ONLY <2>1
<1>6. Len(s) = 1 \/ Len(s) = 2
  <2>1. Len(before) + Len(behind) <= 1
    BY <1>3, <1>5
  <2> QED
    BY <1>2, <1>4, <2>1
<1>7. CASE Len(s) = 1
  <2>1. k = 1
    BY <1>4, <1>7
  <2>2. s = <<x>>
    BY <1>1, <1>7, <2>1
  <2>3. before = <<>> /\ behind = <<>>
    BY <1>2, <1>7, <2>1
  <2> QED
    BY <1>3, <2>2, <2>3
<1>8. CASE Len(s) = 2 /\ k = 1
  <2>1. s = <<x, s[2]>> /\ s[2] \in S
    BY <1>1, <1>8
  <2>2. before = <<>> /\ behind = <<s[2]>>
    BY <1>2, <1>8
  <2>3. before \o behind = <<s[2]>>
    BY <2>1, <2>2
  <2> QED
    BY <1>3, <2>1, <2>3
<1>9. CASE Len(s) = 2 /\ k = 2
  <2>1. s = <<s[1], x>> /\ s[1] \in S
    <3>1. s[2] = x
      BY <1>1, <1>9
    <3>2. s \in Seq(S) /\ Len(s) = 2
      BY <1>9
    <3> QED
      BY ONLY <3>1, <3>2
  <2>2. before = <<s[1]>> /\ behind = <<>>
    BY <1>2, <1>9
  <2>3. before \o behind = <<s[1]>>
    BY <2>1, <2>2
  <2> QED
    BY <1>3, <2>1, <2>3
<1> QED
  BY <1>4, <1>6, <1>7, <1>8, <1>9

\* The levels are numbers, so requestedChecks takes the least.
LEMMA TakenLevelIsThere ==
    ASSUME NEW args, LevelsIn(args) # {}
    PROVE  TakenLevel(args) \in LevelsIn(args)
<1>1. LevelsIn(args) \in SUBSET Nat
  BY DEF LevelsIn, MaxCheckLevel
<1>2. \E n \in LevelsIn(args) : \A m \in LevelsIn(args) : n <= m
  BY <1>1, LeastNumber
<1> QED
  BY <1>2 DEF TakenLevel

\* If a level was taken, and at most one argument is left, the arguments are
\* the level alone, or the level and a list in either order.
LEMMA LevelAndList ==
    ASSUME NEW args \in Seq(Seq(Item)), LevelsIn(args) # {}, Len(Remaining(args)) <= 1
    PROVE  LET level == <<LevelName(TakenLevel(args))>>
           IN  \/ args = <<level>> /\ Remaining(args) = <<>>
               \/ \E list \in Seq(Item) :
                     /\ args = <<level, list>> \/ args = <<list, level>>
                     /\ Remaining(args) = <<list>>
<1> DEFINE level == <<LevelName(TakenLevel(args))>>
<1>1. \E i \in 1..Len(args) : args[i] = level
  BY TakenLevelIsThere DEF LevelsIn
<1>2. level \in Seq(Item)
  <2>1. PICK i \in 1..Len(args) : args[i] = level
    BY <1>1
  <2>2. args[i] \in Seq(Item)
    OBVIOUS
  <2> QED
    BY <2>1, <2>2
<1>3. Remaining(args) = RemoveFirst(args, level)
  BY DEF Remaining
<1> DEFINE Lists == Seq(Item)
<1>4. args \in Seq(Lists) /\ level \in Lists
  BY <1>2
<1> HIDE DEF level, Lists
<1>5. \/ args = <<level>> /\ Remaining(args) = <<>>
      \/ \E list \in Lists :
            /\ args = <<level, list>> \/ args = <<list, level>>
            /\ Remaining(args) = <<list>>
  BY <1>1, <1>3, <1>4, RemoveFirstShort
<1> QED
  BY <1>5 DEF level, Lists

\* What two lists hold together.
LEMMA ItemsOfTwo ==
    ASSUME NEW s, NEW x, \A i : i \in 1..Len(s) <=> i = 1 \/ i = 2
    PROVE  (\E i \in 1..Len(s) : \E j \in 1..Len(s[i]) : s[i][j] = x)
           <=> \/ \E j \in 1..Len(s[1]) : s[1][j] = x
               \/ \E j \in 1..Len(s[2]) : s[2][j] = x
<1> DEFINE holds(i) == \E j \in 1..Len(s[i]) : s[i][j] = x
<1>1. \A i : i \in 1..Len(s) <=> i = 1 \/ i = 2
  OBVIOUS
<1>2. (\E i \in 1..Len(s) : holds(i)) <=> holds(1) \/ holds(2)
  <2> HIDE DEF holds
  <2> QED BY <1>1, Zenon
<1> QED BY <1>2

\* The items of the arguments are those of the list and the taken level.
LEMMA ArgumentItems ==
    ASSUME NEW args \in Seq(Seq(Item)), Len(Remaining(args)) <= 1, NEW x
    PROVE  (\E i \in 1..Len(args) : \E j \in 1..Len(args[i]) : args[i][j] = x)
           <=> \/ \E j \in 1..Len(ListIn(Remaining(args))) : ListIn(Remaining(args))[j] = x
               \/ LevelsIn(args) # {} /\ x = LevelName(TakenLevel(args))
<1> DEFINE level == LevelName(TakenLevel(args))
           among(s) == \E i \in 1..Len(s) : \E j \in 1..Len(s[i]) : s[i][j] = x
<1>1. CASE LevelsIn(args) = {}
  <2>1. Remaining(args) = args
    BY <1>1 DEF Remaining
  <2>2. Len(args) = 0 \/ Len(args) = 1
    <3>1. Len(args) \in Nat
      OBVIOUS
    <3>2. Len(args) <= 1
      BY <2>1
    <3>3. \A n \in Nat : n <= 1 => n = 0 \/ n = 1
      OBVIOUS
    <3> HIDE DEF level
    <3> QED
      BY <3>1, <3>2, <3>3, Zenon
  <2>3. CASE Len(args) = 0
    BY <1>1, <2>1, <2>3 DEF ListIn
  <2>4. CASE Len(args) = 1
    BY <1>1, <2>1, <2>4 DEF ListIn
  <2> QED
    BY <2>2, <2>3, <2>4
<1>2. CASE LevelsIn(args) # {}
  <2>1. \/ args = <<<<level>>>> /\ Remaining(args) = <<>>
        \/ \E list \in Seq(Item) :
              /\ args = <<<<level>>, list>> \/ args = <<list, <<level>>>>
              /\ Remaining(args) = <<list>>
    BY <1>2, LevelAndList
  <2> HIDE DEF level
  <2>2. CASE args = <<<<level>>>> /\ Remaining(args) = <<>>
    <3>1. ListIn(Remaining(args)) = <<>>
      BY <2>2 DEF ListIn
    <3>2. Len(args) = 1 /\ args[1] = <<level>>
      BY <2>2
    <3>3. Len(<<level>>) = 1 /\ <<level>>[1] = level
      OBVIOUS
    <3>4. among(args) <=> x = level
      BY <3>2, <3>3
    <3>5. ~\E j \in 1..Len(ListIn(Remaining(args))) : ListIn(Remaining(args))[j] = x
      BY <3>1
    <3> QED
      BY <1>2, <3>4, <3>5 DEF level
  <2>3. ASSUME NEW list \in Seq(Item), Remaining(args) = <<list>>,
               args = <<<<level>>, list>> \/ args = <<list, <<level>>>>
        PROVE  among(args) <=> (\E j \in 1..Len(list) : list[j] = x) \/ x = level
    <3>1. CASE args = <<<<level>>, list>>
      <4>1. Len(args) = 2 /\ args[1] = <<level>> /\ args[2] = list
        BY <3>1
      <4>2. Len(<<level>>) = 1 /\ <<level>>[1] = level
        OBVIOUS
      <4>3. \A i : i \in 1..Len(args) <=> i = 1 \/ i = 2
        BY <4>1
      <4>4. among(args) <=>
               \/ \E j \in 1..Len(args[1]) : args[1][j] = x
               \/ \E j \in 1..Len(args[2]) : args[2][j] = x
        BY <4>3, ItemsOfTwo
      <4>5. (\E j \in 1..Len(<<level>>) : <<level>>[j] = x) <=> x = level
        BY <4>2
      <4> QED
        BY <4>1, <4>4, <4>5
    <3>2. CASE args = <<list, <<level>>>>
      <4>1. Len(args) = 2 /\ args[2] = <<level>> /\ args[1] = list
        BY <3>2
      <4>2. Len(<<level>>) = 1 /\ <<level>>[1] = level
        OBVIOUS
      <4>3. \A i : i \in 1..Len(args) <=> i = 1 \/ i = 2
        BY <4>1
      <4>4. among(args) <=>
               \/ \E j \in 1..Len(args[1]) : args[1][j] = x
               \/ \E j \in 1..Len(args[2]) : args[2][j] = x
        BY <4>3, ItemsOfTwo
      <4>5. (\E j \in 1..Len(<<level>>) : <<level>>[j] = x) <=> x = level
        BY <4>2
      <4> QED
        BY <4>1, <4>4, <4>5
    <3> QED
      BY <2>3, <3>1, <3>2
  <2>4. ASSUME NEW list \in Seq(Item), Remaining(args) = <<list>>
        PROVE  ListIn(Remaining(args)) = list
    BY <2>4 DEF ListIn
  <2> QED
    BY <1>2, <2>1, <2>2, <2>3, <2>4 DEF level
<1> QED
  BY <1>1, <1>2

\* An accepted request has a list of at most one, worth answering.
LEMMA AcceptedIsWorthAnswering ==
    ASSUME NEW caller, NEW args \in Seq(Seq(Item)),
           Accepted(caller, Remaining(args), FreshChecks(args))
    PROVE  ~NothingToRequest(Remaining(args))
<1>1. CASE FreshChecks(args) # {}
  BY <1>1 DEF FreshChecks
<1>2. CASE FreshChecks(args) = {}
  <2>1. Len(Remaining(args)) = 0
    BY <1>2 DEF Accepted
  <2> QED
    BY <2>1 DEF NothingToRequest
<1> QED
  BY <1>1, <1>2

\* What remains of the arguments is counted by a number.
LEMMA RemainingIsCounted ==
    ASSUME NEW args \in Seq(Seq(Item))
    PROVE  Len(Remaining(args)) \in Nat
<1>1. CASE LevelsIn(args) = {}
  BY <1>1 DEF Remaining
<1>2. CASE LevelsIn(args) # {}
  <2> DEFINE level == <<LevelName(TakenLevel(args))>>
  <2>1. \E i \in 1..Len(args) : args[i] = level
    BY <1>2, TakenLevelIsThere DEF LevelsIn
  <2>2. PICK k \in 1..Len(args) :
           RemoveFirst(args, level) = SubSeq(args, 1, k-1) \o SubSeq(args, k+1, Len(args))
    <3> HIDE DEF level
    <3> QED
      BY <2>1, FirstIndex
  <2>3. SubSeq(args, 1, k-1) \o SubSeq(args, k+1, Len(args)) \in Seq(Seq(Item))
    OBVIOUS
  <2> QED
    BY <1>2, <2>2, <2>3 DEF Remaining
<1> QED
  BY <1>1, <1>2

\* A request without too many arguments leaves a list, at most.
LEMMA RemainingLength ==
    ASSUME NEW args \in Seq(Seq(Item)), ~NothingToRequest(Remaining(args))
    PROVE  Len(Remaining(args)) <= 1
<1>1. ~(Len(Remaining(args)) > 1)
  BY DEF NothingToRequest
<1>2. Len(Remaining(args)) \in Nat
  BY RemainingIsCounted
<1>3. \A n \in Nat : ~(n > 1) => n <= 1
  OBVIOUS
<1> QED
  BY <1>1, <1>2, <1>3, Zenon

\* A list that is looked at and refused has selected nothing.
LEMMA RefusedSelectNothing ==
    ASSUME NEW caller, NEW args \in Seq(Seq(Item)), Len(Remaining(args)) <= 1,
           ~Accepted(caller, Remaining(args), FreshChecks(args))
    PROVE  FreshChecks(args) = {}
<1>1. Len(Remaining(args)) = 0 \/ Len(Remaining(args)) = 1
  <2>1. \A n \in Nat : n <= 1 => n = 0 \/ n = 1
    OBVIOUS
  <2> QED
    BY <2>1, RemainingIsCounted
<1> QED
  BY <1>1 DEF Accepted

\* A level that was taken has checks.
LEMMA TakenLevelHasChecks ==
    ASSUME NEW args, TakenLevel(args) # CheckLevelUndefined
    PROVE  ChecksForLevel(TakenLevel(args)) # {}
<1>1. LevelsIn(args) # {}
  BY DEF TakenLevel
<1>2. TakenLevel(args) \in 0..MaxCheckLevel
  BY <1>1, TakenLevelIsThere DEF LevelsIn
<1>3. PICK c \in Checks : LevelOf[c] = 0
  BY RegistrationAssumption
<1> DEFINE n == TakenLevel(args)
<1> HIDE DEF n
<1>4. n \in 0..MaxCheckLevel => c \in ChecksForLevel(n)
  BY <1>3 DEF ChecksForLevel, MaxCheckLevel, CheckLevelUndefined
<1> QED
  BY <1>2, <1>4 DEF n

\* The items of a request name and disable what its list, its level and the
\* environment name and disable.
LEMMA RequestParts ==
    ASSUME TypeOK, NEW args \in Seq(Seq(Item)), Len(Remaining(args)) <= 1
    PROVE  LET list == ListIn(Remaining(args))
           IN  /\ Disabled(args) = AllDisabled(list) \cup ParsedDisabled
               /\ Named(args) \ Disabled(args)
                    = (CommaSeparated(list) \cup ParsedChecks \cup ChecksForLevel(TakenLevel(args)))
                        \ Disabled(args)
               /\ CommaSeparated(list) \cup ParsedChecks \cup ChecksForLevel(TakenLevel(args))
                    \subseteq Named(args)
<1> DEFINE list == ListIn(Remaining(args))
           level == LevelName(TakenLevel(args))
<1>1. \A x : x \in Items(args) <=>
         \/ \E i \in 1..Len(EnvItems) : EnvItems[i] = x
         \/ \E j \in 1..Len(list) : list[j] = x
         \/ LevelsIn(args) # {} /\ x = level
  <2> TAKE x
  <2>1. x \in Items(args) <=>
           \/ \E i \in 1..Len(EnvItems) : EnvItems[i] = x
           \/ \E i \in 1..Len(args) : \E j \in 1..Len(args[i]) : args[i][j] = x
    <3> DEFINE env1 == {EnvItems[i] : i \in 1..Len(EnvItems)}
               lists == {{args[i][j] : j \in 1..Len(args[i])} : i \in 1..Len(args)}
    <3>1. x \in Items(args) <=> x \in env1 \/ \E l \in lists : x \in l
      BY DEF Items
    <3>2. x \in env1 <=> \E i \in 1..Len(EnvItems) : EnvItems[i] = x
      OBVIOUS
    <3>3. (\E l \in lists : x \in l)
            <=> \E i \in 1..Len(args) : x \in {args[i][j] : j \in 1..Len(args[i])}
      OBVIOUS
    <3>4. \A i : x \in {args[i][j] : j \in 1..Len(args[i])}
                   <=> \E j \in 1..Len(args[i]) : args[i][j] = x
      OBVIOUS
    <3> HIDE DEF env1, lists
    <3> QED
      BY <3>1, <3>2, <3>3, <3>4
  <2> QED
    BY <2>1, ArgumentItems
<1>2. DisabledBy(level) = {} /\ NamedBy(level) = ChecksForLevel(TakenLevel(args))
  BY DEF DisabledBy, NamedBy, LevelName
<1>3. LevelsIn(args) = {} => ChecksForLevel(TakenLevel(args)) = {}
  BY DEF TakenLevel, ChecksForLevel, CheckLevelUndefined
<1> HIDE DEF list, level
<1> DEFINE DL == UNION {DisabledBy(list[i]) : i \in 1..Len(list)}
           NL == UNION {NamedBy(list[i]) : i \in 1..Len(list)}
           DE == UNION {DisabledBy(EnvItems[i]) : i \in 1..Len(EnvItems)}
           NE == UNION {NamedBy(EnvItems[i]) : i \in 1..Len(EnvItems)}
           CL == ChecksForLevel(TakenLevel(args))
           All == IF env = AllChecks THEN {c \in Checks : LevelOf[c] # ManualCheckLevel} ELSE {}
<1>4. Disabled(args) = DL \cup DE
  <2>1. \A c : c \in Disabled(args) <=> \E x : x \in Items(args) /\ c \in DisabledBy(x)
    BY DEF Disabled
  <2>2. \A c : (\E x : x \in Items(args) /\ c \in DisabledBy(x)) <=>
               \/ \E i \in 1..Len(EnvItems) : c \in DisabledBy(EnvItems[i])
               \/ \E j \in 1..Len(list) : c \in DisabledBy(list[j])
    BY <1>1, <1>2
  <2> QED
    BY <2>1, <2>2
<1>5. Named(args) = NL \cup NE \cup CL \cup All
  <2> DEFINE ByItems == UNION {NamedBy(item) : item \in Items(args)}
  <2>1. \A c : c \in ByItems <=> \E x : x \in Items(args) /\ c \in NamedBy(x)
    OBVIOUS
  <2>2. \A c : (\E x : x \in Items(args) /\ c \in NamedBy(x)) <=>
               \/ \E i \in 1..Len(EnvItems) : c \in NamedBy(EnvItems[i])
               \/ \E j \in 1..Len(list) : c \in NamedBy(list[j])
               \/ c \in CL
    BY <1>1, <1>2, <1>3
  <2>3. ByItems = NL \cup NE \cup CL
    BY <2>1, <2>2
  <2> QED
    BY <2>3 DEF Named
<1>6. CommaSeparated(list) = NL \ DL /\ AllDisabled(list) = DL
  BY DEF CommaSeparated, AllDisabled
<1>7. ParsedDisabled = DE /\ ParsedChecks = (NE \ DE) \cup All
  <2>1. CASE env = NoEnv
    <3>1. EnvItems = <<>>
      BY <2>1 DEF EnvItems
    <3>2. DE = {} /\ NE = {}
      BY <3>1
    <3> QED
      BY <2>1, <3>2, ListsAssumption DEF ParsedDisabled, ParsedChecks
  <2>2. CASE env = AllChecks
    <3>1. EnvItems = <<>>
      BY <2>2 DEF EnvItems
    <3>2. DE = {} /\ NE = {}
      BY <3>1
    <3>3. All = AvailableChecks(MaxCheckLevel)
      BY <2>2, RegistrationAssumption DEF AvailableChecks, MaxCheckLevel, ManualCheckLevel
    <3> QED
      BY <2>2, <3>2, <3>3, ListsAssumption DEF ParsedDisabled, ParsedChecks
  <2>3. CASE env # NoEnv /\ env # AllChecks
    <3>1. EnvItems = env
      BY <2>3 DEF EnvItems
    <3>2. CommaSeparated(env) = NE \ DE /\ AllDisabled(env) = DE
      BY <3>1 DEF CommaSeparated, AllDisabled
    <3> QED
      BY <2>3, <3>2 DEF ParsedDisabled, ParsedChecks
  <2> QED
    BY <2>1, <2>2, <2>3
<1> HIDE DEF DL, NL, DE, NE, CL, All
<1>8. /\ Disabled(args) = AllDisabled(list) \cup ParsedDisabled
      /\ Named(args) \ Disabled(args)
           = (CommaSeparated(list) \cup ParsedChecks \cup CL) \ Disabled(args)
      /\ CommaSeparated(list) \cup ParsedChecks \cup CL \subseteq Named(args)
  BY <1>4, <1>5, <1>6, <1>7
<1> QED
  BY <1>8 DEF list, CL

\* An accepted request runs exactly the checks that the arguments and the
\* environment name and do not disable, or the default level if that names
\* none: CheckManager::requestedChecks keeps what the README promises.
THEOREM RequestsAreMet == Spec => []AcceptedRequestsAreMet
<1>1. CacheInv /\ TypeOK => AcceptedRequestsAreMet
  <2> SUFFICES ASSUME CacheInv, TypeOK, NEW p \in answered, p.accepted
               PROVE  /\ p.checks \cap Disabled(p.args) = {}
                      /\ Named(p.args) \ Disabled(p.args) \subseteq p.checks
                      /\ p.checks \ Named(p.args) # {} =>
                             /\ Named(p.args) \subseteq Disabled(p.args)
                             /\ p.checks = {c \in Checks : LevelOf[c] <= 1} \ Disabled(p.args)
    BY DEF AcceptedRequestsAreMet
  <2> DEFINE args == p.args
             list == ListIn(Remaining(args))
             named == CommaSeparated(list) \cup ParsedChecks
             level == IF named = {} /\ TakenLevel(args) = CheckLevelUndefined
                      THEN DefaultCheckLevel ELSE TakenLevel(args)
  <2>1. args \in Seq(Seq(Item))
    BY DEF TypeOK, Answer
  <2>2. p = FreshAnswer(p.caller, args)
    BY DEF CacheInv
  <2>3. /\ p.checks = FreshChecks(args)
        /\ p.accepted = Accepted(p.caller, Remaining(args), FreshChecks(args))
    <3> DEFINE c == p.caller
               fresh == FreshAnswer(c, args)
    <3>1. /\ fresh.checks = FreshChecks(args)
          /\ fresh.accepted = Accepted(c, Remaining(args), FreshChecks(args))
      <4> HIDE DEF c, args
      <4> QED
        BY DEF FreshAnswer
    <3>2. p = fresh
      BY <2>2
    <3> HIDE DEF fresh
    <3> QED
      BY <3>1, <3>2
  <2>4. ~NothingToRequest(Remaining(args))
    BY <2>1, <2>3, AcceptedIsWorthAnswering
  <2>5. Len(Remaining(args)) <= 1
    BY <2>1, <2>4, RemainingLength
  <2>6. p.checks = (named \cup ChecksForLevel(level)) \ (AllDisabled(list) \cup ParsedDisabled)
    BY <2>3, <2>4 DEF FreshChecks, Selected
  <2>7. /\ Disabled(args) = AllDisabled(list) \cup ParsedDisabled
        /\ Named(args) \ Disabled(args)
             = (named \cup ChecksForLevel(TakenLevel(args))) \ Disabled(args)
        /\ named \cup ChecksForLevel(TakenLevel(args)) \subseteq Named(args)
    BY <2>1, <2>5, RequestParts
  <2>8. TakenLevel(args) = CheckLevelUndefined => ChecksForLevel(TakenLevel(args)) = {}
    BY DEF ChecksForLevel, CheckLevelUndefined
  <2>9. ChecksForLevel(DefaultCheckLevel) = {c \in Checks : LevelOf[c] <= 1}
    BY DEF ChecksForLevel, DefaultCheckLevel, MaxCheckLevel, CheckLevelUndefined
  <2> HIDE DEF args, list, named
  <2>10. CASE named = {} /\ TakenLevel(args) = CheckLevelUndefined
    <3>1. level = DefaultCheckLevel
      BY <2>10
    <3>2. p.checks = {c \in Checks : LevelOf[c] <= 1} \ Disabled(args)
      BY <2>6, <2>7, <2>9, <2>10, <3>1
    <3>3. Named(args) \subseteq Disabled(args)
      BY <2>7, <2>8, <2>10
    <3> QED
      BY <3>2, <3>3 DEF args
  <2>11. CASE ~(named = {} /\ TakenLevel(args) = CheckLevelUndefined)
    <3>1. level = TakenLevel(args)
      BY <2>11
    <3>2. p.checks = Named(args) \ Disabled(args)
      BY <2>6, <2>7, <3>1
    <3> QED
      BY <3>2 DEF args
  <2> QED
    BY <2>10, <2>11
<1> QED
  BY <1>1, CacheInductive, TypeCorrect, PTL

\* Taking a level takes one of the arguments away.
LEMMA RemainingIsOneShorter ==
    ASSUME NEW args \in Seq(Seq(Item)), LevelsIn(args) # {}
    PROVE  Len(args) = Len(Remaining(args)) + 1
<1> DEFINE level == <<LevelName(TakenLevel(args))>>
           Lists == Seq(Item)
<1>1. \E i \in 1..Len(args) : args[i] = level
  BY TakenLevelIsThere DEF LevelsIn
<1>2. Remaining(args) = RemoveFirst(args, level)
  BY DEF Remaining
<1>3. args \in Seq(Lists)
  OBVIOUS
<1> HIDE DEF level, Lists
<1>4. PICK k \in 1..Len(args) :
         RemoveFirst(args, level) = SubSeq(args, 1, k-1) \o SubSeq(args, k+1, Len(args))
  BY <1>1, <1>3, FirstIndex
<1> DEFINE before == SubSeq(args, 1, k-1)
           behind == SubSeq(args, k+1, Len(args))
<1>5. /\ before \in Seq(Lists) /\ Len(before) = k - 1
      /\ behind \in Seq(Lists) /\ Len(behind) = Len(args) - k
      /\ k \in Int /\ Len(args) \in Int
  BY <1>3
<1>6. Remaining(args) = before \o behind
  BY <1>2, <1>4
<1> HIDE DEF before, behind
<1>7. Len(before \o behind) = Len(before) + Len(behind)
  <2>1. before \in Seq(Lists) /\ behind \in Seq(Lists)
    BY <1>5
  <2> QED
    BY ONLY <2>1
<1> QED
  BY <1>5, <1>6, <1>7

\* A list that names and disables no check has no item that means anything.
LEMMA EmptyMeansNothing ==
    ASSUME NEW list, CommaSeparated(list) = {}, AllDisabled(list) = {}
    PROVE  MeansNothing(list)
<1> SUFFICES ASSUME NEW j \in 1..Len(list)
             PROVE  NamedBy(list[j]) = {} /\ DisabledBy(list[j]) = {}
  BY DEF MeansNothing
<1>1. DisabledBy(list[j]) = {}
  BY DEF AllDisabled
<1>2. NamedBy(list[j]) \subseteq CommaSeparated(list)
  BY DEF CommaSeparated
<1> QED
  BY <1>1, <1>2

\* A request that is not even looked at has too many arguments, or a list of
\* items that mean nothing.
LEMMA NothingIsHopeless ==
    ASSUME NEW args \in Seq(Seq(Item)), NothingToRequest(Remaining(args))
    PROVE  IsMalformed(args) \/ \E i \in 1..Len(args) : MeansNothing(args[i])
<1> DEFINE rest == Remaining(args)
<1>1. \/ Len(rest) > 1
      \/ Len(rest) = 1 /\ CommaSeparated(rest[1]) = {} /\ AllDisabled(rest[1]) = {}
  BY DEF NothingToRequest
<1>2. Len(rest) \in Nat /\ Len(args) \in Nat
  BY RemainingIsCounted
<1>3. CASE LevelsIn(args) # {} /\ Len(rest) > 1
  <2>1. Len(args) = Len(rest) + 1
    BY <1>3, RemainingIsOneShorter
  <2>2. \A n, m \in Nat : n = m + 1 /\ m > 1 => n > 2
    OBVIOUS
  <2> HIDE DEF rest
  <2>3. Len(args) > 2
    BY <1>2, <1>3, <2>1, <2>2, Zenon
  <2> QED
    BY <2>3 DEF IsMalformed
<1>4. CASE LevelsIn(args) # {} /\ ~(Len(rest) > 1)
  <2>1. Len(rest) = 1 /\ MeansNothing(rest[1])
    BY <1>1, <1>4, EmptyMeansNothing
  <2> DEFINE level == <<LevelName(TakenLevel(args))>>
  <2>2. PICK list \in Seq(Item) : (args = <<level, list>> \/ args = <<list, level>>) /\ rest = <<list>>
    <3> HIDE DEF rest
    <3>1. rest # <<>>
      <4>1. rest = <<>> => Len(rest) = 0
        OBVIOUS
      <4> QED
        BY <2>1, <4>1
    <3>2. Len(rest) <= 1
      BY <2>1
    <3> QED
      BY <1>4, <3>1, <3>2, LevelAndList DEF rest
  <2> HIDE DEF rest, level
  <2>3. MeansNothing(list)
    BY <2>1, <2>2
  <2>4. \E i \in 1..Len(args) : args[i] = list
    <3>1. CASE args = <<level, list>>
      <4>1. Len(args) = 2 /\ args[2] = list
        BY ONLY <3>1
      <4> QED
        BY ONLY <4>1
    <3>2. CASE args = <<list, level>>
      <4>1. Len(args) = 2 /\ args[1] = list
        BY ONLY <3>2
      <4> QED
        BY ONLY <4>1
    <3> QED
      BY <2>2, <3>1, <3>2
  <2> QED
    BY <2>3, <2>4
<1>5. CASE LevelsIn(args) = {}
  <2>1. rest = args
    BY <1>5 DEF Remaining
  <2> HIDE DEF rest
  <2>2. CASE Len(args) > 1
    <3>1. \A n \in Nat : n > 1 => n > 2 \/ n = 2
      OBVIOUS
    <3>2. Len(args) > 2 \/ Len(args) = 2
      BY <1>2, <2>2, <3>1, Zenon
    <3> QED
      BY <1>5, <3>2 DEF IsMalformed
  <2>3. CASE Len(args) = 1 /\ CommaSeparated(args[1]) = {} /\ AllDisabled(args[1]) = {}
    <3>1. MeansNothing(args[1])
      BY <2>3, EmptyMeansNothing
    <3>2. 1 \in 1..Len(args)
      BY <2>3
    <3> QED
      BY <3>1, <3>2
  <2> QED
    BY <1>1, <2>1, <2>2, <2>3
<1> QED
  BY <1>3, <1>4, <1>5

\* CheckManager refuses a request only if it has more than a level and a list,
\* has a list that means nothing, or asks for checks that are all disabled: the
\* two early returns of requestedChecks and the tests of its callers turn
\* nothing else away, a level with a list neither.
THEOREM RefusalsAreHopeless == Spec => []RefusedRequestsAreHopeless
<1>1. CacheInv /\ TypeOK => RefusedRequestsAreHopeless
  <2> SUFFICES ASSUME CacheInv, TypeOK, NEW p \in answered, ~p.accepted
               PROVE  \/ IsMalformed(p.args)
                      \/ \E i \in 1..Len(p.args) : MeansNothing(p.args[i])
                      \/ /\ Named(p.args) \subseteq Disabled(p.args)
                         /\ Named(p.args) = {} =>
                                {c \in Checks : LevelOf[c] <= 1} \subseteq Disabled(p.args)
    BY DEF RefusedRequestsAreHopeless
  <2> DEFINE args == p.args
             list == ListIn(Remaining(args))
             named == CommaSeparated(list) \cup ParsedChecks
             level == IF named = {} /\ TakenLevel(args) = CheckLevelUndefined
                      THEN DefaultCheckLevel ELSE TakenLevel(args)
  <2>1. args \in Seq(Seq(Item))
    BY DEF TypeOK, Answer
  <2>2. p.checks = FreshChecks(args)
        /\ p.accepted = Accepted(p.caller, Remaining(args), FreshChecks(args))
    <3> DEFINE c == p.caller
               fresh == FreshAnswer(c, args)
    <3>1. /\ fresh.checks = FreshChecks(args)
          /\ fresh.accepted = Accepted(c, Remaining(args), FreshChecks(args))
      <4> HIDE DEF c, args
      <4> QED
        BY DEF FreshAnswer
    <3>2. p = fresh
      BY DEF CacheInv
    <3> HIDE DEF fresh
    <3> QED
      BY <3>1, <3>2
  <2>3. CASE NothingToRequest(Remaining(args))
    BY <2>1, <2>3, NothingIsHopeless
  <2>4. CASE ~NothingToRequest(Remaining(args))
    <3>1. Len(Remaining(args)) <= 1
      BY <2>1, <2>4, RemainingLength
    <3>2. p.checks = {}
      BY <2>1, <2>2, <3>1, RefusedSelectNothing
    <3>3. p.checks = (named \cup ChecksForLevel(level)) \ (AllDisabled(list) \cup ParsedDisabled)
      BY <2>2, <2>4 DEF FreshChecks, Selected
    <3>4. /\ Disabled(args) = AllDisabled(list) \cup ParsedDisabled
          /\ Named(args) \ Disabled(args)
               = (named \cup ChecksForLevel(TakenLevel(args))) \ Disabled(args)
          /\ named \cup ChecksForLevel(TakenLevel(args)) \subseteq Named(args)
      BY <2>1, <3>1, RequestParts
    <3>5. TakenLevel(args) = CheckLevelUndefined => ChecksForLevel(TakenLevel(args)) = {}
      BY DEF ChecksForLevel, CheckLevelUndefined
    <3>6. ChecksForLevel(DefaultCheckLevel) = {c \in Checks : LevelOf[c] <= 1}
      BY DEF ChecksForLevel, DefaultCheckLevel, MaxCheckLevel, CheckLevelUndefined
    <3>7. TakenLevel(args) # CheckLevelUndefined => ChecksForLevel(TakenLevel(args)) # {}
      BY TakenLevelHasChecks
    <3> HIDE DEF args, list, named
    <3>8. CASE named = {} /\ TakenLevel(args) = CheckLevelUndefined
      <4>1. {c \in Checks : LevelOf[c] <= 1} \subseteq Disabled(args)
        BY <3>2, <3>3, <3>4, <3>6, <3>8
      <4>2. Named(args) \subseteq Disabled(args)
        BY <3>4, <3>5, <3>8
      <4> QED
        BY <4>1, <4>2 DEF args
    <3>9. CASE ~(named = {} /\ TakenLevel(args) = CheckLevelUndefined)
      <4>1. level = TakenLevel(args)
        BY <3>9
      <4>2. Named(args) \subseteq Disabled(args)
        BY <3>2, <3>3, <3>4, <4>1
      <4>3. Named(args) # {}
        BY <3>4, <3>7, <3>9
      <4> QED
        BY <4>2, <4>3 DEF args
    <3> QED
      BY <3>8, <3>9
  <2> QED
    BY <2>3, <2>4
<1> QED
  BY <1>1, CacheInductive, TypeCorrect, PTL
=============================================================================
