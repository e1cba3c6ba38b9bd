---------------------------- MODULE CheckManager ----------------------------
(***************************************************************************)
(* CheckManager: which checks run.  A request comes from the arguments of   *)
(* the plugin or the -checks list of clazy-standalone; CLAZY_CHECKS adds to *)
(* every request.  What the environment asks for is parsed once and kept in *)
(* two function-local statics, for as long as the process lives.            *)
(*                                                                         *)
(* A list of checks is a set here: the code sorts every answer by name and  *)
(* drops the duplicates.                                                   *)
(***************************************************************************)
EXTENDS Integers, Sequences, SequencesExt, FiniteSets

CONSTANTS
    Checks,         \* the registered checks
    LevelOf,        \* the level of each check
    FixitsOf,       \* the names of the fixits registered for each check
    NoName,         \* a name that is neither a check nor a fixit
    NoEnv,          \* CLAZY_CHECKS is not set
    AllChecks,      \* CLAZY_CHECKS is "all_checks"
    Envs,           \* the values of CLAZY_CHECKS the instance looks at
    PluginArgs,     \* the arguments of the plugin, without the options
    CheckLists,     \* the values of -checks
    MaxRequests     \* bound: different requests to one process

MaxCheckLevel == 2

ManualCheckLevel == 3

DefaultCheckLevel == 1

CheckLevelUndefined == -1

ASSUME RegistrationAssumption ==
    /\ LevelOf \in [Checks -> 0..ManualCheckLevel]
    /\ \E c \in Checks : LevelOf[c] = 0     \* every level has checks
    /\ DOMAIN FixitsOf = Checks
    /\ \A c \in Checks : FixitsOf[c] \cap Checks = {} /\ NoName \notin FixitsOf[c]
    /\ \A c, d \in Checks : c # d => FixitsOf[c] \cap FixitsOf[d] = {}

\* An item of a comma-separated list.  "level" followed by one character is a
\* level, whatever its digit; "no-" and a name disables.
Names == Checks \cup (UNION {FixitsOf[c] : c \in Checks}) \cup {NoName}

Item == [kind : {"name", "no"}, name : Names, level : {CheckLevelUndefined}]
        \cup [kind : {"level"}, name : {NoName}, level : Int]

ASSUME ListsAssumption ==
    /\ NoEnv # AllChecks
    /\ Envs \subseteq Seq(Item) \cup {NoEnv, AllChecks}
    /\ PluginArgs \subseteq Seq(Seq(Item))
    /\ CheckLists \subseteq Seq(Item)
    /\ MaxRequests \in Nat

VARIABLES
    env,            \* CLAZY_CHECKS, the same for the whole process
    envChecks,      \* static requestedChecksThroughEnv
    envDisabled,    \* static disabledChecksThroughEnv
    answered        \* history: the requests and their answers

vars == <<env, envChecks, envDisabled, answered>>

-----------------------------------------------------------------------------
LevelName(n) == [kind |-> "level", name |-> NoName, level |-> n]

AvailableChecks(maxLevel) == {c \in Checks : LevelOf[c] <= maxLevel}

\* Mutant: the checks below a level do not belong to it.
ChecksForLevel_Exactly(level) ==
    {c \in Checks : level > CheckLevelUndefined /\ level <= MaxCheckLevel /\ LevelOf[c] = level}

ChecksForLevel(level) ==
    {c \in Checks : level > CheckLevelUndefined /\ level <= MaxCheckLevel /\ LevelOf[c] <= level}

\* What one item of a list asks for: a check, the check of a fixit, or a level.
NamedBy(item) ==
    IF item.kind = "level" THEN ChecksForLevel(item.level)
    ELSE {c \in Checks : item.kind = "name" /\ (item.name = c \/ item.name \in FixitsOf[c])}

\* Mutant: any name can be disabled, whether a check has it or not.
DisabledBy_AnyName(item) == {n \in Names : item.kind = "no" /\ item.name = n}

DisabledBy(item) == {c \in Checks : item.kind = "no" /\ item.name = c}

AllDisabled(list) == UNION {DisabledBy(list[i]) : i \in 1..Len(list)}

CommaSeparated(list) == (UNION {NamedBy(list[i]) : i \in 1..Len(list)}) \ AllDisabled(list)

-----------------------------------------------------------------------------
(* Step #1 of requestedChecks takes the first of level0, level1 and level2   *)
(* that is an argument of its own.                                         *)

LevelsIn(args) == {n \in 0..MaxCheckLevel : \E i \in 1..Len(args) : args[i] = <<LevelName(n)>>}

TakenLevel(args) ==
    IF LevelsIn(args) = {} THEN CheckLevelUndefined
    ELSE CHOOSE n \in LevelsIn(args) : \A m \in LevelsIn(args) : n <= m

\* Mutant: the level that was taken stays among the arguments.
Remaining_KeepsTheLevel(args) == args

Remaining(args) ==
    IF LevelsIn(args) = {} THEN args
    ELSE RemoveFirst(args, <<LevelName(TakenLevel(args))>>)

ListIn(rest) == IF Len(rest) = 1 THEN rest[1] ELSE <<>>

\* More than a level and a list, or a list of nothing that exists.
NothingToRequest(rest) ==
    \/ Len(rest) > 1
    \/ Len(rest) = 1 /\ CommaSeparated(rest[1]) = {} /\ AllDisabled(rest[1]) = {}

-----------------------------------------------------------------------------
(* requestedChecksThroughEnv: an empty static means not parsed yet.          *)

EnvParsed == envChecks # {} \/ env = NoEnv

EnvChecksNow ==
    IF EnvParsed THEN envChecks
    ELSE IF env = AllChecks THEN AvailableChecks(MaxCheckLevel)
    ELSE CommaSeparated(env)

\* Mutant: only the call that parses the variable hands over what it disables.
EnvDisabledNow_OnceOnly ==
    IF EnvParsed \/ env = AllChecks THEN {} ELSE envDisabled \cup AllDisabled(env)

EnvDisabledNow ==
    IF EnvParsed \/ env = AllChecks THEN envDisabled ELSE envDisabled \cup AllDisabled(env)

\* The checks of steps #2 to #4, once the request is worth answering.
Selected(args, fromEnv, disabledByEnv) ==
    LET list == ListIn(Remaining(args))
        named == CommaSeparated(list) \cup fromEnv
        level == IF named = {} /\ TakenLevel(args) = CheckLevelUndefined
                 THEN DefaultCheckLevel ELSE TakenLevel(args)
    IN  (named \cup ChecksForLevel(level)) \ (AllDisabled(list) \cup disabledByEnv)

\* ParseArgs refuses what is left over and lists that selected nothing.
\* clazy-standalone has one list, and creates no consumer without a check.
Accepted(caller, rest, checks) ==
    IF caller = "plugin" THEN Len(rest) = 0 \/ (Len(rest) = 1 /\ checks # {})
    ELSE checks # {}

RequestedChecks(caller, args, checks) ==
    answered' = answered \cup
        {[caller |-> caller, args |-> args, checks |-> checks,
          accepted |-> Accepted(caller, Remaining(args), checks)]}

\* The two early returns do not look at the environment.
RefuseRequest(caller, args) ==
    /\ NothingToRequest(Remaining(args))
    /\ RequestedChecks(caller, args, {})
    /\ UNCHANGED <<env, envChecks, envDisabled>>

AnswerRequest(caller, args) ==
    /\ ~NothingToRequest(Remaining(args))
    /\ envChecks' = EnvChecksNow
    /\ envDisabled' = EnvDisabledNow
    /\ RequestedChecks(caller, args, Selected(args, EnvChecksNow, EnvDisabledNow))
    /\ UNCHANGED env

\* ClazyStandaloneASTAction: an empty -checks is level1.
CheckListArgs(list) == <<IF list = <<>> THEN <<LevelName(1)>> ELSE list>>

Request(caller, args) ==
    /\ Cardinality(answered) < MaxRequests
    /\ RefuseRequest(caller, args) \/ AnswerRequest(caller, args)

-----------------------------------------------------------------------------
Init ==
    /\ env \in Envs
    /\ envChecks = {}
    /\ envDisabled = {}
    /\ answered = {}

Next ==
    \/ \E args \in PluginArgs : Request("plugin", args)
    \/ \E list \in CheckLists : Request("standalone", CheckListArgs(list))

Spec == Init /\ [][Next]_vars

-----------------------------------------------------------------------------
Answer == [caller : {"plugin", "standalone"}, args : Seq(Seq(Item)),
           checks : SUBSET Checks, accepted : BOOLEAN]

TypeOK ==
    /\ env \in Envs
    /\ envChecks \in SUBSET Checks
    /\ envDisabled \in SUBSET Checks
    /\ answered \subseteq Answer

\* The cached environment never shows: however many requests came before,
\* and whether or not they were refused, the same request has one answer.
\* (The cache of requestedChecksThroughEnv takes an empty list for "not parsed
\* yet", so an environment that only disables is parsed again and again.)
AnswersDoNotDependOnHistory ==
    \A p, q \in answered : p.caller = q.caller /\ p.args = q.args => p = q

\* What the README promises, said without the steps of the code: the union of
\* everything the arguments and the environment name, without what either of
\* them disables; and the default level if that leaves nothing named.
EnvItems == IF env \in {NoEnv, AllChecks} THEN <<>> ELSE env

Items(args) ==
    {EnvItems[i] : i \in 1..Len(EnvItems)}
    \cup (UNION {{args[i][j] : j \in 1..Len(args[i])} : i \in 1..Len(args)})

Disabled(args) == UNION {DisabledBy(item) : item \in Items(args)}

Named(args) ==
    (UNION {NamedBy(item) : item \in Items(args)})
    \cup (IF env = AllChecks THEN {c \in Checks : LevelOf[c] # ManualCheckLevel} ELSE {})

\* An accepted request runs exactly what was asked for, wherever it was asked,
\* and never a check that the arguments or the environment disable.  What a
\* list names and disables itself counts as not named.
AcceptedRequestsAreMet ==
    \A p \in answered : p.accepted =>
        /\ p.checks \cap Disabled(p.args) = {}
        /\ Named(p.args) \ Disabled(p.args) \subseteq p.checks
        /\ p.checks \ Named(p.args) # {} =>
               /\ Named(p.args) \subseteq Disabled(p.args)
               /\ p.checks = {c \in Checks : LevelOf[c] <= 1} \ Disabled(p.args)

\* One argument beyond a level and a list: one of two has to be a level.
IsMalformed(args) == Len(args) > 2 \/ (Len(args) = 2 /\ LevelsIn(args) = {})

MeansNothing(list) ==
    \A j \in 1..Len(list) : NamedBy(list[j]) = {} /\ DisabledBy(list[j]) = {}

\* A request is refused only for a reason the user can see: it has more than a
\* level and a list, in whatever order; it has a list none of whose items
\* exists; or all it asks for (the default level, if it asks for nothing) is
\* disabled.  So a level before or behind a list, one of them enough to run a
\* check that nobody disables, is answered (requestedChecks takes the level out
\* of the arguments and counts what is left).
RefusedRequestsAreHopeless ==
    \A p \in answered : ~p.accepted =>
        \/ IsMalformed(p.args)
        \/ \E i \in 1..Len(p.args) : MeansNothing(p.args[i])
        \/ /\ Named(p.args) \subseteq Disabled(p.args)
           /\ Named(p.args) = {} => {c \in Checks : LevelOf[c] <= 1} \subseteq Disabled(p.args)
=============================================================================
