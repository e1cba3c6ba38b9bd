------------------------- MODULE MCClazyVisitHelper --------------------------
(* Files with included ones and system headers, processes of several files,  *)
(* errors: what the walk makes of them.                                    *)
EXTENDS ContainerPrograms, StringPrograms, ClazyVisitHelper

Placed(term, place) == With(term, [place |-> place])

\* Declarations; the number keeps the names of two of them apart.
Emits(n) == Emitted(OnSelf(Signal(Member("Emitter", n), "changed", <<>>)))
EmitterMethod(n, flags, body) == Define(Method(Member("Emitter", n), "f", flags), <<>>, body)
ReturnsAll(n) == Function(<<Calling, Local(Member("x", n), Integer, <<Number(0)>>), Return(<<Calling>>)>>)

Pieces(n) ==
    <<ReturnsAll(n),
      Record(Member("Emitter", n),
             <<Define(Constructor(Member("Emitter", n), <<>>), <<>>, <<Emits(n), Lambda(Closure, <<Calling, Emits(n)>>)>>),
               EmitterMethod(n, {"slot", "const"}, <<Emits(n), Return(<<Calling>>)>>)>>),
      Variable(Member("g", n), T("Counted"), {"file variable", "static"}, <<Construct(Constructor("Counted", <<>>), <<>>)>>),
      Node("TypedefDecl", [name |-> Member("t", n)], <<>>),
      ClassifiesA("Small"),
      HoldsThe("QVector", "Small")>>

WalkChecks ==
    {"incorrect-emit", "returning-void-expression", "missing-typeinfo", "missing-qobject-macro", "qproperty-type-mismatch",
     "non-pod-global-static", "unused-result-check"}
WalkUnit(terms) == Unpromised(Unit(terms, WalkChecks, {}))

Pairs == Combinations(<<<<1, 2, 3, 4, 5, 6>>, <<"include", "system", "main">>, <<1, 2, 3, 4, 5, 6>>, <<"main", "include">>>>)
PairUnits ==
    LET first == Pieces(1) second == Pieces(2) all == Pairs IN
      [n \in DOMAIN all |-> WalkUnit(<<Placed(first[all[n][1]], all[n][2]), Placed(second[all[n][3]], all[n][4])>>)]

\* A class in a method, a class in a function, a function that is declared in
\* one, what has no location; a signal in the initializer of a field, and one
\* for the sake of another call.
Locally(declaration) == Node("DeclStmt", <<>>, <<declaration>>)
LocalClassIn(function, behind) ==
    Define(function, <<>>, <<Locally(Record("Local", <<Define(Ctor("Local"), <<>>, <<Calling>>)>>)), behind>>)
EmitterCtor == Constructor("Emitter1", <<>>)
FromMoc(call) == Flag(call, {"moc file"})
OddUnits ==
    <<WalkUnit(<<Record("Emitter1", <<LocalClassIn(Method("Emitter1", "f", {}), Emits(1))>>), Pieces(2)[2]>>),
      WalkUnit(<<LocalClassIn(Simple, Return(<<Calling>>)), Pieces(2)[2]>>),
      WalkUnit(<<Function(<<Lambda(IntFunction, <<Local("x", Integer, <<>>)>>), Return(<<Calling>>)>>), Pieces(2)[1]>>),
      WalkUnit(<<Function(<<Locally(Declare(IntFunction)), Return(<<Calling>>)>>), Pieces(2)[1]>>),
      WalkUnit(<<Record("Emitter1", <<Declare(EmitterCtor), With(FieldOf("field", Integer), [terms |-> <<Emits(1)>>])>>)>>),
      WalkUnit(<<Record("Emitter1", <<Define(EmitterCtor, <<>>, <<MemberCall(This("Emitter1"), Method("Emitter1", "f", {}), <<Emits(1)>>)>>)>>)>>),
      WalkUnit(<<Record("Emitter1", <<Define(EmitterCtor, <<>>, <<FromMoc(Emits(1)), Emits(1)>>)>>)>>),
      WalkUnit(<<Placed(Pieces(1)[2], "nowhere"), Pieces(2)[2]>>),
      WalkUnit(<<Placed(Pieces(1)[1], "nowhere"), Pieces(2)[1]>>)>>

QmlCache == [WalkUnit(Pieces(1)) EXCEPT !.qmlcache = TRUE] @@ [expected |-> {}]

WalkUnits == <<QmlCache>> \o PairUnits \o OddUnits

-----------------------------------------------------------------------------
(* The instance.                                                           *)

AllClasses ==
    [c \in {Member("Emitter", n) : n \in 1..2} |-> [bases |-> <<"QObject">>]]
    @@ LoopClasses @@ ContainerClasses @@ ConnectClasses @@ ClassClasses @@ FunctionClasses @@ StringClasses @@ PreprocessorClasses

\* The programs that checks are about, and those that the walk is about.
CheckUnits == Joined(<<LoopUnits, ContainerUnits, ConnectUnits, ClassUnits, FunctionUnits, StringUnits, PreprocessorUnits>>)
IsOfTheWalk(file) == file.checks = WalkChecks /\ ~file.qmlcache

Process(asked, errors, sources) == [checks |-> asked, asErrors |-> errors, files |-> sources]
StatefulChecks == {"missing-typeinfo", "missing-qobject-macro", "foreach", "reserve-candidates", "old-style-connect"}
HearingChecks == {"qproperty-without-notify", "ifndef-define-typo", "qproperty-type-mismatch", "use-chrono-in-qtimer"}

\* Alone; with and without included files; with errors of the compiler and of a
\* check; before and behind another file.
ProcessesOf(sources) ==
    LET judged == SelectSeq(sources, LAMBDA f : ~IsOfTheWalk(f))
        others == SelectSeq(sources, IsOfTheWalk)
        stateful == SelectSeq(judged, LAMBDA f : \/ f.checks \cap StatefulChecks # {}
                                                 \/ f.checks \cap HearingChecks # {} /\ f.name % 8 = 0)
    IN {Process(judged[n].checks, {}, <<judged[n]>>) : n \in DOMAIN judged}
       \cup {Process(WalkChecks, {}, <<others[n], [others[n] EXCEPT !.ignoreIncludedFiles = TRUE]>>) : n \in DOMAIN others}
       \cup {Process(WalkChecks, {}, <<[others[n] EXCEPT !.botched = TRUE], others[n]>>) : n \in DOMAIN others}
       \cup {Process(WalkChecks, {"missing-qobject-macro", "incorrect-emit"}, <<others[n]>>) : n \in DOMAIN others}
       \cup {Process(StatefulChecks \cup HearingChecks, {}, <<stateful[n], stateful[n + 1], stateful[n]>>) : n \in 1..Len(stateful) - 1}

AllJobs == ProcessesOf(Files(CheckUnits \o WalkUnits, AllClasses))
=============================================================================
