---------------------- MODULE MCAccessSpecifierManager ----------------------
(* A class of up to three parts and a method, followed by a second class.   *)
(* A part is a section, a method, or a class.                              *)
EXTENDS AccessSpecifierManager

Flat(parts) == FoldLeft(\o, << >>, parts)

Sections == {<<"public">>, <<"private">>, <<"signals">>, <<"public", "slots">>}
Methods == {<<"method">>, <<"Q_SLOT", "method">>, <<"Q_INVOKABLE", "method">>, <<"Q_SIGNAL", "method">>,
            <<"Q_SCRIPTABLE", "method">>, <<"expandedMethod">>, <<"indentation", "method">>}

\* A macro on a line of its own, and two macros before a method.
ApartMethods == {<<"Q_SLOT", "indentation", "method">>, <<"Q_SCRIPTABLE", "Q_SLOT", "method">>}

NestedClass == {<<"class", "public", "method", "end">>, <<"qobject", "private", "method", "end">>,
                <<"class", "public", "slots", "method", "end">>}

Bodies(parts, n) == {Flat(Append(b, <<"method">>)) : b \in UNION {[1..k -> parts] : k \in 0..n}}
InClass(kind, body) == <<kind>> \o body \o <<"end">>
SecondClass == <<"qobject", "method", "public", "slots", "method", "end">>

FewSources ==
    {InClass("qobject", b) \o SecondClass :
        b \in Bodies(Sections \cup Methods \cup ApartMethods \cup NestedClass, 2) \cup Bodies({<<"private">>, <<"signals">>, <<"method">>}, 3)}
    \cup {InClass("class", b) \o SecondClass : b \in Bodies({<<"signals">>, <<"method">>} \cup NestedClass, 2)}

\* A helper class with slots inside of a class.
NestedSections ==
    {<<"qobject", "private", "class", "public", "slots", "method", "end", "method", "end">>}
=============================================================================
