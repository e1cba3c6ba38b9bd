----------------------- MODULE MCPreProcessorVisitor -----------------------
(* Translation units of one header and a .moc file, with an old Qt, the one   *)
(* that has Q_OS_WINDOWS, and a new one.                                    *)
EXTENDS PreProcessorVisitor

CONSTANTS qstring, main_moc

AllVersions == {<<5, 12, 3>>, <<5, 12, 4>>, <<6, 8, 1>>}

\* Long units about files and namespaces, shorter ones about the rest.
SomePlans ==
    {[features |-> {"namespace", "include"}, steps |-> 7],
     [features |-> {"version", "os", "keywords"}, steps |-> 5],
     [features |-> {"os", "precompiled"}, steps |-> 3],
     [features |-> {"version", "namespace", "include", "keywords", "os"}, steps |-> 3]}
=============================================================================
