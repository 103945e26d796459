------------------------------ MODULE MCCiJobs ------------------------------
(* Instance of CiJobs for TLC: a small tree of tests, five scenarios, two   *)
(* weblogs and the kinds of files that the selection tells apart.           *)
EXTENDS CiJobs

Waf  == <<"tests", "appsec", "test_waf.py", "Test_Waf">>
Waf2 == <<"tests", "appsec", "test_waf.py", "Test_Waf2">>
Rasp == <<"tests", "appsec", "rasp", "test_sql.py", "Test_Sql">>
Otel == <<"tests", "otel", "test_otel.py", "Test_Otel">>

TestFile(n) == SubSeq(n, 1, Len(n) - 1)

AppsecUtils  == <<"tests", "appsec", "utils.py">>
RaspHelper   == <<"tests", "appsec", "utils", "rasp.py">>
RaspConftest == <<"tests", "appsec", "rasp", "conftest.py">>
Definitions  == <<"utils", "_context", "_scenarios", "endtoend.py">>
Weblog       == <<"utils", "build", "docker", "python">>
Unknown      == <<"new_file">>

SmallMap    == (Waf :> {1, 2}) @@ (Waf2 :> {2}) @@ (Rasp :> {3}) @@ (Otel :> {4, 5})
SmallFileOf == [n \in DOMAIN SmallMap |-> TestFile(n)]
SmallFiles  == {TestFile(Waf), AppsecUtils, RaspHelper, RaspConftest, Definitions, Weblog, Unknown}
SmallSupport == {AppsecUtils, RaspConftest}
SmallImpacts ==
    LET test == [groups |-> {}, scenarios |-> {}, libraries |-> {"java", "nodejs"}]
    IN  [f \in SmallFiles \ {Weblog, Unknown} |-> test]
            @@ (Weblog :> [groups |-> {"endtoend"}, scenarios |-> {}, libraries |-> {"nodejs"}])
SmallDefined == Definitions :> {3, 5}
SmallGroups  == ("all" :> 1 .. 5) @@ ("endtoend" :> 1 .. 4)
SmallLibs    == [s \in 1 .. 5 |-> IF s = 5 THEN {"otel"} ELSE {}]
SmallRules   == (Waf :> 1) @@ (<<"tests", "appsec", "rasp">> :> 0)
SmallBegins   == {<<"Test_Waf", "Test_Waf2">>}
SmallSupports == {<<1, s>> : s \in 1 .. 5} \cup {<<2, s>> : s \in 2 .. 5}
SmallBuildTime == <<1, 0>>
SmallRunTime == [w \in 1 .. 2 |-> [s \in 1 .. 5 |-> IF w = 1 THEN <<3, 2, 2, 1, 1>>[s] ELSE <<1, 1, 4, 2, 2>>[s]]]
=============================================================================
