------------------------------- MODULE MCSandbox -------------------------------
EXTENDS SandboxVerification

Files == {"code", "note", ".git"}
BaseTree == [f \in Files |-> "old"]

Changes(code, note) == [f \in Files |-> CASE f = "code" -> code [] f = "note" -> note
                                          [] OTHER -> "old"]

\* One patch changes both files, one deletes, one empties the second.
Patches == {Changes("new", "new"), Changes("new", "absent"), Changes("new", "empty")}

FailToPass(file, good) == [kind |-> "fail_to_pass", test |-> file, file |-> file,
                           good |-> good, flaky |-> FALSE, retries |-> 0]
PassToPass(file, flaky, retries) ==
    [kind |-> "pass_to_pass", test |-> "code", file |-> file,
     good |-> {"old", "new", "empty"}, flaky |-> flaky, retries |-> retries]

Checks == {"bug", "unknown", "nobug", "notebug", "flaky", "guard", "noteguard", "metric"}

\* Selectors that fail before the patch, one that names no file, one that passes
\* already, flaky ones and steady ones, one of these repeated, and a metric.
CheckTerms ==
    [bug       |-> FailToPass("code", {"new"}),
     unknown   |-> [FailToPass("code", {"new"}) EXCEPT !.test = "nowhere"],
     nobug     |-> FailToPass("note", {"old"}),
     notebug   |-> FailToPass("note", {"new"}),
     flaky     |-> PassToPass("code", TRUE, 1),
     guard     |-> PassToPass("code", FALSE, 0),
     noteguard |-> PassToPass("note", FALSE, 1),
     metric    |-> [FailToPass("code", {}) EXCEPT !.kind = "metric", !.test = "nowhere"]]

\* The third suite asks for a bug that is not there.
Suites == {<<"bug", "unknown", "flaky", "metric">>, <<"noteguard", "notebug">>, <<"nobug", "guard">>}
================================================================================
