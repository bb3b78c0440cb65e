--------------------------- MODULE MCRuntimeMonitor ---------------------------
(* Small trees for RuntimeMonitor: "outer" may come to lie in the workspace,   *)
(* "inner" in "outer"; authorized and foreign files may lie in them.           *)
EXTENDS RuntimeMonitor

Nested == [p \in Path |-> CASE p = "inner" -> "outer"
                            [] p = "other" -> "inner"
                            [] p = "src"   -> "outer"
                            [] OTHER       -> Root]

\* A workspace without directories.
Flat == [p \in Path |-> Root]
===============================================================================
