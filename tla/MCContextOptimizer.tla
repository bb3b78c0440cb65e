-------------------------- MODULE MCContextOptimizer --------------------------
(* An instance of ContextOptimizer for TLC: lib/main.py and lib/util.ts.     *)
EXTENDS ContextOptimizer, TLC

Languages == <<"python", "script">>

Definition(name, owner, nested) == [name |-> name, owner |-> owner, nested |-> nested]
Found(name, owner)              == [name |-> name, owner |-> owner]
Import(module, name, alias)     == [module |-> module, name |-> name, alias |-> alias]

\* A function and a method of one name, which the queries match twice and, as it is
\* async, the patterns not at all; a function with another inside, and "import util as
\* run", "from util import run as start" and "from . import go", of which the queries
\* match the second, and an import of run from "./util.js"; a text with a syntax error,
\* whose enum no query matches; an empty file.
Contents ==
    {[definitions |-> {Definition("run", None, FALSE), Definition("run", "K", FALSE)},
      imports |-> {}, broken |-> FALSE, empty |-> FALSE, patterns |-> {},
      tree |-> [definitions |-> {Found("run", None), Found("run", "K")}, imports |-> {}]],
     [definitions |-> {Definition("go", None, FALSE), Definition("run", None, TRUE)},
      imports |-> {Import("util", None, "run"), Import("util", "run", "start"),
                   Import("", "go", "go")},
      broken |-> FALSE, empty |-> FALSE, patterns |-> {"go", "run"},
      tree |-> [definitions |-> {Found("go", None), Found("run", None)},
                imports |-> {Import("util", "run", "start"), Import("./util.js", "run", "run")}]],
     [definitions |-> {Definition("go", None, FALSE)}, imports |-> {}, broken |-> TRUE, empty |-> FALSE,
      patterns |-> {"go"}, tree |-> [definitions |-> {}, imports |-> {}]],
     [definitions |-> {}, imports |-> {}, broken |-> FALSE, empty |-> TRUE, patterns |-> {},
      tree |-> [definitions |-> {}, imports |-> {}]]}

\* The path of every file ends with "", the module of "from . import"; that of none ends
\* with util/js.
Modules == {"util", "./util.js", ""}
Endings == [m \in Modules |-> CASE m = "util" -> {2} [] m = "./util.js" -> {} [] m = "" -> {1, 2}]
Homes   == [m \in Modules |-> IF m = "" THEN None ELSE 2]
Call(scope, constitution, caching) ==
    [scope |-> scope, constitution |-> constitution, caching |-> caching]
Requests == {Call({1, 2}, "a", TRUE), Call({2}, "b", FALSE)}

Symmetry == Permutations(Run)
===============================================================================
