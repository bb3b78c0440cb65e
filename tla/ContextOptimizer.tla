--------------------------- MODULE ContextOptimizer ---------------------------
(*****************************************************************************)
(* The pass optimize_context of core/pipeline.py: symbols, linker map and    *)
(* slices of the authorized files, from the optimizer cache or from          *)
(* SymbolTableBuilder, Linker and ContextPruner, each of which reads and     *)
(* parses every file again.  The runs of several processes share the cache;  *)
(* git commands of other tasks and the operator change files meanwhile.      *)
(*                                                                           *)
(* Files are numbered in the order of their paths.  A text is abstracted to  *)
(* what Python's ast has of it, what the queries of optimizers/queries and   *)
(* the regular expressions of parsers.py match in it, which need not be the  *)
(* same; excerpts and signatures are part of the text.                       *)
(*****************************************************************************)
EXTENDS Naturals, FiniteSets, FiniteSetsExt

CONSTANTS
    File,       \* the files, numbered as their paths are sorted
    Language,   \* Language[f]: by the path's suffix
    Content,    \* the texts a file may have
    Absent,     \* there is no such file
    Unread,     \* no digest (yet)
    None,       \* no name, no file, nothing cached
    Module,     \* the modules that are imported
    Ends,       \* Ends[m]: the files whose path, without suffix, ends with m's
    Home,       \* Home[m]: the file m really is, if any, whatever its path ends with
    Request,    \* what the passes are called with
    Run,        \* the runs of the pipeline
    MaxEdits    \* bound: changes of files

Text == Content \cup {Absent}

ASSUME FileAssumption ==
    /\ File \subseteq Nat /\ None \notin File
    /\ \A S \in SUBSET File : S # {} => \E f \in S : \A g \in S : f <= g
ASSUME TextAssumption == Absent \notin Content /\ Unread \notin Text

\* A definition stands at the top level, in the class that owns it, or nested elsewhere.
ASSUME ContentAssumption == \A c \in Content :
    /\ \A i \in c.imports \cup c.tree.imports : i.module \in Module
    /\ \A d \in c.definitions : d.nested \in BOOLEAN
    /\ c.broken \in BOOLEAN /\ c.empty \in BOOLEAN
ASSUME LanguageAssumption == Language \in [File -> {"python", "script", "text"}]
ASSUME ModuleAssumption == Ends \in [Module -> SUBSET File] /\ Home \in [Module -> File \cup {None}]
\* The authorized files, the constitution, and whether the pipeline has a cache.
ASSUME RequestAssumption ==
    \A q \in Request : q.scope \subseteq File /\ q.caching \in BOOLEAN

VARIABLES
    sources,    \* sources[f]: what the file holds
    rows,       \* the rows of the optimizer cache
    pc,         \* pc[r]: which loop run r is in
    request,    \* its request
    parser,     \* whether its process can load tree-sitter
    todo,       \* the files its loop has not come to
    digest,     \* file_state
    context,    \* symbol_table, linker_map and context_slices
    mixed,      \* history: the context may be of more than one version of the files
    edits       \* bound

cache == <<sources, rows, edits>>
call  == <<request, parser>>
vars  == <<cache, call, pc, todo, digest, context, mixed>>

-------------------------------------------------------------------------------
(* ParserRegistry.parse_file.                                                *)

Named(ds) == {[name |-> d.name, owner |-> d.owner] : d \in ds}
Bare(names) == {[name |-> n, owner |-> None] : n \in names}
Nothing   == [definitions |-> {}, imports |-> {}, errors |-> FALSE]

\* PythonAstBackend: what stands at the top level, and the methods of classes.
AstParse(c) ==
    [definitions |-> Named({d \in c.definitions : ~d.nested}),
     imports |-> c.imports, errors |-> FALSE]

\* RegexScriptBackend: whatever its patterns match, and never an import entry.
RegexParse(c) == [definitions |-> Bare(c.patterns), imports |-> {}, errors |-> FALSE]

\* TreeSitterAdapter.parse.
TreeParse(c) ==
    [definitions |-> c.tree.definitions, imports |-> c.tree.imports, errors |-> c.broken]

\* tree_sitter.supports, and its parse is not empty.
ByTree(f, c, tree) ==
    /\ tree /\ Language[f] # "text"
    /\ c.tree.definitions # {} \/ c.tree.imports # {} \/ c.broken

Parse(f, c, tree) ==
    IF c = Absent THEN Nothing
    ELSE IF ByTree(f, c, tree) THEN TreeParse(c)
    ELSE CASE Language[f] = "python" -> AstParse(c)
           [] Language[f] = "script" -> RegexParse(c)
           [] Language[f] = "text"   -> Nothing

\* ast.parse raises SyntaxError, which nothing in the pass handles.
Raises(f, c, tree) ==
    c # Absent /\ c.broken /\ Language[f] = "python" /\ ~ByTree(f, c, tree)

\* ContextSlice has an excerpt of at least one character.
Refuses(c) == c # Absent /\ c.empty

-------------------------------------------------------------------------------
(* One file's part of the table, the map and the slices.                     *)

\* SymbolTableBuilder.build.
Symbols(f, c, tree) ==
    {[file |-> f, name |-> d.name, owner |-> d.owner] : d \in Parse(f, c, tree).definitions}

\* Mutant of Resolve: the first file that has the name.
ResolveByName(module, name, table) ==
    LET having == {s.file : s \in {t \in table : t.name = name}}
    IN  IF having = {} THEN None ELSE Min(having)

\* Linker._resolve, up to the choice between namesakes of one file.
Resolve(module, name, table) ==
    LET having == {s.file : s \in {t \in table : t.name = name}}
        fitting == having \cap Ends[module]
    IN  IF having = {} THEN None
        ELSE IF fitting # {} THEN Min(fitting)
        ELSE Min(having)

\* The name that is looked up: imported_name, or else the alias.
Sought(i) == IF i.name = None THEN i.alias ELSE i.name

\* Linker.build.
Links(f, c, tree, table) ==
    {[file |-> f, module |-> i.module, symbol |-> i.alias, sought |-> Sought(i),
      target |-> Resolve(i.module, Sought(i), table)] : i \in Parse(f, c, tree).imports}

\* ContextPruner.build: a file that exists has a slice of its text, with the names
\* the table and the map have for it.
Slices(f, c, tree, table, links) ==
    IF c = Absent THEN {}
    ELSE {[file |-> f, text |-> c, warned |-> Parse(f, c, tree).errors,
           symbols |-> {[name |-> s.name, owner |-> s.owner] :
                           s \in {t \in table : t.file = f}},
           linked |-> {l.symbol : l \in {k \in links : k.file = f}}]}

NoContext == [table |-> {}, links |-> {}, slices |-> {}]
Blank     == [f \in File |-> Unread]

\* Mutant of Key: which files there are, not what they hold.
KeyOfPaths(r) ==
    [files |-> [f \in File |-> IF digest[r][f] \in Content THEN "there" ELSE digest[r][f]],
     constitution |-> request[r].constitution]

\* compute_key, for a given analyzer version.
Key(r) == [files |-> digest[r], constitution |-> request[r].constitution]

-------------------------------------------------------------------------------
Init ==
    /\ sources \in [File -> Text] /\ rows = {} /\ edits = 0
    /\ pc = [r \in Run |-> "ready"]
    /\ request \in [Run -> Request] /\ parser \in [Run -> BOOLEAN]
    /\ todo = [r \in Run |-> {}] /\ digest = [r \in Run |-> Blank]
    /\ context = [r \in Run |-> NoContext] /\ mixed = [r \in Run |-> FALSE]

Enter(r, loop) == /\ pc' = [pc EXCEPT ![r] = loop]
                  /\ todo' = [todo EXCEPT ![r] = request[r].scope]

Starts(r) ==
    /\ pc[r] = "ready"
    /\ Enter(r, IF request[r].caching THEN "digests" ELSE "symbols")
    /\ UNCHANGED <<cache, call, digest, context, mixed>>

\* The next file of the loop, in the order of sorted(set(file_paths)).
Upcoming(r, f) == f \in todo[r] /\ \A g \in todo[r] : f <= g

Visited(r, f) == todo' = [todo EXCEPT ![r] = @ \ {f}]

Digest(r, f) ==
    /\ pc[r] = "digests" /\ Upcoming(r, f)
    /\ digest' = [digest EXCEPT ![r][f] = sources[f]]
    /\ Visited(r, f)
    /\ UNCHANGED <<cache, call, pc, context, mixed>>

\* cached is not None.
Hit(r) ==
    /\ pc[r] = "digests" /\ todo[r] = {}
    /\ \E row \in rows :
          /\ row.key = Key(r)
          /\ context' = [context EXCEPT ![r] = row.context]
          /\ mixed' = [mixed EXCEPT ![r] = @ \/ row.mixed]
    /\ pc' = [pc EXCEPT ![r] = "optimized"]
    /\ UNCHANGED <<cache, call, todo, digest>>

Miss(r) ==
    /\ pc[r] = "digests" /\ todo[r] = {}
    /\ \A row \in rows : row.key # Key(r)
    /\ Enter(r, "symbols")
    /\ UNCHANGED <<cache, call, digest, context, mixed>>

Index(r, f) ==
    /\ pc[r] = "symbols" /\ Upcoming(r, f) /\ ~Raises(f, sources[f], parser[r])
    /\ context' = [context EXCEPT ![r].table = @ \cup Symbols(f, sources[f], parser[r])]
    /\ Visited(r, f)
    /\ UNCHANGED <<cache, call, pc, digest, mixed>>

Link(r, f) ==
    /\ pc[r] = "links" /\ Upcoming(r, f) /\ ~Raises(f, sources[f], parser[r])
    /\ context' = [context EXCEPT
          ![r].links = @ \cup Links(f, sources[f], parser[r], context[r].table)]
    /\ Visited(r, f)
    /\ UNCHANGED <<cache, call, pc, digest, mixed>>

Slice(r, f) ==
    /\ pc[r] = "slices" /\ Upcoming(r, f)
    /\ ~Raises(f, sources[f], parser[r]) /\ ~Refuses(sources[f])
    /\ context' = [context EXCEPT
          ![r].slices = @ \cup Slices(f, sources[f], parser[r], context[r].table,
                                      context[r].links)]
    /\ Visited(r, f)
    /\ UNCHANGED <<cache, call, pc, digest, mixed>>

LoopEnds(r) ==
    /\ todo[r] = {}
    /\ \/ pc[r] = "symbols" /\ Enter(r, "links")
       \/ pc[r] = "links" /\ Enter(r, "slices")
       \/ /\ pc[r] = "slices"
          /\ pc' = [pc EXCEPT ![r] = IF request[r].caching THEN "put" ELSE "optimized"]
          /\ UNCHANGED todo
    /\ UNCHANGED <<cache, call, digest, context, mixed>>

\* put: insert, or replace what another run made of the same key.
Put(r) ==
    /\ pc[r] = "put"
    /\ rows' = {row \in rows : row.key # Key(r)}
                  \cup {[key |-> Key(r), context |-> context[r], mixed |-> mixed[r]]}
    /\ pc' = [pc EXCEPT ![r] = "optimized"]
    /\ UNCHANGED <<sources, edits, call, todo, digest, context, mixed>>

Working == {"digests", "symbols", "links", "slices", "put"}

\* A SyntaxError, an empty file, a file that is gone between exists() and read_text(), a locked
\* database: the run escapes, or its process ends.  Nothing was written.
Escapes(r) ==
    /\ pc[r] \in Working
    /\ pc' = [pc EXCEPT ![r] = "escaped"]
    /\ UNCHANGED <<cache, call, todo, digest, context, mixed>>

\* Another task, its rollback or the operator writes or deletes a file.
Edit(f, c) ==
    /\ edits < MaxEdits /\ c # sources[f]
    /\ edits' = edits + 1
    /\ sources' = [sources EXCEPT ![f] = c]
    /\ mixed' = [r \in Run |-> mixed[r] \/ (pc[r] \in Working /\ f \in request[r].scope)]
    /\ UNCHANGED <<rows, call, pc, todo, digest, context>>

Next ==
    \/ \E r \in Run :
          \/ Starts(r) \/ Hit(r) \/ Miss(r) \/ LoopEnds(r) \/ Put(r) \/ Escapes(r)
          \/ \E f \in File : Digest(r, f) \/ Index(r, f) \/ Link(r, f) \/ Slice(r, f)
    \/ \E f \in File, c \in Text : Edit(f, c)

Spec == Init /\ [][Next]_vars

-------------------------------------------------------------------------------
(* Properties.                                                               *)

\* What a run has of the files and where it is.
TypeOK ==
    /\ sources \in [File -> Text] /\ request \in [Run -> Request]
    /\ parser \in [Run -> BOOLEAN] /\ mixed \in [Run -> BOOLEAN]
    /\ pc \in [Run -> {"ready", "optimized", "escaped"} \cup Working]
    /\ todo \in [Run -> SUBSET File] /\ \A r \in Run : todo[r] \subseteq request[r].scope
    /\ digest \in [Run -> [File -> Text \cup {Unread}]]
    /\ DOMAIN context = Run
    /\ \A row \in rows : row.mixed \in BOOLEAN

\* What the pass makes of files that hold d, with or without tree-sitter.
Table(d, scope, tree) == UNION {Symbols(f, d[f], tree) : f \in scope}
Analysis(d, scope, tree) ==
    LET table == Table(d, scope, tree)
        links == UNION {Links(f, d[f], tree, table) : f \in scope}
    IN  [table |-> table, links |-> links,
         slices |-> UNION {Slices(f, d[f], tree, table, links) : f \in scope}]

\* A context from the cache is the analysis, by some process's parsers, of the very
\* files this run has; unless files of the scope changed while it, or the run that
\* filled the row, was at it.
ContextOfItsSources ==
    \A r \in Run : pc[r] = "optimized" /\ request[r].caching /\ ~mixed[r] =>
        \E tree \in BOOLEAN : context[r] = Analysis(digest[r], request[r].scope, tree)

\* A file is in the table with a definition of that name.
Lists(table, f, name) == \E s \in table : s.file = f /\ s.name = name

\* In every context, from the cache or not and whatever changed while it was made, an
\* import is linked to a file of the context's own table that has the name, and to none
\* only if none has it.  Where the path of the module's file ends like the module and
\* the parser found the name there, the link leads to that file and to no namesake;
\* but for an earlier file whose path ends like the module and has the name, too.
LinksLeadHome ==
    \A r \in Run : pc[r] = "optimized" =>
        \A l \in context[r].links :
            LET table == context[r].table
                home  == Home[l.module]
            IN  /\ l.target # None => Lists(table, l.target, l.sought)
                /\ l.target = None => \A f \in File : ~Lists(table, f, l.sought)
                /\ /\ home \in Ends[l.module] /\ Lists(table, home, l.sought)
                   /\ \A f \in Ends[l.module] : f < home => ~Lists(table, f, l.sought)
                   => l.target = home
===============================================================================
