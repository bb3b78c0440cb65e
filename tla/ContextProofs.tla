----------------------------- MODULE ContextProofs -----------------------------
(*****************************************************************************)
(* The properties of ContextOptimizer for any files, texts, parsers, runs    *)
(* and numbers of edits: a context from the cache is an analysis of the very *)
(* files the run has, and its imports are linked to their modules.           *)
(*****************************************************************************)
EXTENDS ContextOptimizer, TLAPS

-------------------------------------------------------------------------------
(* The inductive invariant.                                                  *)

Linked(d, scope, tree, table) == UNION {Links(f, d[f], tree, table) : f \in scope}
Sliced(d, scope, tree, table, links) ==
    UNION {Slices(f, d[f], tree, table, links) : f \in scope}

\* The files run r's loop has come to.
Come(r) == request[r].scope \ todo[r]

\* The digests are those of the files S of the scope.
Digested(r, S) ==
    \A f \in File : digest[r][f] = IF f \in S THEN sources[f] ELSE Unread

\* What a run has made so far of the files it has digests of.
TableSoFar(r) == [table |-> Table(digest[r], Come(r), parser[r]), links |-> {}, slices |-> {}]

LinksSoFar(r) ==
    LET table == Table(digest[r], request[r].scope, parser[r])
    IN  [table |-> table, links |-> Linked(digest[r], Come(r), parser[r], table), slices |-> {}]

SlicesSoFar(r) ==
    LET table == Table(digest[r], request[r].scope, parser[r])
        links == Linked(digest[r], request[r].scope, parser[r], table)
    IN  [table |-> table, links |-> links,
         slices |-> Sliced(digest[r], Come(r), parser[r], table, links)]

Begun(r) ==
    /\ pc[r] = "ready" => digest[r] = Blank /\ context[r] = NoContext /\ ~mixed[r]
    /\ pc[r] \in {"digests", "put"} => request[r].caching

\* Run r is on the way to the analysis of its files.
OnItsWay(r) ==
    /\ pc[r] = "digests" => Digested(r, Come(r)) /\ context[r] = NoContext
    /\ pc[r] \in {"symbols", "links", "slices", "put"} => Digested(r, request[r].scope)
    /\ pc[r] = "symbols" => context[r] = TableSoFar(r)
    /\ pc[r] = "links" => context[r] = LinksSoFar(r)
    /\ pc[r] = "slices" => context[r] = SlicesSoFar(r)
    /\ pc[r] = "put" => context[r] = Analysis(digest[r], request[r].scope, parser[r])
    /\ pc[r] = "optimized" => \A f \in request[r].scope : digest[r][f] \in Text
    /\ pc[r] = "optimized" =>
          \E tree \in BOOLEAN : context[r] = Analysis(digest[r], request[r].scope, tree)

RunSound(r) == Begun(r) /\ (request[r].caching /\ ~mixed[r] => OnItsWay(r))

RowSound(row) ==
    ~row.mixed => \E tree \in BOOLEAN :
        row.context = Analysis(row.key.files, {f \in File : row.key.files[f] # Unread}, tree)

IInv == /\ TypeOK
        /\ \A r \in Run : RunSound(r)
        /\ \A row \in rows : RowSound(row)

-------------------------------------------------------------------------------
(* What the loops make.                                                      *)

LEMMA NothingYet ==
    ASSUME NEW d, NEW tree, NEW table, NEW links
    PROVE  /\ Table(d, {}, tree) = {}
           /\ Linked(d, {}, tree, table) = {}
           /\ Sliced(d, {}, tree, table, links) = {}
  BY DEF Table, Linked, Sliced

LEMMA AnalysisOf ==
    ASSUME NEW d, NEW S, NEW tree
    PROVE  LET table == Table(d, S, tree)
               links == Linked(d, S, tree, table)
           IN  Analysis(d, S, tree) = [table |-> table, links |-> links,
                                       slices |-> Sliced(d, S, tree, table, links)]
  BY DEF Analysis, Linked, Sliced

-------------------------------------------------------------------------------
(* Types.                                                                    *)

LEMMA InitTypes == Init => TypeOK
  BY TextAssumption, RequestAssumption DEF Init, TypeOK, Blank, Text

LEMMA NextTypes ==
    ASSUME TypeOK, [Next]_vars
    PROVE  TypeOK'
<1> USE TextAssumption, RequestAssumption
<1>1. ASSUME NEW r \in Run, Starts(r) PROVE TypeOK'
  BY <1>1 DEF TypeOK, Starts, Enter, cache, call, Working
<1>2. ASSUME NEW r \in Run, Hit(r) PROVE TypeOK'
  BY <1>2 DEF TypeOK, Hit, cache, call, Working
<1>3. ASSUME NEW r \in Run, Miss(r) PROVE TypeOK'
  BY <1>3 DEF TypeOK, Miss, Enter, cache, call, Working
<1>4. ASSUME NEW r \in Run, LoopEnds(r) PROVE TypeOK'
  BY <1>4 DEF TypeOK, LoopEnds, Enter, cache, call, Working
<1>5. ASSUME NEW r \in Run, Put(r) PROVE TypeOK'
  BY <1>5 DEF TypeOK, Put, cache, call, Working
<1>6. ASSUME NEW r \in Run, Escapes(r) PROVE TypeOK'
  BY <1>6 DEF TypeOK, Escapes, cache, call, Working
<1>7. ASSUME NEW r \in Run, NEW f \in File, Digest(r, f) PROVE TypeOK'
  BY <1>7 DEF TypeOK, Digest, Visited, Upcoming, cache, call
<1>8. ASSUME NEW r \in Run, NEW f \in File, Index(r, f) \/ Link(r, f) \/ Slice(r, f)
      PROVE  TypeOK'
  <2>1. /\ DOMAIN context' = DOMAIN context
        /\ todo' = [todo EXCEPT ![r] = @ \ {f}]
        /\ UNCHANGED <<sources, rows, request, parser, pc, digest, mixed>>
    BY <1>8 DEF Index, Link, Slice, Visited, cache, call
  <2> QED
    BY <2>1 DEF TypeOK
<1>9. ASSUME NEW f \in File, NEW c \in Text, Edit(f, c) PROVE TypeOK'
  BY <1>9 DEF TypeOK, Edit, call
<1>10. ASSUME UNCHANGED vars PROVE TypeOK'
  BY <1>10 DEF TypeOK, vars, cache, call
<1> QED
  BY <1>1, <1>2, <1>3, <1>4, <1>5, <1>6, <1>7, <1>8, <1>9, <1>10 DEF Next

\* Types of a run's loop, digests and request, for any files and texts.
THEOREM TypeCorrect == Spec => []TypeOK
  BY InitTypes, NextTypes, PTL DEF Spec

-------------------------------------------------------------------------------
(* The steps of one run.                                                     *)

\* What a run has is not another's business.
LEMMA OthersKeep ==
    ASSUME TypeOK, NEW s \in Run, RunSound(s), UNCHANGED <<sources, request, parser>>,
           pc'[s] = pc[s], todo'[s] = todo[s], digest'[s] = digest[s],
           context'[s] = context[s], mixed'[s] = mixed[s]
    PROVE  RunSound(s)'
<1>1. Come(s)' = Come(s)
  BY DEF Come
<1>2. /\ TableSoFar(s)' = TableSoFar(s)
      /\ LinksSoFar(s)' = LinksSoFar(s)
      /\ SlicesSoFar(s)' = SlicesSoFar(s)
  BY <1>1 DEF TableSoFar, LinksSoFar, SlicesSoFar
<1>3. \A S : Digested(s, S)' <=> Digested(s, S)
  BY DEF Digested
<1> QED
  BY <1>1, <1>2, <1>3 DEF RunSound, Begun, OnItsWay

LEMMA StartsKeeps ==
    ASSUME IInv, NEW r \in Run, Starts(r)
    PROVE  RunSound(r)'
<1>1. /\ pc'[r] = IF request[r].caching THEN "digests" ELSE "symbols"
      /\ todo'[r] = request[r].scope
      /\ request' = request /\ digest' = digest /\ context' = context
  BY DEF IInv, TypeOK, Starts, Enter, call
<1>2. Come(r)' = {}
  BY <1>1 DEF Come
<1>3. digest[r] = Blank /\ context[r] = NoContext
  BY DEF IInv, RunSound, Begun, Starts
<1>4. request[r].caching => Digested(r, Come(r))'
  BY <1>1, <1>2, <1>3 DEF Digested, Blank
<1> QED
  BY <1>1, <1>2, <1>3, <1>4 DEF RunSound, Begun, OnItsWay

LEMMA DigestKeeps ==
    ASSUME IInv, NEW r \in Run, NEW f \in File, Digest(r, f)
    PROVE  RunSound(r)'
<1>1. /\ pc[r] = "digests" /\ pc' = pc /\ f \in todo[r] /\ f \in request[r].scope
      /\ todo'[r] = todo[r] \ {f}
      /\ digest'[r] = [digest[r] EXCEPT ![f] = sources[f]]
      /\ UNCHANGED <<sources, request, context, mixed>>
  BY DEF IInv, TypeOK, Digest, Visited, Upcoming, cache, call
<1>2. Come(r)' = Come(r) \cup {f}
  BY <1>1 DEF Come
<1>3. ASSUME Digested(r, Come(r)) PROVE Digested(r, Come(r))'
  <2>1. digest[r] \in [File -> Text \cup {Unread}]
    BY DEF IInv, TypeOK
  <2> QED
    BY <1>1, <1>2, <1>3, <2>1 DEF Digested
<1> QED
  BY <1>1, <1>3 DEF IInv, RunSound, Begun, OnItsWay

LEMMA HitKeeps ==
    ASSUME IInv, NEW r \in Run, Hit(r)
    PROVE  RunSound(r)'
<1>1. PICK row \in rows : /\ row.key = Key(r)
                          /\ context' = [context EXCEPT ![r] = row.context]
                          /\ mixed' = [mixed EXCEPT ![r] = @ \/ row.mixed]
  BY DEF Hit
<1>2. /\ pc[r] = "digests" /\ todo[r] = {} /\ pc'[r] = "optimized"
      /\ UNCHANGED <<request, digest>>
      /\ context'[r] = row.context
      /\ mixed'[r] = (mixed[r] \/ row.mixed)
      /\ row.mixed \in BOOLEAN /\ mixed[r] \in BOOLEAN
  BY <1>1 DEF IInv, TypeOK, Hit, call
<1>3. ASSUME request[r].caching, ~mixed'[r]
      PROVE  /\ \E tree \in BOOLEAN : context'[r] = Analysis(digest[r], request[r].scope, tree)
             /\ \A f \in request[r].scope : digest[r][f] \in Text
  <2>1. ~mixed[r] /\ ~row.mixed
    BY <1>2, <1>3
  <2>2. Digested(r, request[r].scope)
    BY <1>2, <1>3, <2>1 DEF IInv, RunSound, OnItsWay, Come
  <2>3. request[r].scope \subseteq File
    BY RequestAssumption DEF IInv, TypeOK
  <2>4. {f \in File : digest[r][f] # Unread} = request[r].scope
    BY <2>2, <2>3, TextAssumption DEF Digested, IInv, TypeOK
  <2>5. row.key.files = digest[r]
    BY <1>1 DEF Key
  <2>6. \A f \in request[r].scope : digest[r][f] \in Text
    BY <2>2, <2>3 DEF Digested, IInv, TypeOK
  <2> QED
    BY <1>2, <2>1, <2>4, <2>5, <2>6 DEF IInv, RowSound
<1> QED
  BY <1>2, <1>3 DEF RunSound, Begun, OnItsWay

LEMMA MissKeeps ==
    ASSUME IInv, NEW r \in Run, Miss(r)
    PROVE  RunSound(r)'
<1>1. /\ pc[r] = "digests" /\ todo[r] = {} /\ pc'[r] = "symbols"
      /\ todo'[r] = request[r].scope
      /\ UNCHANGED <<sources, request, parser, digest, context, mixed>>
  BY DEF IInv, TypeOK, Miss, Enter, cache, call
<1>2. Come(r) = request[r].scope /\ Come(r)' = {}
  BY <1>1 DEF Come
<1>3. TableSoFar(r)' = NoContext
  BY <1>2, NothingYet DEF TableSoFar, NoContext
<1>4. ASSUME request[r].caching, ~mixed[r]
      PROVE  context[r] = NoContext /\ Digested(r, request[r].scope)'
  BY <1>1, <1>2, <1>4 DEF IInv, RunSound, OnItsWay, Digested
<1> QED
  BY <1>1, <1>3, <1>4 DEF RunSound, Begun, OnItsWay

\* A loop that has come to the next file.
LEMMA LoopKeeps ==
    ASSUME IInv, NEW r \in Run, NEW f \in File, Index(r, f) \/ Link(r, f) \/ Slice(r, f)
    PROVE  RunSound(r)'
<1>1. /\ pc' = pc /\ f \in request[r].scope
      /\ todo'[r] = todo[r] \ {f} /\ f \in todo[r]
      /\ UNCHANGED <<sources, request, parser, digest, mixed>>
  BY DEF IInv, TypeOK, Index, Link, Slice, Visited, Upcoming, cache, call
<1>2. Come(r)' = Come(r) \cup {f}
  BY <1>1 DEF Come
<1>3. Begun(r)'
  BY <1>1 DEF Index, Link, Slice, Begun
<1>4. SUFFICES ASSUME request[r].caching, ~mixed[r] PROVE OnItsWay(r)'
  BY <1>1, <1>3 DEF RunSound
<1>5. pc[r] \in {"symbols", "links", "slices"}
  BY DEF Index, Link, Slice
<1>6. OnItsWay(r) /\ Digested(r, request[r].scope) /\ digest[r][f] = sources[f]
  BY <1>1, <1>4, <1>5 DEF IInv, RunSound, OnItsWay, Digested
<1>7. Digested(r, request[r].scope)'
  BY <1>1, <1>6 DEF Digested
<1>8. DOMAIN context = Run
  BY DEF IInv, TypeOK
<1> DEFINE table == Table(digest[r], request[r].scope, parser[r])
           links == Linked(digest[r], request[r].scope, parser[r], table)
<1>9. CASE Index(r, f)
  <2> DEFINE past == Table(digest[r], Come(r), parser[r])
             part == Symbols(f, digest[r][f], parser[r])
  <2>1. pc[r] = "symbols" /\ context[r] = [table |-> past, links |-> {}, slices |-> {}]
    BY <1>6, <1>9 DEF Index, OnItsWay, TableSoFar
  <2>2. context'[r] = [context[r] EXCEPT !.table = context[r].table \cup part]
    BY <1>6, <1>8, <1>9 DEF Index
  <2>3. Table(digest[r], Come(r) \cup {f}, parser[r]) = past \cup part
    BY DEF Table
  <2>4. TableSoFar(r)' = [table |-> past \cup part, links |-> {}, slices |-> {}]
    BY <1>1, <1>2, <2>3 DEF TableSoFar
  <2> HIDE DEF past, part
  <2>5. context'[r] = TableSoFar(r)'
    BY ONLY <2>1, <2>2, <2>4
  <2> QED
    BY <1>1, <1>7, <2>1, <2>5 DEF OnItsWay
<1>10. CASE Link(r, f)
  <2> DEFINE past == Linked(digest[r], Come(r), parser[r], table)
             part == Links(f, digest[r][f], parser[r], table)
  <2>1. pc[r] = "links" /\ context[r] = [table |-> table, links |-> past, slices |-> {}]
    BY <1>6, <1>10 DEF Link, OnItsWay, LinksSoFar
  <2>2. context[r].table = table
    BY <2>1
  <2>3. context'[r] = [context[r] EXCEPT !.links = context[r].links \cup part]
    BY <1>6, <1>8, <1>10, <2>2 DEF Link
  <2>4. Linked(digest[r], Come(r) \cup {f}, parser[r], table) = past \cup part
    BY DEF Linked
  <2>5. LinksSoFar(r)' = [table |-> table, links |-> past \cup part, slices |-> {}]
    BY <1>1, <1>2, <2>4 DEF LinksSoFar
  <2> HIDE DEF past, part, table, links
  <2>6. context[r].links = past
    BY <2>1
  <2>7. context'[r] = [[table |-> table, links |-> past, slices |-> {}]
                          EXCEPT !.links = past \cup part]
    BY <2>1, <2>3, <2>6
  <2>8. context'[r] = [table |-> table, links |-> past \cup part, slices |-> {}]
    BY <2>7
  <2>9. context'[r] = LinksSoFar(r)'
    BY <2>5, <2>8
  <2> QED
    BY <1>1, <1>7, <2>1, <2>9 DEF OnItsWay
<1>11. CASE Slice(r, f)
  <2> DEFINE past == Sliced(digest[r], Come(r), parser[r], table, links)
             part == Slices(f, digest[r][f], parser[r], table, links)
  <2>1. pc[r] = "slices" /\ context[r] = [table |-> table, links |-> links, slices |-> past]
    BY <1>6, <1>11 DEF Slice, OnItsWay, SlicesSoFar
  <2>2. context[r].table = table /\ context[r].links = links
    BY <2>1
  <2>3. context'[r] = [context[r] EXCEPT !.slices = context[r].slices \cup part]
    BY <1>6, <1>8, <1>11, <2>2 DEF Slice
  <2>4. Sliced(digest[r], Come(r) \cup {f}, parser[r], table, links) = past \cup part
    BY DEF Sliced
  <2>5. SlicesSoFar(r)' = [table |-> table, links |-> links, slices |-> past \cup part]
    BY <1>1, <1>2, <2>4 DEF SlicesSoFar
  <2> HIDE DEF past, part, table, links
  <2>6. context'[r] = SlicesSoFar(r)'
    BY ONLY <2>1, <2>3, <2>5
  <2> QED
    BY <1>1, <1>7, <2>1, <2>6 DEF OnItsWay
<1> QED
  BY <1>9, <1>10, <1>11

LEMMA LoopEndsKeeps ==
    ASSUME IInv, NEW r \in Run, LoopEnds(r)
    PROVE  RunSound(r)'
<1>1. /\ todo[r] = {} /\ pc[r] \in {"symbols", "links", "slices"}
      /\ UNCHANGED <<sources, request, parser, digest, context, mixed>>
  BY DEF LoopEnds, cache, call
<1>2. Come(r) = request[r].scope
  BY <1>1 DEF Come
<1>3. Begun(r)'
  BY <1>1 DEF IInv, TypeOK, LoopEnds, Enter, Begun
<1>4. SUFFICES ASSUME request[r].caching, ~mixed[r] PROVE OnItsWay(r)'
  BY <1>1, <1>3 DEF RunSound
<1>5. OnItsWay(r) /\ Digested(r, request[r].scope)'
  BY <1>1, <1>4 DEF IInv, RunSound, OnItsWay, Digested
<1> DEFINE table == Table(digest[r], request[r].scope, parser[r])
           links == Linked(digest[r], request[r].scope, parser[r], table)
<1>6. CASE pc[r] = "symbols"
  <2>1. pc'[r] = "links" /\ todo'[r] = request[r].scope
    BY <1>6 DEF IInv, TypeOK, LoopEnds, Enter
  <2>2. Come(r)' = {}
    BY <1>1, <2>1 DEF Come
  <2>3. context[r] = [table |-> table, links |-> {}, slices |-> {}]
    BY <1>2, <1>5, <1>6 DEF OnItsWay, TableSoFar
  <2>4. context'[r] = LinksSoFar(r)'
    BY <1>1, <2>2, <2>3, NothingYet DEF LinksSoFar
  <2> QED
    BY <1>5, <2>1, <2>4 DEF OnItsWay
<1>7. CASE pc[r] = "links"
  <2>1. pc'[r] = "slices" /\ todo'[r] = request[r].scope
    BY <1>7 DEF IInv, TypeOK, LoopEnds, Enter
  <2>2. Come(r)' = {}
    BY <1>1, <2>1 DEF Come
  <2>3. context[r] = [table |-> table, links |-> links, slices |-> {}]
    BY <1>2, <1>5, <1>7 DEF OnItsWay, LinksSoFar
  <2>4. context'[r] = SlicesSoFar(r)'
    BY <1>1, <2>2, <2>3, NothingYet DEF SlicesSoFar
  <2> QED
    BY <1>5, <2>1, <2>4 DEF OnItsWay
<1>8. CASE pc[r] = "slices"
  <2>1. pc'[r] = "put"
    BY <1>4, <1>8 DEF IInv, TypeOK, LoopEnds, Enter
  <2>2. context[r] = Analysis(digest[r], request[r].scope, parser[r])
    BY <1>2, <1>5, <1>8, AnalysisOf DEF OnItsWay, SlicesSoFar
  <2> QED
    BY <1>1, <1>5, <2>1, <2>2 DEF OnItsWay
<1> QED
  BY <1>1, <1>6, <1>7, <1>8

LEMMA PutKeeps ==
    ASSUME IInv, NEW r \in Run, Put(r)
    PROVE  RunSound(r)' /\ \A row \in rows' : RowSound(row)
<1>1. /\ pc[r] = "put" /\ pc'[r] = "optimized"
      /\ UNCHANGED <<sources, request, parser, digest, context, mixed>>
  BY DEF IInv, TypeOK, Put, call
<1>2. parser[r] \in BOOLEAN /\ request[r].scope \subseteq File
  BY RequestAssumption DEF IInv, TypeOK
<1>3. RunSound(r)'
  <2>1. SUFFICES ASSUME request[r].caching, ~mixed[r] PROVE OnItsWay(r)'
    BY <1>1 DEF IInv, RunSound, Begun
  <2>2. OnItsWay(r)
    BY <1>1, <2>1 DEF IInv, RunSound
  <2>3. \A f \in request[r].scope : digest[r][f] \in Text
    BY <1>1, <1>2, <2>2 DEF OnItsWay, Digested, IInv, TypeOK
  <2> QED
    BY <1>1, <1>2, <2>2, <2>3 DEF OnItsWay
<1>4. ASSUME NEW row \in rows' PROVE RowSound(row)
  <2>1. CASE row \in rows
    BY <2>1 DEF IInv
  <2>2. CASE row = [key |-> Key(r), context |-> context[r], mixed |-> mixed[r]]
    <3>1. SUFFICES ASSUME ~mixed[r]
                   PROVE  \E tree \in BOOLEAN : context[r] =
                             Analysis(digest[r], {f \in File : digest[r][f] # Unread}, tree)
      BY <2>2 DEF RowSound, Key
    <3>2. OnItsWay(r)
      BY <1>1, <3>1 DEF IInv, RunSound, Begun
    <3>3. {f \in File : digest[r][f] # Unread} = request[r].scope
      BY <1>1, <1>2, <3>2, TextAssumption DEF OnItsWay, Digested, IInv, TypeOK
    <3> QED
      BY <1>1, <1>2, <3>2, <3>3 DEF OnItsWay
  <2> QED
    BY <1>4, <2>1, <2>2 DEF Put
<1> QED
  BY <1>3, <1>4

LEMMA EscapesKeeps ==
    ASSUME IInv, NEW r \in Run, Escapes(r)
    PROVE  RunSound(r)'
<1>1. pc'[r] = "escaped"
  BY DEF IInv, TypeOK, Escapes
<1> QED
  BY <1>1 DEF RunSound, Begun, OnItsWay

\* Who is at work on the file has its context called mixed from now on.
LEMMA EditKeeps ==
    ASSUME IInv, NEW f \in File, NEW c \in Text, Edit(f, c), NEW s \in Run
    PROVE  RunSound(s)'
<1>1. /\ UNCHANGED <<request, parser, pc, todo, digest, context>>
      /\ \A g \in File : g # f => sources'[g] = sources[g]
      /\ mixed'[s] = (mixed[s] \/ (pc[s] \in Working /\ f \in request[s].scope))
  BY DEF IInv, TypeOK, Edit, call
<1>2. Begun(s)'
  BY <1>1 DEF IInv, RunSound, Begun, Working
<1>3. SUFFICES ASSUME request[s].caching, ~mixed'[s] PROVE OnItsWay(s)'
  BY <1>1, <1>2 DEF RunSound
<1>4. OnItsWay(s) /\ (pc[s] \in Working => f \notin request[s].scope)
  BY <1>1, <1>3 DEF IInv, RunSound
<1>5. Come(s)' = Come(s) /\ Come(s) \subseteq request[s].scope
  BY <1>1 DEF Come
<1>6. /\ TableSoFar(s)' = TableSoFar(s)
      /\ LinksSoFar(s)' = LinksSoFar(s)
      /\ SlicesSoFar(s)' = SlicesSoFar(s)
  BY <1>1, <1>5 DEF TableSoFar, LinksSoFar, SlicesSoFar
<1>7. pc[s] = "digests" /\ Digested(s, Come(s)) => Digested(s, Come(s))'
  BY <1>1, <1>4, <1>5 DEF Digested, Working
<1>8. pc[s] \in {"symbols", "links", "slices", "put"} /\ Digested(s, request[s].scope)
         => Digested(s, request[s].scope)'
  BY <1>1, <1>4 DEF Digested, Working
<1> QED
  BY <1>1, <1>4, <1>6, <1>7, <1>8 DEF OnItsWay

-------------------------------------------------------------------------------
(* The invariant is inductive.                                               *)

LEMMA InitInv == Init => IInv
<1> SUFFICES ASSUME Init PROVE IInv
  OBVIOUS
<1>1. TypeOK
  BY InitTypes
<1>2. ASSUME NEW r \in Run PROVE RunSound(r)
  BY DEF Init, RunSound, Begun, OnItsWay
<1> QED
  BY <1>1, <1>2 DEF Init, IInv

LEMMA RowsKept ==
    ASSUME IInv, rows' = rows
    PROVE  \A row \in rows' : RowSound(row)
  BY DEF IInv

\* A step of run r alone that writes no row.
LEMMA StepOfOne ==
    ASSUME IInv, TypeOK', NEW r \in Run, RunSound(r)',
           UNCHANGED <<sources, rows, request, parser>>,
           \A s \in Run \ {r} : /\ pc'[s] = pc[s] /\ todo'[s] = todo[s]
                               /\ digest'[s] = digest[s] /\ context'[s] = context[s]
                               /\ mixed'[s] = mixed[s]
    PROVE  IInv'
<1>1. ASSUME NEW s \in Run PROVE RunSound(s)'
  <2>1. CASE s = r
    BY <2>1
  <2>2. CASE s # r
    BY <2>2, OthersKeep DEF IInv
  <2> QED
    BY <2>1, <2>2
<1>2. \A row \in rows' : RowSound(row)'
  BY DEF IInv, RowSound
<1> QED
  BY <1>1, <1>2 DEF IInv

LEMMA NextInv ==
    ASSUME IInv, [Next]_vars
    PROVE  IInv'
<1>1. TypeOK'
  BY NextTypes DEF IInv
<1>2. ASSUME NEW r \in Run, Starts(r) PROVE IInv'
  BY <1>1, <1>2, StartsKeeps, StepOfOne DEF Starts, Enter, cache, call, IInv, TypeOK
<1>3. ASSUME NEW r \in Run, Hit(r) PROVE IInv'
  BY <1>1, <1>3, HitKeeps, StepOfOne DEF Hit, cache, call, IInv, TypeOK
<1>4. ASSUME NEW r \in Run, Miss(r) PROVE IInv'
  BY <1>1, <1>4, MissKeeps, StepOfOne DEF Miss, Enter, cache, call, IInv, TypeOK
<1>5. ASSUME NEW r \in Run, LoopEnds(r) PROVE IInv'
  BY <1>1, <1>5, LoopEndsKeeps, StepOfOne DEF LoopEnds, Enter, cache, call, IInv, TypeOK
<1>6. ASSUME NEW r \in Run, Escapes(r) PROVE IInv'
  BY <1>1, <1>6, EscapesKeeps, StepOfOne DEF Escapes, cache, call, IInv, TypeOK
<1>7. ASSUME NEW r \in Run, NEW f \in File, Digest(r, f) PROVE IInv'
  BY <1>1, <1>7, DigestKeeps, StepOfOne DEF Digest, Visited, cache, call, IInv, TypeOK
<1>8. ASSUME NEW r \in Run, NEW f \in File, Index(r, f) \/ Link(r, f) \/ Slice(r, f)
      PROVE  IInv'
  <2>1. /\ UNCHANGED <<sources, rows, request, parser, pc, digest, mixed>>
        /\ todo' = [todo EXCEPT ![r] = @ \ {f}]
        /\ \A s \in Run \ {r} : context'[s] = context[s]
    BY <1>8 DEF Index, Link, Slice, Visited, cache, call, IInv, TypeOK
  <2> QED
    BY <1>1, <1>8, <2>1, LoopKeeps, StepOfOne DEF IInv, TypeOK
<1>9. ASSUME NEW r \in Run, Put(r) PROVE IInv'
  <2>1. ASSUME NEW s \in Run PROVE RunSound(s)'
    <3>1. CASE s = r
      BY <1>9, <3>1, PutKeeps
    <3>2. CASE s # r
      BY <1>9, <3>2, OthersKeep DEF Put, call, IInv, TypeOK
    <3> QED
      BY <3>1, <3>2
  <2>2. \A row \in rows' : RowSound(row)'
    BY <1>9, PutKeeps DEF RowSound
  <2> QED
    BY <1>1, <2>1, <2>2 DEF IInv
<1>10. ASSUME NEW f \in File, NEW c \in Text, Edit(f, c) PROVE IInv'
  <2>1. \A row \in rows' : RowSound(row)'
    BY <1>10 DEF Edit, IInv, RowSound
  <2> QED
    BY <1>1, <1>10, <2>1, EditKeeps DEF IInv
<1>11. ASSUME UNCHANGED vars PROVE IInv'
  <2>1. \A s \in Run : RunSound(s)'
    BY <1>11, OthersKeep DEF vars, cache, call, IInv
  <2> QED
    BY <1>1, <1>11, <2>1 DEF vars, cache, IInv, RowSound
<1> QED
  BY <1>2, <1>3, <1>4, <1>5, <1>6, <1>7, <1>8, <1>9, <1>10, <1>11 DEF Next

LEMMA Inductive == Spec => []IInv
  BY InitInv, NextInv, PTL DEF Spec

-------------------------------------------------------------------------------
(* The properties.                                                           *)

\* compute_key, get and put of optimizer_cache.py: a context from the cache is an analysis
\* of the files the run has.
THEOREM ContextOfItsSourcesTheorem == Spec => []ContextOfItsSources
<1>1. IInv => ContextOfItsSources
  BY DEF IInv, RunSound, OnItsWay, ContextOfItsSources
<1> QED
  BY <1>1, Inductive, PTL

-------------------------------------------------------------------------------
(* Links.                                                                    *)

\* The links of a context are resolved in its own table, which is of files.
Resolved(c) ==
    /\ c = [table |-> c.table, links |-> c.links, slices |-> c.slices]
    /\ \A s \in c.table : s.file \in File
    /\ \A l \in c.links : l.target = Resolve(l.module, l.sought, c.table)

\* There is none before the table is whole.
LinksInv ==
    /\ \A r \in Run : /\ Resolved(context[r])
                      /\ pc[r] \in {"ready", "digests", "symbols"} => context[r].links = {}
    /\ \A row \in rows : Resolved(row.context)

LEMMA InitLinks == Init => LinksInv
  BY DEF Init, LinksInv, Resolved, NoContext

\* What a loop adds to a context.
LEMMA Added ==
    ASSUME NEW c, Resolved(c), NEW x
    PROVE  /\ [c EXCEPT !.table = x] = [table |-> x, links |-> c.links, slices |-> c.slices]
           /\ [c EXCEPT !.links = x] = [table |-> c.table, links |-> x, slices |-> c.slices]
           /\ [c EXCEPT !.slices = x] = [table |-> c.table, links |-> c.links, slices |-> x]
  BY DEF Resolved

LEMMA LoopLinks ==
    ASSUME TypeOK, LinksInv, NEW r \in Run, NEW f \in File, Index(r, f) \/ Link(r, f) \/ Slice(r, f)
    PROVE  LinksInv'
<1>1. /\ pc' = pc /\ rows' = rows /\ DOMAIN context = Run
      /\ \A s \in Run \ {r} : context'[s] = context[s]
  BY DEF TypeOK, Index, Link, Slice, cache
<1> DEFINE c == context[r]
<1>2. Resolved(c)
  BY DEF LinksInv
<1>3. SUFFICES Resolved(context'[r]) /\ (pc[r] = "symbols" => context'[r].links = {})
  BY <1>1 DEF LinksInv, Index, Link, Slice
<1>4. CASE Index(r, f)
  <2> DEFINE part == Symbols(f, sources[f], parser[r])
  <2>1. /\ context'[r] = [c EXCEPT !.table = c.table \cup part]
        /\ c.links = {}
    BY <1>1, <1>4 DEF Index, LinksInv
  <2>2. \A s \in part : s.file = f
    BY DEF Symbols
  <2> HIDE DEF part, c
  <2>3. context'[r] = [table |-> c.table \cup part, links |-> c.links, slices |-> c.slices]
    BY <1>2, <2>1, Added
  <2> QED
    BY <1>2, <2>1, <2>2, <2>3 DEF Resolved
<1>5. CASE Link(r, f)
  <2> DEFINE part == Links(f, sources[f], parser[r], c.table)
  <2>1. context'[r] = [c EXCEPT !.links = c.links \cup part] /\ pc[r] = "links"
    BY <1>1, <1>5 DEF Link
  <2>2. \A l \in part : l.target = Resolve(l.module, l.sought, c.table)
    BY DEF Links
  <2> HIDE DEF part, c
  <2>3. context'[r] = [table |-> c.table, links |-> c.links \cup part, slices |-> c.slices]
    BY <1>2, <2>1, Added
  <2> QED
    BY <1>2, <2>1, <2>2, <2>3 DEF Resolved
<1>6. CASE Slice(r, f)
  <2> DEFINE part == Slices(f, sources[f], parser[r], c.table, c.links)
  <2>1. context'[r] = [c EXCEPT !.slices = c.slices \cup part] /\ pc[r] = "slices"
    BY <1>1, <1>6 DEF Slice
  <2> HIDE DEF part, c
  <2>2. context'[r] = [table |-> c.table, links |-> c.links, slices |-> c.slices \cup part]
    BY <1>2, <2>1, Added
  <2> QED
    BY <1>2, <2>1, <2>2 DEF Resolved
<1> QED
  BY <1>4, <1>5, <1>6

LEMMA NextLinks ==
    ASSUME TypeOK, LinksInv, [Next]_vars
    PROVE  LinksInv'
<1>1. ASSUME NEW r \in Run, Starts(r) \/ Miss(r) \/ LoopEnds(r) \/ Escapes(r) PROVE LinksInv'
  <2>1. /\ UNCHANGED <<rows, context>>
        /\ \A s \in Run : pc'[s] = pc[s] \/ (s = r /\ pc'[s] \notin {"ready", "digests", "symbols"})
                                         \/ (s = r /\ pc[s] \in {"ready", "digests"})
    BY <1>1 DEF TypeOK, Starts, Miss, LoopEnds, Escapes, Enter, cache
  <2> QED
    BY <2>1 DEF LinksInv
<1>2. ASSUME NEW r \in Run, Hit(r) PROVE LinksInv'
  <2>1. PICK row \in rows : context' = [context EXCEPT ![r] = row.context]
    BY <1>2 DEF Hit
  <2>2. rows' = rows /\ pc' = [pc EXCEPT ![r] = "optimized"]
    BY <1>2 DEF Hit, cache
  <2> QED
    BY <2>1, <2>2 DEF TypeOK, LinksInv
<1>3. ASSUME NEW r \in Run, Put(r) PROVE LinksInv'
  BY <1>3 DEF TypeOK, Put, LinksInv
<1>4. ASSUME NEW r \in Run, NEW f \in File, Digest(r, f) PROVE LinksInv'
  BY <1>4 DEF Digest, cache, LinksInv
<1>5. ASSUME NEW r \in Run, NEW f \in File, Index(r, f) \/ Link(r, f) \/ Slice(r, f)
      PROVE  LinksInv'
  BY <1>5, LoopLinks
<1>6. ASSUME NEW f \in File, NEW c \in Text, Edit(f, c) PROVE LinksInv'
  BY <1>6 DEF Edit, LinksInv
<1>7. ASSUME UNCHANGED vars PROVE LinksInv'
  BY <1>7 DEF vars, cache, LinksInv
<1> QED
  BY <1>1, <1>2, <1>3, <1>4, <1>5, <1>6, <1>7 DEF Next

LEMMA LinksResolved == Spec => []LinksInv
<1>1. TypeOK /\ LinksInv /\ [Next]_vars => LinksInv'
  BY NextLinks
<1> QED
  BY <1>1, InitLinks, TypeCorrect, PTL DEF Spec

\* The first of a set of files.
LEMMA MinIs ==
    ASSUME NEW S \in SUBSET File, S # {}
    PROVE  Min(S) \in S /\ \A g \in S : Min(S) <= g
  BY FileAssumption DEF Min

\* Linker.build and _resolve: a link leads to its module's file wherever the context's
\* table has the name there, and that file's path ends like the module.
THEOREM LinksLeadHomeTheorem == Spec => []LinksLeadHome
<1>1. ASSUME LinksInv, NEW r \in Run, NEW l \in context[r].links
      PROVE  LET table == context[r].table
                 home  == Home[l.module]
             IN  /\ l.target # None => Lists(table, l.target, l.sought)
                 /\ l.target = None => \A f \in File : ~Lists(table, f, l.sought)
                 /\ /\ home \in Ends[l.module] /\ Lists(table, home, l.sought)
                    /\ \A f \in Ends[l.module] : f < home => ~Lists(table, f, l.sought)
                    => l.target = home
  <2> DEFINE table == context[r].table
             home == Home[l.module]
             having == {s.file : s \in {t \in table : t.name = l.sought}}
             fitting == having \cap Ends[l.module]
  <2>1. /\ l.target = Resolve(l.module, l.sought, table)
        /\ \A s \in table : s.file \in File
    BY <1>1 DEF LinksInv, Resolved
  <2>2. having \in SUBSET File /\ fitting \in SUBSET File
    BY <2>1
  <2>3. \A f : Lists(table, f, l.sought) <=> f \in having
    BY DEF Lists
  <2>4. l.target = IF having = {} THEN None ELSE IF fitting # {} THEN Min(fitting) ELSE Min(having)
    BY <2>1 DEF Resolve
  <2> HIDE DEF having
  <2>5. CASE having = {}
    BY <2>3, <2>4, <2>5
  <2>6. CASE having # {} /\ fitting = {}
    <3>1. Min(having) \in having
      BY <2>2, <2>6, MinIs
    <3> QED
      BY <2>2, <2>3, <2>4, <2>6, <3>1, FileAssumption
  <2>7. CASE fitting # {}
    <3>1. Min(fitting) \in fitting /\ \A g \in fitting : Min(fitting) <= g
      BY <2>2, <2>7, MinIs
    <3>2. having # {} /\ l.target = Min(fitting) /\ Min(fitting) \in having \cap File
      BY <2>2, <2>4, <2>7, <3>1
    <3>3. ASSUME home \in fitting, \A f \in Ends[l.module] : f < home => f \notin having
          PROVE  Min(fitting) = home
      <4>1. Min(fitting) <= home /\ ~(Min(fitting) < home) /\ Min(fitting) \in Nat /\ home \in Nat
        BY <2>2, <3>1, <3>3, FileAssumption
      <4> QED
        BY <4>1
    <3> QED
      BY <2>3, <3>2, <3>3, FileAssumption
  <2> QED
    BY <2>5, <2>6, <2>7
<1>2. LinksInv => LinksLeadHome
  BY <1>1 DEF LinksLeadHome
<1> QED
  BY <1>2, LinksResolved, PTL
===============================================================================
