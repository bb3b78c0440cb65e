------------------------------ MODULE RunKitProofs ------------------------------
(*****************************************************************************)
(* The properties of RunKit for any configurations, tickets, processes and   *)
(* bounds: what a kit, a queue and a compiler repository hold after commands *)
(* of which any may have died, whose work is lost, and what the process log  *)
(* explains.                                                                 *)
(*****************************************************************************)
EXTENDS RunKit, SequenceTheorems, TLAPS

Groups == Seq(SUBSET KitFile)

\* The files that are still to come.
Pending(s) == {f \in KitFile : \E i \in 1..Len(s) : f \in s[i]}

\* No file is to come twice.
Once(s) == \A i, j \in 1..Len(s) : i # j => s[i] \cap s[j] = {}

\* A copy that is to fail: what it is told to copy is not there.
Doomed(s) == \E i \in 1..Len(s) : s[i] = {}

Carried == LoweringPass \cup Packages \cup CarQueue   \* what bootstrap removes first

-------------------------------------------------------------------------------
(* The inductive invariant.                                                  *)

\* What the command is where the scripts are, and what it has done before.
Commands ==
    /\ pc \in {"answer", "fill", "drafted"} => command = "draft"
    /\ pc = "wipe" => command \in {"draft", "materialize", "materialize --force"}
    /\ pc \in {"clear target", "copy"} <=> command \in {"bootstrap", "bootstrap --force", "install"}
    /\ command = "draft" /\ pc \notin {"answer", "fill"} => drafted
    /\ command = "materialize" /\ pc = "wipe" => research = "absent"
    /\ pc = "research" => ~Researching

\* What a tool that renders has loaded, and what it is about to remove or write.
Loaded ==
    /\ pc \in {"fill", "lowering", "clear packages", "packages", "clear queue", "queue"}
          => held \in Config
    /\ left \in Groups /\ (pc = "ready" => left = <<>>)
    /\ pc \in {"wipe", "lowering"} => Pending(left) \subseteq LoweringPass
    /\ pc = "clear packages" => Pending(left) \subseteq Packages
    /\ pc = "packages" => Pending(left) \subseteq Packages \cup Scripts
    /\ pc \in {"clear queue", "queue"} => Pending(left) \subseteq CompilerQueue
    /\ pc \in {"lowering", "packages", "queue"} => Pending(left) \subseteq FilesOf(held)

\* What is to be removed is all that there is, what is written is of one
\* configuration.
OneConfig ==
    /\ QueueOfOneConfig
    /\ pc = "clear packages" => Present(kit, Packages) \subseteq Pending(left) \cup stray
    /\ pc = "clear queue" => Present(kit, CompilerQueue) \subseteq Pending(left) \cup stray
    /\ pc = "queue" => \A f \in Present(kit, CompilerQueue) \ stray : kit[f] = held
    /\ pc = "clear target" =>
          Present(target, IF command = "install" THEN CarQueue ELSE Carried) \subseteq Pending(left)
    /\ pc = "copy" => \A f \in Present(target, CarQueue) : target[f] = kit[f]

\* The parts of the kit that are made, and the part that is being made.
Made(part) == \A f \in part : AsRendered(f)
MadeUpTo(part) == \A f \in part : f \in Pending(left) \/ AsRendered(f)

Progress ==
    /\ KitRendersConfig
    /\ pc \in {"fill", "wipe", "research", "lower", "lowering", "clear packages", "packages",
              "clear queue", "queue"} => whole # "yes"
    /\ whole = "making" =>
          /\ pc \in {"lowering", "clear packages", "packages", "clear queue", "queue"} => held = config
          /\ pc = "lowering" => MadeUpTo(LoweringPass)
          /\ pc \in {"clear packages", "packages", "clear queue", "queue"} => Made(LoweringPass)
          /\ pc = "packages" => MadeUpTo(Packages \cup Scripts)
          /\ pc \in {"clear queue", "queue"} => Made(Packages \cup Scripts)
          /\ pc = "queue" => MadeUpTo(CompilerQueue)

\* A repository that was empty gets no ticket twice; what is not copied yet is
\* still to come.
Copying ==
    /\ pc = "clear target" /\ command # "install" => kit["init-compiler.sh"] # None
    /\ pc = "clear target" /\ command = "bootstrap" => left = <<>>
    /\ pc = "copy" =>
          /\ Once(left) /\ \A f \in Pending(left) : kit[f] # None
          /\ command = "bootstrap" => \A f \in Pending(left) \cap Tickets : target[f] = None
          /\ command # "install" =>
                Doomed(left) \/ \A f \in Carried \cup Scripts :
                                   f \in Pending(left) \/ target[f] = kit[f]

\* What an analysis is about to write is explained already, below the first
\* version that a prefix replacement leads to.
Below(version) == version < 20 => 1..version - 1 \subseteq log

Explained ==
    /\ ~Researching => \A a \in Analysis : meta[a].at = "idle"
    /\ Below(program)
    /\ \A a \in Analysis :
          /\ meta[a].at # "idle" => meta[a].version >= 1 /\ Below(meta[a].version)
          /\ meta[a].at \in {"read", "open", "write"} => meta[a].version \in log
          /\ meta[a].at \in {"open", "write"} => Below(meta[a].text)

IInv == RunKitTypeOK /\ Commands /\ Loaded /\ OneConfig /\ Progress /\ Copying /\ Explained

-------------------------------------------------------------------------------
(* What is still to come.                                                    *)

LEMMA NothingPending == <<>> \in Groups /\ Pending(<<>>) = {} /\ Once(<<>>)
  BY DEF Groups, Pending, Once

LEMMA Prefixed ==
    ASSUME NEW S, NEW s \in Seq(S), NEW t \in Seq(S), Len(s) = 1
    PROVE  /\ s \o t \in Seq(S) /\ Len(s \o t) = 1 + Len(t) /\ (s \o t)[1] = s[1]
           /\ \A i \in 1..Len(t) : (s \o t)[1 + i] = t[i]
  <1>1. /\ s \o t \in Seq(S) /\ Len(s \o t) = Len(s) + Len(t)
        /\ \A i \in 1..Len(s) + Len(t) : (s \o t)[i] = IF i <= Len(s) THEN s[i] ELSE t[i - Len(s)]
    BY ConcatProperties
  <1>2. Len(t) \in Nat
    BY LenProperties
  <1> QED BY <1>1, <1>2

\* One file is taken, the others stay.
LEMMA TakeEffect ==
    ASSUME left \in Groups, NEW f, Take(f)
    PROVE  /\ left' \in Groups
           /\ f \in Pending(left)
           /\ Pending(left') \subseteq Pending(left)
           /\ Pending(left) \ {f} \subseteq Pending(left')
           /\ Once(left) => Once(left') /\ f \notin Pending(left')
           /\ Doomed(left) => Doomed(left')
  <1> DEFINE n == Len(left)
  <1>1. /\ left # <<>> /\ f \in Head(left) /\ n \in Nat \ {0}
        /\ Head(left) = left[1] /\ \A i \in 1..n : left[i] \subseteq KitFile
        /\ Tail(left) \in Groups /\ Len(Tail(left)) = n - 1
        /\ \A i \in 1..n-1 : Tail(left)[i] = left[i+1]
    BY HeadTailProperties, LenProperties, EmptySeq DEF Take, Groups
  <1>2. CASE Head(left) = {f}
    <2>1. left' = Tail(left)
      BY <1>2 DEF Take
    <2>2. f \in Pending(left) /\ Pending(left') \subseteq Pending(left)
      BY <1>1, <2>1 DEF Pending
    <2>3. ASSUME NEW g \in Pending(left) \ {f} PROVE g \in Pending(left')
      <3>1. PICK i \in 1..n : g \in left[i]
        BY DEF Pending
      <3>2. i # 1
        BY <3>1, <1>1, <1>2
      <3> QED BY <3>1, <3>2, <1>1, <2>1, i - 1 \in 1..n-1, Tail(left)[i - 1] = left[i] DEF Pending
    <2>4. ASSUME Once(left) PROVE Once(left') /\ f \notin Pending(left')
      BY <1>1, <1>2, <2>1, <2>4 DEF Once, Pending
    <2>5. ASSUME Doomed(left) PROVE Doomed(left')
      <3>1. PICK i \in 1..n : left[i] = {}
        BY <2>5 DEF Doomed
      <3>2. i # 1
        BY <3>1, <1>1
      <3> QED BY <3>1, <3>2, <1>1, <2>1, i - 1 \in 1..n-1, Tail(left)[i - 1] = left[i] DEF Doomed
    <2> QED BY <1>1, <2>1, <2>2, <2>3, <2>4, <2>5
  <1>3. CASE Head(left) # {f}
    <2> DEFINE rest == <<Head(left) \ {f}>>
    <2>1. left' = rest \o Tail(left)
      BY <1>3 DEF Take
    <2>2. rest \in Groups /\ Len(rest) = 1 /\ rest[1] = left[1] \ {f}
      BY <1>1 DEF Groups
    <2>3. /\ left' \in Groups /\ Len(left') = n
          /\ left'[1] = left[1] \ {f}
          /\ \A i \in 2..n : left'[i] = left[i]
      <3> HIDE DEF rest
      <3>1. /\ left' \in Groups /\ Len(left') = 1 + Len(Tail(left)) /\ left'[1] = rest[1]
            /\ \A i \in 1..Len(Tail(left)) : left'[1 + i] = Tail(left)[i]
        BY <1>1, <2>1, <2>2, Prefixed DEF Groups
      <3>2. \A i \in 2..n : left'[i] = left[i]
        <4> TAKE i \in 2..n
        <4>1. i - 1 \in 1..n-1 /\ 1 + (i - 1) = i
          BY <1>1
        <4> QED BY <1>1, <3>1, <4>1
      <3> QED BY <1>1, <2>2, <3>1, <3>2
    <2>4. f \in Pending(left) /\ Pending(left') \subseteq Pending(left)
      BY <1>1, <2>3 DEF Pending
    <2>5. ASSUME NEW g \in Pending(left) \ {f} PROVE g \in Pending(left')
      BY <1>1, <2>3 DEF Pending
    <2>6. ASSUME Once(left) PROVE Once(left') /\ f \notin Pending(left')
      BY <1>1, <2>3, <2>6 DEF Once, Pending
    <2>7. ASSUME Doomed(left) PROVE Doomed(left')
      BY <1>1, <2>3, <2>7 DEF Doomed
    <2> QED BY <2>3, <2>4, <2>5, <2>6, <2>7
  <1> QED BY <1>2, <1>3

LEMMA ExistingEffect ==
    ASSUME NEW tree, NEW g, g \subseteq KitFile
    PROVE  /\ Existing(tree, g) \in Groups
           /\ Pending(Existing(tree, g)) = Present(tree, g)
           /\ Once(Existing(tree, g))
           /\ Present(tree, g) = {} => Existing(tree, g) = <<>>
  <1> DEFINE P == Present(tree, g)
  <1>1. P \in SUBSET KitFile
    BY DEF Present
  <1>2. CASE P = {}
    <2>1. Existing(tree, g) = <<>>
      BY <1>2 DEF Existing
    <2> QED BY <1>2, <2>1, NothingPending
  <1>3. CASE P # {}
    <2> HIDE DEF P
    <2>1. <<P>> \in Groups /\ Len(<<P>>) = 1 /\ <<P>>[1] = P
      BY <1>1 DEF Groups
    <2>2. Existing(tree, g) = <<P>>
      BY <1>3 DEF Existing, P
    <2> QED BY <1>1, <1>3, <2>1, <2>2 DEF Pending, Once, P
  <1> QED BY <1>2, <1>3

LEMMA ConcatPending ==
    ASSUME NEW s \in Groups, NEW t \in Groups
    PROVE  s \o t \in Groups /\ Pending(s \o t) = Pending(s) \cup Pending(t)
  <1>1. /\ s \o t \in Groups /\ Len(s) \in Nat /\ Len(t) \in Nat
        /\ Len(s \o t) = Len(s) + Len(t)
        /\ \A i \in 1..Len(s) + Len(t) : (s \o t)[i] = IF i <= Len(s) THEN s[i] ELSE t[i - Len(s)]
    BY ConcatProperties, LenProperties DEF Groups
  <1>2. ASSUME NEW f \in Pending(s \o t) PROVE f \in Pending(s) \cup Pending(t)
    BY <1>1 DEF Pending
  <1>3. ASSUME NEW f \in Pending(s) PROVE f \in Pending(s \o t)
    BY <1>1 DEF Pending
  <1>4. ASSUME NEW f \in Pending(t) PROVE f \in Pending(s \o t)
    <2>1. PICK i \in 1..Len(t) : f \in t[i]
      BY DEF Pending
    <2>2. (s \o t)[i + Len(s)] = t[i] /\ i + Len(s) \in 1..Len(s \o t)
      BY <1>1
    <2> QED BY <2>1, <2>2 DEF Pending
  <1> QED BY <1>1, <1>2, <1>3, <1>4

LEMMA SinglyPending ==
    ASSUME NEW s \in Seq(KitFile)
    PROVE  Singly(s) \in Groups /\ Pending(Singly(s)) = {s[i] : i \in 1..Len(s)}
  <1>1. Len(s) \in Nat /\ DOMAIN s = 1..Len(s) /\ \A i \in 1..Len(s) : s[i] \in KitFile
    BY LenProperties
  <1>2. Singly(s) \in Groups /\ Len(Singly(s)) = Len(s) /\ \A i \in 1..Len(s) : Singly(s)[i] = {s[i]}
    BY <1>1 DEF Singly, Groups
  <1> QED BY <1>1, <1>2 DEF Pending

-------------------------------------------------------------------------------
(* Names.                                                                    *)

LEMMA Names ==
    /\ KitFile = LoweringPass \cup Packages \cup Scripts \cup CompilerQueue
    /\ Tickets \subseteq CarQueue /\ CarQueue \subseteq CompilerQueue /\ Item \subseteq Packages
    /\ LoweringPass \cap Packages = {} /\ LoweringPass \cap Scripts = {}
    /\ LoweringPass \cap CompilerQueue = {} /\ Packages \cap Scripts = {}
    /\ Packages \cap CompilerQueue = {} /\ Scripts \cap CompilerQueue = {}
    /\ "init-compiler.sh" \in Scripts
  BY NameAssumption DEF KitFile, LoweringPass, Packages, Scripts, CompilerQueue, CarQueue

-------------------------------------------------------------------------------
(* Steps.  What an action leaves alone first.                                *)

\* Queues that only lose files stay of one configuration.
LEMMA QueueShrinks ==
    ASSUME QueueOfOneConfig, stray' = stray,
           \A g \in CarQueue : target'[g] \in {None, target[g]},
           \A g \in CompilerQueue : kit'[g] \in {None, kit[g]}
    PROVE  QueueOfOneConfig'
  <1>1. ASSUME NEW g \in CarQueue, NEW h \in CarQueue, target'[g] # None, target'[h] # None,
               g \notin stray, h \notin stray
        PROVE  target'[g] = target'[h]
    BY <1>1 DEF QueueOfOneConfig, Present
  <1>2. ASSUME NEW g \in CompilerQueue, NEW h \in CompilerQueue, kit'[g] # None, kit'[h] # None,
               g \notin stray, h \notin stray
        PROVE  kit'[g] = kit'[h]
    BY <1>2 DEF QueueOfOneConfig, Present
  <1> QED BY <1>1, <1>2 DEF QueueOfOneConfig, Present

\* A step that changes no tree, and begins no removal, writing or copying or goes on
\* with one, keeps what is of one configuration.
LEMMA TreesKept ==
    ASSUME OneConfig, UNCHANGED <<kit, target, stray>>,
           \/ UNCHANGED <<pc, left, held, command>>
           \/ pc' \notin {"clear packages", "clear queue", "queue", "clear target", "copy"}
    PROVE  OneConfig'
  <1>1. QueueOfOneConfig'
    BY DEF OneConfig, QueueOfOneConfig, Present
  <1> QED BY <1>1 DEF OneConfig, Present

LEMMA ExplainedKept ==
    ASSUME Explained, UNCHANGED inResearch
    PROVE  Explained'
  BY DEF Explained, Below, inResearch, Researching

\* An action of the swarm.
LEMMA AsideKeeps ==
    ASSUME IInv, Aside, research' = research \/ Researching
    PROVE  (Commands /\ Loaded /\ OneConfig /\ Progress /\ Copying)'
  <1> USE DEF IInv, Aside, trees
  <1>1. Commands'
    BY DEF Commands, Researching
  <1>2. Loaded'
    BY DEF Loaded
  <1>3. OneConfig'
    BY TreesKept
  <1>4. Progress'
    BY DEF Progress, KitRendersConfig, AsRendered, Made, MadeUpTo
  <1>5. Copying'
    BY DEF Copying
  <1> QED BY <1>1, <1>2, <1>3, <1>4, <1>5

\* Scripts and tools that end badly, or are interrupted.
LEMMA FailsKeeps ==
    ASSUME IInv, Fails
    PROVE  IInv'
  <1> USE DEF IInv, Fails, End, trees
  <1>1. RunKitTypeOK'
    BY DEF RunKitTypeOK, inResearch
  <1>2. Commands' /\ Copying'
    BY DEF Commands, Researching, Copying
  <1>3. Loaded'
    BY NothingPending DEF Loaded
  <1>4. OneConfig'
    BY TreesKept
  <1>5. Progress'
    BY DEF Progress, KitRendersConfig, AsRendered
  <1>6. Explained'
    BY ExplainedKept
  <1> QED BY <1>1, <1>2, <1>3, <1>4, <1>5, <1>6

\* Nothing that is being rendered is of the edited configuration.
LEMMA EditConfigKeeps ==
    ASSUME IInv, NEW c \in Config \cup {Torn}, EditConfig(c)
    PROVE  IInv'
  <1> USE DEF IInv, EditConfig, trees
  <1>1. RunKitTypeOK'
    BY DEF RunKitTypeOK, inResearch
  <1>2. Commands'
    BY DEF Commands, Researching, inResearch
  <1>3. Loaded'
    BY DEF Loaded
  <1>4. OneConfig'
    BY TreesKept
  <1>5. Progress'
    BY DEF Progress, KitRendersConfig, AsRendered
  <1>6. Copying'
    BY DEF Copying
  <1>7. Explained'
    BY ExplainedKept
  <1> QED BY <1>1, <1>2, <1>3, <1>4, <1>5, <1>6, <1>7

\* What a replacement gives: the text itself, the next version, or, where a longer
\* version began with the one that was read, a version of at least two digits of
\* which the first are the next one.
LEMMA ReplacedIs ==
    ASSUME NEW text \in Nat, NEW version \in Nat \ {0}
    PROVE  \/ Replaced(text, version) = text
           \/ text = version /\ Replaced(text, version) = version + 1
           \/ Replaced(text, version) \in Nat /\ Replaced(text, version) >= 20
  <1> DEFINE begins == {p \in Tens : text \div p = version}
  <1>1. CASE begins = {}
    BY <1>1 DEF Replaced
  <1>2. CASE begins # {}
    <2> DEFINE p == CHOOSE p \in begins : TRUE
    <2>1. p \in begins
      BY <1>2
    <2>2. Replaced(text, version) = (version + 1) * p + (text % p)
      BY <1>2 DEF Replaced
    <2> HIDE DEF p
    <2>3. p \in {1, 10, 100, 1000, 10000} /\ text \div p = version
      BY <2>1 DEF Tens
    <2>4. CASE p = 1
      BY <2>2, <2>3, <2>4
    <2>5. CASE p # 1
      <3>1. p \in Nat /\ p >= 10 /\ text % p \in Nat
        BY <2>3, <2>5
      <3>2. (version + 1) * p \in Nat /\ (version + 1) * p >= 20
        BY <2>3, <2>5
      <3> QED BY <2>2, <3>1, <3>2
    <2> QED BY <2>4, <2>5
  <1> QED BY <1>1, <1>2

\* An explained text, and a version that is explained and has its entry, give an
\* explained one.
LEMMA WrittenExplained ==
    ASSUME NEW text \in Nat, NEW version \in Nat \ {0},
           Below(text), Below(version), version \in log
    PROVE  Replaced(text, version) \in Nat /\ Below(Replaced(text, version))
  <1>1. CASE Replaced(text, version) = text
    BY <1>1
  <1>2. CASE Replaced(text, version) = version + 1
    BY <1>2 DEF Below
  <1>3. CASE Replaced(text, version) \in Nat /\ Replaced(text, version) >= 20
    BY <1>3 DEF Below
  <1> QED BY <1>1, <1>2, <1>3, ReplacedIs

LEMMA AnalysingKeeps ==
    ASSUME IInv, Analysing \/ AgentsReport
    PROVE  IInv'
  <1> USE DEF IInv
  <1>1. (Commands /\ Loaded /\ OneConfig /\ Progress /\ Copying)'
    BY AsideKeeps DEF Analysing, ReadVersion, AppendLog, ReadProgram, OpenProgram, WriteProgram,
       AnalysisDies, AgentsReport, Researching
  <1>2. Idle.at = "idle" /\ Idle \in [at : {"idle", "append", "read", "open", "write"},
                                      version : Nat, text : Nat]
    BY DEF Idle
  <1>3. ASSUME NEW a \in Analysis, ReadVersion(a) PROVE RunKitTypeOK' /\ Explained'
    <2> DEFINE m == [at |-> "append", text |-> 0, version |-> IF program = 0 THEN 1 ELSE program]
    <2>1. meta' = [meta EXCEPT ![a] = m] /\ UNCHANGED <<research, program, log>> /\ Researching
      BY <1>3 DEF ReadVersion, Proceeds
    <2>2. m \in [at : {"append"}, version : Nat, text : Nat] /\ m.version >= 1 /\ Below(m.version)
      BY DEF RunKitTypeOK, Explained, Below
    <2> HIDE DEF m
    <2>3. RunKitTypeOK'
      BY <1>3, <2>1, <2>2 DEF RunKitTypeOK, ReadVersion, Aside, trees
    <2> QED BY <2>1, <2>2, <2>3 DEF RunKitTypeOK, Explained, Below, Researching
  <1>4. ASSUME NEW a \in Analysis, AppendLog(a) PROVE RunKitTypeOK' /\ Explained'
    BY <1>4 DEF AppendLog, Proceeds, RunKitTypeOK, Explained, Below, Researching, Aside, trees
  <1>5. ASSUME NEW a \in Analysis, ReadProgram(a) PROVE RunKitTypeOK' /\ Explained'
    <2> DEFINE m == [meta[a] EXCEPT !.at = "open", !.text = program]
    <2>1. /\ meta' = [meta EXCEPT ![a] = m] /\ UNCHANGED <<research, program, log>> /\ Researching
          /\ meta[a].at = "read"
      BY <1>5 DEF ReadProgram, Proceeds
    <2>2. /\ m \in [at : {"open"}, version : Nat, text : Nat]
          /\ m.version = meta[a].version /\ m.text = program
      BY DEF RunKitTypeOK
    <2> HIDE DEF m
    <2>3. RunKitTypeOK'
      BY <1>5, <2>1, <2>2 DEF RunKitTypeOK, ReadProgram, Aside, trees
    <2> QED BY <2>1, <2>2, <2>3 DEF RunKitTypeOK, Explained, Below, Researching
  <1>6. ASSUME NEW a \in Analysis, OpenProgram(a) PROVE RunKitTypeOK' /\ Explained'
    BY <1>6 DEF OpenProgram, Proceeds, RunKitTypeOK, Explained, Below, Researching, Aside, trees
  <1>7. ASSUME NEW a \in Analysis, WriteProgram(a) PROVE RunKitTypeOK' /\ Explained'
    <2>1. /\ Researching /\ meta[a].at = "write" /\ program' = Replaced(meta[a].text, meta[a].version)
          /\ meta' = [meta EXCEPT ![a] = Idle] /\ UNCHANGED <<research, log>>
      BY <1>7 DEF WriteProgram, Proceeds
    <2>2. /\ meta[a].text \in Nat /\ meta[a].version \in Nat \ {0}
          /\ Below(meta[a].text) /\ Below(meta[a].version) /\ meta[a].version \in log
      BY <2>1 DEF RunKitTypeOK, Explained
    <2>3. program' \in Nat /\ Below(program')
      BY <2>1, <2>2, WrittenExplained
    <2>4. RunKitTypeOK'
      BY <1>2, <1>7, <2>1, <2>3 DEF RunKitTypeOK, WriteProgram, Aside, trees
    <2> QED BY <1>2, <2>1, <2>3, <2>4 DEF RunKitTypeOK, Explained, Below, Researching
  <1>8. ASSUME NEW a \in Analysis, AnalysisDies(a) PROVE RunKitTypeOK' /\ Explained'
    BY <1>2, <1>8 DEF AnalysisDies, RunKitTypeOK, Explained, Below, Researching, Aside, trees
  <1>9. ASSUME AgentsReport PROVE RunKitTypeOK' /\ Explained'
    BY <1>9 DEF AgentsReport, RunKitTypeOK, Explained, Below, Researching, Aside, trees
  <1> QED BY <1>1, <1>3, <1>4, <1>5, <1>6, <1>7, <1>8, <1>9 DEF Analysing

-------------------------------------------------------------------------------
(* draft-lowering.sh.                                                        *)

LEMMA DraftKeeps ==
    ASSUME IInv, Draft
    PROVE  IInv'
  <1> USE DEF IInv, Draft, Begin, trees
  <1>1. RunKitTypeOK'
    BY DEF RunKitTypeOK, inResearch
  <1>2. Commands' /\ Loaded' /\ Copying'
    BY DEF Commands, Researching, Loaded, Copying
  <1>3. OneConfig'
    BY TreesKept
  <1>4. Progress'
    BY DEF Progress, KitRendersConfig, AsRendered
  <1>5. Explained'
    BY ExplainedKept
  <1> QED BY <1>1, <1>2, <1>3, <1>4, <1>5

LEMMA AnswerKeeps ==
    ASSUME IInv, NEW c \in Config, Answer(c)
    PROVE  IInv'
  <1> USE DEF IInv, Answer, trees
  <1>1. RunKitTypeOK'
    BY DEF RunKitTypeOK, inResearch
  <1>2. Commands' /\ Loaded' /\ Copying'
    BY DEF Commands, Researching, Loaded, Copying
  <1>3. OneConfig'
    BY TreesKept
  <1>4. Progress'
    BY DEF Progress, KitRendersConfig, AsRendered
  <1>5. Explained'
    BY ExplainedKept
  <1> QED BY <1>1, <1>2, <1>3, <1>4, <1>5

LEMMA FillKeeps ==
    ASSUME IInv, Fill
    PROVE  IInv'
  <1> USE DEF IInv, Fill, trees
  <1>1. RunKitTypeOK'
    BY DEF RunKitTypeOK, inResearch, Loaded
  <1>2. Commands' /\ Loaded' /\ Copying'
    BY DEF Commands, Researching, Loaded, Copying
  <1>3. OneConfig'
    BY TreesKept
  <1>4. Progress'
    BY DEF Progress, KitRendersConfig, AsRendered
  <1>5. Explained'
    BY ExplainedKept
  <1> QED BY <1>1, <1>2, <1>3, <1>4, <1>5

\* Before materialize.sh removes anything.
LEMMA BeginMaterializeKeeps ==
    ASSUME IInv, MaterializeDraft \/ Materialize \/ MaterializeForce
    PROVE  IInv'
  <1>1. /\ pc' = "wipe" /\ command' \in {"draft", "materialize", "materialize --force"}
        /\ command' = "draft" => drafted
        /\ command' = "materialize" => research = "absent"
        /\ whole' = "making" /\ left' \in {<<>>, Existing(kit, LoweringPass)}
        /\ UNCHANGED <<config, inResearch, trees, held, drafted, exit>>
    BY DEF IInv, Commands, Loaded, trees, MaterializeDraft, Materialize, MaterializeForce, Begin
  <1> USE DEF IInv, trees
  <1>2. RunKitTypeOK'
    BY <1>1 DEF RunKitTypeOK, inResearch
  <1>3. Commands' /\ Copying'
    BY <1>1 DEF Commands, Researching, Copying, inResearch
  <1>4. Loaded'
    <2>1. Existing(kit, LoweringPass) \in Groups
          /\ Pending(Existing(kit, LoweringPass)) \subseteq LoweringPass
      BY ExistingEffect, Names DEF Present
    <2> QED BY <1>1, <2>1, NothingPending DEF Loaded
  <1>5. OneConfig' /\ Progress'
    BY <1>1 DEF OneConfig, QueueOfOneConfig, Progress, KitRendersConfig, AsRendered
  <1>6. Explained'
    BY <1>1, ExplainedKept
  <1> QED BY <1>2, <1>3, <1>4, <1>5, <1>6

-------------------------------------------------------------------------------
(* What the generators write.                                                *)

Elements(s) == {s[i] : i \in 1..Len(s)}

LEMMA ConcatElements ==
    ASSUME NEW S, NEW s \in Seq(S), NEW t \in Seq(S)
    PROVE  s \o t \in Seq(S) /\ Elements(s \o t) = Elements(s) \cup Elements(t)
  <1>1. /\ s \o t \in Seq(S) /\ Len(s \o t) = Len(s) + Len(t)
        /\ \A i \in 1..Len(s) + Len(t) : (s \o t)[i] = IF i <= Len(s) THEN s[i] ELSE t[i - Len(s)]
    BY ConcatProperties
  <1>2. Len(s) \in Nat /\ Len(t) \in Nat
    BY LenProperties
  <1>3. Elements(s \o t) \subseteq Elements(s) \cup Elements(t)
    BY <1>1, <1>2 DEF Elements
  <1>4. Elements(s) \subseteq Elements(s \o t)
    BY <1>1, <1>2 DEF Elements
  <1>5. ASSUME NEW j \in 1..Len(t) PROVE t[j] \in Elements(s \o t)
    <2>1. (s \o t)[j + Len(s)] = t[j] /\ j + Len(s) \in 1..Len(s \o t)
      BY <1>1, <1>2
    <2> QED BY <2>1 DEF Elements
  <1>6. Elements(t) \subseteq Elements(s \o t)
    BY <1>5 DEF Elements
  <1> QED BY <1>1, <1>3, <1>4, <1>6

LEMMA Parts ==
    ASSUME NEW c \in Config
    PROVE  /\ LoweringPass \cup Scripts \subseteq FilesOf(c) /\ FilesOf(c) \subseteq KitFile
           /\ FilesOf(c) \cap Packages = {"coordinator.md"} \cup Elements(Order[c])
           /\ FilesOf(c) \cap CompilerQueue =
                 {"install-into-repo.sh", "contextspace", "queue-manifest.json"}
                 \cup {Ticket[i] : i \in 1..Len(Order[c])}
  <1>1. /\ Order[c] \in Seq(Item) /\ Len(Order[c]) \in Nat /\ DOMAIN Order[c] = 1..Len(Order[c])
        /\ Len(Order[c]) <= Len(Ticket) /\ Len(Ticket) \in Nat
        /\ \A i \in 1..Len(Ticket) : Ticket[i] \in Tickets
        /\ \A i \in 1..Len(Order[c]) : Order[c][i] \in Item
    BY ConfigAssumption, NameAssumption, LenProperties, ElementOfSeq
  <1>2. ToSet(Order[c]) = Elements(Order[c]) /\ Elements(Order[c]) \subseteq Item
    BY <1>1 DEF ToSet, Elements
  <1>3. /\ TicketsOf(c) = {Ticket[i] : i \in 1..Len(Order[c])} /\ TicketsOf(c) \subseteq Tickets
    BY <1>1 DEF TicketsOf
  <1>4. FilesOf(c) = (KitFile \ (Item \cup Tickets)) \cup Elements(Order[c]) \cup TicketsOf(c)
    BY <1>2 DEF FilesOf
  <1>5. Packages = {"coordinator.md"} \cup Item /\ "coordinator.md" \notin Item \cup Tickets
    BY NameAssumption DEF Packages
  <1>6. /\ CompilerQueue = {"install-into-repo.sh", "contextspace", "queue-manifest.json"} \cup Tickets
        /\ {"install-into-repo.sh", "contextspace", "queue-manifest.json"} \cap (Item \cup Tickets) = {}
    BY NameAssumption DEF CompilerQueue, CarQueue
  <1>7. (LoweringPass \cup Scripts) \cap (Item \cup Tickets) = {} /\ Item \cap Tickets = {}
    BY NameAssumption
  <1>8. LoweringPass \cup Scripts \subseteq FilesOf(c)
    BY <1>4, <1>7, Names
  <1>9. FilesOf(c) \cap Packages = {"coordinator.md"} \cup Elements(Order[c])
    BY <1>2, <1>3, <1>4, <1>5, <1>7, Names
  <1>10. FilesOf(c) \cap CompilerQueue =
            {"install-into-repo.sh", "contextspace", "queue-manifest.json"} \cup TicketsOf(c)
    BY <1>2, <1>3, <1>4, <1>6, <1>7, Names
  <1>11. FilesOf(c) \subseteq KitFile
    BY <1>2, <1>3, <1>4, Names
  <1> QED BY <1>3, <1>8, <1>9, <1>10, <1>11

LEMMA PackagesToWrite ==
    ASSUME NEW c \in Config
    PROVE  LET s == Singly(<<"coordinator.md">> \o Order[c] \o
                           <<"session-manifest.json", "init-compiler.sh">>)
           IN  s \in Groups /\ Pending(s) = (FilesOf(c) \cap Packages) \cup Scripts
  <1> DEFINE a == <<"coordinator.md">>
             b == <<"session-manifest.json", "init-compiler.sh">>
  <1>1. Order[c] \in Seq(KitFile) /\ a \in Seq(KitFile) /\ b \in Seq(KitFile)
    <2>1. Order[c] \in Seq(Item) /\ Item \subseteq KitFile
      BY ConfigAssumption, Names
    <2> QED BY <2>1, SeqMonotonic DEF KitFile, Packages, Scripts
  <1>2. Elements(a) = {"coordinator.md"} /\ Elements(b) = Scripts
    BY DEF Elements, Scripts
  <1> HIDE DEF a, b
  <1>3. /\ a \o Order[c] \o b \in Seq(KitFile)
        /\ Elements(a \o Order[c] \o b) = {"coordinator.md"} \cup Elements(Order[c]) \cup Scripts
    <2>1. a \o Order[c] \in Seq(KitFile) /\ Elements(a \o Order[c]) = Elements(a) \cup Elements(Order[c])
      BY <1>1, ConcatElements
    <2> DEFINE u == a \o Order[c]
    <2>2. u \in Seq(KitFile) /\ Elements(u) = Elements(a) \cup Elements(Order[c])
      BY <2>1
    <2> HIDE DEF u
    <2>3. u \o b \in Seq(KitFile) /\ Elements(u \o b) = Elements(u) \cup Elements(b)
      BY <1>1, <2>2, ConcatElements
    <2> QED BY <1>2, <2>2, <2>3 DEF u
  <1>4. /\ Singly(a \o Order[c] \o b) \in Groups
        /\ Pending(Singly(a \o Order[c] \o b)) = Elements(a \o Order[c] \o b)
    BY <1>3, SinglyPending DEF Elements
  <1> QED BY <1>3, <1>4, Parts DEF a, b

LEMMA QueueToWrite ==
    ASSUME NEW c \in Config
    PROVE  LET s == Singly(<<"install-into-repo.sh", "contextspace">> \o
                           SubSeq(Ticket, 1, Len(Order[c])) \o <<"queue-manifest.json">>)
           IN  s \in Groups /\ Pending(s) = FilesOf(c) \cap CompilerQueue
  <1> DEFINE a == <<"install-into-repo.sh", "contextspace">>
             b == <<"queue-manifest.json">>
             t == SubSeq(Ticket, 1, Len(Order[c]))
  <1>1. /\ Len(Order[c]) \in Nat /\ Len(Order[c]) <= Len(Ticket) /\ Len(Ticket) \in Nat
        /\ \A i \in 1..Len(Ticket) : Ticket[i] \in Tickets
    BY ConfigAssumption, NameAssumption, LenProperties, ElementOfSeq
  <1>2. /\ t \in Seq(Tickets) /\ Len(t) = Len(Order[c])
        /\ \A i \in 1..Len(Order[c]) : t[i] = Ticket[i]
    BY <1>1, SubSeqProperties
  <1>3. a \in Seq(KitFile) /\ b \in Seq(KitFile)
    BY DEF KitFile, CompilerQueue, CarQueue
  <1>4. /\ Elements(a) = {"install-into-repo.sh", "contextspace"}
        /\ Elements(b) = {"queue-manifest.json"}
    BY DEF Elements
  <1> HIDE DEF a, b, t
  <1>5. t \in Seq(KitFile) /\ Elements(t) = {Ticket[i] : i \in 1..Len(Order[c])}
    BY <1>2, Names, SeqMonotonic DEF Elements
  <1>6. /\ a \o t \o b \in Seq(KitFile)
        /\ Elements(a \o t \o b) = Elements(a) \cup Elements(t) \cup Elements(b)
    <2>1. a \o t \in Seq(KitFile) /\ Elements(a \o t) = Elements(a) \cup Elements(t)
      BY <1>3, <1>5, ConcatElements
    <2> DEFINE u == a \o t
    <2>2. u \in Seq(KitFile) /\ Elements(u) = Elements(a) \cup Elements(t)
      BY <2>1
    <2> HIDE DEF u
    <2>3. u \o b \in Seq(KitFile) /\ Elements(u \o b) = Elements(u) \cup Elements(b)
      BY <1>3, <2>2, ConcatElements
    <2> QED BY <2>2, <2>3 DEF u
  <1>7. Singly(a \o t \o b) \in Groups /\ Pending(Singly(a \o t \o b)) = Elements(a \o t \o b)
    BY <1>6, SinglyPending DEF Elements
  <1> QED BY <1>4, <1>5, <1>6, <1>7, Parts DEF a, b, t

-------------------------------------------------------------------------------
(* materialize.sh and the tools it starts.                                   *)

\* The three steps that concern research/ only.
LEMMA WipeResearchKeeps ==
    ASSUME IInv, WipeResearch
    PROVE  IInv'
  <1> USE DEF IInv, WipeResearch, trees
  <1>1. RunKitTypeOK'
    BY DEF RunKitTypeOK, Idle
  <1>2. Commands' /\ Loaded' /\ Copying'
    BY DEF Commands, Researching, Loaded, Copying
  <1>3. OneConfig'
    BY TreesKept
  <1>4. Progress'
    BY DEF Progress, KitRendersConfig, AsRendered
  <1>5. Explained'
    BY DEF Explained, Below, Idle
  <1> QED BY <1>1, <1>2, <1>3, <1>4, <1>5

LEMMA BeginResearchKeeps ==
    ASSUME IInv, BeginResearch
    PROVE  IInv'
  <1> USE DEF IInv, BeginResearch, trees
  <1>1. RunKitTypeOK'
    BY DEF RunKitTypeOK
  <1>2. Commands' /\ Loaded' /\ Copying'
    BY DEF Commands, Researching, Loaded, Copying
  <1>3. OneConfig'
    BY TreesKept
  <1>4. Progress'
    BY DEF Progress, KitRendersConfig, AsRendered
  <1>5. Explained'
    BY DEF Explained, Below, Researching
  <1> QED BY <1>1, <1>2, <1>3, <1>4, <1>5

\* The template's version is the first.
LEMMA EndResearchKeeps ==
    ASSUME IInv, EndResearch
    PROVE  IInv'
  <1> USE DEF IInv, EndResearch, trees
  <1>1. RunKitTypeOK'
    BY DEF RunKitTypeOK
  <1>2. Commands' /\ Loaded' /\ Copying'
    BY DEF Commands, Researching, Loaded, Copying
  <1>3. OneConfig'
    BY TreesKept
  <1>4. Progress'
    BY DEF Progress, KitRendersConfig, AsRendered
  <1>5. Explained'
    <2>1. \A a \in Analysis : meta'[a].at = "idle"
      BY DEF Explained, Below, Commands
    <2>2. 1..program' - 1 = {}
      OBVIOUS
    <2> QED BY <2>1, <2>2 DEF Explained, Below
  <1> QED BY <1>1, <1>2, <1>3, <1>4, <1>5

\* A file of the kit is removed or written: what holds whichever it is.
LEMMA KitFileKeeps ==
    ASSUME IInv, NEW f, Take(f),
           pc \in {"wipe", "lowering", "clear packages", "packages", "clear queue", "queue"},
           NEW v \in Config \cup {None}, kit' = With(kit, f, v),
           UNCHANGED <<config, inResearch, target, done, stray, command, pc, held, drafted, whole, exit>>
    PROVE  /\ RunKitTypeOK' /\ Commands' /\ Loaded' /\ Copying' /\ Explained'
           /\ f \in Pending(left) /\ kit' \in Tree
           /\ \A g \in KitFile : kit'[g] = IF g = f THEN v ELSE kit[g]
  <1> USE DEF IInv
  <1>1. /\ f \in Pending(left) /\ left' \in Groups /\ Pending(left') \subseteq Pending(left)
    BY TakeEffect DEF Loaded
  <1>2. kit' \in Tree /\ \A g \in KitFile : kit'[g] = IF g = f THEN v ELSE kit[g]
    BY DEF RunKitTypeOK, Tree, With
  <1>3. RunKitTypeOK'
    BY <1>2 DEF RunKitTypeOK, inResearch
  <1>4. Commands' /\ Copying'
    BY DEF Commands, Researching, Copying, inResearch
  <1>5. Loaded'
    BY <1>1 DEF Loaded
  <1>6. Explained'
    BY ExplainedKept
  <1> QED BY <1>1, <1>2, <1>3, <1>4, <1>5, <1>6

\* Removing is writing nothing.
LEMMA WithoutIsWith ==
    ASSUME NEW tree \in Tree, NEW f \in KitFile
    PROVE  Without(tree, {f}) = With(tree, f, None)
  BY DEF Tree, Without, With

LEMMA WipeLoweringKeeps ==
    ASSUME IInv, NEW f \in KitFile, WipeLowering(f)
    PROVE  IInv'
  <1> USE DEF IInv, WipeLowering
  <1>1. kit' = With(kit, f, None)
    BY WithoutIsWith DEF RunKitTypeOK
  <1>2. /\ RunKitTypeOK' /\ Commands' /\ Loaded' /\ Copying' /\ Explained'
        /\ f \in LoweringPass /\ \A g \in KitFile : kit'[g] = IF g = f THEN None ELSE kit[g]
    BY <1>1, KitFileKeeps DEF Loaded
  <1>3. OneConfig'
    BY <1>2, Names DEF OneConfig, QueueOfOneConfig, Present
  <1>4. Progress'
    BY DEF Progress, KitRendersConfig, AsRendered
  <1> QED BY <1>2, <1>3, <1>4

LEMMA ClearKitKeeps ==
    ASSUME IInv, NEW f \in KitFile, ClearKit(f)
    PROVE  IInv'
  <1> USE DEF IInv, ClearKit
  <1>1. kit' = With(kit, f, None)
    BY WithoutIsWith DEF RunKitTypeOK
  <1>2. /\ RunKitTypeOK' /\ Commands' /\ Loaded' /\ Copying' /\ Explained'
        /\ \A g \in KitFile : kit'[g] = IF g = f THEN None ELSE kit[g]
    BY <1>1, KitFileKeeps
  <1>3. /\ f \in Pending(left) /\ Pending(left) \ {f} \subseteq Pending(left')
        /\ pc = "clear packages" => f \in Packages
        /\ pc = "clear queue" => f \in CompilerQueue
    BY TakeEffect DEF Loaded
  <1>4. OneConfig'
    <2>1. CompilerQueue \subseteq KitFile /\ Packages \subseteq KitFile /\ stray' = stray
      BY Names
    <2>2. QueueOfOneConfig'
      BY <1>2, <2>1, QueueShrinks DEF OneConfig
    <2>3. \A part \in SUBSET KitFile : Present(kit', part) = Present(kit, part) \ {f}
      BY <1>2 DEF Present
    <2> QED BY <1>3, <2>1, <2>2, <2>3 DEF OneConfig
  <1>5. Progress'
    BY <1>2, <1>3, Names DEF Progress, KitRendersConfig, AsRendered, Made
  <1> QED BY <1>2, <1>4, <1>5

LEMMA KeepKitKeeps ==
    ASSUME IInv, NEW f \in KitFile, KeepKit(f)
    PROVE  IInv'
  <1> USE DEF IInv, KeepKit
  <1>1. /\ left' \in Groups /\ Pending(left') \subseteq Pending(left)
        /\ Pending(left) \ {f} \subseteq Pending(left')
    BY TakeEffect DEF Loaded
  <1>2. RunKitTypeOK'
    BY DEF RunKitTypeOK, inResearch
  <1>3. Commands' /\ Copying'
    BY DEF Commands, Researching, Copying, inResearch
  <1>4. Loaded'
    BY <1>1 DEF Loaded
  <1>5. OneConfig'
    BY <1>1 DEF OneConfig, QueueOfOneConfig, Present
  <1>6. Progress'
    BY DEF Progress, KitRendersConfig, AsRendered, Made
  <1>7. Explained'
    BY ExplainedKept
  <1> QED BY <1>2, <1>3, <1>4, <1>5, <1>6, <1>7

\* A tool loads the configuration, the same for all of a kit unless it is edited,
\* and lists what it removes or, the first one, writes.
LEMMA LoadLoweringKeeps ==
    ASSUME IInv, LoadLowering
    PROVE  IInv'
  <1> USE DEF IInv, LoadLowering, Load, trees
  <1>1. left' \in Groups /\ Pending(left') = LoweringPass
    <2> DEFINE s == <<"CLAUDE.md", "factory.yaml">>
    <2>1. s \in Seq(KitFile) /\ {s[i] : i \in 1..Len(s)} = LoweringPass
      BY DEF KitFile, LoweringPass
    <2> HIDE DEF s
    <2>2. Singly(s) \in Groups /\ Pending(Singly(s)) = LoweringPass
      BY <2>1, SinglyPending
    <2> QED BY <2>2 DEF s
  <1>2. RunKitTypeOK'
    BY DEF RunKitTypeOK, inResearch
  <1>3. Commands' /\ Copying'
    BY DEF Commands, Researching, Copying, inResearch
  <1>4. Loaded'
    BY <1>1, Parts DEF Loaded
  <1>5. OneConfig'
    BY TreesKept
  <1>6. Progress'
    BY <1>1 DEF Progress, KitRendersConfig, AsRendered, MadeUpTo
  <1>7. Explained'
    BY ExplainedKept
  <1> QED BY <1>2, <1>3, <1>4, <1>5, <1>6, <1>7

\* Where nothing is pending, a part made so far is made.
LEMMA PartMade ==
    ASSUME NEW part, MadeUpTo(part), left = <<>>
    PROVE  Made(part)
  BY NothingPending DEF MadeUpTo, Made

LEMMA LoadPackagesKeeps ==
    ASSUME IInv, LoadPackages
    PROVE  IInv'
  <1> USE DEF IInv, LoadPackages, Load, trees
  <1>1. left' \in Groups /\ Pending(left') = Present(kit, Packages)
    BY ExistingEffect, Names
  <1>2. RunKitTypeOK'
    BY DEF RunKitTypeOK, inResearch
  <1>3. Commands' /\ Copying'
    BY DEF Commands, Researching, Copying, inResearch
  <1>4. Loaded'
    BY <1>1 DEF Loaded, Present
  <1>5. OneConfig'
    BY <1>1 DEF OneConfig, QueueOfOneConfig
  <1>6. Progress'
    BY PartMade DEF Progress, KitRendersConfig, AsRendered, Made
  <1>7. Explained'
    BY ExplainedKept
  <1> QED BY <1>2, <1>3, <1>4, <1>5, <1>6, <1>7

LEMMA LoadQueueKeeps ==
    ASSUME IInv, LoadQueue
    PROVE  IInv'
  <1> USE DEF IInv, LoadQueue, Load, trees
  <1>1. left' \in Groups /\ Pending(left') = Present(kit, CompilerQueue)
    BY ExistingEffect, Names
  <1>2. RunKitTypeOK'
    BY DEF RunKitTypeOK, inResearch
  <1>3. Commands' /\ Copying'
    BY DEF Commands, Researching, Copying, inResearch
  <1>4. Loaded'
    BY <1>1 DEF Loaded, Present
  <1>5. OneConfig'
    BY <1>1 DEF OneConfig, QueueOfOneConfig
  <1>6. Progress'
    BY PartMade DEF Progress, KitRendersConfig, AsRendered, Made
  <1>7. Explained'
    BY ExplainedKept
  <1> QED BY <1>2, <1>3, <1>4, <1>5, <1>6, <1>7

\* What is not rendered was there no more when rendering began.
LEMMA RenderPackagesKeeps ==
    ASSUME IInv, RenderPackages
    PROVE  IInv'
  <1> USE DEF IInv, RenderPackages, trees
  <1>1. /\ held \in Config /\ left' \in Groups
        /\ Pending(left') = (FilesOf(held) \cap Packages) \cup Scripts
    BY PackagesToWrite DEF Loaded
  <1>2. Scripts \subseteq FilesOf(held)
    BY <1>1, Parts
  <1>3. \A f \in Packages : kit[f] = None \/ f \in stray
    BY NothingPending DEF OneConfig, Present
  <1>4. RunKitTypeOK'
    BY DEF RunKitTypeOK, inResearch
  <1>5. Commands' /\ Copying'
    BY DEF Commands, Researching, Copying, inResearch
  <1>6. Loaded'
    BY <1>1, <1>2 DEF Loaded
  <1>7. OneConfig'
    BY TreesKept
  <1>8. Progress'
    BY <1>1, <1>3, Names DEF Progress, KitRendersConfig, AsRendered, Made, MadeUpTo, Rendered
  <1>9. Explained'
    BY ExplainedKept
  <1> QED BY <1>4, <1>5, <1>6, <1>7, <1>8, <1>9

LEMMA RenderQueueKeeps ==
    ASSUME IInv, RenderQueue
    PROVE  IInv'
  <1> USE DEF IInv, RenderQueue, trees
  <1>1. /\ held \in Config /\ left' \in Groups
        /\ Pending(left') = FilesOf(held) \cap CompilerQueue
    BY QueueToWrite DEF Loaded
  <1>2. \A f \in CompilerQueue : kit[f] = None \/ f \in stray
    BY NothingPending DEF OneConfig, Present
  <1>3. RunKitTypeOK'
    BY DEF RunKitTypeOK, inResearch
  <1>4. Commands' /\ Copying'
    BY DEF Commands, Researching, Copying, inResearch
  <1>5. Loaded'
    BY <1>1 DEF Loaded
  <1>6. OneConfig'
    BY <1>2 DEF OneConfig, QueueOfOneConfig, Present
  <1>7. Progress'
    BY <1>1, <1>2, Names DEF Progress, KitRendersConfig, AsRendered, Made, MadeUpTo, Rendered
  <1>8. Explained'
    BY ExplainedKept
  <1> QED BY <1>3, <1>4, <1>5, <1>6, <1>7, <1>8

\* A file is rendered.
LEMMA WriteKeeps ==
    ASSUME IInv, NEW f \in KitFile, WriteLowering(f) \/ WritePackage(f) \/ WriteTicket(f)
    PROVE  IInv'
  <1> USE DEF IInv
  <1>1. /\ pc \in {"lowering", "packages", "queue"} /\ Take(f) /\ kit' = With(kit, f, held)
        /\ UNCHANGED <<config, inResearch, target, done, stray, command, pc, held, drafted, whole, exit>>
    BY DEF WriteLowering, WritePackage, WriteTicket, Write
  <1>2. held \in Config
    BY <1>1 DEF Loaded
  <1>3. /\ RunKitTypeOK' /\ Commands' /\ Loaded' /\ Copying' /\ Explained'
        /\ \A g \in KitFile : kit'[g] = IF g = f THEN held ELSE kit[g]
    BY <1>1, <1>2, KitFileKeeps
  <1>4. /\ f \in Pending(left) /\ Pending(left) \ {f} \subseteq Pending(left')
        /\ f \in FilesOf(held)
        /\ pc = "lowering" => f \in LoweringPass
        /\ pc = "packages" => f \in Packages \cup Scripts
        /\ pc = "queue" => f \in CompilerQueue
    BY <1>1, TakeEffect DEF Loaded
  <1>5. OneConfig'
    <2>1. CASE pc \in {"lowering", "packages"}
      <3>1. \A g \in CompilerQueue : kit'[g] = kit[g]
        BY <1>3, <1>4, <2>1, Names
      <3>2. QueueOfOneConfig'
        BY <1>1, <3>1, QueueShrinks DEF OneConfig
      <3> QED BY <1>1, <2>1, <3>2 DEF OneConfig
    <2>2. CASE pc = "queue"
      <3>1. \A g \in CompilerQueue \ stray : kit'[g] \in {None, held}
        BY <1>1, <1>3, <2>2, Names DEF OneConfig, Present
      <3> QED BY <1>1, <2>2, <3>1 DEF OneConfig, QueueOfOneConfig, Present
    <2> QED BY <1>1, <2>1, <2>2
  <1>6. whole = "making" => /\ Rendered(config)[f] = held
                            /\ kit'[f] = Rendered(config)[f]
    BY <1>1, <1>3, <1>4 DEF Progress, Rendered
  <1>7. Progress'
    BY <1>1, <1>3, <1>4, <1>6, Names DEF Progress, KitRendersConfig, AsRendered, Made, MadeUpTo
  <1> QED BY <1>3, <1>5, <1>7

\* Where everything is made, the kit is that of the configuration.
LEMMA MaterializedKeeps ==
    ASSUME IInv, Materialized
    PROVE  IInv'
  <1> USE DEF IInv, Materialized, End, trees
  <1>1. RunKitTypeOK'
    BY DEF RunKitTypeOK, inResearch
  <1>2. Commands' /\ Copying'
    BY DEF Commands, Researching, Copying, inResearch
  <1>3. Loaded'
    BY NothingPending DEF Loaded
  <1>4. OneConfig'
    BY TreesKept
  <1>5. whole = "making" => \A f \in KitFile : AsRendered(f)
    BY PartMade, Names DEF Progress, Made
  <1>6. Progress'
    BY <1>5 DEF Progress, KitRendersConfig, AsRendered
  <1>7. Explained'
    BY ExplainedKept
  <1> QED BY <1>1, <1>2, <1>3, <1>4, <1>6, <1>7

-------------------------------------------------------------------------------
(* bootstrap-compiler-repo.sh and install-into-repo.sh.                      *)

LEMMA BootstrapKeeps ==
    ASSUME IInv, NEW force \in BOOLEAN, Bootstrap(force)
    PROVE  IInv'
  <1> USE DEF IInv, Bootstrap, Begin, trees
  <1>1. left' \in Groups /\ Pending(left') = Present(target, Carried)
    <2>1. /\ LoweringPass \subseteq KitFile /\ Packages \subseteq KitFile /\ CarQueue \subseteq KitFile
      BY Names
    <2> DEFINE a == Existing(target, LoweringPass)
               b == Existing(target, Packages)
               c == Existing(target, CarQueue)
    <2>2. /\ a \in Groups /\ b \in Groups /\ c \in Groups
          /\ Pending(a) = Present(target, LoweringPass)
          /\ Pending(b) = Present(target, Packages) /\ Pending(c) = Present(target, CarQueue)
      BY <2>1, ExistingEffect
    <2> HIDE DEF a, b, c
    <2> DEFINE d == a \o b
    <2>3. d \in Groups /\ Pending(d) = Pending(a) \cup Pending(b)
      BY <2>2, ConcatPending
    <2> HIDE DEF d
    <2>4. d \o c \in Groups /\ Pending(d \o c) = Pending(d) \cup Pending(c)
      BY <2>2, <2>3, ConcatPending
    <2>5. left' = d \o c
      BY DEF a, b, c, d
    <2> QED BY <2>2, <2>3, <2>4, <2>5 DEF Present, Carried
  <1>2. ~force => left' = <<>>
    <2> SUFFICES ASSUME ~force PROVE left' = <<>>
      OBVIOUS
    <2>1. /\ Present(target, LoweringPass) = {} /\ Present(target, Packages) = {}
          /\ Present(target, CarQueue) = {}
      BY DEF Present
    <2>2. <<>> \o <<>> = <<>>
      BY ConcatEmptySeq, EmptySeq
    <2> QED BY <2>1, <2>2 DEF Existing
  <1>3. RunKitTypeOK'
    BY DEF RunKitTypeOK, inResearch
  <1>4. Commands' /\ Copying'
    BY <1>2 DEF Commands, Researching, Copying, inResearch
  <1>5. Loaded'
    BY <1>1 DEF Loaded
  <1>6. OneConfig'
    BY <1>1 DEF OneConfig, QueueOfOneConfig, Present
  <1>7. Progress'
    BY DEF Progress, KitRendersConfig, AsRendered
  <1>8. Explained'
    BY ExplainedKept
  <1> QED BY <1>3, <1>4, <1>5, <1>6, <1>7, <1>8

LEMMA InstallKeeps ==
    ASSUME IInv, Install
    PROVE  IInv'
  <1> USE DEF IInv, Install, Begin, trees
  <1>1. left' \in Groups /\ Pending(left') = Present(target, CarQueue)
    BY ExistingEffect, Names
  <1>2. RunKitTypeOK'
    BY DEF RunKitTypeOK, inResearch
  <1>3. Commands' /\ Copying'
    BY DEF Commands, Researching, Copying, inResearch
  <1>4. Loaded'
    BY <1>1 DEF Loaded
  <1>5. OneConfig'
    <2>1. UNCHANGED <<kit, target, stray>> /\ pc' = "clear target" /\ command' = "install"
      OBVIOUS
    <2>2. QueueOfOneConfig
      BY DEF OneConfig
    <2>3. QueueOfOneConfig'
      BY <2>1, <2>2 DEF QueueOfOneConfig, Present
    <2>4. Present(target', CarQueue) \subseteq Pending(left')
      BY <1>1, <2>1
    <2> HIDE DEF IInv, Install, Begin
    <2> QED BY <2>1, <2>3, <2>4 DEF OneConfig
  <1>6. Progress'
    BY DEF Progress, KitRendersConfig, AsRendered
  <1>7. Explained'
    BY ExplainedKept
  <1> QED BY <1>2, <1>3, <1>4, <1>5, <1>6, <1>7

LEMMA ClearTargetKeeps ==
    ASSUME IInv, NEW f \in KitFile, ClearTarget(f)
    PROVE  IInv'
  <1> USE DEF IInv, ClearTarget
  <1>1. /\ f \in Pending(left) /\ left # <<>> /\ left' \in Groups
        /\ Pending(left) \ {f} \subseteq Pending(left')
    BY TakeEffect DEF Loaded, Take
  <1>2. /\ target' \in Tree
        /\ \A g \in KitFile : target'[g] = IF g = f THEN None ELSE target[g]
    BY DEF RunKitTypeOK, Tree, Without
  <1>3. RunKitTypeOK'
    BY <1>2, Names DEF RunKitTypeOK, inResearch, Present
  <1>4. Commands' /\ Copying'
    BY <1>1 DEF Commands, Researching, Copying, inResearch
  <1>5. Loaded'
    BY <1>1 DEF Loaded
  <1>6. OneConfig'
    <2>1. Carried \subseteq KitFile /\ CarQueue \subseteq KitFile
      BY Names DEF Carried
    <2>2. \A part \in SUBSET KitFile : Present(target', part) = Present(target, part) \ {f}
      BY <1>2 DEF Present
    <2>3. QueueOfOneConfig'
      BY <1>2, <2>1, QueueShrinks DEF OneConfig
    <2> QED BY <1>1, <2>1, <2>2, <2>3 DEF OneConfig
  <1>7. Progress'
    BY DEF Progress, KitRendersConfig, AsRendered
  <1>8. Explained'
    BY ExplainedKept
  <1> QED BY <1>3, <1>4, <1>5, <1>6, <1>7, <1>8

\* What cp is told to copy, once and while it is there; or a path that is not.
LEMMA WhatIsCopied ==
    ASSUME kit["init-compiler.sh"] # None \/ command = "install"
    PROVE  /\ Copies \in Groups /\ Once(Copies)
           /\ \A f \in Pending(Copies) : kit[f] # None
           /\ command # "install" =>
                 \/ Doomed(Copies)
                 \/ /\ Scripts \subseteq Pending(Copies)
                    /\ \A f \in Carried : f \in Pending(Copies) \/ kit[f] = None
  <1> DEFINE queue == Present(kit, CarQueue)
             a == Present(kit, LoweringPass)
             b == Present(kit, Packages)
             c == Present(kit, {"session-manifest.json"})
             d == {"init-compiler.sh"}
             e == Present(kit, {"queue-manifest.json"})
  <1>1. /\ Scripts = {"session-manifest.json", "init-compiler.sh"}
        /\ "session-manifest.json" # "init-compiler.sh"
        /\ "queue-manifest.json" \in CompilerQueue \ CarQueue
    BY NameAssumption DEF Scripts, CompilerQueue, CarQueue
  <1>2. /\ queue \subseteq CarQueue /\ a \subseteq LoweringPass /\ b \subseteq Packages
        /\ c \subseteq Scripts \ d /\ d \subseteq Scripts /\ e \subseteq CompilerQueue \ CarQueue
        /\ \A f \in queue \cup a \cup b \cup c \cup e : kit[f] # None
        /\ \A f \in Carried : f \in queue \cup a \cup b \/ kit[f] = None
        /\ c = {} \/ Scripts \subseteq c \cup d
    BY <1>1 DEF Present, Carried
  <1>3. /\ queue \in SUBSET KitFile /\ a \in SUBSET KitFile /\ b \in SUBSET KitFile
        /\ c \in SUBSET KitFile /\ d \in SUBSET KitFile /\ e \in SUBSET KitFile
    BY <1>2, Names
  <1>4. /\ queue \cap a = {} /\ queue \cap b = {} /\ queue \cap c = {} /\ queue \cap d = {}
        /\ queue \cap e = {} /\ a \cap b = {} /\ a \cap c = {} /\ a \cap d = {} /\ a \cap e = {}
        /\ b \cap c = {} /\ b \cap d = {} /\ b \cap e = {} /\ c \cap d = {} /\ c \cap e = {}
        /\ d \cap e = {}
    BY <1>2, Names
  <1>5. CASE command = "install"
    <2>1. Copies = <<queue>>
      BY <1>5 DEF Copies
    <2> HIDE DEF queue
    <2>2. Copies \in Groups /\ Len(Copies) = 1 /\ Copies[1] = queue
      BY <1>3, <2>1 DEF Groups
    <2> QED BY <1>2, <1>5, <2>2 DEF Once, Pending
  <1>6. CASE command # "install" /\ queue = {}
    <2>1. Copies = <<a, b, c, d>>
      <3>1. Copies = <<a, b, c, d>> \o <<>>
        BY <1>6 DEF Copies
      <3> QED BY <3>1
    <2> HIDE DEF queue, a, b, c, d, e
    <2>2. /\ Copies \in Groups /\ Len(Copies) = 4
          /\ Copies[1] = a /\ Copies[2] = b /\ Copies[3] = c /\ Copies[4] = d
      BY <1>3, <2>1 DEF Groups
    <2>3. Pending(Copies) = a \cup b \cup c \cup d
      BY <1>3, <2>2 DEF Pending
    <2>4. Once(Copies)
      BY <1>4, <2>2 DEF Once
    <2>5. Doomed(Copies) \/ c # {}
      BY <2>2 DEF Doomed
    <2> QED BY <1>2, <1>6, <2>2, <2>3, <2>4, <2>5 DEF d
  <1>7. CASE command # "install" /\ queue # {}
    <2> DEFINE u == <<a, b, c, d>>
               v == <<queue, e>>
    <2>1. Copies = u \o v
      BY <1>7 DEF Copies
    <2> HIDE DEF queue, a, b, c, d, e
    <2>2. /\ Copies \in Groups /\ Len(Copies) = 6
          /\ Copies[1] = a /\ Copies[2] = b /\ Copies[3] = c /\ Copies[4] = d
          /\ Copies[5] = queue /\ Copies[6] = e
      <3>1. /\ u \in Groups /\ Len(u) = 4 /\ v \in Groups /\ Len(v) = 2
            /\ u[1] = a /\ u[2] = b /\ u[3] = c /\ u[4] = d /\ v[1] = queue /\ v[2] = e
        BY <1>3 DEF Groups
      <3> HIDE DEF u, v
      <3>2. /\ u \o v \in Groups /\ Len(u \o v) = Len(u) + Len(v)
            /\ \A i \in 1..Len(u) + Len(v) : (u \o v)[i] = IF i <= Len(u) THEN u[i] ELSE v[i - Len(u)]
        BY <3>1, ConcatProperties DEF Groups
      <3> QED BY <2>1, <3>1, <3>2
    <2>3. Pending(Copies) = a \cup b \cup c \cup d \cup queue \cup e
      BY <1>3, <2>2 DEF Pending
    <2>4. Once(Copies)
      BY <1>4, <2>2 DEF Once
    <2>5. Doomed(Copies) \/ c # {}
      BY <2>2 DEF Doomed
    <2> QED BY <1>2, <1>7, <2>2, <2>3, <2>4, <2>5 DEF d
  <1> QED BY <1>5, <1>6, <1>7

LEMMA BeginCopiesKeeps ==
    ASSUME IInv, BeginCopies
    PROVE  IInv'
  <1> USE DEF IInv, BeginCopies, trees
  <1>1. /\ left' \in Groups /\ Once(left') /\ \A f \in Pending(left') : kit[f] # None
        /\ command # "install" =>
              \/ Doomed(left')
              \/ /\ Scripts \subseteq Pending(left')
                 /\ \A f \in Carried : f \in Pending(left') \/ kit[f] = None
    <2> HIDE DEF IInv
    <2>1. kit["init-compiler.sh"] # None \/ command = "install"
      BY DEF IInv, Copying
    <2> QED BY <2>1, WhatIsCopied
  <1>2. \A f \in IF command = "install" THEN CarQueue ELSE Carried : target[f] = None
    BY NothingPending DEF OneConfig, Present
  <1>3. \A f \in CarQueue : target[f] = None
    BY <1>2 DEF Carried
  <1>4. RunKitTypeOK'
    BY DEF RunKitTypeOK, inResearch
  <1>5. Commands'
    BY DEF Commands, Researching, inResearch
  <1>6. Loaded'
    BY <1>1 DEF Loaded
  <1>7. OneConfig'
    BY <1>3 DEF OneConfig, QueueOfOneConfig, Present
  <1>8. Progress'
    BY DEF Progress, KitRendersConfig, AsRendered
  <1>9. Copying'
    BY <1>1, <1>2, <1>3, Names DEF Copying
  <1>10. Explained'
    BY ExplainedKept
  <1> QED BY <1>4, <1>5, <1>6, <1>7, <1>8, <1>9, <1>10

LEMMA CopyKeeps ==
    ASSUME IInv, NEW f \in KitFile, Copy(f)
    PROVE  IInv'
  <1> USE DEF IInv, Copy
  <1>1. /\ f \in Pending(left) /\ left' \in Groups
        /\ Pending(left') \subseteq Pending(left)
        /\ Pending(left) \ {f} \subseteq Pending(left')
        /\ Once(left') /\ f \notin Pending(left')
        /\ Doomed(left) => Doomed(left')
    BY TakeEffect DEF Loaded, Copying
  <1>2. kit[f] \in Config
    BY <1>1 DEF Copying, RunKitTypeOK, Tree
  <1>3. /\ target' \in Tree
        /\ \A g \in KitFile : target'[g] = IF g = f THEN kit[f] ELSE target[g]
    BY <1>2 DEF RunKitTypeOK, Tree, With
  <1>4. RunKitTypeOK'
    <2>1. done' \subseteq Present(target', Tickets)
      <3>1. Tickets \subseteq KitFile /\ None \notin Config
        BY Names, ConfigAssumption
      <3> QED BY <1>2, <1>3, <3>1 DEF RunKitTypeOK, Present
    <2> QED BY <1>3, <2>1 DEF RunKitTypeOK, inResearch
  <1>5. Commands'
    BY DEF Commands, Researching, inResearch
  <1>6. Loaded'
    BY <1>1 DEF Loaded
  <1>7. OneConfig'
    <2>1. CarQueue \subseteq KitFile /\ CarQueue \subseteq CompilerQueue
      BY Names
    <2>2. \A g \in CarQueue : target'[g] # None => target'[g] = kit[g]
      BY <1>3, <2>1 DEF OneConfig, Present
    <2>3. QueueOfOneConfig'
      BY <2>1, <2>2 DEF OneConfig, QueueOfOneConfig, Present
    <2> QED BY <2>2, <2>3 DEF OneConfig, Present
  <1>8. Progress'
    BY DEF Progress, KitRendersConfig, AsRendered
  <1>9. Copying'
    <2>1. Carried \cup Scripts \subseteq KitFile /\ Tickets \subseteq KitFile
      BY Names DEF Carried
    <2> QED BY <1>1, <1>3, <2>1 DEF Copying
  <1>10. Explained'
    BY ExplainedKept
  <1> QED BY <1>4, <1>5, <1>6, <1>7, <1>8, <1>9, <1>10

LEMMA CopiedKeeps ==
    ASSUME IInv, Copied
    PROVE  IInv'
  <1> USE DEF IInv, Copied, End, trees
  <1>1. RunKitTypeOK'
    BY DEF RunKitTypeOK, inResearch
  <1>2. Commands' /\ Copying'
    BY DEF Commands, Researching, Copying, inResearch
  <1>3. Loaded'
    BY NothingPending DEF Loaded
  <1>4. OneConfig'
    BY TreesKept
  <1>5. Progress'
    BY DEF Progress, KitRendersConfig, AsRendered
  <1>6. Explained'
    BY ExplainedKept
  <1> QED BY <1>1, <1>2, <1>3, <1>4, <1>5, <1>6

LEMMA AgentFinishesKeeps ==
    ASSUME IInv, NEW t \in Tickets, AgentFinishes(t)
    PROVE  IInv'
  <1> USE DEF IInv, AgentFinishes
  <1>1. RunKitTypeOK'
    BY DEF RunKitTypeOK, inResearch, Present
  <1>2. Commands'
    BY DEF Commands, Researching, inResearch
  <1>3. Loaded'
    BY DEF Loaded
  <1>4. OneConfig'
    BY TreesKept
  <1>5. Progress'
    BY DEF Progress, KitRendersConfig, AsRendered, Made, MadeUpTo
  <1>6. Copying'
    BY DEF Copying
  <1>7. Explained'
    BY ExplainedKept
  <1> QED BY <1>1, <1>2, <1>3, <1>4, <1>5, <1>6, <1>7

-------------------------------------------------------------------------------
(* The invariant.                                                            *)

LEMMA Initial == Init => IInv
  <1> SUFFICES ASSUME Init PROVE IInv
    OBVIOUS
  <1> USE DEF Init
  <1>1. RunKitTypeOK
    BY ConfigAssumption DEF RunKitTypeOK, Tree, Idle, Present
  <1>2. Commands /\ Copying
    BY DEF Commands, Copying
  <1>3. Loaded
    BY NothingPending DEF Loaded
  <1>4. OneConfig
    <2>1. CarQueue \subseteq KitFile /\ CompilerQueue \subseteq KitFile
      BY Names
    <2> QED BY <2>1 DEF OneConfig, QueueOfOneConfig, Present
  <1>5. Progress
    BY DEF Progress, KitRendersConfig, AsRendered
  <1>6. Explained
    BY DEF Explained, Below, Idle
  <1> QED BY <1>1, <1>2, <1>3, <1>4, <1>5, <1>6 DEF IInv

LEMMA StutterKeeps ==
    ASSUME IInv, UNCHANGED vars
    PROVE  IInv'
  <1> USE DEF IInv, vars
  <1>1. RunKitTypeOK'
    BY DEF RunKitTypeOK, inResearch
  <1>2. Commands' /\ Copying'
    BY DEF Commands, Researching, Copying, inResearch
  <1>3. Loaded'
    BY DEF Loaded
  <1>4. OneConfig'
    BY TreesKept
  <1>5. Progress'
    BY DEF Progress, KitRendersConfig, AsRendered, Made, MadeUpTo
  <1>6. Explained'
    BY ExplainedKept
  <1> QED BY <1>1, <1>2, <1>3, <1>4, <1>5, <1>6

LEMMA Inductive == IInv /\ [Next]_vars => IInv'
  <1> SUFFICES ASSUME IInv, [Next]_vars PROVE IInv'
    OBVIOUS
  <1>1. CASE Drafting
    BY <1>1, DraftKeeps, AnswerKeeps, FailsKeeps, FillKeeps, BeginMaterializeKeeps
       DEF Drafting, NoAnswer
  <1>2. CASE Materializing
    BY <1>2, BeginMaterializeKeeps, WipeResearchKeeps, FailsKeeps, BeginResearchKeeps,
       EndResearchKeeps, LoadLoweringKeeps, LoadPackagesKeeps, RenderPackagesKeeps, LoadQueueKeeps,
       RenderQueueKeeps, MaterializedKeeps, WipeLoweringKeeps, ClearKitKeeps, KeepKitKeeps, WriteKeeps
       DEF Materializing, RefusesResearch, Unreadable, UnknownItem
  <1>3. CASE Installing
    BY <1>3, BootstrapKeeps, InstallKeeps, BeginCopiesKeeps, FailsKeeps, CopiedKeeps,
       ClearTargetKeeps, CopyKeeps
       DEF Installing, CopyFails
  <1>4. CASE Analysing \/ AgentsReport
    BY <1>4, AnalysingKeeps
  <1>5. CASE Crash
    BY <1>5, FailsKeeps DEF Crash
  <1>6. ASSUME NEW c \in Config \cup {Torn}, EditConfig(c) PROVE IInv'
    BY <1>6, EditConfigKeeps
  <1>7. ASSUME NEW t \in Tickets, AgentFinishes(t) PROVE IInv'
    BY <1>7, AgentFinishesKeeps
  <1>8. CASE UNCHANGED vars
    BY <1>8, StutterKeeps
  <1> QED BY <1>1, <1>2, <1>3, <1>4, <1>5, <1>6, <1>7, <1>8 DEF Next

-------------------------------------------------------------------------------
(* Theorems.                                                                 *)

LEMMA Always == Spec => []IInv
  BY Initial, Inductive, PTL DEF Spec

\* Every rendered file is of a configuration that could be read, and only
\* tickets that are there are done.
THEOREM TypeCorrect == Spec => []RunKitTypeOK
  <1>1. IInv => RunKitTypeOK
    BY DEF IInv
  <1> QED BY <1>1, Always, PTL

\* After materialize.sh has ended well the kit is that of the configuration.
THEOREM KitRendersConfigTheorem == Spec => []KitRendersConfig
  <1>1. IInv => KitRendersConfig
    BY DEF IInv, Progress
  <1> QED BY <1>1, Always, PTL

\* The tickets of a repository, and those of a kit, are of one configuration.
THEOREM QueueOfOneConfigTheorem == Spec => []QueueOfOneConfig
  <1>1. IInv => QueueOfOneConfig
    BY DEF IInv, OneConfig
  <1> QED BY <1>1, Always, PTL

\* No version of program.md is unexplained.
THEOREM VersionsExplainedTheorem == Spec => []VersionsExplained
  <1>1. IInv => VersionsExplained
    BY DEF IInv, Explained, Below, VersionsExplained
  <1> QED BY <1>1, Always, PTL

\* Only Copied ends a command of bootstrap-compiler-repo.sh well.
LEMMA BootstrapEnds ==
    ASSUME IInv, [Next]_vars, command \in {"bootstrap", "bootstrap --force"},
           command' = "none", exit' = "ok"
    PROVE  Copied
  <1>1. pc \in {"clear target", "copy"}
    BY DEF IInv, Commands
  <1>2. CASE Drafting
    BY <1>1, <1>2 DEF Drafting, Draft, Begin, Answer, NoAnswer, Fails, End, Fill, MaterializeDraft
  <1>3. CASE Materializing
    BY <1>1, <1>3 DEF Materializing, Materialize, MaterializeForce, Begin, WipeResearch, RefusesResearch,
       BeginResearch, EndResearch, LoadLowering, LoadPackages, RenderPackages, LoadQueue, RenderQueue,
       Unreadable, UnknownItem, Materialized, WipeLowering, ClearKit, KeepKit, WriteLowering, WritePackage,
       WriteTicket
  <1>4. CASE Installing
    BY <1>1, <1>4 DEF Installing, Bootstrap, Install, Begin, BeginCopies, CopyFails, Fails, End,
       ClearTarget, Copy
  <1>5. CASE Analysing \/ AgentsReport
    BY <1>5 DEF Analysing, AgentsReport, ReadVersion, AppendLog, ReadProgram, OpenProgram, WriteProgram,
       AnalysisDies, Aside
  <1>6. CASE Crash
    BY <1>6 DEF Crash, Fails, End
  <1>7. ASSUME NEW c \in Config \cup {Torn}, EditConfig(c) PROVE FALSE
    BY <1>7 DEF EditConfig
  <1>8. ASSUME NEW t \in Tickets, AgentFinishes(t) PROVE FALSE
    BY <1>8 DEF AgentFinishes
  <1>9. CASE UNCHANGED vars
    BY <1>9 DEF vars
  <1> QED BY <1>2, <1>3, <1>4, <1>5, <1>6, <1>7, <1>8, <1>9 DEF Next

\* A bootstrap that ends well leaves what the kit has.
THEOREM BootstrapCopiesKitTheorem == Spec => BootstrapCopiesKit
  <1>1. ASSUME IInv, [Next]_vars, command \in {"bootstrap", "bootstrap --force"},
               command' = "none", exit' = "ok",
               NEW f \in LoweringPass \cup Packages \cup Scripts \cup CarQueue
        PROVE  target'[f] = kit[f]
    <2>1. Copied
      BY <1>1, BootstrapEnds
    <2>2. pc = "copy" /\ left = <<>> /\ target' = target
      BY <2>1 DEF Copied, trees
    <2>3. ~Doomed(left) /\ Pending(left) = {}
      BY <2>2, NothingPending DEF Doomed
    <2> QED BY <1>1, <2>2, <2>3 DEF IInv, Copying, Carried
  <1>2. IInv /\ [Next]_vars
        => ((command \in {"bootstrap", "bootstrap --force"} /\ command' = "none" /\ exit' = "ok")
              => \A f \in LoweringPass \cup Packages \cup Scripts \cup CarQueue : target'[f] = kit[f])
    BY <1>1
  <1> QED BY <1>2, Always, PTL DEF BootstrapCopiesKit, Spec

\* Who removes a report.
LEMMA ReportRemoved ==
    ASSUME IInv, [Next]_vars, research = "report", research' # "report"
    PROVE  command = "materialize --force" \/ (command = "draft" /\ drafted)
  <1>1. pc # "research"
    BY DEF IInv, Commands, Researching
  <1>2. CASE WipeResearch
    BY <1>2 DEF WipeResearch, IInv, Commands
  <1>3. CASE Drafting
    BY <1>3 DEF Drafting, Draft, Answer, NoAnswer, Fails, Fill, MaterializeDraft, inResearch
  <1>4. CASE Materializing
    BY <1>1, <1>2, <1>4 DEF Materializing, Materialize, MaterializeForce, RefusesResearch, Fails,
       BeginResearch, EndResearch, LoadLowering, LoadPackages, RenderPackages, LoadQueue, RenderQueue,
       Unreadable, UnknownItem, Materialized, WipeLowering, ClearKit, KeepKit, WriteLowering, WritePackage,
       WriteTicket, Write, inResearch
  <1>5. CASE Installing
    BY <1>5 DEF Installing, Bootstrap, Install, BeginCopies, CopyFails, Fails, Copied,
       ClearTarget, Copy, inResearch
  <1>6. CASE Analysing \/ AgentsReport
    BY <1>6 DEF Analysing, AgentsReport, ReadVersion, AppendLog, ReadProgram, OpenProgram, WriteProgram,
       AnalysisDies
  <1>7. CASE Crash
    BY <1>7 DEF Crash, Fails, inResearch
  <1>8. ASSUME NEW c \in Config \cup {Torn}, EditConfig(c) PROVE FALSE
    BY <1>8 DEF EditConfig, inResearch
  <1>9. ASSUME NEW t \in Tickets, AgentFinishes(t) PROVE FALSE
    BY <1>9 DEF AgentFinishes, inResearch
  <1>10. CASE UNCHANGED vars
    BY <1>10 DEF vars, inResearch
  <1> QED BY <1>3, <1>4, <1>5, <1>6, <1>7, <1>8, <1>9, <1>10 DEF Next

\* Who removes the mark of a finished ticket.
LEMMA MarkRemoved ==
    ASSUME IInv, [Next]_vars, NEW t \in done, t \notin done'
    PROVE  command \in {"install", "bootstrap --force"}
  <1>1. t \in Tickets /\ target[t] # None
    BY DEF IInv, RunKitTypeOK, Present
  <1>2. CASE Drafting
    BY <1>2 DEF Drafting, Draft, Answer, NoAnswer, Fails, Fill, MaterializeDraft, trees
  <1>3. CASE Materializing
    BY <1>3 DEF Materializing, Materialize, MaterializeForce, WipeResearch, RefusesResearch, Fails,
       BeginResearch, EndResearch, LoadLowering, LoadPackages, RenderPackages, LoadQueue, RenderQueue,
       Unreadable, UnknownItem, Materialized, WipeLowering, ClearKit, KeepKit, WriteLowering, WritePackage,
       WriteTicket, Write, trees
  <1>4. ASSUME NEW f \in KitFile, ClearTarget(f)
        PROVE  command \in {"install", "bootstrap --force"}
    BY <1>4 DEF ClearTarget, Take, IInv, Commands, Copying
  <1>5. ASSUME NEW f \in KitFile, Copy(f)
        PROVE  command \in {"install", "bootstrap --force"}
    <2>1. f = t /\ f \in Pending(left)
      BY <1>5, TakeEffect DEF Copy, IInv, Loaded
    <2> QED BY <1>1, <1>5, <2>1 DEF Copy, IInv, Commands, Copying
  <1>6. CASE Installing
    BY <1>4, <1>5, <1>6 DEF Installing, Bootstrap, Install, BeginCopies, CopyFails, Fails, Copied, trees
  <1>7. CASE Analysing \/ AgentsReport
    BY <1>7 DEF Analysing, AgentsReport, ReadVersion, AppendLog, ReadProgram, OpenProgram, WriteProgram,
       AnalysisDies, Aside, trees
  <1>8. CASE Crash
    BY <1>8 DEF Crash, Fails, trees
  <1>9. ASSUME NEW c \in Config \cup {Torn}, EditConfig(c) PROVE FALSE
    BY <1>9 DEF EditConfig, trees
  <1>10. ASSUME NEW u \in Tickets, AgentFinishes(u) PROVE FALSE
    BY <1>10 DEF AgentFinishes
  <1>11. CASE UNCHANGED vars
    BY <1>11 DEF vars
  <1> QED BY <1>2, <1>3, <1>6, <1>7, <1>8, <1>9, <1>10, <1>11 DEF Next

\* Reports and marks are removed by commands that were told to overwrite them.
THEOREM WorkNotLostTheorem == Spec => WorkNotLost
  <1>1. IInv /\ [Next]_vars
        => /\ (research = "report" /\ research' # "report")
               => command = "materialize --force" \/ (command = "draft" /\ drafted)
           /\ done \ done' # {} => command \in {"install", "bootstrap --force"}
    BY ReportRemoved, MarkRemoved
  <1> QED BY <1>1, Always, PTL DEF WorkNotLost, Spec
================================================================================
