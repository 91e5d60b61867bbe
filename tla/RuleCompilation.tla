-------------------------- MODULE RuleCompilation --------------------------
(***************************************************************************)
(* Compiling the rule sets of an engine in the order of their dependencies *)
(* (rules/engine.go, CompileRules and compileRuleSet).  The call stack of  *)
(* compileRuleSet is a variable, one frame a call; its `trail' is the rule *)
(* sets of the frames.  A rule set is a name here, and its rules one entry *)
(* of the compiled rules; names are numbered in the order of sort.Strings. *)
(***************************************************************************)
EXTENDS Naturals, Sequences

CONSTANTS
  N,          \* rule set names: the loaded ones and those only depended on
  DependsOn   \* the lists of dependencies a rule set may have

Name == 1..N

ASSUME CompilationAssumption == N \in Nat /\ DependsOn \subseteq Seq(Name)

VARIABLES
  present,    \* e.RuleSets, by name
  broken,     \* those with an expression that does not compile
  dependsOn,  \* RuleSet.DependsOn
  stack,      \* calls of compileRuleSet: the set, and the dependency it is at
  loaded,     \* alreadyLoaded
  rules,      \* e.Rules, by rule set
  result      \* what CompileRules returned

input == <<present, broken, dependsOn>>
vars  == <<input, stack, loaded, rules, result>>

Error  == {"missing", "circular", "uncompilable"}
Frame  == [set : Name, at : Nat]

Dependencies(n) == {dependsOn[n][i] : i \in DOMAIN dependsOn[n]}

Trail   == {stack[i].set : i \in DOMAIN stack}
Pending == {n \in present : ~loaded[n]}

Top  == stack[Len(stack)]
Done == Top.at > Len(dependsOn[Top.set])   \* the loop over DependsOn has ended
This == dependsOn[Top.set][Top.at]         \* the dependency it is at

Skip(s) == [s EXCEPT ![Len(s)].at = @ + 1]
Pop(s)  == SubSeq(s, 1, Len(s) - 1)

TypeOK ==
  /\ present \subseteq Name /\ broken \subseteq present
  /\ dependsOn \in [Name -> DependsOn]
  /\ stack \in Seq(Frame) /\ Len(stack) <= N
  /\ loaded \in [Name -> BOOLEAN]
  /\ rules \in Seq(Name)
  /\ result \in {"running", "ok"} \cup Error

Init ==
  /\ present \in SUBSET Name
  /\ broken \in SUBSET present
  /\ dependsOn \in [Name -> DependsOn]
  /\ \A n \in Name \ present : dependsOn[n] = <<>>   \* none there
  /\ stack = <<>> /\ rules = <<>>
  /\ loaded = [n \in Name |-> FALSE]
  /\ result = "running"

-----------------------------------------------------------------------------
\* CompileRules: the next rule set by name that is not compiled yet.
Begin ==
  /\ result = "running" /\ stack = <<>>
  /\ \E n \in Pending :
       /\ \A m \in Pending : n <= m
       /\ stack' = <<[set |-> n, at |-> 1]>>
  /\ UNCHANGED <<input, loaded, rules, result>>

\* compileRuleSet: the dependency is on the trail.
Circular ==
  /\ result = "running" /\ stack # <<>> /\ ~Done
  /\ This \in Trail
  /\ result' = "circular"
  /\ UNCHANGED <<input, stack, loaded, rules>>

\* Mutant of Satisfied: the loop stays where it is.
SatisfiedStays ==
  /\ result = "running" /\ stack # <<>> /\ ~Done
  /\ This \notin Trail /\ loaded[This]
  /\ UNCHANGED vars

\* compileRuleSet: the dependency is compiled already.
Satisfied ==
  /\ result = "running" /\ stack # <<>> /\ ~Done
  /\ This \notin Trail /\ loaded[This]
  /\ stack' = Skip(stack)
  /\ UNCHANGED <<input, loaded, rules, result>>

\* compileRuleSet calls itself, and finds no rule set of that name.
Missing ==
  /\ result = "running" /\ stack # <<>> /\ ~Done
  /\ This \notin Trail /\ ~loaded[This] /\ This \notin present
  /\ result' = "missing"
  /\ UNCHANGED <<input, stack, loaded, rules>>

\* compileRuleSet calls itself for a dependency.
Descend ==
  /\ result = "running" /\ stack # <<>> /\ ~Done
  /\ This \notin Trail /\ ~loaded[This] /\ This \in present
  /\ stack' = Append(stack, [set |-> This, at |-> 1])
  /\ UNCHANGED <<input, loaded, rules, result>>

\* compileRules fails on a rule or one of its children.
Uncompilable ==
  /\ result = "running" /\ stack # <<>> /\ Done
  /\ Top.set \in broken
  /\ result' = "uncompilable"
  /\ UNCHANGED <<input, stack, loaded, rules>>

\* Mutants of Compile: the rules go in ahead of those of the dependencies; the
\* rule set is not marked.
CompileFirst ==
  /\ result = "running" /\ stack # <<>>
  /\ Top.set \notin broken
  /\ rules' = Append(rules, Top.set)
  /\ loaded' = [loaded EXCEPT ![Top.set] = TRUE]
  /\ stack' = IF Len(stack) = 1 THEN <<>> ELSE Skip(Pop(stack))
  /\ UNCHANGED <<input, result>>

CompileUnmarked ==
  /\ result = "running" /\ stack # <<>> /\ Done
  /\ Top.set \notin broken
  /\ rules' = Append(rules, Top.set)
  /\ stack' = IF Len(stack) = 1 THEN <<>> ELSE Skip(Pop(stack))
  /\ UNCHANGED <<input, loaded, result>>

\* compileRuleSet: the rules are appended, the rule set is marked, and the
\* caller goes on with its next dependency.
Compile ==
  /\ result = "running" /\ stack # <<>> /\ Done
  /\ Top.set \notin broken
  /\ rules' = Append(rules, Top.set)
  /\ loaded' = [loaded EXCEPT ![Top.set] = TRUE]
  /\ stack' = IF Len(stack) = 1 THEN <<>> ELSE Skip(Pop(stack))
  /\ UNCHANGED <<input, result>>

\* Mutant of Finish: CompileRules returns after its first rule set.
FinishEarly ==
  /\ result = "running" /\ stack = <<>>
  /\ Pending = {} \/ rules # <<>>
  /\ result' = "ok"
  /\ UNCHANGED <<input, stack, loaded, rules>>

\* CompileRules: no rule set is left.
Finish ==
  /\ result = "running" /\ stack = <<>>
  /\ Pending = {}
  /\ result' = "ok"
  /\ UNCHANGED <<input, stack, loaded, rules>>

Next ==
  \/ Begin \/ Circular \/ Satisfied \/ Missing \/ Descend
  \/ Uncompilable \/ Compile \/ Finish

Spec     == Init /\ [][Next]_vars
FairSpec == Spec /\ WF_vars(Next)

-----------------------------------------------------------------------------
\* Rules run in the order of e.Rules and a later one overrides an earlier one,
\* so the rules of a rule set come after those of everything it depends on.
DependenciesFirst ==
  \A i \in DOMAIN rules : \A n \in Dependencies(rules[i]) :
    \E j \in 1..(i - 1) : rules[j] = n

\* Rule sets that several others depend on are compiled once.
OnceEach == \A i, j \in DOMAIN rules : rules[i] = rules[j] => i = j

\* Some rule sets depend on each other in a circle, and how.
Cyclic ==
  \E S \in SUBSET present :
    S # {} /\ \A n \in S : Dependencies(n) \cap S # {}

\* The verdict: success exactly when every rule set compiles, every dependency
\* is loaded and none is circular, and then all are compiled; and an error
\* names a fault that is there.
VerdictRight ==
  /\ result = "ok" =>
       /\ \A n \in present : \E i \in DOMAIN rules : rules[i] = n
       /\ broken = {} /\ ~Cyclic
       /\ \A n \in present : Dependencies(n) \subseteq present
  /\ result = "circular" => Cyclic
  /\ result = "missing" => \E n \in present : ~(Dependencies(n) \subseteq present)
  /\ result = "uncompilable" => broken # {}

\* Compilation ends, whatever the rule sets depend on.
Terminates == <>(result # "running")
=============================================================================
