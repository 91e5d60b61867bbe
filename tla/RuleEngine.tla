----------------------------- MODULE RuleEngine -----------------------------
(***************************************************************************)
(* The engine as its user has it (rules/engine.go): the rule sets are      *)
(* compiled, and the compiled rules are executed in the order compilation  *)
(* has left them in.  An engine that did not compile is not executed.      *)
(***************************************************************************)
EXTENDS RuleCompilation, RuleExecution

CONSTANT Contents(_)   \* what some rule sets may hold: functions to Trees

VARIABLE contents   \* RuleSet.Rules; chosen when they first matter

engineVars == <<vars, execVars, contents>>

ASSUME EngineAssumption == \A S \in SUBSET Name : Contents(S) \subseteq [S -> Trees]

EngineInit == Init /\ ExecInit /\ contents = <<>>

\* Mutant of Compiled: rule sets in the order of their names.
CompiledByName(c) ==
  LET after[n \in 0..N] ==
        IF n = 0 THEN <<>> ELSE after[n - 1] \o (IF n \in DOMAIN c THEN c[n] ELSE <<>>)
  IN after[N]

\* e.Rules with the children of each rule behind it.
Compiled(c) ==
  LET after[i \in 0..Len(rules)] ==
        IF i = 0 THEN <<>> ELSE after[i - 1] \o c[rules[i]]
  IN after[Len(rules)]

ExecuteCompiled ==
  /\ result = "ok" /\ verdict = "idle"
  /\ \E c \in Contents(present) : contents' = c /\ Execute(Compiled(c))
  /\ UNCHANGED vars

EngineNext ==
  \/ Next /\ UNCHANGED <<execVars, contents>>
  \/ ExecuteCompiled
  \/ ExecStep /\ UNCHANGED <<vars, contents>>

EngineSpec == EngineInit /\ [][EngineNext]_engineVars /\ WF_engineVars(EngineNext)

-----------------------------------------------------------------------------
\* What a rule set depends on, itself or through others.
Needs(n) ==
  {m \in Name : \A S \in SUBSET Name :
     Dependencies(n) \subseteq S /\ (\A k \in S : Dependencies(k) \subseteq S) => m \in S}

\* The rule sets with a say in a capability, were each executed alone,
Speakers(c) == {n \in DOMAIN contents : Deciding(contents[n], c) # {}}

\* and the one that says it is there.
Adds(n, c) ==
  \E i \in Deciding(contents[n], c) :
    /\ \A j \in Deciding(contents[n], c) : j <= i
    /\ c \notin contents[n][i].remove

\* What DependsOn is for: whatever the names of the rule sets and the order of
\* the lists, a capability is there or not as a rule set says that no other with
\* a say depends on; it never is as one says that another overrules.
DependentOverrules ==
  verdict = "ok" =>
    \A c \in Capability :
      IF Speakers(c) = {} THEN output[c] = Absent
      ELSE \E n \in Speakers(c) :
             /\ \A m \in Speakers(c) : n \notin Needs(m)
             /\ (output[c] # Absent) <=> Adds(n, c)
=============================================================================
