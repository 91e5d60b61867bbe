--------------------------- MODULE RuleExecution ---------------------------
(***************************************************************************)
(* Running compiled rules against one endpoint (rules/engine.go, Execute   *)
(* and executeRule).  The compiled rules, the program, are in the order    *)
(* executeRule would visit them if every filter matched, each rule with    *)
(* its depth: the children of a rule are the deeper rules that follow it.  *)
(* A capability in the output is named by the rule its values come from.   *)
(***************************************************************************)
EXTENDS Naturals, Sequences

CONSTANTS
  Capability,
  Trees          \* the programs the engine may hold

VARIABLES
  program,  \* e.Rules and their children
  at,       \* the rule that is next
  output,   \* o.Capabilities: the rule whose values they are, or Absent
  verdict   \* of Execute, idle before it is called

execVars == <<program, at, output, verdict>>

Absent == 0

\* Outcome: what running the filter, and then the values, comes to.
Rule == [depth : Nat, add : SUBSET Capability, remove : SUBSET Capability,
         outcome : {"match", "noMatch", "filterFails", "valueFails"}]

\* A tree: the first rule is a root, and a rule is at most one level below the
\* rule before it.
WellFormed(t) ==
  /\ t # <<>> => t[1].depth = 0
  /\ \A i \in 2..Len(t) : t[i].depth <= t[i - 1].depth + 1

ASSUME ExecutionAssumption ==
  /\ Absent \notin Capability
  /\ Trees \subseteq Seq(Rule) /\ \A t \in Trees : WellFormed(t)

ExecTypeOK ==
  /\ program \in Seq(Rule) /\ WellFormed(program)
  /\ at \in 1..(Len(program) + 1)
  /\ output \in [Capability -> 0..(at - 1)]
  /\ verdict \in {"idle", "running", "ok", "error"}

ExecInit ==
  /\ program = <<>> /\ at = 1 /\ verdict = "idle"
  /\ output = [c \in Capability |-> Absent]

Running == verdict = "running" /\ at <= Len(program)
Now     == program[at]

\* The rule visited after rule i and its children.
PastChildren(i) ==
  CHOOSE j \in (i + 1)..(Len(program) + 1) :
    /\ j > Len(program) \/ program[j].depth <= program[i].depth
    /\ \A k \in (i + 1)..(j - 1) : program[k].depth > program[i].depth

-----------------------------------------------------------------------------
\* Execute is called: the output is empty.
Execute(t) ==
  /\ verdict = "idle"
  /\ program' = t /\ verdict' = "running"
  /\ UNCHANGED <<at, output>>

\* The filter does not match: neither the rule nor its children do anything.
NoMatch ==
  /\ Running /\ Now.outcome = "noMatch"
  /\ at' = PastChildren(at)
  /\ UNCHANGED <<program, output, verdict>>

\* Mutant of Match: capabilities are removed before they are added.
MatchRemovesFirst ==
  /\ Running /\ Now.outcome = "match"
  /\ output' = [c \in Capability |->
                  IF c \in Now.add THEN at
                  ELSE IF c \in Now.remove THEN Absent ELSE output[c]]
  /\ at' = at + 1
  /\ UNCHANGED <<program, verdict>>

\* The filter matches: capabilities are added, then removed, then the children
\* run.
Match ==
  /\ Running /\ Now.outcome = "match"
  /\ output' = [c \in Capability |->
                  IF c \in Now.remove THEN Absent
                  ELSE IF c \in Now.add THEN at ELSE output[c]]
  /\ at' = at + 1
  /\ UNCHANGED <<program, verdict>>

\* Mutant of Fail: a rule that fails is passed over with its children.
FailPassedOver ==
  /\ Running
  /\ Now.outcome = "filterFails" \/ (Now.outcome = "valueFails" /\ Now.add # {})
  /\ at' = PastChildren(at)
  /\ UNCHANGED <<program, output, verdict>>

\* The filter errors or gives no boolean, or a value of an added capability
\* errors: the error goes up to the caller of Execute, who drops the output.
Fail ==
  /\ Running
  /\ Now.outcome = "filterFails" \/ (Now.outcome = "valueFails" /\ Now.add # {})
  /\ verdict' = "error"
  /\ UNCHANGED <<program, at, output>>

\* A rule that adds nothing has no values to fail.
NoValues ==
  /\ Running /\ Now.outcome = "valueFails" /\ Now.add = {}
  /\ output' = [c \in Capability |-> IF c \in Now.remove THEN Absent ELSE output[c]]
  /\ at' = at + 1
  /\ UNCHANGED <<program, verdict>>

\* Execute: every rule has run.
Return ==
  /\ verdict = "running" /\ at > Len(program)
  /\ verdict' = "ok"
  /\ UNCHANGED <<program, at, output>>

ExecStep == NoMatch \/ Match \/ Fail \/ NoValues \/ Return

ExecSpec == ExecInit /\ [][ExecStep \/ \E t \in Trees : Execute(t)]_execVars

-----------------------------------------------------------------------------
\* Of a program or a part of one.
Parents(t, i) ==
  {j \in 1..(i - 1) : \A k \in (j + 1)..i : t[k].depth > t[j].depth}

Matches(t, i) ==
  \/ t[i].outcome = "match"
  \/ t[i].outcome = "valueFails" /\ t[i].add = {}

\* The rules a reader of the tree expects to run: those below nothing but rules
\* that match.
Reached(t) == {i \in DOMAIN t : \A j \in Parents(t, i) : Matches(t, j)}

\* What a capability is decided by: the last rule that has a say in it.
Deciding(t, c) ==
  {i \in Reached(t) : Matches(t, i) /\ c \in t[i].add \cup t[i].remove}

\* The output holds a capability, with the values of its last rule, exactly
\* when the last matching rule that mentions it adds it and does not remove it.
LastRuleDecides ==
  verdict = "ok" =>
    \A c \in Capability :
      IF Deciding(program, c) = {} THEN output[c] = Absent
      ELSE \E i \in Deciding(program, c) :
             /\ \A j \in Deciding(program, c) : j <= i
             /\ output[c] = IF c \in program[i].remove THEN Absent ELSE i

\* Execute fails exactly when a rule it has to run fails (RULES.md: "rule
\* execution will fail if a rule does not" give a boolean).
FailsIfReached ==
  LET failing == {i \in Reached(program) :
                    /\ program[i].outcome \in {"filterFails", "valueFails"}
                    /\ ~Matches(program, i)}
  IN (verdict = "ok" => failing = {}) /\ (verdict = "error" => failing # {})
=============================================================================
