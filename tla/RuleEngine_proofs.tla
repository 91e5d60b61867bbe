-------------------------- MODULE RuleEngine_proofs --------------------------
(***************************************************************************)
(* Proofs about the rule engine, for any number of rule sets, any          *)
(* dependencies, any trees of rules and any capabilities: first of the     *)
(* compilation, then of the execution, then of the two together.           *)
(***************************************************************************)
EXTENDS RuleEngine, SequenceTheorems, FiniteSetTheorems, WellFoundedInduction, TLAPS

(***************************************************************************)
(* Compilation.  The invariant relates the three things compileRuleSet     *)
(* goes by: the rules compiled so far are those of the sets marked in      *)
(* alreadyLoaded; a set on the trail is not marked yet; and everything a   *)
(* marked set depends on, and everything a call has passed by, is marked.  *)
(***************************************************************************)
Types ==
  /\ present \subseteq Name /\ broken \subseteq present
  /\ dependsOn \in [Name -> Seq(Name)]
  /\ stack \in Seq(Frame)
  /\ loaded \in [Name -> BOOLEAN]
  /\ rules \in Seq(Name)
  /\ result \in {"running", "ok"} \cup Error

\* alreadyLoaded marks the rule sets whose rules are compiled.
Marked ==
  \A n \in Name : loaded[n] <=> \E i \in 1..Len(rules) : rules[i] = n

\* What is marked is a rule set that compiled, after its dependencies.
Sound ==
  \A n \in Name : loaded[n] =>
    /\ n \in present /\ n \notin broken
    /\ \A j \in 1..Len(dependsOn[n]) : loaded[dependsOn[n][j]]

\* A call is for a rule set that is not marked, and only one call is; the
\* dependencies it is past are marked.
Calls ==
  \A i \in 1..Len(stack) :
    /\ stack[i].set \in present /\ ~loaded[stack[i].set]
    /\ stack[i].at \in 1..(Len(dependsOn[stack[i].set]) + 1)
    /\ \A j \in 1..(stack[i].at - 1) : loaded[dependsOn[stack[i].set][j]]

OneCallEach ==
  \A i, j \in 1..Len(stack) : stack[i].set = stack[j].set => i = j

\* A call waits for the call of the dependency it is at.
Waiting ==
  \A i \in 1..(Len(stack) - 1) :
    /\ stack[i].at <= Len(dependsOn[stack[i].set])
    /\ dependsOn[stack[i].set][stack[i].at] = stack[i + 1].set

\* What is marked holds no circle.
NoCircle ==
  \A S \in SUBSET {n \in Name : loaded[n]} :
    S # {} => \E n \in S : Dependencies(n) \cap S = {}

Verdicts ==
  /\ result = "ok" => Pending = {}
  /\ result = "circular" => Cyclic
  /\ result = "missing" => \E n \in present : ~(Dependencies(n) \subseteq present)
  /\ result = "uncompilable" => broken # {}

IInv ==
  /\ Types /\ Marked /\ Sound /\ Calls /\ OneCallEach /\ Waiting
  /\ NoCircle /\ Verdicts
  /\ DependenciesFirst /\ OnceEach

-----------------------------------------------------------------------------
(* The operators of the model.                                             *)

\* A rule set depends on the members of its list.
LEMMA DependenciesAre ==
  ASSUME Types, NEW n \in Name
  PROVE  /\ Dependencies(n) \subseteq Name
         /\ \A m : m \in Dependencies(n) <=>
              \E j \in 1..Len(dependsOn[n]) : dependsOn[n][j] = m
<1>1. dependsOn[n] \in Seq(Name)
  BY DEF Types
<1>2. DOMAIN dependsOn[n] = 1..Len(dependsOn[n])
      /\ \A j \in 1..Len(dependsOn[n]) : dependsOn[n][j] \in Name
  BY <1>1
<1> QED BY <1>2 DEF Dependencies

\* A frame that is on to its next dependency.
LEMMA SkipTop ==
  ASSUME NEW s \in Seq(Frame), Len(s) # 0
  PROVE  /\ Skip(s) \in Seq(Frame) /\ Len(Skip(s)) = Len(s)
         /\ \A i \in 1..Len(s) : Skip(s)[i].set = s[i].set
         /\ \A i \in 1..(Len(s) - 1) : Skip(s)[i] = s[i]
         /\ Skip(s)[Len(s)].at = s[Len(s)].at + 1
<1> DEFINE k == Len(s)
<1>1. k \in 1..k /\ s \in [1..k -> Frame]
  OBVIOUS
<1>2. s[k] \in Frame
  BY <1>1
<1> DEFINE f == [s[k] EXCEPT !.at = @ + 1]
<1>3. f \in Frame /\ f.set = s[k].set /\ f.at = s[k].at + 1
  BY <1>2 DEF Frame
<1>4. Skip(s) = [s EXCEPT ![k] = f]
  BY DEF Skip
<1> HIDE DEF f, k
<1>5. /\ Skip(s) \in [1..k -> Frame] /\ Skip(s)[k] = f
      /\ \A i \in 1..k : i # k => Skip(s)[i] = s[i]
  BY <1>1, <1>3, <1>4
<1>6. k \in Nat /\ k = Len(s)
  BY DEF k
<1>7. Skip(s) \in Seq(Frame) /\ Len(Skip(s)) = k
  BY <1>5, <1>6
<1> QED BY <1>3, <1>5, <1>6, <1>7

\* A call that has returned.
LEMMA PopTop ==
  ASSUME NEW s \in Seq(Frame), Len(s) # 0
  PROVE  /\ Pop(s) \in Seq(Frame) /\ Len(Pop(s)) = Len(s) - 1
         /\ \A i \in 1..(Len(s) - 1) : Pop(s)[i] = s[i]
<1> DEFINE k == Len(s) - 1
<1>1. k \in Nat /\ k = Len(s) - 1 /\ \A i \in 1..k : s[i] \in Frame
  OBVIOUS
<1> HIDE DEF k
<1>2. /\ SubSeq(s, 1, k) \in Seq(Frame)
      /\ Len(SubSeq(s, 1, k)) = IF 1 <= k THEN k - 1 + 1 ELSE 0
      /\ \A i \in 1..(k - 1 + 1) : SubSeq(s, 1, k)[i] = s[1 + i - 1]
  BY <1>1, SubSeqProperties
<1>3. Pop(s) = SubSeq(s, 1, k)
  BY DEF Pop, k
<1>4. Len(Pop(s)) = k
  BY <1>1, <1>2, <1>3
<1>5. \A i \in 1..k : Pop(s)[i] = s[i]
  BY <1>1, <1>2, <1>3
<1> QED BY <1>1, <1>2, <1>3, <1>4, <1>5

\* The frame of the running call.
LEMMA TopFrame ==
  ASSUME Types, Calls, stack # <<>>
  PROVE  /\ Len(stack) \in 1..Len(stack) /\ Top \in Frame
         /\ Top.set \in present /\ Top.set \in Name /\ ~loaded[Top.set]
         /\ ~Done => /\ Top.at \in 1..Len(dependsOn[Top.set])
                     /\ This \in Name /\ This \in Dependencies(Top.set)
         /\ Done => \A j \in 1..Len(dependsOn[Top.set]) : loaded[dependsOn[Top.set][j]]
<1>1. Len(stack) \in 1..Len(stack) /\ Top \in Frame
  BY DEF Types, Top
<1>2. /\ Top.set \in present /\ ~loaded[Top.set]
      /\ Top.at \in 1..(Len(dependsOn[Top.set]) + 1)
      /\ \A j \in 1..(Top.at - 1) : loaded[dependsOn[Top.set][j]]
  BY <1>1 DEF Calls, Top
<1>3. Top.set \in Name /\ dependsOn[Top.set] \in Seq(Name)
  BY <1>2 DEF Types
<1>4. Len(dependsOn[Top.set]) \in Nat
  BY <1>3
<1>5. ASSUME ~Done
      PROVE  /\ Top.at \in 1..Len(dependsOn[Top.set])
             /\ This \in Name /\ This \in Dependencies(Top.set)
  <2>1. Top.at \in 1..Len(dependsOn[Top.set])
    BY <1>2, <1>4, <1>5 DEF Done
  <2> QED BY <1>3, <2>1, DependenciesAre DEF This
<1>6. ASSUME Done
      PROVE  \A j \in 1..Len(dependsOn[Top.set]) : loaded[dependsOn[Top.set][j]]
  BY <1>2, <1>4, <1>6 DEF Done
<1> QED BY <1>1, <1>2, <1>3, <1>5, <1>6

-----------------------------------------------------------------------------
(* The parts of the invariant that Compile, the step that marks, disturbs. *)

LEMMA CompileMarked ==
  ASSUME IInv, Compile
  PROVE  Marked' /\ Sound' /\ rules' \in Seq(Name) /\ loaded' \in [Name -> BOOLEAN]
<1> DEFINE t == Top.set
<1>1. /\ t \in Name /\ t \in present /\ ~loaded[t] /\ t \notin broken
      /\ \A j \in 1..Len(dependsOn[t]) : loaded[dependsOn[t][j]]
  BY TopFrame DEF IInv, Compile
<1>2. /\ rules' = Append(rules, t) /\ loaded' = [loaded EXCEPT ![t] = TRUE]
      /\ UNCHANGED <<present, broken, dependsOn>>
  BY DEF Compile, input
<1> HIDE DEF t
<1>3. rules \in Seq(Name) /\ loaded \in [Name -> BOOLEAN]
      /\ dependsOn \in [Name -> Seq(Name)]
  BY DEF IInv, Types
<1>4. rules' \in Seq(Name) /\ loaded' \in [Name -> BOOLEAN]
  BY <1>1, <1>2, <1>3
<1>5. Marked'
  <2>1. /\ Len(rules') = Len(rules) + 1 /\ rules'[Len(rules) + 1] = t
        /\ \A i \in 1..Len(rules) : rules'[i] = rules[i]
        /\ Len(rules) \in Nat
    BY <1>1, <1>2, <1>3
  <2>2. ASSUME NEW n \in Name
        PROVE  loaded'[n] <=> \E i \in 1..Len(rules') : rules'[i] = n
    <3>1. CASE n = t
      <4>1. loaded'[n]
        BY <1>2, <1>3, <3>1
      <4>2. Len(rules) + 1 \in 1..Len(rules') /\ rules'[Len(rules) + 1] = n
        BY <2>1, <3>1
      <4> QED BY <4>1, <4>2
    <3>2. CASE n # t
      <4>1. loaded'[n] <=> loaded[n]
        BY <1>2, <1>3, <3>2
      <4>2. (\E i \in 1..Len(rules') : rules'[i] = n)
              <=> (\E i \in 1..Len(rules) : rules[i] = n)
        BY <2>1, <3>2
      <4> QED BY <4>1, <4>2 DEF IInv, Marked
    <3> QED BY <3>1, <3>2
  <2> QED BY <2>2 DEF Marked
<1>6. Sound'
  <2>1. ASSUME NEW n \in Name, loaded'[n]
        PROVE  /\ n \in present /\ n \notin broken
               /\ \A j \in 1..Len(dependsOn[n]) : loaded'[dependsOn[n][j]]
    <3>1. /\ n \in present /\ n \notin broken
          /\ \A j \in 1..Len(dependsOn[n]) : loaded[dependsOn[n][j]]
      BY <1>1, <1>2, <1>3, <2>1 DEF IInv, Sound
    <3>2. \A j \in 1..Len(dependsOn[n]) : dependsOn[n][j] \in Name
      BY <1>3
    <3> QED BY <1>2, <1>3, <3>1, <3>2
  <2> QED BY <1>2, <2>1 DEF Sound
<1> QED BY <1>4, <1>5, <1>6

\* The rules that are appended come after their dependencies, once.
LEMMA CompileOrder ==
  ASSUME IInv, Compile
  PROVE  DependenciesFirst' /\ OnceEach'
<1> DEFINE t == Top.set
<1>1. /\ t \in Name /\ ~loaded[t]
      /\ \A j \in 1..Len(dependsOn[t]) : loaded[dependsOn[t][j]]
  BY TopFrame DEF IInv, Compile
<1>2. rules' = Append(rules, t) /\ dependsOn' = dependsOn
  BY DEF Compile, input
<1>3. rules \in Seq(Name)
  BY DEF IInv, Types
<1>4. /\ DOMAIN rules = 1..Len(rules) /\ DOMAIN rules' = 1..(Len(rules) + 1)
      /\ rules'[Len(rules) + 1] = t
      /\ \A i \in 1..Len(rules) : rules'[i] = rules[i]
      /\ Len(rules) \in Nat
  BY <1>1, <1>2, <1>3
<1>5. \A n \in Name : Dependencies(n)' = Dependencies(n)
  BY <1>2 DEF Dependencies
<1> HIDE DEF t
<1>6. OnceEach'
  <2>1. ASSUME NEW i \in 1..Len(rules) PROVE rules[i] # t
    BY <1>1, <2>1 DEF IInv, Marked
  <2> QED BY <1>4, <2>1 DEF IInv, OnceEach
<1>7. DependenciesFirst'
  <2>1. ASSUME NEW i \in 1..(Len(rules) + 1), NEW n \in Dependencies(rules[i])'
        PROVE  \E j \in 1..(i - 1) : rules'[j] = n
    <3>0. n \in Dependencies(rules'[i])
      BY <1>2, <2>1 DEF Dependencies
    <3>1. CASE i = Len(rules) + 1
      <4>1. n \in Dependencies(t)
        BY <1>4, <3>0, <3>1
      <4>2. n \in Name /\ loaded[n]
        BY <1>1, <4>1, DependenciesAre DEF IInv
      <4>3. PICK j \in 1..Len(rules) : rules[j] = n
        BY <4>2 DEF IInv, Marked
      <4>4. j \in 1..(i - 1) /\ rules'[j] = n
        BY <1>4, <3>1, <4>3
      <4> QED BY <4>4
    <3>2. CASE i # Len(rules) + 1
      <4>1. i \in 1..Len(rules)
        BY <1>4, <3>2
      <4>2. rules'[i] = rules[i] /\ rules[i] \in Name
        BY <1>3, <1>4, <4>1
      <4>3. n \in Dependencies(rules[i])
        BY <3>0, <4>2
      <4>4. PICK j \in 1..(i - 1) : rules[j] = n
        BY <1>4, <4>1, <4>3 DEF IInv, DependenciesFirst
      <4>5. j \in 1..Len(rules)
        BY <1>4, <4>1, <4>4
      <4> QED BY <1>4, <4>4, <4>5
    <3> QED BY <3>1, <3>2
  <2> QED BY <1>4, <2>1 DEF DependenciesFirst
<1> QED BY <1>6, <1>7

\* The rule set that is marked closes no circle: nothing marked depends on it.
LEMMA CompileNoCircle ==
  ASSUME IInv, Compile
  PROVE  NoCircle'
<1> DEFINE t == Top.set
           L == {n \in Name : loaded[n]}
<1>1. /\ t \in Name /\ ~loaded[t]
      /\ \A j \in 1..Len(dependsOn[t]) : loaded[dependsOn[t][j]]
  BY TopFrame DEF IInv, Compile
<1>2. loaded' = [loaded EXCEPT ![t] = TRUE] /\ dependsOn' = dependsOn
  BY DEF Compile, input
<1>3. loaded \in [Name -> BOOLEAN]
  BY DEF IInv, Types
<1>4. \A n \in Name : Dependencies(n)' = Dependencies(n)
  BY <1>2 DEF Dependencies
<1>5. \A n \in L : t \notin Dependencies(n)
  BY <1>1, DependenciesAre DEF IInv, Sound
<1>6. t \notin Dependencies(t)
  BY <1>1, DependenciesAre DEF IInv
<1> HIDE DEF t
<1>7. ASSUME NEW S \in SUBSET {n \in Name : loaded'[n]}, S # {}
      PROVE  \E n \in S : Dependencies(n)' \cap S = {}
  <2>1. S \ {t} \in SUBSET L /\ S \subseteq Name
    BY <1>2, <1>3, <1>7
  <2>2. CASE S \ {t} = {}
    <3>1. S = {t}
      BY <1>7, <2>2
    <3> QED BY <1>1, <1>4, <1>6, <3>1
  <2>3. CASE S \ {t} # {}
    <3>1. PICK n \in S \ {t} : Dependencies(n) \cap (S \ {t}) = {}
      BY <2>1, <2>3 DEF IInv, NoCircle
    <3>2. t \notin Dependencies(n) /\ n \in Name
      BY <1>5, <2>1, <3>1
    <3>3. Dependencies(n) \cap S = {}
      BY <3>1, <3>2
    <3> QED BY <1>4, <3>1, <3>2, <3>3
  <2> QED BY <2>2, <2>3
<1> QED BY <1>7 DEF NoCircle

\* The frames left on the stack when a call returns.
LEMMA CompileStack ==
  ASSUME IInv, Compile
  PROVE  /\ stack' \in Seq(Frame)
         /\ Calls' /\ OneCallEach' /\ Waiting'
<1> DEFINE t == Top.set
           k == Len(stack)
<1>1. /\ k \in 1..k /\ t \in Name /\ t = stack[k].set
  BY TopFrame DEF IInv, Compile, Top
<1>2. /\ stack' = IF k = 1 THEN <<>> ELSE Skip(Pop(stack))
      /\ loaded' = [loaded EXCEPT ![t] = TRUE]
      /\ UNCHANGED <<present, dependsOn>>
  BY DEF Compile, input
<1>3. stack \in Seq(Frame) /\ loaded \in [Name -> BOOLEAN]
      /\ dependsOn \in [Name -> Seq(Name)] /\ present \subseteq Name
  BY DEF IInv, Types
<1> HIDE DEF t
<1>4. CASE k = 1
  <2>1. stack' = <<>> /\ Len(stack') = 0
    BY <1>2, <1>4
  <2> QED BY <2>1 DEF Calls, OneCallEach, Waiting
<1>5. CASE k # 1
  <2>1. /\ k \in Nat /\ k - 1 \in 1..(k - 1)
        /\ Pop(stack) \in Seq(Frame) /\ Len(Pop(stack)) = k - 1
        /\ \A i \in 1..(k - 1) : Pop(stack)[i] = stack[i]
    <3>1. k \in Nat /\ k # 0
      BY <1>1, <1>3
    <3>2. /\ Pop(stack) \in Seq(Frame) /\ Len(Pop(stack)) = k - 1
          /\ \A i \in 1..(k - 1) : Pop(stack)[i] = stack[i]
      BY <1>3, <3>1, PopTop
    <3> HIDE DEF k
    <3>3. k - 1 \in 1..(k - 1)
      BY <1>5, <3>1
    <3> QED BY <3>1, <3>2, <3>3
  <2>2. /\ stack' \in Seq(Frame) /\ Len(stack') = k - 1
        /\ \A i \in 1..(k - 1) : stack'[i].set = stack[i].set
        /\ \A i \in 1..(k - 2) : stack'[i] = stack[i]
        /\ stack'[k - 1].at = stack[k - 1].at + 1
    <3> DEFINE p == Pop(stack)
    <3>1. /\ stack' = Skip(p) /\ p \in Seq(Frame) /\ Len(p) = k - 1
          /\ \A i \in 1..(k - 1) : p[i] = stack[i]
      BY <1>2, <1>5, <2>1
    <3> HIDE DEF k, p
    <3>2. Len(p) # 0 /\ (k - 1) - 1 = k - 2
      BY <2>1, <3>1
    <3>3. /\ Skip(p) \in Seq(Frame) /\ Len(Skip(p)) = Len(p)
          /\ \A i \in 1..Len(p) : Skip(p)[i].set = p[i].set
          /\ \A i \in 1..(Len(p) - 1) : Skip(p)[i] = p[i]
          /\ Skip(p)[Len(p)].at = p[Len(p)].at + 1
      BY <3>1, <3>2, SkipTop
    <3>4. \A i \in 1..(k - 2) : i \in 1..(k - 1)
      BY <2>1
    <3> QED BY <2>1, <3>1, <3>2, <3>3, <3>4
  <2>3. /\ stack[k - 1].at <= Len(dependsOn[stack[k - 1].set])
        /\ dependsOn[stack[k - 1].set][stack[k - 1].at] = t
    BY <1>1, <2>1 DEF IInv, Waiting
  <2>4. ASSUME NEW i \in 1..(k - 1)
        PROVE  /\ stack'[i].set \in present /\ ~loaded'[stack'[i].set]
               /\ stack'[i].at \in 1..(Len(dependsOn[stack'[i].set]) + 1)
               /\ \A j \in 1..(stack'[i].at - 1) : loaded'[dependsOn[stack'[i].set][j]]
    <3> DEFINE n == stack[i].set
    <3>1. /\ i \in 1..k /\ i # k /\ n \in present /\ n \in Name /\ ~loaded[n]
          /\ stack[i].at \in 1..(Len(dependsOn[n]) + 1)
          /\ \A j \in 1..(stack[i].at - 1) : loaded[dependsOn[n][j]]
      BY <1>1, <1>3, <2>1, <2>4 DEF IInv, Calls
    <3>2. n # t
      BY <1>1, <3>1 DEF IInv, OneCallEach
    <3>3. stack'[i].set = n
      BY <2>2, <2>4
    <3>4. Len(dependsOn[n]) \in Nat
          /\ \A j \in 1..Len(dependsOn[n]) : dependsOn[n][j] \in Name
      BY <1>3, <3>1
    <3>5. \A j \in 1..(stack[i].at - 1) : loaded'[dependsOn[n][j]]
      BY <1>2, <1>3, <3>1, <3>4, SMTT(60)
    <3>6. loaded'[t]
      BY <1>1, <1>2, <1>3
    <3>7. ~loaded'[n]
      BY <1>2, <1>3, <3>1, <3>2
    <3> HIDE DEF n
    <3>8. CASE i = k - 1
      <4>1. stack'[i].at = stack[i].at + 1 /\ dependsOn[n][stack[i].at] = t
            /\ stack[i].at <= Len(dependsOn[n])
        BY <2>2, <2>3, <3>8 DEF n
      <4>2. stack'[i].at \in 1..(Len(dependsOn[n]) + 1)
        BY <3>1, <3>4, <4>1
      <4>3. \A j \in 1..(stack'[i].at - 1) : loaded'[dependsOn[n][j]]
        BY <3>1, <3>4, <3>5, <3>6, <4>1
      <4> QED BY <3>1, <3>3, <3>7, <4>2, <4>3
    <3>9. CASE i # k - 1
      <4>1. stack'[i] = stack[i]
        BY <2>1, <2>2, <2>4, <3>9
      <4> QED BY <3>1, <3>3, <3>5, <3>7, <4>1
    <3> QED BY <3>8, <3>9
  <2>5. Calls'
    BY <1>2, <2>2, <2>4 DEF Calls
  <2>6. OneCallEach'
    <3>1. \A i \in 1..(k - 1) : i \in 1..k
      BY <2>1
    <3> QED BY <2>2, <3>1 DEF IInv, OneCallEach
  <2>7. Waiting'
    <3>1. ASSUME NEW i \in 1..(k - 2)
          PROVE  /\ stack'[i].at <= Len(dependsOn[stack'[i].set])
                 /\ dependsOn[stack'[i].set][stack'[i].at] = stack'[i + 1].set
      <4>1. i \in 1..(k - 1) /\ i + 1 \in 1..(k - 1)
        BY <2>1, <3>1
      <4> QED BY <2>2, <3>1, <4>1 DEF IInv, Waiting
    <3>2. Len(stack') - 1 = k - 2
      BY <2>1, <2>2
    <3> QED BY <1>2, <3>1, <3>2 DEF Waiting
  <2> QED BY <2>2, <2>5, <2>6, <2>7
<1> QED BY <1>4, <1>5

-----------------------------------------------------------------------------
(* The invariant.                                                          *)

\* A step that compiles nothing keeps what is said of the compiled rules.
LEMMA RulesKept ==
  ASSUME IInv, UNCHANGED <<input, loaded, rules>>
  PROVE  /\ Marked' /\ Sound' /\ NoCircle' /\ DependenciesFirst' /\ OnceEach'
         /\ (present \subseteq Name /\ broken \subseteq present)'
         /\ (dependsOn \in [Name -> Seq(Name)])'
         /\ (loaded \in [Name -> BOOLEAN] /\ rules \in Seq(Name))'
<1>1. /\ present' = present /\ broken' = broken /\ dependsOn' = dependsOn
      /\ loaded' = loaded /\ rules' = rules
  BY DEF input
<1>2. Marked' /\ Sound' /\ OnceEach'
  BY <1>1 DEF IInv, Marked, Sound, OnceEach
<1>0. \A n : Dependencies(n)' = Dependencies(n)
  BY <1>1 DEF Dependencies
<1>3. NoCircle'
  <2>1. ASSUME NEW S \in SUBSET {n \in Name : loaded'[n]}, S # {}
        PROVE  \E n \in S : Dependencies(n)' \cap S = {}
    <3>1. S \in SUBSET {n \in Name : loaded[n]}
      BY <1>1, <2>1
    <3>2. \E n \in S : Dependencies(n) \cap S = {}
      BY <2>1, <3>1 DEF IInv, NoCircle
    <3> QED BY <1>0, <3>2
  <2> QED BY <2>1 DEF NoCircle
<1>4. DependenciesFirst'
  BY <1>1 DEF IInv, DependenciesFirst, Dependencies
<1> QED BY <1>1, <1>2, <1>3, <1>4 DEF IInv, Types

\* A step that neither calls nor returns keeps what is said of the calls.
LEMMA StackKept ==
  ASSUME IInv, UNCHANGED <<input, stack, loaded>>
  PROVE  (stack \in Seq(Frame))' /\ Calls' /\ OneCallEach' /\ Waiting'
<1>1. /\ present' = present /\ dependsOn' = dependsOn
      /\ loaded' = loaded /\ stack' = stack
  BY DEF input
<1> QED BY <1>1 DEF IInv, Types, Calls, OneCallEach, Waiting

\* Circles are in the rule sets as they were loaded.
LEMMA CyclicKept ==
  ASSUME present' = present, dependsOn' = dependsOn
  PROVE  Cyclic' <=> Cyclic
<1>1. \A n : Dependencies(n)' = Dependencies(n)
  BY DEF Dependencies
<1>2. \A S : (\A n \in S : Dependencies(n)' \cap S # {})
               <=> (\A n \in S : Dependencies(n) \cap S # {})
  BY <1>1
<1> QED BY <1>2 DEF Cyclic

\* The verdicts speak of nothing while the compilation runs.
LEMMA RunningVerdict ==
  ASSUME result' = "running"
  PROVE  Verdicts' /\ (result \in {"running", "ok"} \cup Error)'
BY DEF Verdicts

\* Nothing is compiled yet.
LEMMA InitIInv ==
  Init => IInv
<1> SUFFICES ASSUME Init PROVE IInv
  OBVIOUS
<1>1. /\ stack = <<>> /\ rules = <<>> /\ loaded = [n \in Name |-> FALSE]
      /\ result = "running"
      /\ Len(stack) = 0 /\ Len(rules) = 0 /\ DOMAIN rules = {}
  BY DEF Init
<1>2. Types
  BY <1>1, CompilationAssumption DEF Init, Types
<1>3. Marked /\ Sound /\ NoCircle
  BY <1>1 DEF Marked, Sound, NoCircle
<1>4. Calls /\ OneCallEach /\ Waiting
  BY <1>1 DEF Calls, OneCallEach, Waiting
<1>5. DependenciesFirst /\ OnceEach /\ Verdicts
  BY <1>1 DEF DependenciesFirst, OnceEach, Verdicts
<1> QED BY <1>2, <1>3, <1>4, <1>5 DEF IInv

\* The first call, for a rule set that is not marked.
LEMMA BeginIInv ==
  ASSUME IInv, Begin
  PROVE  IInv'
<1>1. PICK n \in Pending : stack' = <<[set |-> n, at |-> 1]>>
  BY DEF Begin
<1>2. /\ UNCHANGED <<input, loaded, rules>> /\ result' = "running"
      /\ present' = present /\ dependsOn' = dependsOn /\ loaded' = loaded
  BY DEF Begin, input
<1>3. n \in Name /\ n \in present /\ ~loaded[n] /\ dependsOn[n] \in Seq(Name)
  BY <1>1 DEF Pending, IInv, Types
<1>4. /\ stack' \in Seq(Frame) /\ Len(stack') = 1
      /\ stack'[1].set = n /\ stack'[1].at = 1
  BY <1>1, <1>3 DEF Frame
<1>5. 1 \in 1..(Len(dependsOn[n]) + 1) /\ 1..(1 - 1) = {}
  BY <1>3
<1>6. Calls'
  BY <1>2, <1>3, <1>4, <1>5 DEF Calls
<1>7. OneCallEach' /\ Waiting'
  BY <1>4 DEF OneCallEach, Waiting
<1> QED BY <1>2, <1>4, <1>6, <1>7, RulesKept, RunningVerdict DEF IInv, Types

\* The call of a dependency that is neither on the trail nor marked.
LEMMA DescendIInv ==
  ASSUME IInv, Descend
  PROVE  IInv'
<1> DEFINE k == Len(stack)
           m == This
<1>1. /\ UNCHANGED <<input, loaded, rules>> /\ result' = "running"
      /\ present' = present /\ dependsOn' = dependsOn /\ loaded' = loaded
      /\ stack' = Append(stack, [set |-> m, at |-> 1])
      /\ m \notin Trail /\ ~loaded[m] /\ m \in present
  BY DEF Descend, input
<1>2. /\ k \in 1..k /\ stack \in Seq(Frame) /\ k \in Nat
      /\ dependsOn[m] \in Seq(Name) /\ m \in Name
      /\ stack[k].at <= Len(dependsOn[stack[k].set])
      /\ dependsOn[stack[k].set][stack[k].at] = m
  <2>1. stack # <<>> /\ ~Done
    BY DEF Descend
  <2>2. k \in 1..k /\ Top.at \in 1..Len(dependsOn[Top.set]) /\ Top.set \in Name
    BY <2>1, TopFrame DEF IInv
  <2>3. stack \in Seq(Frame) /\ dependsOn \in [Name -> Seq(Name)] /\ m \in Name
    BY <1>1 DEF IInv, Types
  <2>4. Len(dependsOn[Top.set]) \in Nat
    BY <2>2, <2>3
  <2> HIDE DEF m
  <2>5. Top.at <= Len(dependsOn[Top.set])
    BY <2>2, <2>4
  <2> QED BY <2>2, <2>3, <2>5 DEF Top, This, m
<1> HIDE DEF k, m
<1>3. /\ stack' \in Seq(Frame) /\ Len(stack') = k + 1
      /\ \A i \in 1..k : stack'[i] = stack[i]
      /\ stack'[k + 1].set = m /\ stack'[k + 1].at = 1
  <2>1. [set |-> m, at |-> 1] \in Frame
    BY <1>2 DEF Frame
  <2> QED BY <1>1, <1>2, <2>1 DEF k
<1>4. \A i \in 1..k : stack[i].set # m
  BY <1>1, <1>2 DEF Trail, k
<1>5. ASSUME NEW i \in 1..(k + 1)
      PROVE  /\ stack'[i].set \in present /\ ~loaded[stack'[i].set]
             /\ stack'[i].at \in 1..(Len(dependsOn[stack'[i].set]) + 1)
             /\ \A j \in 1..(stack'[i].at - 1) : loaded[dependsOn[stack'[i].set][j]]
  <2>1. CASE i = k + 1
    <3>1. 1 \in 1..(Len(dependsOn[m]) + 1) /\ 1..(1 - 1) = {}
      BY <1>2
    <3> QED BY <1>1, <1>3, <2>1, <3>1
  <2>2. CASE i # k + 1
    <3>1. i \in 1..k
      BY <1>2, <2>2
    <3> QED BY <1>3, <3>1 DEF IInv, Calls, k
  <2> QED BY <2>1, <2>2
<1>6. Calls'
  BY <1>1, <1>3, <1>5 DEF Calls
<1>7. OneCallEach'
  <2>1. ASSUME NEW i \in 1..(k + 1), NEW j \in 1..(k + 1),
               stack'[i].set = stack'[j].set
        PROVE  i = j
    <3>1. (i \in 1..k \/ i = k + 1) /\ (j \in 1..k \/ j = k + 1)
      BY <1>2
    <3> QED BY <1>3, <1>4, <2>1, <3>1 DEF IInv, OneCallEach, k
  <2> QED BY <1>3, <2>1 DEF OneCallEach
<1>8. Waiting'
  <2>1. ASSUME NEW i \in 1..k
        PROVE  /\ stack'[i].at <= Len(dependsOn[stack'[i].set])
               /\ dependsOn[stack'[i].set][stack'[i].at] = stack'[i + 1].set
    <3>1. CASE i = k
      BY <1>2, <1>3, <3>1
    <3>2. CASE i # k
      <4>1. i \in 1..(k - 1) /\ i + 1 \in 1..k
        BY <1>2, <3>2
      <4> QED BY <1>3, <4>1 DEF IInv, Waiting, k
    <3> QED BY <3>1, <3>2
  <2>2. Len(stack') - 1 = k
    BY <1>2, <1>3
  <2> QED BY <1>1, <2>1, <2>2 DEF Waiting
<1> QED BY <1>1, <1>3, <1>6, <1>7, <1>8, RulesKept, RunningVerdict DEF IInv, Types

\* A dependency that is marked is passed by.
LEMMA SatisfiedIInv ==
  ASSUME IInv, Satisfied
  PROVE  IInv'
<1> DEFINE k == Len(stack)
           d == dependsOn[stack[k].set]
<1>1. /\ UNCHANGED <<input, loaded, rules>> /\ result' = "running"
      /\ present' = present /\ dependsOn' = dependsOn /\ loaded' = loaded
      /\ stack' = Skip(stack) /\ loaded[This] /\ stack # <<>> /\ ~Done
  BY DEF Satisfied, input
<1>2. /\ k \in 1..k /\ k \in Nat /\ stack[k].at \in 1..Len(d)
      /\ Len(d) \in Nat /\ loaded[d[stack[k].at]]
  <2>1. k \in 1..k /\ Top.at \in 1..Len(dependsOn[Top.set]) /\ Top.set \in Name
    BY <1>1, TopFrame DEF IInv
  <2>2. dependsOn \in [Name -> Seq(Name)] /\ stack \in Seq(Frame)
    BY DEF IInv, Types
  <2>3. Len(dependsOn[Top.set]) \in Nat
    BY <2>1, <2>2
  <2> QED BY <1>1, <2>1, <2>2, <2>3 DEF Top, This
<1>3. /\ stack' \in Seq(Frame) /\ Len(stack') = k
      /\ \A i \in 1..k : stack'[i].set = stack[i].set
      /\ \A i \in 1..(k - 1) : stack'[i] = stack[i]
      /\ stack'[k].at = stack[k].at + 1
  <2>1. stack \in Seq(Frame) /\ Len(stack) # 0
    BY <1>2 DEF IInv, Types
  <2>2. /\ Skip(stack) \in Seq(Frame) /\ Len(Skip(stack)) = Len(stack)
        /\ \A i \in 1..Len(stack) : Skip(stack)[i].set = stack[i].set
        /\ \A i \in 1..(Len(stack) - 1) : Skip(stack)[i] = stack[i]
        /\ Skip(stack)[Len(stack)].at = stack[Len(stack)].at + 1
    BY <2>1, SkipTop
  <2> QED BY <1>1, <2>2
<1> HIDE DEF k
<1>4. ASSUME NEW i \in 1..k
      PROVE  /\ stack'[i].set \in present /\ ~loaded[stack'[i].set]
             /\ stack'[i].at \in 1..(Len(dependsOn[stack'[i].set]) + 1)
             /\ \A j \in 1..(stack'[i].at - 1) : loaded[dependsOn[stack'[i].set][j]]
  <2>1. /\ stack[i].set \in present /\ ~loaded[stack[i].set]
        /\ stack[i].at \in 1..(Len(dependsOn[stack[i].set]) + 1)
        /\ \A j \in 1..(stack[i].at - 1) : loaded[dependsOn[stack[i].set][j]]
    BY <1>4 DEF IInv, Calls, k
  <2>2. CASE i = k
    <3> HIDE DEF d
    <3>1. stack'[k].set = stack[k].set
      BY <1>2, <1>3
    <3>2. stack'[k].at \in 1..(Len(d) + 1)
      BY <1>2, <1>3
    <3>3. \A j \in 1..(stack[k].at - 1) : loaded[d[j]]
      BY <2>1, <2>2 DEF d
    <3>4. \A j \in 1..(stack'[k].at - 1) : loaded[d[j]]
      BY <1>2, <1>3, <3>3
    <3> QED BY <2>1, <2>2, <3>1, <3>2, <3>4 DEF d
  <2>3. CASE i # k
    <3>1. i \in 1..(k - 1)
      BY <1>2, <2>3
    <3> QED BY <1>3, <2>1, <3>1
  <2> QED BY <2>2, <2>3
<1>5. Calls'
  BY <1>1, <1>3, <1>4 DEF Calls
<1>6. OneCallEach'
  BY <1>3 DEF IInv, OneCallEach, k
<1>7. Waiting'
  <2>1. ASSUME NEW i \in 1..(k - 1)
        PROVE  /\ stack'[i].at <= Len(dependsOn[stack'[i].set])
               /\ dependsOn[stack'[i].set][stack'[i].at] = stack'[i + 1].set
    <3>1. i \in 1..k /\ i + 1 \in 1..k
      BY <1>2, <2>1
    <3> QED BY <1>3, <2>1, <3>1 DEF IInv, Waiting, k
  <2> QED BY <1>1, <1>3, <2>1 DEF Waiting
<1> QED BY <1>1, <1>3, <1>5, <1>6, <1>7, RulesKept, RunningVerdict DEF IInv, Types

\* The dependency is the set of a frame: from there up, every frame's set
\* depends on the next, and the running one on the first.
LEMMA CircularIInv ==
  ASSUME IInv, Circular
  PROVE  IInv'
<1>1. /\ UNCHANGED <<input, loaded, rules>> /\ UNCHANGED <<input, stack, loaded>>
      /\ result' = "circular" /\ present' = present /\ dependsOn' = dependsOn
      /\ This \in Trail /\ stack # <<>> /\ ~Done
  BY DEF Circular, input
<1>2. PICK k \in 1..Len(stack) : stack[k].set = This
  <2>1. DOMAIN stack = 1..Len(stack)
    BY DEF IInv, Types
  <2> QED BY <1>1, <2>1 DEF Trail
<1> DEFINE S == {stack[i].set : i \in k..Len(stack)}
<1>3. /\ Len(stack) \in Nat /\ \A i \in 1..Len(stack) : stack[i].set \in Name
      /\ \A i \in 1..Len(stack) : stack[i].set \in present
  BY DEF IInv, Types, Calls
<1>4. S \in SUBSET present /\ S # {}
  <2>1. k \in k..Len(stack) /\ \A i \in k..Len(stack) : i \in 1..Len(stack)
    BY <1>2, <1>3
  <2> QED BY <1>3, <2>1
<1>5. ASSUME NEW i \in k..Len(stack)
      PROVE  Dependencies(stack[i].set) \cap S # {}
  <2>1. i \in 1..Len(stack) /\ k \in k..Len(stack)
    BY <1>2, <1>3, <1>5
  <2>2. CASE i = Len(stack)
    <3>1. This \in Dependencies(stack[i].set)
      BY <1>1, <2>2, TopFrame DEF IInv, Top
    <3> QED BY <1>2, <2>1, <3>1
  <2>3. CASE i # Len(stack)
    <3>1. i \in 1..(Len(stack) - 1) /\ i + 1 \in k..Len(stack)
      BY <1>2, <1>3, <1>5, <2>3
    <3>2. /\ stack[i].at <= Len(dependsOn[stack[i].set])
          /\ dependsOn[stack[i].set][stack[i].at] = stack[i + 1].set
      BY <3>1 DEF IInv, Waiting
    <3>3. stack[i].at \in 1..(Len(dependsOn[stack[i].set]) + 1)
      BY <2>1 DEF IInv, Calls
    <3>4. dependsOn[stack[i].set] \in Seq(Name)
      BY <1>3, <2>1 DEF IInv, Types
    <3>5. stack[i].at \in 1..Len(dependsOn[stack[i].set])
      BY <3>2, <3>3, <3>4
    <3>6. stack[i + 1].set \in Dependencies(stack[i].set)
      BY <1>3, <2>1, <3>2, <3>5, DependenciesAre DEF IInv
    <3> QED BY <3>1, <3>6
  <2> QED BY <2>2, <2>3
<1>6. Cyclic
  <2>1. \A n \in S : Dependencies(n) \cap S # {}
    BY <1>5
  <2> HIDE DEF S
  <2> QED BY <1>4, <2>1 DEF Cyclic
<1>7. Verdicts' /\ (result \in {"running", "ok"} \cup Error)'
  <2>1. Cyclic'
    BY <1>1, <1>6, CyclicKept
  <2> QED BY <1>1, <2>1 DEF Verdicts, Error
<1> QED BY <1>1, <1>7, RulesKept, StackKept DEF IInv, Types

\* The other ways the compilation ends.
LEMMA EndIInv ==
  ASSUME IInv, Missing \/ Uncompilable \/ Finish
  PROVE  IInv'
<1>1. /\ UNCHANGED <<input, loaded, rules>> /\ UNCHANGED <<input, stack, loaded>>
      /\ present' = present /\ broken' = broken /\ dependsOn' = dependsOn
      /\ loaded' = loaded
  BY DEF Missing, Uncompilable, Finish, input
<1>2. Verdicts' /\ (result \in {"running", "ok"} \cup Error)'
  <2>1. CASE Missing
    <3>1. /\ Top.set \in present /\ This \in Dependencies(Top.set)
          /\ This \notin present /\ result' = "missing"
      BY <2>1, TopFrame DEF IInv, Missing
    <3> QED BY <1>1, <3>1 DEF Verdicts, Dependencies, Error
  <2>2. CASE Uncompilable
    BY <1>1, <2>2 DEF Uncompilable, Verdicts, Error
  <2>3. CASE Finish
    BY <1>1, <2>3 DEF Finish, Verdicts, Pending
  <2> QED BY <2>1, <2>2, <2>3
<1> QED BY <1>1, <1>2, RulesKept, StackKept DEF IInv, Types

\* The return of a call whose rule set compiled.
LEMMA CompileIInv ==
  ASSUME IInv, Compile
  PROVE  IInv'
<1>1. result' = "running" /\ UNCHANGED <<present, broken, dependsOn>>
  BY DEF Compile, input
<1>2. (present \subseteq Name /\ broken \subseteq present
        /\ dependsOn \in [Name -> Seq(Name)])'
  BY <1>1 DEF IInv, Types
<1> QED BY <1>1, <1>2, CompileMarked, CompileOrder, CompileNoCircle, CompileStack,
           RunningVerdict DEF IInv, Types

\* The invariant is inductive.
LEMMA NextIInv ==
  IInv /\ [Next]_vars => IInv'
<1> SUFFICES ASSUME IInv, [Next]_vars PROVE IInv'
  OBVIOUS
<1>1. CASE Begin
  BY <1>1, BeginIInv
<1>2. CASE Circular
  BY <1>2, CircularIInv
<1>3. CASE Satisfied
  BY <1>3, SatisfiedIInv
<1>4. CASE Missing \/ Uncompilable \/ Finish
  BY <1>4, EndIInv
<1>5. CASE Descend
  BY <1>5, DescendIInv
<1>6. CASE Compile
  BY <1>6, CompileIInv
<1>7. CASE UNCHANGED vars
  <2>1. /\ UNCHANGED <<input, loaded, rules>> /\ UNCHANGED <<input, stack, loaded>>
        /\ present' = present /\ broken' = broken /\ dependsOn' = dependsOn
        /\ loaded' = loaded /\ result' = result
    BY <1>7 DEF vars, input
  <2>2. Verdicts' /\ (result \in {"running", "ok"} \cup Error)'
    <3>1. Cyclic' <=> Cyclic
      BY <2>1, CyclicKept
    <3>2. \A n : Dependencies(n)' = Dependencies(n)
      BY <2>1 DEF Dependencies
    <3>3. Pending' = Pending
      BY <2>1 DEF Pending
    <3> QED BY <2>1, <3>1, <3>2, <3>3 DEF IInv, Types, Verdicts
  <2> QED BY <2>1, <2>2, RulesKept, StackKept DEF IInv, Types
<1> QED BY <1>1, <1>2, <1>3, <1>4, <1>5, <1>6, <1>7 DEF Next

\* The invariant holds of every behaviour of the compilation.
THEOREM IInvHolds ==
  Spec => []IInv
BY InitIInv, NextIInv, PTL DEF Spec

\* The rules of a rule set come after those of everything it depends on,
\* whatever depends on whatever (rules/engine.go, compileRuleSet).
THEOREM RulesFollowDependencies ==
  Spec => []DependenciesFirst
<1>1. IInv => DependenciesFirst
  BY DEF IInv
<1> QED BY <1>1, IInvHolds, PTL

\* No rule set is compiled twice (rules/engine.go, alreadyLoaded).
THEOREM CompiledOnce ==
  Spec => []OnceEach
<1>1. IInv => OnceEach
  BY DEF IInv
<1> QED BY <1>1, IInvHolds, PTL

LEMMA VerdictInv == IInv => VerdictRight
<1> SUFFICES ASSUME IInv PROVE VerdictRight
  OBVIOUS
<1>1. ASSUME result = "ok"
      PROVE  /\ \A n \in present : \E i \in DOMAIN rules : rules[i] = n
             /\ broken = {} /\ ~Cyclic
             /\ \A n \in present : Dependencies(n) \subseteq present
  <2>1. \A n \in present : n \in Name /\ loaded[n]
    BY <1>1 DEF IInv, Verdicts, Pending, Types
  <2>2. DOMAIN rules = 1..Len(rules)
    BY DEF IInv, Types
  <2>3. \A n \in present : \E i \in DOMAIN rules : rules[i] = n
    BY <2>1, <2>2 DEF IInv, Marked
  <2>4. broken = {}
    BY <2>1 DEF IInv, Sound, Types
  <2>5. ASSUME NEW n \in present PROVE Dependencies(n) \subseteq present
    <3>1. ASSUME NEW m \in Dependencies(n) PROVE m \in present
      <4>1. m \in Name /\ loaded[m]
        BY <2>1, <3>1, DependenciesAre DEF IInv, Sound
      <4> QED BY <4>1 DEF IInv, Sound
    <3> QED BY <3>1
  <2>6. ~Cyclic
    <3>1. \A S \in SUBSET present : S \in SUBSET {n \in Name : loaded[n]}
      BY <2>1
    <3> QED BY <3>1 DEF Cyclic, IInv, NoCircle
  <2> QED BY <2>3, <2>4, <2>5, <2>6
<1> QED BY <1>1 DEF IInv, Verdicts, VerdictRight

\* CompileRules succeeds only when every rule set is compiled and nothing is
\* wrong with any, and an error names a fault that is there: a circle when it
\* says circular, an unknown name when it says missing.
THEOREM VerdictIsRight ==
  Spec => []VerdictRight
<1>1. IInv => VerdictRight
  BY VerdictInv
<1> QED BY <1>1, IInvHolds, PTL

\* There are no more calls than rule sets: one more would be a second call for
\* some rule set, which the trail is there to prevent.
LEMMA CallsFit ==
  ASSUME IInv
  PROVE  Len(stack) <= N
<1>1. Len(stack) \in Nat /\ N \in Nat
  BY CompilationAssumption DEF IInv, Types
<1> SUFFICES ASSUME Len(stack) > N PROVE FALSE
  BY <1>1
<1> DEFINE f == [i \in 1..Len(stack) |-> stack[i].set]
<1>2. \A i \in 1..Len(stack) : stack[i].set \in Name
  <2>1. stack \in Seq(Frame)
    BY DEF IInv, Types
  <2>2. \A i \in 1..Len(stack) : stack[i] \in Frame
    BY <2>1
  <2> QED BY <2>2 DEF Frame
<1>3. f \in [1..Len(stack) -> Name]
  BY <1>2
<1>4. IsFiniteSet(1..Len(stack)) /\ Cardinality(1..Len(stack)) = Len(stack)
  <2>1. 1 \in Int /\ Len(stack) \in Int /\ ~(1 > Len(stack)) /\ Len(stack) - 1 + 1 = Len(stack)
    BY <1>1
  <2> QED BY <2>1, FS_Interval
<1>5. IsFiniteSet(Name) /\ Cardinality(Name) = N
  BY <1>1, FS_Interval DEF Name
<1>6. \E i, j \in 1..Len(stack) : i # j /\ f[i] = f[j]
  <2> HIDE DEF f
  <2> QED BY <1>1, <1>3, <1>4, <1>5, FS_PigeonHole
<1> QED BY <1>6 DEF IInv, OneCallEach

\* Every variable has its type; in particular, compileRuleSet never recurses
\* deeper than there are rule sets.
THEOREM CompileTypeCorrect ==
  Spec => []TypeOK
<1>1. Init => dependsOn \in [Name -> DependsOn]
  BY DEF Init
<1>2. ASSUME dependsOn \in [Name -> DependsOn], [Next]_vars
      PROVE  (dependsOn \in [Name -> DependsOn])'
  <2>1. dependsOn' = dependsOn
    BY <1>2 DEF Next, vars, input, Begin, Circular, Satisfied, Missing, Descend,
           Uncompilable, Compile, Finish
  <2> QED BY <1>2, <2>1
<1>3. IInv /\ dependsOn \in [Name -> DependsOn] => TypeOK
  BY CallsFit DEF IInv, Types, TypeOK
<1> QED BY <1>1, <1>2, <1>3, IInvHolds, PTL DEF Spec
-----------------------------------------------------------------------------
(***************************************************************************)
(* Execution.  The rules before the one that is next are done with: those  *)
(* reached have matched or not, the others lie below one that did not      *)
(* match.                                                                  *)
(***************************************************************************)
\* A rule that fails once its turn comes.
Fails(i) ==
  \/ program[i].outcome = "filterFails"
  \/ program[i].outcome = "valueFails" /\ program[i].add # {}

\* The rules done with that have a say in a capability.
Before(c, n) == {i \in Deciding(program, c) : i < n}

\* The output is what those rules make of it.
Settled(c, n, held) ==
  IF Before(c, n) = {} THEN held = Absent
  ELSE \E i \in Before(c, n) :
         /\ \A j \in Before(c, n) : j <= i
         /\ held = IF c \in program[i].remove THEN Absent ELSE i

Progress ==
  /\ at <= Len(program) => at \in Reached(program)
  /\ \A i \in Reached(program) : i < at => ~Fails(i)
  /\ verdict = "ok" => at = Len(program) + 1
  /\ verdict = "error" => at <= Len(program) /\ Fails(at)

EIInv ==
  /\ ExecTypeOK /\ Progress
  /\ \A c \in Capability : Settled(c, at, output[c])
  /\ verdict = "idle" => at = 1

-----------------------------------------------------------------------------
(* The shape of a program.                                                 *)

\* A set of numbers that is not empty has a least one.
LEMMA LeastOf ==
  ASSUME NEW S \in SUBSET Nat, S # {}
  PROVE  \E n \in S : \A m \in S : n <= m
<1>1. PICK n \in S : \A m \in S : <<m, n>> \notin OpToRel(<, Nat)
  BY WFMin, NatLessThanWellFounded
<1>2. \A m \in S : ~(m < n)
  <2> SUFFICES ASSUME NEW m \in S PROVE ~(m < n)
    OBVIOUS
  <2>1. <<m, n>> \in Nat \X Nat /\ <<m, n>>[1] = m /\ <<m, n>>[2] = n
    OBVIOUS
  <2> QED BY <1>1, <2>1, Zenon DEF OpToRel
<1> QED BY <1>2

LEMMA ProgramTyped ==
  ASSUME ExecTypeOK
  PROVE  /\ Len(program) \in Nat /\ DOMAIN program = 1..Len(program)
         /\ \A i \in 1..Len(program) : program[i] \in Rule /\ program[i].depth \in Nat
<1>1. program \in Seq(Rule)
  BY DEF ExecTypeOK
<1>2. Len(program) \in Nat /\ DOMAIN program = 1..Len(program)
  BY <1>1
<1>3. \A i \in 1..Len(program) : program[i] \in Rule
  BY <1>1
<1>4. \A r \in Rule : r.depth \in Nat
  BY DEF Rule
<1> QED BY <1>2, <1>3, <1>4

\* What follows a rule and its children: the first rule behind it as deep or
\* less, with nothing but its children between.
LEMMA PastIs ==
  ASSUME ExecTypeOK, NEW i \in 1..Len(program)
  PROVE  /\ PastChildren(i) \in (i + 1)..(Len(program) + 1)
         /\ PastChildren(i) <= Len(program) => program[PastChildren(i)].depth <= program[i].depth
         /\ \A k \in (i + 1)..(PastChildren(i) - 1) : program[k].depth > program[i].depth
<1> DEFINE S == {j \in (i + 1)..(Len(program) + 1) :
                   j > Len(program) \/ program[j].depth <= program[i].depth}
<1>1. Len(program) + 1 \in S /\ S \in SUBSET Nat
  BY ProgramTyped
<1>2. PICK m \in S : \A j \in S : m <= j
  BY <1>1, LeastOf
<1>3. \A k \in (i + 1)..(m - 1) : program[k].depth > program[i].depth
  <2> SUFFICES ASSUME NEW k \in (i + 1)..(m - 1) PROVE program[k].depth > program[i].depth
    OBVIOUS
  <2>1. k \in (i + 1)..(Len(program) + 1) /\ k < m /\ k \in 1..Len(program)
    BY <1>2, ProgramTyped
  <2>2. k \notin S
    BY <1>2, <2>1
  <2> QED BY <2>1, <2>2, ProgramTyped
<1>4. \E j \in (i + 1)..(Len(program) + 1) :
        /\ j > Len(program) \/ program[j].depth <= program[i].depth
        /\ \A k \in (i + 1)..(j - 1) : program[k].depth > program[i].depth
  BY <1>2, <1>3
<1> DEFINE P == PastChildren(i)
<1>5. /\ P \in (i + 1)..(Len(program) + 1)
      /\ P > Len(program) \/ program[P].depth <= program[i].depth
      /\ \A k \in (i + 1)..(P - 1) : program[k].depth > program[i].depth
  BY <1>4 DEF PastChildren
<1> QED BY <1>5, ProgramTyped

\* The parents of the next rule are parents of this one, or this one.
LEMMA ParentsOfNext ==
  ASSUME ExecTypeOK, NEW i \in 1..Len(program)
  PROVE  Parents(program, i + 1) \subseteq Parents(program, i) \cup {i}
BY ProgramTyped DEF Parents

\* The parents of the rule behind this one's children are parents of this one.
LEMMA ParentsOfPast ==
  ASSUME ExecTypeOK, NEW i \in 1..Len(program), PastChildren(i) <= Len(program)
  PROVE  Parents(program, PastChildren(i)) \subseteq Parents(program, i)
<1> DEFINE P == PastChildren(i)
<1>1. P \in (i + 1)..Len(program) /\ program[P].depth <= program[i].depth
  BY PastIs, ProgramTyped
<1> SUFFICES ASSUME NEW j \in Parents(program, P) PROVE j \in Parents(program, i)
  OBVIOUS
<1>2. j \in 1..(P - 1) /\ \A k \in (j + 1)..P : program[k].depth > program[j].depth
  BY DEF Parents
<1>3. j < P /\ program[P].depth > program[j].depth
  BY <1>1, <1>2, ProgramTyped
<1>4. j < i
  <2> SUFFICES ASSUME j >= i PROVE FALSE
    BY <1>1, <1>2, ProgramTyped
  <2>1. program[j].depth >= program[i].depth
    <3>1. CASE j = i
      BY <3>1, ProgramTyped
    <3>2. CASE j > i
      <4>1. j \in (i + 1)..(P - 1)
        BY <1>1, <1>2, <3>2, ProgramTyped
      <4> QED BY <4>1, <1>1, <1>2, PastIs, ProgramTyped
    <3> QED BY <3>1, <3>2, <1>2, ProgramTyped
  <2> QED BY <1>1, <1>2, <1>3, <2>1, ProgramTyped
<1>5. \A k \in (j + 1)..i : k \in (j + 1)..P
  BY <1>1, <1>2, ProgramTyped
<1> QED BY <1>2, <1>4, <1>5, ProgramTyped DEF Parents

\* What is passed over lies below the rule that was not run.
LEMMA PassedOver ==
  ASSUME ExecTypeOK, NEW i \in 1..Len(program), NEW k \in (i + 1)..(PastChildren(i) - 1)
  PROVE  i \in Parents(program, k)
BY PastIs, ProgramTyped DEF Parents

-----------------------------------------------------------------------------
(* The steps.                                                              *)

\* Which rules are reached, and have a say, is a matter of the program.
LEMMA ProgramDecides ==
  ASSUME program' = program
  PROVE  /\ Reached(program)' = Reached(program)
         /\ \A i : (Fails(i))' <=> Fails(i)
         /\ \A c, n : Before(c, n)' = Before(c, n)
         /\ \A c, n, held : (Settled(c, n, held))' <=> Settled(c, n, held)
<1>1. Reached(program)' = Reached(program)
  BY DEF Reached, Parents, Matches
<1>2. \A c : Deciding(program, c)' = Deciding(program, c)
  BY <1>1 DEF Deciding, Matches
<1>3. \A c, n : Before(c, n)' = Before(c, n)
  BY <1>2 DEF Before
<1> QED BY <1>1, <1>3 DEF Fails, Settled

\* The rule that is next is left behind, matching or with its children passed
\* over: its successor is reached in its turn, and nothing failed between.
LEMMA Advance ==
  ASSUME EIInv, verdict = "running", at <= Len(program), ~Fails(at),
         UNCHANGED <<program, verdict>>,
         \/ Matches(program, at) /\ at' = at + 1
         \/ ~Matches(program, at) /\ at' = PastChildren(at)
  PROVE  /\ at' \in (at + 1)..(Len(program) + 1) /\ Progress'
         /\ \A i \in Reached(program) : i < at' => i <= at
<1>1. at \in 1..Len(program) /\ at \in Reached(program) /\ Len(program) \in Nat
  BY ProgramTyped DEF EIInv, ExecTypeOK, Progress
<1>2. at' \in (at + 1)..(Len(program) + 1)
  BY <1>1, PastIs DEF EIInv
<1>3. \A i \in Reached(program) : i \in 1..Len(program) /\ \A j \in Parents(program, i) : Matches(program, j)
  BY ProgramTyped DEF Reached, EIInv
<1>4. \A i \in Reached(program) : i < at' => i <= at
  <2> SUFFICES ASSUME NEW i \in Reached(program), i < at', i > at PROVE FALSE
    BY <1>1, <1>2, <1>3
  <2>1. ~Matches(program, at) /\ i \in (at + 1)..(PastChildren(at) - 1)
    BY <1>1, <1>2, <1>3
  <2>2. at \in Parents(program, i)
    BY <1>1, <2>1, PassedOver DEF EIInv
  <2> QED BY <1>3, <2>1, <2>2
<1>5. at' <= Len(program) => at' \in Reached(program)
  <2> SUFFICES ASSUME at' <= Len(program) PROVE \A j \in Parents(program, at') : Matches(program, j)
    BY <1>1, <1>2, ProgramTyped DEF Reached, EIInv
  <2>1. CASE Matches(program, at) /\ at' = at + 1
    BY <1>1, <1>3, <2>1, ParentsOfNext DEF EIInv
  <2>2. CASE ~Matches(program, at) /\ at' = PastChildren(at)
    BY <1>1, <1>3, <2>2, ParentsOfPast DEF EIInv
  <2> QED BY <2>1, <2>2
<1>6. \A i \in Reached(program) : i < at' => ~Fails(i)
  BY <1>1, <1>3, <1>4 DEF EIInv, Progress
<1>7. Progress'
  BY <1>5, <1>6, ProgramDecides DEF Progress
<1> QED BY <1>2, <1>4, <1>7

\* Types are kept by a step that hands at most its own number out.
LEMMA TypesKept ==
  ASSUME EIInv, UNCHANGED <<program, verdict>>, at' \in (at + 1)..(Len(program) + 1),
         output' = [c \in Capability |-> output'[c]],
         \A c \in Capability : output'[c] \in {Absent, at, output[c]}
  PROVE  ExecTypeOK'
<1>1. at \in Nat /\ Len(program) \in Nat /\ at' \in Nat /\ at < at'
  BY ProgramTyped DEF EIInv, ExecTypeOK
<1>2. output \in [Capability -> 0..(at - 1)]
  BY DEF EIInv, ExecTypeOK
<1>3. output' \in [Capability -> 0..(at' - 1)]
  BY <1>1, <1>2 DEF Absent
<1>4. WellFormed(program)' /\ at' \in 1..(Len(program') + 1)
  BY <1>1 DEF EIInv, ExecTypeOK, WellFormed
<1> QED BY <1>3, <1>4 DEF EIInv, ExecTypeOK

LEMMA NoMatchSound ==
  ASSUME EIInv, NoMatch
  PROVE  EIInv'
<1>1. /\ verdict = "running" /\ at <= Len(program) /\ at' = PastChildren(at)
      /\ program[at].outcome = "noMatch" /\ UNCHANGED <<program, output, verdict>>
  BY DEF NoMatch, Running, Now
<1>2. ~Fails(at) /\ ~Matches(program, at)
  BY <1>1 DEF Fails, Matches
<1>3. /\ at' \in (at + 1)..(Len(program) + 1) /\ Progress'
      /\ \A i \in Reached(program) : i < at' => i <= at
  BY <1>1, <1>2, Advance
<1>4. output' = [c \in Capability |-> output'[c]]
  BY <1>1 DEF EIInv, ExecTypeOK
<1>5. ExecTypeOK'
  BY <1>1, <1>3, <1>4, TypesKept
<1>6. ASSUME NEW c \in Capability PROVE Before(c, at') = Before(c, at)
  <2>1. \A i \in Deciding(program, c) : i \in Reached(program) /\ i # at /\ i \in Nat
    BY <1>2, ProgramTyped DEF Deciding, Reached, EIInv
  <2>2. at \in Nat /\ at' \in Nat /\ at < at'
    BY <1>3, ProgramTyped DEF EIInv, ExecTypeOK
  <2> QED BY <1>3, <2>1, <2>2 DEF Before
<1>7. ASSUME NEW c \in Capability PROVE Settled(c, at', output[c])
  BY <1>6 DEF EIInv, Settled
<1>8. \A c \in Capability : Settled(c, at, output[c])'
  <2> SUFFICES ASSUME NEW c \in Capability PROVE Settled(c, at, output[c])'
    OBVIOUS
  <2>1. Before(c, at)' = Before(c, at')
    BY <1>1 DEF Before, Deciding, Reached, Parents, Matches
  <2> QED BY <1>1, <1>7, <2>1 DEF Settled
<1> QED BY <1>1, <1>3, <1>5, <1>8 DEF EIInv

\* A rule that matches has the last say in what it mentions, so far.
LEMMA MatchSound ==
  ASSUME EIInv, Match \/ NoValues
  PROVE  EIInv'
<1>1. /\ verdict = "running" /\ at <= Len(program) /\ at' = at + 1
      /\ UNCHANGED <<program, verdict>>
  BY DEF Match, NoValues, Running
<1>2. ~Fails(at) /\ Matches(program, at)
  BY DEF Match, NoValues, Now, Fails, Matches
<1>3. output' = [c \in Capability |-> IF c \in program[at].remove THEN Absent
                                     ELSE IF c \in program[at].add THEN at ELSE output[c]]
  <2>1. CASE Match
    BY <2>1 DEF Match, Now
  <2>2. CASE NoValues
    <3>1. program[at].add = {}
      BY <2>2 DEF NoValues, Now
    <3> QED BY <2>2, <3>1 DEF NoValues, Now
  <2> QED BY <2>1, <2>2
<1>4. /\ at' \in (at + 1)..(Len(program) + 1) /\ Progress'
      /\ \A i \in Reached(program) : i < at' => i <= at
  BY <1>1, <1>2, Advance
<1>5. ExecTypeOK'
  BY <1>1, <1>3, <1>4, TypesKept
<1>6. at \in Nat /\ at' \in Nat /\ at < at' /\ at \in Reached(program)
      /\ \A i \in Reached(program) : i \in Nat
  BY <1>1, ProgramTyped DEF EIInv, ExecTypeOK, Progress, Reached
<1>7. \A c \in Capability : Settled(c, at, output[c])'
  <2> SUFFICES ASSUME NEW c \in Capability PROVE Settled(c, at, output[c])'
    OBVIOUS
  <2>0. Before(c, at)' = Before(c, at')
    BY <1>1 DEF Before, Deciding, Reached, Parents, Matches
  <2>1. CASE c \in program[at].add \cup program[at].remove
    <3>1. at \in Before(c, at')
      BY <1>2, <1>6, <2>1 DEF Before, Deciding
    <3>2. \A j \in Before(c, at') : j <= at
      BY <1>1, <1>6 DEF Before, Deciding
    <3>3. output'[c] = IF c \in program[at].remove THEN Absent ELSE at
      BY <1>3, <2>1
    <3> QED BY <1>1, <2>0, <3>1, <3>2, <3>3 DEF Settled
  <2>2. CASE c \notin program[at].add \cup program[at].remove
    <3>1. at \notin Deciding(program, c)
      BY <2>2 DEF Deciding
    <3>2. Before(c, at') = Before(c, at)
      <4>1. \A i \in Deciding(program, c) : i \in Nat /\ i # at
        BY <1>6, <3>1 DEF Deciding
      <4>2. \A i \in Deciding(program, c) : i < at' <=> i < at
        BY <1>1, <1>6, <4>1
      <4> QED BY <4>2 DEF Before
    <3>3. output'[c] = output[c]
      BY <1>3, <2>2
    <3>4. Settled(c, at, output[c])
      BY DEF EIInv
    <3> QED BY <1>1, <2>0, <3>2, <3>3, <3>4 DEF Settled
  <2> QED BY <2>1, <2>2
<1> QED BY <1>1, <1>4, <1>5, <1>7 DEF EIInv

\* The steps that leave the output and the place alone.
LEMMA StandingSound ==
  ASSUME EIInv, Fail \/ Return \/ UNCHANGED execVars
  PROVE  EIInv'
<1>1. UNCHANGED <<program, at, output>> /\ verdict' \in {"idle", "running", "ok", "error"}
  BY DEF Fail, Return, execVars, EIInv, ExecTypeOK
<1>2. ExecTypeOK'
  BY <1>1 DEF EIInv, ExecTypeOK, WellFormed
<1>3. verdict' = "ok" => at = Len(program) + 1
  BY ProgramTyped DEF Fail, Return, execVars, EIInv, ExecTypeOK, Progress
<1>4. verdict' = "error" => at <= Len(program) /\ Fails(at)
  BY DEF Fail, Return, execVars, EIInv, Progress, Running, Now, Fails
<1>5. Progress'
  BY <1>1, <1>3, <1>4 DEF EIInv, Progress, Reached, Parents, Matches, Fails
<1>6. \A c \in Capability : Settled(c, at, output[c])'
  <2> SUFFICES ASSUME NEW c \in Capability PROVE Settled(c, at, output[c])'
    OBVIOUS
  <2>1. Before(c, at)' = Before(c, at)
    BY <1>1 DEF Before, Deciding, Reached, Parents, Matches
  <2>2. Settled(c, at, output[c])
    BY DEF EIInv
  <2> QED BY <1>1, <2>1, <2>2 DEF Settled
<1>7. verdict' = "idle" => verdict = "idle"
  BY DEF Fail, Return, execVars
<1> QED BY <1>1, <1>2, <1>5, <1>6, <1>7 DEF EIInv

\* Before the first rule nothing has a say.
LEMMA StartSound ==
  ExecTypeOK /\ at = 1 /\ verdict \in {"idle", "running"} => EIInv
<1> SUFFICES ASSUME ExecTypeOK, at = 1, verdict \in {"idle", "running"} PROVE EIInv
  OBVIOUS
<1>1. \A i \in Reached(program) : i \in Nat /\ i >= 1
  BY ProgramTyped DEF Reached
<1>2. \A c \in Capability : Before(c, at) = {}
  BY <1>1 DEF Before, Deciding
<1>3. \A c \in Capability : output[c] = Absent
  BY DEF ExecTypeOK, Absent
<1>4. Parents(program, 1) = {}
  BY DEF Parents
<1>5. Progress
  BY <1>1, <1>4, ProgramTyped DEF Progress, Reached
<1> QED BY <1>2, <1>3, <1>5 DEF EIInv, Settled

LEMMA ExecuteSound ==
  ASSUME EIInv, NEW t \in Seq(Rule), WellFormed(t), Execute(t)
  PROVE  EIInv'
<1>1. at' = 1 /\ verdict' = "running" /\ program' = t /\ output' = output /\ at = 1
  BY DEF Execute, EIInv
<1>2. t \in Seq(Rule) /\ WellFormed(t)
  OBVIOUS
<1>3. WellFormed(program)'
  BY <1>1, <1>2 DEF WellFormed
<1>4. ExecTypeOK'
  BY <1>1, <1>2, <1>3 DEF EIInv, ExecTypeOK
<1>5. (ExecTypeOK /\ at = 1 /\ verdict \in {"idle", "running"} => EIInv)'
  BY StartSound, PTL
<1> QED BY <1>1, <1>4, <1>5

LEMMA ExecStepSound ==
  ASSUME EIInv, ExecStep \/ UNCHANGED execVars
  PROVE  EIInv'
BY NoMatchSound, MatchSound, StandingSound DEF ExecStep

-----------------------------------------------------------------------------
LEMMA ExecInitSound == ExecInit => EIInv
<1> SUFFICES ASSUME ExecInit PROVE EIInv
  OBVIOUS
<1>1. ExecTypeOK
  BY DEF ExecInit, ExecTypeOK, WellFormed, Absent
<1> QED BY <1>1, StartSound DEF ExecInit

\* Execution keeps its books in every state.
THEOREM ExecutionSound == ExecSpec => []EIInv
<1>1. ExecInit => EIInv
  BY ExecInitSound
<1>2. ASSUME EIInv, [ExecStep \/ \E t \in Trees : Execute(t)]_execVars PROVE EIInv'
  <2>1. \A t \in Trees : t \in Seq(Rule) /\ WellFormed(t)
    BY ExecutionAssumption
  <2>2. CASE \E t \in Trees : Execute(t)
    BY <1>2, <2>1, <2>2, ExecuteSound
  <2> QED BY <1>2, <2>2, ExecStepSound
<1> QED BY <1>1, <1>2, PTL DEF ExecSpec

\* Every variable has its type; the output names rules done with only.
THEOREM ExecTypeCorrect == ExecSpec => []ExecTypeOK
<1>1. EIInv => ExecTypeOK
  BY DEF EIInv
<1> QED BY <1>1, ExecutionSound, PTL

LEMMA FailsInv == EIInv => FailsIfReached
<1> SUFFICES ASSUME EIInv PROVE FailsIfReached
  OBVIOUS
<1>1. \A i \in Reached(program) : i \in 1..Len(program)
  BY ProgramTyped DEF EIInv, Reached
<1>2. \A i : program[i].outcome \in {"filterFails", "valueFails"} /\ ~Matches(program, i) <=> Fails(i)
  BY DEF Matches, Fails
<1>3. verdict = "ok" => \A i \in Reached(program) : ~Fails(i)
  BY <1>1, ProgramTyped DEF EIInv, Progress
<1>4. verdict = "error" => \E i \in Reached(program) : Fails(i)
  BY DEF EIInv, Progress
<1> QED BY <1>2, <1>3, <1>4 DEF FailsIfReached

\* Execute fails exactly when a rule it has to run fails, for any rules.
THEOREM FailsRightly == ExecSpec => []FailsIfReached
<1>1. EIInv => FailsIfReached
  BY FailsInv
<1> QED BY <1>1, ExecutionSound, PTL

LEMMA LastSayInv == EIInv => LastRuleDecides
<1> SUFFICES ASSUME EIInv, verdict = "ok", NEW c \in Capability
             PROVE  IF Deciding(program, c) = {} THEN output[c] = Absent
                    ELSE \E i \in Deciding(program, c) :
                           /\ \A j \in Deciding(program, c) : j <= i
                           /\ output[c] = IF c \in program[i].remove THEN Absent ELSE i
  BY DEF LastRuleDecides
<1>1. Before(c, at) = Deciding(program, c)
  BY ProgramTyped DEF EIInv, Progress, Before, Deciding, Reached
<1> QED BY <1>1 DEF EIInv, Settled

\* The last matching rule that mentions a capability decides it, for any rules.
THEOREM LastSayHolds == ExecSpec => []LastRuleDecides
<1>1. EIInv => LastRuleDecides
  BY LastSayInv
<1> QED BY <1>1, ExecutionSound, PTL

-----------------------------------------------------------------------------
(***************************************************************************)
(* The engine.  The compiled rules are the trees of the rule sets one      *)
(* behind the other.  A tree starts with a root, so no rule has a parent   *)
(* in another tree and each tree is run as if it were alone.               *)
(***************************************************************************)

\* Induction up to a bound.
LEMMA UpTo ==
  ASSUME NEW L \in Nat, NEW G, 0 \in G, \A n \in 0..(L - 1) : n \in G => n + 1 \in G
  PROVE  \A n \in 0..L : n \in G
<1> SUFFICES ASSUME NEW x \in 0..L, x \notin G PROVE FALSE
  OBVIOUS
<1> DEFINE S == {n \in 0..L : n \notin G}
<1>1. S \in SUBSET Nat /\ S # {}
  OBVIOUS
<1>2. PICK n \in S : \A m \in S : n <= m
  <2> HIDE DEF S
  <2> QED BY <1>1, LeastOf
<1>3. n \in 0..L /\ n # 0 /\ n - 1 \in 0..(L - 1) /\ n - 1 + 1 = n /\ n - 1 \notin S
  BY <1>2
<1> QED BY <1>3

\* One sequence behind another.
LEMMA Joined ==
  ASSUME NEW T, NEW s \in Seq(T), NEW t \in Seq(T)
  PROVE  /\ s \o t \in Seq(T) /\ Len(s) \in Nat /\ Len(t) \in Nat
         /\ Len(s \o t) = Len(s) + Len(t)
         /\ \A i \in 1..Len(s) : (s \o t)[i] = s[i]
         /\ \A i \in 1..Len(t) : (s \o t)[Len(s) + i] = t[i]
OBVIOUS

\* What is put together of g[1], g[2] and so on, step by step.
Joins(f, g, L) == f[0] = <<>> /\ \A i \in 1..L : f[i] = f[i - 1] \o g[i]

LEMMA JoinsExist ==
  ASSUME NEW L \in Nat, NEW g, \A i \in 1..L : g[i] \in Seq(Rule)
  PROVE  \E f \in [0..L -> Seq(Rule)] : Joins(f, g, L)
<1> DEFINE G == {n \in 0..L : \E f \in [0..n -> Seq(Rule)] : Joins(f, g, n)}
<1>1. 0 \in G
  <2>1. [i \in 0..0 |-> <<>>] \in [0..0 -> Seq(Rule)]
    OBVIOUS
  <2>2. Joins([i \in 0..0 |-> <<>>], g, 0)
    BY DEF Joins
  <2> QED BY <2>1, <2>2
<1>2. ASSUME NEW n \in 0..(L - 1), n \in G
      PROVE  n + 1 \in G
  <2>1. PICK f \in [0..n -> Seq(Rule)] : Joins(f, g, n)
    BY <1>2
  <2> DEFINE h == [i \in 0..(n + 1) |-> IF i = n + 1 THEN f[n] \o g[n + 1] ELSE f[i]]
  <2>2. n + 1 \in 1..L /\ n \in 0..n /\ f[n] \in Seq(Rule) /\ g[n + 1] \in Seq(Rule)
    OBVIOUS
  <2>3. f[n] \o g[n + 1] \in Seq(Rule)
    BY <2>2
  <2>4. h \in [0..(n + 1) -> Seq(Rule)]
    <3>1. \A i \in 0..(n + 1) : i # n + 1 => i \in 0..n
      OBVIOUS
    <3> QED BY <2>3, <3>1
  <2>5. Joins(h, g, n + 1)
    <3>1. h[0] = <<>>
      BY <2>1, <2>2 DEF Joins
    <3>2. ASSUME NEW i \in 1..(n + 1) PROVE h[i] = h[i - 1] \o g[i]
      <4>1. i - 1 \in 0..n /\ i - 1 # n + 1 /\ i \in 0..(n + 1)
        BY <2>2
      <4>2. h[i - 1] = f[i - 1]
        BY <4>1
      <4>3. CASE i = n + 1
        <5>1. i - 1 = n /\ h[i] = f[n] \o g[n + 1]
          BY <4>1, <4>3
        <5> QED BY <4>2, <4>3, <5>1
      <4>4. CASE i # n + 1
        <5>1. i \in 1..n
          BY <4>4
        <5> QED BY <2>1, <4>1, <4>2, <5>1, <4>4 DEF Joins
      <4> QED BY <4>3, <4>4
    <3> HIDE DEF h
    <3> QED BY <3>1, <3>2 DEF Joins
  <2>6. n + 1 \in 0..L
    OBVIOUS
  <2> HIDE DEF h
  <2> QED BY <2>4, <2>5, <2>6
<1>3. L \in G
  <2> HIDE DEF G
  <2>1. \A n \in 0..L : n \in G
    BY <1>1, <1>2, UpTo
  <2> QED BY <2>1
<1> QED BY <1>3

LEMMA JoinsTyped ==
  ASSUME NEW L \in Nat, NEW g, \A i \in 1..L : g[i] \in Seq(Rule),
         NEW f, Joins(f, g, L)
  PROVE  \A n \in 0..L : f[n] \in Seq(Rule)
<1> DEFINE G == {n \in 0..L : f[n] \in Seq(Rule)}
<1>0. ASSUME NEW i \in 1..L
      PROVE  f[i] = f[i - 1] \o g[i] /\ g[i] \in Seq(Rule)
  BY DEF Joins
<1>1. 0 \in G
  <2>1. f[0] = <<>> /\ <<>> \in Seq(Rule) /\ 0 \in 0..L
    BY DEF Joins
  <2> QED BY <2>1
<1>2. ASSUME NEW n \in 0..(L - 1), n \in G
      PROVE  n + 1 \in G
  <2>1. n + 1 \in 1..L /\ n + 1 - 1 = n /\ n + 1 \in 0..L
    OBVIOUS
  <2> DEFINE k == n + 1
  <2>2. f[k] = f[k - 1] \o g[k] /\ g[k] \in Seq(Rule)
    BY <1>0, <2>1
  <2> HIDE DEF k
  <2>3. k = n + 1 /\ k - 1 = n /\ k \in 0..L
    BY <2>1 DEF k
  <2>4. f[n] \in Seq(Rule)
    BY <1>2
  <2>5. f[k] \in Seq(Rule)
    BY <2>2, <2>3, <2>4
  <2>6. k \in G
    BY <2>3, <2>5
  <2> QED BY <2>3, <2>6
<1>3. \A n \in 0..L : n \in G
  <2> HIDE DEF G
  <2> QED BY <1>1, <1>2, UpTo
<1> QED BY <1>3

\* Every sequence put together so far is a beginning of every later one.
LEMMA JoinsGrow ==
  ASSUME NEW L \in Nat, NEW g \in [1..L -> Seq(Rule)],
         NEW f \in [0..L -> Seq(Rule)], Joins(f, g, L)
  PROVE  \A n \in 0..L : \A m \in 0..n :
           Len(f[m]) <= Len(f[n]) /\ \A i \in 1..Len(f[m]) : f[n][i] = f[m][i]
<1>0. ASSUME NEW i \in 1..L
      PROVE  f[i] = f[i - 1] \o g[i] /\ g[i] \in Seq(Rule)
  BY DEF Joins
<1>4. \A n \in 0..L : f[n] \in Seq(Rule) /\ Len(f[n]) \in Nat
  OBVIOUS
<1> DEFINE H == {n \in 0..L : \A m \in 0..n :
                   Len(f[m]) <= Len(f[n]) /\ \A i \in 1..Len(f[m]) : f[n][i] = f[m][i]}
<1>5. 0 \in H
  <2>1. \A m \in 0..0 : m = 0
    OBVIOUS
  <2> QED BY <1>4, <2>1
<1>6. ASSUME NEW n \in 0..(L - 1), n \in H
      PROVE  n + 1 \in H
  <2>1. n + 1 \in 1..L /\ n + 1 - 1 = n /\ n + 1 \in 0..L /\ n \in 0..L
    OBVIOUS
  <2> DEFINE k == n + 1
  <2>2. f[k] = f[k - 1] \o g[k] /\ g[k] \in Seq(Rule)
    BY <1>0, <2>1
  <2> HIDE DEF k, H
  <2>3. k = n + 1 /\ k - 1 = n /\ k \in 0..L /\ n \in 0..L /\ f[n] \in Seq(Rule)
    BY <1>4, <2>1 DEF k
  <2>4. f[k] = f[n] \o g[k]
    BY <2>2, <2>3
  <2>5. Len(f[n]) <= Len(f[k]) /\ \A i \in 1..Len(f[n]) : f[k][i] = f[n][i]
    <3>1. /\ Len(f[n]) \in Nat /\ Len(g[k]) \in Nat /\ Len(f[k]) = Len(f[n]) + Len(g[k])
          /\ \A i \in 1..Len(f[n]) : f[k][i] = f[n][i]
      BY <2>2, <2>3, <2>4, Joined
    <3>2. Len(f[n]) <= Len(f[k])
      BY <2>3, <3>1
    <3> QED BY <3>1, <3>2
  <2>6. ASSUME NEW m \in 0..k
        PROVE  Len(f[m]) <= Len(f[k]) /\ \A i \in 1..Len(f[m]) : f[k][i] = f[m][i]
    <3>1. CASE m = k
      <4>1. Len(f[k]) \in Nat
        BY <1>4, <2>3
      <4> QED BY <3>1, <4>1
    <3>2. CASE m # k
      <4>1. m \in 0..n /\ m \in 0..L
        BY <2>3, <3>2
      <4>2. Len(f[m]) <= Len(f[n]) /\ \A i \in 1..Len(f[m]) : f[n][i] = f[m][i]
        BY <1>6, <4>1 DEF H
      <4>3. Len(f[m]) \in Nat /\ Len(f[n]) \in Nat /\ Len(f[k]) \in Nat
        BY <1>4, <2>3, <4>1
      <4>4. \A i \in 1..Len(f[m]) : i \in 1..Len(f[n])
        BY <4>2, <4>3
      <4> QED BY <2>5, <4>2, <4>3, <4>4
    <3> QED BY <3>1, <3>2
  <2>7. k \in H
    BY <2>3, <2>6 DEF H
  <2> QED BY <2>3, <2>7
<1>7. \A n \in 0..L : n \in H
  <2> HIDE DEF H
  <2> QED BY <1>5, <1>6, UpTo
<1> QED BY <1>7

\* A program that is made of the trees g[1] to g[L], the rules of g[k] behind
\* the first start[k - 1].
Laid(t, g, L, start) ==
  /\ t \in Seq(Rule) /\ Len(t) = start[L]
  /\ start \in [0..L -> Nat] /\ start[0] = 0
  /\ \A k \in 0..L : \A l \in 0..k : start[l] <= start[k]
  /\ \A k \in 1..L :
       /\ start[k] = start[k - 1] + Len(g[k])
       /\ \A j \in 1..Len(g[k]) : t[start[k - 1] + j] = g[k][j]

Forest(g, L) ==
  g \in [1..L -> Seq(Rule)] /\ \A k \in 1..L : WellFormed(g[k])

LEMMA LaidOut ==
  ASSUME NEW L \in Nat, NEW g \in [1..L -> Seq(Rule)],
         NEW f \in [0..L -> Seq(Rule)], Joins(f, g, L)
  PROVE  \E start : Laid(f[L], g, L, start)
<1> DEFINE start == [k \in 0..L |-> Len(f[k])]
<1>0. \A n \in 0..L : \A m \in 0..n :
        Len(f[m]) <= Len(f[n]) /\ \A i \in 1..Len(f[m]) : f[n][i] = f[m][i]
  BY JoinsGrow
<1>1. L \in 0..L /\ 0 \in 0..L /\ \A k \in 0..L : f[k] \in Seq(Rule) /\ Len(f[k]) \in Nat
  OBVIOUS
<1>2. start \in [0..L -> Nat] /\ \A k \in 0..L : start[k] = Len(f[k])
  BY <1>1
<1> HIDE DEF start
<1>3. start[0] = 0 /\ Len(f[L]) = start[L] /\ f[L] \in Seq(Rule)
  <2>1. Len(f[0]) = 0
    BY DEF Joins
  <2> QED BY <1>1, <1>2, <2>1
<1>4. \A k \in 0..L : \A l \in 0..k : start[l] <= start[k]
  <2> SUFFICES ASSUME NEW k \in 0..L, NEW l \in 0..k PROVE start[l] <= start[k]
    OBVIOUS
  <2>1. l \in 0..L /\ Len(f[l]) <= Len(f[k])
    BY <1>0
  <2> QED BY <1>2, <2>1
<1>5. ASSUME NEW k \in 1..L
      PROVE  /\ start[k] = start[k - 1] + Len(g[k])
             /\ \A j \in 1..Len(g[k]) : f[L][start[k - 1] + j] = g[k][j]
  <2>1. PICK l \in 0..L : l = k - 1
    OBVIOUS
  <2>2. k \in 0..L /\ f[k] = f[l] \o g[k] /\ g[k] \in Seq(Rule)
    <3>1. f[k] = f[k - 1] \o g[k]
      BY DEF Joins
    <3> QED BY <2>1, <3>1
  <2>3. /\ Len(f[l]) \in Nat /\ Len(g[k]) \in Nat /\ Len(f[k]) = Len(f[l]) + Len(g[k])
        /\ \A j \in 1..Len(g[k]) : f[k][Len(f[l]) + j] = g[k][j]
    BY <1>1, <2>1, <2>2, Joined
  <2>4. \A i \in 1..Len(f[k]) : f[L][i] = f[k][i]
    <3>1. k \in 0..L /\ L \in 0..L
      BY <1>1, <2>2
    <3> QED BY <1>0, <3>1
  <2>5. start[l] = Len(f[l]) /\ start[k] = Len(f[k])
    BY <1>2, <2>1, <2>2
  <2>6. \A j \in 1..Len(g[k]) : f[L][Len(f[l]) + j] = g[k][j]
    <3> SUFFICES ASSUME NEW j \in 1..Len(g[k]) PROVE f[L][Len(f[l]) + j] = g[k][j]
      OBVIOUS
    <3>1. Len(f[l]) + j \in 1..Len(f[k])
      BY <2>3, <2>1, <2>2
    <3> QED BY <2>3, <2>4, <3>1
  <2> QED BY <2>1, <2>3, <2>5, <2>6
<1> QED BY <1>2, <1>3, <1>4, <1>5 DEF Laid

\* A rule of a tree has its place in the program,
LEMMA PlaceOf ==
  ASSUME NEW L \in Nat, NEW g, Forest(g, L), NEW t, NEW start, Laid(t, g, L, start),
         NEW k \in 1..L, NEW j \in 1..Len(g[k])
  PROVE  /\ k - 1 \in 0..L /\ start[k - 1] \in Nat /\ start[k] \in Nat /\ Len(t) \in Nat
         /\ Len(g[k]) \in Nat /\ start[k] = start[k - 1] + Len(g[k]) /\ start[k] <= Len(t)
         /\ start[k - 1] + j \in 1..Len(t)
         /\ t[start[k - 1] + j] = g[k][j]
         /\ g[k][j] \in Rule /\ g[k][j].depth \in Nat
<1>1. k - 1 \in 0..L /\ k \in 0..L /\ L \in 0..L /\ k \in 0..L
  OBVIOUS
<1>2. start[k - 1] \in Nat /\ start[k] \in Nat /\ start[k] <= start[L] /\ start[L] \in Nat
  BY <1>1 DEF Laid
<1>3. g[k] \in Seq(Rule) /\ Len(g[k]) \in Nat
  BY DEF Forest
<1>4. /\ start[k] = start[k - 1] + Len(g[k]) /\ Len(t) = start[L]
      /\ t[start[k - 1] + j] = g[k][j]
  BY DEF Laid
<1>5. g[k][j] \in Rule
  BY <1>3
<1>6. g[k][j].depth \in Nat
  BY <1>5 DEF Rule
<1> QED BY <1>1, <1>2, <1>3, <1>4, <1>5, <1>6

\* and every place is that of a rule of a tree.
LEMMA RuleAt ==
  ASSUME NEW L \in Nat, NEW g, Forest(g, L), NEW t, NEW start, Laid(t, g, L, start),
         NEW i \in 1..Len(t)
  PROVE  \E k \in 1..L : \E j \in 1..Len(g[k]) : i = start[k - 1] + j
<1>1. /\ start \in [0..L -> Nat] /\ start[0] = 0 /\ Len(t) = start[L] /\ i \in Nat
      /\ i <= start[L] /\ L \in 0..L
  BY DEF Laid
<1> DEFINE S == {n \in 0..L : i <= start[n]}
<1>2. S \in SUBSET Nat /\ L \in S
  BY <1>1
<1>3. PICK k \in S : \A n \in S : k <= n
  <2> HIDE DEF S
  <2> QED BY <1>2, LeastOf
<1>4. k \in 0..L /\ i <= start[k] /\ k # 0
  BY <1>1, <1>3
<1>5. PICK l \in 0..L : l = k - 1
  BY <1>4
<1>6. ~(i <= start[l])
  BY <1>3, <1>5
<1>7. k \in 1..L /\ g[k] \in Seq(Rule) /\ start[k] = start[l] + Len(g[k])
  BY <1>4, <1>5 DEF Laid, Forest
<1>8. /\ start[l] \in Nat /\ start[k] \in Nat /\ Len(g[k]) \in Nat
      /\ i - start[l] \in 1..Len(g[k]) /\ i = start[l] + (i - start[l])
  BY <1>1, <1>4, <1>5, <1>6, <1>7
<1> QED BY <1>5, <1>7, <1>8

LEMMA LaidWellFormed ==
  ASSUME NEW L \in Nat, NEW g, Forest(g, L), NEW t, NEW start, Laid(t, g, L, start)
  PROVE  WellFormed(t)
<1>0. /\ Len(t) \in Nat /\ t \in Seq(Rule)
      /\ \A k \in 1..L : \A j \in 1..Len(g[k]) : t[start[k - 1] + j] = g[k][j]
  BY DEF Laid
<1>1. ASSUME t # <<>> PROVE t[1].depth = 0
  <2>1. 1 \in 1..Len(t)
    BY <1>0, <1>1
  <2>2. PICK k \in 1..L : \E j \in 1..Len(g[k]) : 1 = start[k - 1] + j
    BY <2>1, RuleAt
  <2>3. PICK j \in 1..Len(g[k]) : 1 = start[k - 1] + j
    BY <2>2
  <2>4. start[k - 1] \in Nat /\ t[start[k - 1] + j] = g[k][j] /\ Len(g[k]) \in Nat
    BY PlaceOf
  <2>5. j = 1 /\ t[1] = g[k][1] /\ g[k] # <<>>
    BY <2>3, <2>4
  <2> QED BY <2>5 DEF Forest, WellFormed
<1>2. ASSUME NEW i \in 2..Len(t) PROVE t[i].depth <= t[i - 1].depth + 1
  <2>1. i \in 1..Len(t) /\ i - 1 \in 1..Len(t)
    BY <1>0
  <2>2. PICK k \in 1..L : \E j \in 1..Len(g[k]) : i = start[k - 1] + j
    BY <2>1, RuleAt
  <2>3. PICK j \in 1..Len(g[k]) : i = start[k - 1] + j
    BY <2>2
  <2>4. start[k - 1] \in Nat /\ t[i] = g[k][j] /\ Len(g[k]) \in Nat
    BY <2>3, PlaceOf
  <2>5. CASE j = 1
    <3>1. t[i - 1] \in Rule
      BY <1>0, <2>1
    <3>2. t[i - 1].depth \in Nat
      BY <3>1 DEF Rule
    <3>3. g[k][1].depth = 0
      <4>1. g[k] # <<>>
        BY <2>4, <2>5
      <4> QED BY <4>1 DEF Forest, WellFormed
    <3> QED BY <2>4, <2>5, <3>2, <3>3
  <2>6. CASE j # 1
    <3>1. PICK h \in 1..Len(g[k]) : h = j - 1
      BY <2>4, <2>6
    <3>0. PICK s \in Nat : s = start[k - 1]
      BY <2>4
    <3>a. j \in 2..Len(g[k])
      BY <2>4, <2>6
    <3>b. i - 1 = s + h
      <4>1. i = s + j
        BY <2>3, <3>0
      <4>2. j \in Int
        BY <2>4
      <4> QED BY <3>1, <4>1, <4>2
    <3>2. j \in 2..Len(g[k]) /\ i - 1 = start[k - 1] + h
      BY <3>0, <3>a, <3>b
    <3>3. t[i - 1] = g[k][h]
      <4>1. t[start[k - 1] + h] = g[k][h]
        BY <1>0
      <4> QED BY <3>2, <4>1
    <3>4. g[k][j].depth <= g[k][j - 1].depth + 1
      BY <3>2 DEF Forest, WellFormed
    <3> QED BY <2>4, <3>1, <3>3, <3>4
  <2> QED BY <2>5, <2>6
<1> QED BY <1>1, <1>2 DEF WellFormed

\* The rules of a tree u in a program t, behind the first s.
Part(t, s, u) ==
  /\ s + Len(u) <= Len(t) /\ \A i \in 1..Len(u) : t[s + i] = u[i]
  /\ u # <<>> => u[1].depth = 0

LEMMA ParentIff ==
  ASSUME NEW t \in Seq(Rule), NEW i \in 1..Len(t), NEW j
  PROVE  j \in Parents(t, i) <=>
           j \in 1..(i - 1) /\ \A k \in (j + 1)..i : t[k].depth > t[j].depth
BY DEF Parents

\* No rule has a parent in another tree.
LEMMA ParentsOfPart ==
  ASSUME NEW t \in Seq(Rule), NEW u \in Seq(Rule), NEW s \in Nat, Part(t, s, u),
         NEW j \in 1..Len(u)
  PROVE  /\ \A p \in Parents(u, j) : p \in 1..Len(u) /\ s + p \in Parents(t, s + j)
         /\ \A q \in Parents(t, s + j) : \E p \in Parents(u, j) : q = s + p
<1>1. /\ Len(u) \in Nat /\ Len(t) \in Nat /\ s + Len(u) <= Len(t)
      /\ \A i \in 1..Len(u) : s + i \in 1..Len(t) /\ t[s + i] = u[i]
  BY DEF Part
<1>2. /\ \A i \in 1..Len(u) : u[i] \in Rule
      /\ \A i \in 1..Len(t) : t[i] \in Rule
      /\ \A r \in Rule : r.depth \in Nat
      /\ u[1].depth = 0
  <2>1. u # <<>>
    BY <1>1
  <2>2. u[1].depth = 0
    BY <2>1 DEF Part
  <2>3. \A r \in Rule : r.depth \in Nat
    BY DEF Rule
  <2> QED BY <2>2, <2>3
<1>3. ASSUME NEW p \in Parents(u, j)
      PROVE  p \in 1..Len(u) /\ s + p \in Parents(t, s + j)
  <2>1. p \in 1..(j - 1) /\ \A i \in (p + 1)..j : u[i].depth > u[p].depth
    BY ParentIff
  <2>2. p \in 1..Len(u) /\ s + p \in 1..(s + j - 1) /\ s + j \in 1..Len(t)
    BY <1>1, <2>1
  <2>3. ASSUME NEW i \in (s + p + 1)..(s + j) PROVE t[i].depth > t[s + p].depth
    <3>1. PICK h \in (p + 1)..j : i = s + h
      <4>1. i - s \in (p + 1)..j /\ i = s + (i - s)
        BY <1>1, <2>2
      <4> QED BY <4>1
    <3>2. h \in 1..Len(u)
      BY <1>1, <2>2
    <3> QED BY <1>1, <2>1, <2>2, <3>1, <3>2
  <2> QED BY <2>2, <2>3, ParentIff
<1>4. ASSUME NEW q \in Parents(t, s + j)
      PROVE  \E p \in Parents(u, j) : q = s + p
  <2>0. PICK n \in 1..Len(t) : n = s + j
    BY <1>1
  <2>1. q \in 1..(n - 1) /\ \A i \in (q + 1)..n : t[i].depth > t[q].depth
    BY <2>0, ParentIff
  <2>2. q > s
    <3> SUFFICES ASSUME q <= s PROVE FALSE
      BY <1>1, <2>1
    <3>1. s + 1 \in (q + 1)..n /\ 1 \in 1..Len(u) /\ q \in 1..Len(t)
      BY <1>1, <2>0, <2>1
    <3>2. t[s + 1].depth = 0 /\ t[s + 1].depth > t[q].depth
      BY <1>1, <1>2, <2>1, <3>1
    <3>3. t[q].depth \in Nat
      BY <1>2, <3>1
    <3> QED BY <3>2, <3>3
  <2>3. PICK p \in 1..(j - 1) : q = s + p
    <3>1. q - s \in 1..(j - 1) /\ q = s + (q - s)
      BY <1>1, <2>0, <2>1, <2>2
    <3> QED BY <3>1
  <2>4. ASSUME NEW i \in (p + 1)..j PROVE u[i].depth > u[p].depth
    <3>1. s + i \in (q + 1)..n /\ i \in 1..Len(u) /\ p \in 1..Len(u)
      BY <1>1, <2>0, <2>3
    <3>2. t[s + i].depth > t[q].depth
      BY <2>1, <3>1
    <3> QED BY <1>1, <2>3, <3>1, <3>2
  <2>5. p \in Parents(u, j)
    BY <2>3, <2>4, ParentIff
  <2> QED BY <2>3, <2>5
<1> QED BY <1>3, <1>4

\* A rule has a say in the program exactly when it has one in its tree.
LEMMA DecidingOfPart ==
  ASSUME NEW t \in Seq(Rule), NEW u \in Seq(Rule), NEW s \in Nat, Part(t, s, u),
         NEW j \in 1..Len(u), NEW c
  PROVE  s + j \in Deciding(t, c) <=> j \in Deciding(u, c)
<1>1. \A i \in 1..Len(u) : s + i \in 1..Len(t) /\ t[s + i] = u[i]
  BY DEF Part
<1>2. \A i \in 1..Len(u) : Matches(t, s + i) <=> Matches(u, i)
  BY <1>1 DEF Matches
<1>3. /\ \A p \in Parents(u, j) : p \in 1..Len(u) /\ s + p \in Parents(t, s + j)
      /\ \A q \in Parents(t, s + j) : \E p \in Parents(u, j) : q = s + p
  BY ParentsOfPart
<1>4. s + j \in Reached(t) <=> j \in Reached(u)
  <2>1. s + j \in DOMAIN t /\ j \in DOMAIN u
    BY <1>1
  <2>2. (\A q \in Parents(t, s + j) : Matches(t, q))
           <=> (\A p \in Parents(u, j) : Matches(u, p))
    BY <1>2, <1>3
  <2> QED BY <2>1, <2>2 DEF Reached
<1> QED BY <1>1, <1>2, <1>4 DEF Deciding

LEMMA DecidingLaid ==
  ASSUME NEW L \in Nat, NEW g, Forest(g, L), NEW t, NEW start, Laid(t, g, L, start),
         NEW k \in 1..L, NEW j \in 1..Len(g[k]), NEW c
  PROVE  start[k - 1] + j \in Deciding(t, c) <=> j \in Deciding(g[k], c)
<1>1. PICK s : s = start[k - 1]
  OBVIOUS
<1>2. PICK u : u = g[k]
  OBVIOUS
<1>3. /\ s \in Nat /\ s + Len(u) <= Len(t) /\ \A i \in 1..Len(u) : t[s + i] = u[i]
      /\ j \in 1..Len(u)
  BY <1>1, <1>2, PlaceOf
<1>4. t \in Seq(Rule) /\ u \in Seq(Rule) /\ WellFormed(u)
  BY <1>2 DEF Laid, Forest
<1>5. Part(t, s, u)
  BY <1>3, <1>4 DEF Part, WellFormed
<1> QED BY <1>1, <1>2, <1>3, <1>4, <1>5, DecidingOfPart

-----------------------------------------------------------------------------
\* The trees of the rule sets in the order they were compiled in.
InOrder(c) == [k \in 1..Len(rules) |-> c[rules[k]]]

\* The compiled rules are those trees, one behind the other.
LEMMA CompiledLaid ==
  ASSUME rules \in Seq(Name), NEW c, \A k \in 1..Len(rules) : c[rules[k]] \in Seq(Rule)
  PROVE  \E start : Laid(Compiled(c), InOrder(c), Len(rules), start)
<1>1. PICK L \in Nat : L = Len(rules)
  OBVIOUS
<1>2. PICK g \in [1..L -> Seq(Rule)] : g = InOrder(c) /\ \A k \in 1..L : g[k] = c[rules[k]]
  <2>1. InOrder(c) = [k \in 1..L |-> c[rules[k]]]
    BY <1>1 DEF InOrder
  <2>2. \A k \in 1..L : c[rules[k]] \in Seq(Rule)
    BY <1>1
  <2> QED BY <2>1, <2>2
<1> DEFINE Step(f) == f = [i \in 0..L |-> IF i = 0 THEN <<>> ELSE f[i - 1] \o c[rules[i]]]
           f == CHOOSE h : Step(h)
<1>3. Compiled(c) = f[L]
  BY <1>1 DEF Compiled
<1>4. \E h : Step(h)
  <2>1. PICK h \in [0..L -> Seq(Rule)] : Joins(h, g, L)
    BY JoinsExist
  <2>2. \A i \in 0..L : h[i] = IF i = 0 THEN <<>> ELSE h[i - 1] \o c[rules[i]]
    <3> SUFFICES ASSUME NEW i \in 0..L
                 PROVE  h[i] = IF i = 0 THEN <<>> ELSE h[i - 1] \o c[rules[i]]
      OBVIOUS
    <3>1. CASE i = 0
      BY <2>1, <3>1 DEF Joins
    <3>2. CASE i # 0
      <4>1. i \in 1..L
        BY <3>2
      <4>2. h[i] = h[i - 1] \o g[i] /\ g[i] = c[rules[i]]
        BY <1>2, <2>1, <4>1 DEF Joins
      <4> QED BY <3>2, <4>2
    <3> QED BY <3>1, <3>2
  <2>3. Step(h)
    BY <2>2
  <2> QED BY <2>3
<1>5. Step(f)
  BY <1>4
<1> HIDE DEF f
<1>6. Joins(f, g, L)
  BY <1>2, <1>5 DEF Joins
<1>7. \A n \in 0..L : f[n] \in Seq(Rule)
  BY <1>6, JoinsTyped
<1>8. f \in [0..L -> Seq(Rule)]
  BY <1>5, <1>7
<1>9. \E start : Laid(f[L], g, L, start)
  BY <1>6, <1>8, LaidOut
<1> QED BY <1>1, <1>2, <1>3, <1>9

\* What compilation leaves: the rule sets, each once, behind what they need.
Ordered ==
  /\ rules \in Seq(Name) /\ dependsOn \in [Name -> Seq(Name)]
  /\ DependenciesFirst /\ OnceEach
  /\ \A n \in present : \E k \in 1..Len(rules) : rules[k] = n
  /\ \A k \in 1..Len(rules) : rules[k] \in present

\* A rule set needs none that was compiled after it.
LEMMA NeedsAreBehind ==
  ASSUME Ordered, NEW l \in 1..Len(rules), NEW n \in Needs(rules[l])
  PROVE  \E j \in 1..(l - 1) : rules[j] = n
<1> DEFINE S == {rules[j] : j \in 1..(l - 1)}
<1>1. Len(rules) \in Nat /\ DOMAIN rules = 1..Len(rules) /\ l \in Nat
      /\ \A k \in 1..Len(rules) : rules[k] \in Name
  BY DEF Ordered
<1>2. \A k \in 1..l : \A m \in Dependencies(rules[k]) : \E j \in 1..(k - 1) : rules[j] = m
  <2> SUFFICES ASSUME NEW k \in 1..l
               PROVE  \A m \in Dependencies(rules[k]) : \E j \in 1..(k - 1) : rules[j] = m
    OBVIOUS
  <2>1. k \in DOMAIN rules
    BY <1>1
  <2> QED BY <2>1 DEF Ordered, DependenciesFirst
<1>3. S \subseteq Name
  BY <1>1
<1>4. Dependencies(rules[l]) \subseteq S
  <2>1. l \in 1..l
    BY <1>1
  <2> QED BY <1>2, <2>1
<1>5. ASSUME NEW k \in S PROVE Dependencies(k) \subseteq S
  <2>1. PICK j \in 1..(l - 1) : k = rules[j]
    OBVIOUS
  <2>2. j \in 1..l /\ \A i \in 1..(j - 1) : i \in 1..(l - 1)
    BY <1>1
  <2> QED BY <1>2, <2>1, <2>2
<1>6. n \in S
  <2> HIDE DEF S
  <2> QED BY <1>3, <1>4, <1>5 DEF Needs
<1> QED BY <1>6

LEMMA OverrulesIfOrdered ==
  ASSUME Ordered, contents \in [present -> Trees], program = Compiled(contents),
         LastRuleDecides, verdict = "ok"
  PROVE  DependentOverrules
<1>1. PICK L \in Nat : L = Len(rules)
  BY DEF Ordered
<1>2. PICK g : g = InOrder(contents)
  OBVIOUS
<1>3. \A k \in 1..L : rules[k] \in present /\ contents[rules[k]] \in Seq(Rule)
                      /\ WellFormed(contents[rules[k]]) /\ g[k] = contents[rules[k]]
  BY <1>1, <1>2, ExecutionAssumption DEF Ordered, InOrder
<1>4. Forest(g, L)
  BY <1>1, <1>2, <1>3 DEF Forest, InOrder
<1>5. PICK start : Laid(program, g, L, start)
  BY <1>1, <1>2, <1>3, CompiledLaid DEF Ordered
<1>6. DOMAIN contents = present /\ DOMAIN rules = 1..L
  BY <1>1 DEF Ordered
<1> SUFFICES ASSUME NEW c \in Capability
             PROVE  IF Speakers(c) = {} THEN output[c] = Absent
                    ELSE \E n \in Speakers(c) :
                           /\ \A m \in Speakers(c) : n \notin Needs(m)
                           /\ (output[c] # Absent) <=> Adds(n, c)
  BY DEF DependentOverrules
<1>7. \A k \in 1..L : \A j \in 1..Len(g[k]) :
        /\ start[k - 1] + j \in Deciding(program, c) <=> j \in Deciding(g[k], c)
        /\ start[k - 1] + j \in 1..Len(program)
        /\ program[start[k - 1] + j] = g[k][j]
        /\ start[k - 1] \in Nat
  <2> SUFFICES ASSUME NEW k \in 1..L, NEW j \in 1..Len(g[k])
               PROVE  /\ start[k - 1] + j \in Deciding(program, c) <=> j \in Deciding(g[k], c)
                      /\ start[k - 1] + j \in 1..Len(program)
                      /\ program[start[k - 1] + j] = g[k][j]
                      /\ start[k - 1] \in Nat
    OBVIOUS
  <2>1. start[k - 1] + j \in Deciding(program, c) <=> j \in Deciding(g[k], c)
    BY <1>4, <1>5, DecidingLaid
  <2>2. /\ start[k - 1] + j \in 1..Len(program)
        /\ program[start[k - 1] + j] = g[k][j]
        /\ start[k - 1] \in Nat
    BY <1>4, <1>5, PlaceOf
  <2> QED BY <2>1, <2>2
<1>8. \A i \in Deciding(program, c) :
        i \in Nat /\ \E k \in 1..L : \E j \in 1..Len(g[k]) : i = start[k - 1] + j
  <2>1. \A i \in Deciding(program, c) : i \in DOMAIN program
    BY DEF Deciding, Reached
  <2>2. DOMAIN program = 1..Len(program) /\ Len(program) \in Nat
    BY <1>5 DEF Laid
  <2> QED BY <1>4, <1>5, <2>1, <2>2, RuleAt
<1>9. \A k \in 1..L : \A j \in Deciding(g[k], c) : j \in 1..Len(g[k])
  <2>1. \A k \in 1..L : DOMAIN g[k] = 1..Len(g[k])
    BY <1>3
  <2> QED BY <2>1 DEF Deciding, Reached
<1>10. \A n \in Speakers(c) : \E k \in 1..L : n = rules[k] /\ Deciding(g[k], c) # {}
  <2> SUFFICES ASSUME NEW n \in Speakers(c)
               PROVE  \E k \in 1..L : n = rules[k] /\ Deciding(g[k], c) # {}
    OBVIOUS
  <2>1. n \in present /\ Deciding(contents[n], c) # {}
    BY <1>6 DEF Speakers
  <2>2. PICK k \in 1..L : rules[k] = n
    BY <1>1, <2>1 DEF Ordered
  <2> QED BY <1>3, <2>1, <2>2
<1>11. CASE Speakers(c) = {}
  <2>1. ASSUME NEW i \in Deciding(program, c) PROVE FALSE
    <3>1. PICK k \in 1..L : \E j \in 1..Len(g[k]) : i = start[k - 1] + j
      BY <1>8
    <3>2. PICK j \in 1..Len(g[k]) : i = start[k - 1] + j
      BY <3>1
    <3>3. j \in Deciding(g[k], c)
      BY <1>7, <3>2
    <3>4. rules[k] \in Speakers(c)
      BY <1>3, <1>6, <3>3 DEF Speakers
    <3> QED BY <1>11, <3>4
  <2>2. output[c] = Absent
    BY <2>1 DEF LastRuleDecides
  <2> QED BY <1>11, <2>2
<1>12. CASE Speakers(c) # {}
  <2>1. PICK n0 \in Speakers(c) : TRUE
    BY <1>12
  <2>2. PICK k0 \in 1..L : Deciding(g[k0], c) # {}
    BY <1>10, <2>1
  <2>3. PICK j0 \in Deciding(g[k0], c) : TRUE
    BY <2>2
  <2>4. Deciding(program, c) # {}
    BY <1>7, <1>9, <2>3
  <2>5. PICK i \in Deciding(program, c) :
          /\ \A h \in Deciding(program, c) : h <= i
          /\ output[c] = IF c \in program[i].remove THEN Absent ELSE i
    BY <2>4 DEF LastRuleDecides
  <2>6. PICK k \in 1..L : \E j \in 1..Len(g[k]) : i = start[k - 1] + j
    BY <1>8
  <2>7. PICK j \in 1..Len(g[k]) : i = start[k - 1] + j
    BY <2>6
  <2>8. PICK n : n = rules[k]
    OBVIOUS
  <2>9. j \in Deciding(g[k], c) /\ n \in Speakers(c)
    <3>1. j \in Deciding(g[k], c)
      BY <1>7, <2>7
    <3> QED BY <1>3, <1>6, <2>8, <3>1 DEF Speakers
  <2>10. ASSUME NEW m \in Speakers(c), n \in Needs(m)
         PROVE  FALSE
    <3>1. PICK l \in 1..L : m = rules[l] /\ Deciding(g[l], c) # {}
      BY <1>10
    <3>2. PICK h \in Deciding(g[l], c) : TRUE
      BY <3>1
    <3>3. PICK b \in 1..(l - 1) : rules[b] = n
      BY <1>1, <2>10, <3>1, NeedsAreBehind
    <3>4. b = k
      <4>1. b \in 1..L
        OBVIOUS
      <4> QED BY <1>6, <2>8, <3>3, <4>1 DEF Ordered, OnceEach
    <3>5. k \in 0..(l - 1) /\ l - 1 \in 0..L
      BY <3>4
    <3>6. start[k] <= start[l - 1] /\ start[k] \in Nat /\ start[l - 1] \in Nat
      BY <1>5, <3>5 DEF Laid
    <3>7. i <= start[k] /\ i \in Nat
      <4>1. /\ start[k - 1] \in Nat /\ Len(g[k]) \in Nat
            /\ start[k] = start[k - 1] + Len(g[k])
        BY <1>4, <1>5, PlaceOf
      <4> QED BY <1>8, <2>7, <4>1
    <3>8. h \in 1..Len(g[l]) /\ start[l - 1] + h \in Deciding(program, c)
      BY <1>7, <1>9
    <3>9. h \in Nat /\ h >= 1
      <4>1. Len(g[l]) \in Nat
        BY <1>4 DEF Forest
      <4> QED BY <3>8, <4>1
    <3>10. start[l - 1] + h <= i
      BY <2>5, <3>8
    <3> QED BY <3>6, <3>7, <3>9, <3>10
  <2>11. \A h \in Deciding(contents[n], c) : h <= j
    <3> SUFFICES ASSUME NEW h \in Deciding(contents[n], c) PROVE h <= j
      OBVIOUS
    <3>1. h \in Deciding(g[k], c) /\ h \in 1..Len(g[k])
      BY <1>3, <1>9, <2>8
    <3>2. start[k - 1] + h \in Deciding(program, c)
      BY <1>7, <3>1
    <3>3. start[k - 1] + h <= start[k - 1] + j
      BY <2>5, <2>7, <3>2
    <3>4. start[k - 1] \in Nat /\ h \in Int /\ j \in Int
      <4>1. Len(g[k]) \in Nat
        BY <1>4 DEF Forest
      <4> QED BY <1>7, <3>1, <4>1
    <3> QED BY <3>3, <3>4
  <2>12. (output[c] # Absent) <=> Adds(n, c)
    <3>1. program[i] = contents[n][j] /\ j \in Deciding(contents[n], c) /\ i # Absent
      <4>1. i \in 1..Len(program) /\ program[i] = g[k][j]
        BY <1>7, <2>7
      <4>2. i # 0
        BY <4>1
      <4> QED BY <1>3, <2>8, <2>9, <4>1, <4>2 DEF Absent
    <3>2. output[c] # Absent <=> c \notin contents[n][j].remove
      BY <2>5, <3>1
    <3>3. ASSUME NEW h \in Deciding(contents[n], c), \A x \in Deciding(contents[n], c) : x <= h
          PROVE  h = j
      <4>1. h <= j /\ j <= h
        BY <2>11, <3>1, <3>3
      <4>2. h \in Int /\ j \in Int
        <5>1. Len(g[k]) \in Nat /\ h \in 1..Len(g[k])
          BY <1>3, <1>4, <1>9, <2>8, <3>3 DEF Forest
        <5> QED BY <5>1
      <4> QED BY <4>1, <4>2
    <3> QED BY <2>11, <3>1, <3>2, <3>3 DEF Adds
  <2> QED BY <1>12, <2>9, <2>10, <2>12
<1> QED BY <1>11, <1>12

-----------------------------------------------------------------------------
\* What is executed is what was compiled.
EngineIInv ==
  /\ IInv /\ EIInv
  /\ verdict # "idle" =>
       result = "ok" /\ contents \in [present -> Trees] /\ program = Compiled(contents)

LEMMA OrderedWhenOk ==
  ASSUME IInv, result = "ok"
  PROVE  Ordered
<1>1. \A n \in present : n \in Name /\ loaded[n]
  BY DEF IInv, Verdicts, Pending, Types
<1>2. \A n \in present : \E k \in 1..Len(rules) : rules[k] = n
  BY <1>1 DEF IInv, Marked
<1>3. \A k \in 1..Len(rules) : rules[k] \in present
  <2> SUFFICES ASSUME NEW k \in 1..Len(rules) PROVE rules[k] \in present
    OBVIOUS
  <2>1. rules[k] \in Name
    BY DEF IInv, Types
  <2>2. loaded[rules[k]]
    BY <2>1 DEF IInv, Marked
  <2> QED BY <2>1, <2>2 DEF IInv, Sound
<1> QED BY <1>2, <1>3 DEF Ordered, IInv, Types

\* The order of the trees makes a program of them.
LEMMA CompiledRuns ==
  ASSUME Ordered, NEW c \in [present -> Trees]
  PROVE  Compiled(c) \in Seq(Rule) /\ WellFormed(Compiled(c))
<1>1. PICK L \in Nat : L = Len(rules)
  BY DEF Ordered
<1>2. PICK g : g = InOrder(c)
  OBVIOUS
<1>3. \A k \in 1..L : c[rules[k]] \in Seq(Rule) /\ WellFormed(c[rules[k]]) /\ g[k] = c[rules[k]]
  BY <1>1, <1>2, ExecutionAssumption DEF Ordered, InOrder
<1>4. Forest(g, L)
  BY <1>1, <1>2, <1>3 DEF Forest, InOrder
<1>5. PICK t : t = Compiled(c)
  OBVIOUS
<1>6. PICK start : Laid(t, g, L, start)
  BY <1>1, <1>2, <1>3, <1>5, CompiledLaid DEF Ordered
<1>7. t \in Seq(Rule)
  BY <1>6 DEF Laid
<1>8. WellFormed(t)
  BY <1>4, <1>6, LaidWellFormed
<1> QED BY <1>5, <1>7, <1>8

LEMMA CompiledKept ==
  ASSUME UNCHANGED <<rules, contents>>
  PROVE  Compiled(contents)' = Compiled(contents)
BY DEF Compiled

LEMMA EngineNextIInv ==
  EngineIInv /\ [EngineNext]_engineVars => EngineIInv'
<1> SUFFICES ASSUME EngineIInv, [EngineNext]_engineVars PROVE EngineIInv'
  OBVIOUS
<1> USE DEF EngineIInv
<1>1. CASE Next /\ UNCHANGED <<execVars, contents>>
  <2>1. IInv'
    BY <1>1, NextIInv
  <2>2. EIInv'
    BY <1>1, ExecStepSound
  <2>3. result = "running" /\ verdict' = verdict
    BY <1>1 DEF execVars, Next, Begin, Circular, Satisfied, Missing, Descend,
                Uncompilable, Compile, Finish
  <2> QED BY <2>1, <2>2, <2>3
<1>2. CASE ExecuteCompiled
  <2>1. UNCHANGED vars /\ result = "ok" /\ verdict = "idle"
    BY <1>2 DEF ExecuteCompiled
  <2>2. UNCHANGED <<rules, result, present>>
    BY <2>1 DEF vars, input
  <2>3. IInv'
    BY <2>1, NextIInv
  <2>4. PICK c \in Contents(present) : contents' = c /\ Execute(Compiled(c))
    BY <1>2 DEF ExecuteCompiled
  <2>5. c \in [present -> Trees]
    BY EngineAssumption DEF IInv, Types
  <2>6. Compiled(c) \in Seq(Rule) /\ WellFormed(Compiled(c))
    BY <2>1, <2>5, OrderedWhenOk, CompiledRuns
  <2>7. EIInv'
    BY <2>4, <2>6, ExecuteSound
  <2>8. program' = Compiled(contents)'
    <3>1. program' = Compiled(c)
      BY <2>4 DEF Execute
    <3>2. Compiled(contents)' = Compiled(c)
      BY <2>2, <2>4 DEF Compiled
    <3> QED BY <3>1, <3>2
  <2> QED BY <2>1, <2>2, <2>3, <2>4, <2>5, <2>7, <2>8
<1>3. CASE (ExecStep /\ UNCHANGED <<vars, contents>>) \/ UNCHANGED engineVars
  <2>1. UNCHANGED vars /\ UNCHANGED <<rules, result, present, contents>>
    BY <1>3 DEF vars, input, engineVars
  <2>2. IInv'
    BY <2>1, NextIInv
  <2>3. ExecStep \/ UNCHANGED execVars
    BY <1>3 DEF engineVars
  <2>4. EIInv'
    BY <2>3, ExecStepSound
  <2>5. program' = program /\ (verdict' # "idle" => verdict # "idle")
    BY <2>3 DEF ExecStep, NoMatch, Match, Fail, NoValues, Return, execVars, Running
  <2>6. Compiled(contents)' = Compiled(contents)
    BY <2>1, CompiledKept
  <2> QED BY <2>1, <2>2, <2>4, <2>5, <2>6
<1> QED BY <1>1, <1>2, <1>3 DEF EngineNext

LEMMA EngineInitIInv ==
  EngineInit => EngineIInv
<1> SUFFICES ASSUME EngineInit PROVE EngineIInv
  OBVIOUS
<1>1. IInv
  BY InitIInv DEF EngineInit
<1>2. EIInv
  BY ExecInitSound DEF EngineInit
<1> QED BY <1>1, <1>2 DEF EngineInit, ExecInit, EngineIInv

\* The engine keeps the books of compilation and of execution, and executes
\* what it has compiled.
THEOREM EngineSound == EngineSpec => []EngineIInv
BY EngineInitIInv, EngineNextIInv, PTL DEF EngineSpec

\* For any rule sets, dependencies and trees, a capability is there or not as a
\* rule set says that no other with a say depends on (rules/engine.go,
\* CompileRules and Execute).
THEOREM DependentsOverrule == EngineSpec => []DependentOverrules
<1>1. EngineIInv => DependentOverrules
  <2> SUFFICES ASSUME EngineIInv PROVE DependentOverrules
    OBVIOUS
  <2>1. CASE verdict = "ok"
    BY <2>1, OrderedWhenOk, LastSayInv, OverrulesIfOrdered DEF EngineIInv
  <2>2. CASE verdict # "ok"
    BY <2>2 DEF DependentOverrules
  <2> QED BY <2>1, <2>2
<1> QED BY <1>1, EngineSound, PTL

\* What holds of compilation and of execution each on its own holds of the
\* engine, whose programs are those that compilation leaves.
THEOREM EngineIsRight ==
  EngineSpec =>
    [](DependenciesFirst /\ OnceEach /\ VerdictRight /\ LastRuleDecides /\ FailsIfReached)
<1>1. EngineIInv =>
        DependenciesFirst /\ OnceEach /\ VerdictRight /\ LastRuleDecides /\ FailsIfReached
  BY VerdictInv, LastSayInv, FailsInv DEF EngineIInv, IInv
<1> QED BY <1>1, EngineSound, PTL
=============================================================================
