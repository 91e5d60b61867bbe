---------------------- MODULE EventDelivery_proofs ----------------------
(***************************************************************************)
(* Proofs about EventDelivery, for any number of devices, enumerations and *)
(* calls of the reader.                                                    *)
(*                                                                         *)
(* A goroutine is a list of instructions, and what it will do can be read  *)
(* off that list.  The invariant is that every list is well behaved, from  *)
(* where its goroutine stands now to its end: it asks only for mutexes     *)
(* further down than those it holds, and frees only what it holds; it says *)
(* of a device only what a mutex protects; it announces a device as soon   *)
(* as it is in the table; and it ends every enumeration it began.          *)
(***************************************************************************)
EXTENDS EventDelivery, FiniteSetTheorems, WellFoundedInduction, TLAPS

\* The instructions.
Event ==
  [kind : {"added", "removed", "capability", "start", "reading"}, dev : Dev]
    \cup [kind : {"stopped"}, dev : Dev, enumerating : BOOLEAN]

OfLock == {"rlock", "runlock", "lock", "acquire", "unlock", "brief", "pass"}
OfDev  == {"put", "getNode", "remove", "attach", "drop", "status"}
OfNode == {"begin", "starts", "interrogate", "survey", "look", "release", "stops",
           "snapshot", "startEnumeration", "createNode", "dropNode", "list"}

Instr ==
  (OfLock \X Lock) \cup (OfDev \X Dev) \cup ({"send"} \X Event) \cup {<<w>> : w \in OfNode}

\* The order of the mutexes: those that may be held while l is asked for.
Above(l) ==
  IF l = "z.nodeLock" THEN {} ELSE IF l = "n.m" THEN {"z.nodeLock"}
  ELSE {"z.nodeLock", "n.m"}

\* What is held is a set of mutexes, each for reading or for writing.
Reading(l) == <<l, "r">>
Writing(l) == <<l, "w">>
Ordered(l, H) == \A k \in H : k[1] \in Above(l)

(***************************************************************************)
(* Where a goroutine stands: the mutexes it holds; the instruction that is *)
(* due, if the last one calls for it; the devices that it found in the     *)
(* table and may speak of; how far it is with an enumeration, and the      *)
(* devices that it has yet to say "stopped" of.                            *)
(***************************************************************************)
Stand(H, D, L, G, P) == [held |-> H, due |-> D, listed |-> L, stage |-> G, stop |-> P]
Free == Stand({}, {}, {}, "none", {})

\* What an instruction needs to be held, and what is held after it.
Allowed(i, H, K) ==
  \/ i[1] = "rlock" /\ i[2] \in Dev /\ Ordered(i[2], H) /\ K = H \cup {Reading(i[2])}
  \/ i[1] = "lock" /\ Ordered(i[2], H) /\ K = H \cup {Writing(i[2])}
  \/ i[1] = "acquire" /\ Writing(i[2]) \in H /\ Ordered(i[2], H \ {Writing(i[2])}) /\ K = H
  \/ i[1] = "brief" /\ Writing(i[2]) \in H /\ Ordered(i[2], H \ {Writing(i[2])})
       /\ K = H \ {Writing(i[2])}
  \/ i[1] = "runlock" /\ Reading(i[2]) \in H /\ K = H \ {Reading(i[2])}
  \/ i[1] = "unlock" /\ Writing(i[2]) \in H /\ K = H \ {Writing(i[2])}
  \/ i[1] = "pass" /\ Ordered(i[2], H) /\ K = H
  \/ i[1] = "status" /\ H = {Reading("n.m")} /\ K = H
  \/ i[1] = "send" /\ i[2].kind \in {"start", "stopped"} /\ H = {Reading("n.m")} /\ K = H
  \/ i[1] = "send" /\ i[2].kind \in {"added", "removed"} /\ H = {Writing("n.m")} /\ K = H
  \/ i[1] = "send" /\ i[2].kind \in {"capability", "reading"} /\ K = H
  \/ i[1] = "attach" /\ K = H
  \/ i[1] = "put" /\ H = {Writing("n.m")} /\ K = H
  \/ i[1] \in {"remove", "drop"} /\ H = {Writing("n.m")} /\ K = {}
  \/ i[1] \in {"createNode", "dropNode"} /\ H = {Writing("z.nodeLock")} /\ K = {}
  \/ i[1] = "list" /\ H = {Writing("z.nodeLock")} /\ K = H
  \/ i[1] \in {"begin", "starts", "interrogate", "survey", "look", "release", "stops",
               "snapshot", "startEnumeration", "getNode"} /\ H = {} /\ K = {}

\* What must come next: a device is announced as soon as it is in the table, and
\* leaves it as soon as it is withdrawn.
Tell(kind, d) == <<"send", [kind |-> kind, dev |-> d]>>
Owes(i) ==
  IF i[1] = "put" THEN {Tell("added", i[2])}
  ELSE IF i[1] = "send" /\ i[2].kind = "removed" THEN {<<"drop", i[2].dev>>}
  ELSE {}

\* What comes only when it is due.
OnlyDue(i) == i[1] = "drop" \/ (i[1] = "send" /\ i[2].kind \in {"added", "stopped"})

\* What is said of a device that was found in the table while its mutex was held.
Speaks(i) ==
  IF i[1] = "send" /\ i[2].kind \in {"start", "stopped"} THEN {i[2].dev}
  ELSE IF i[1] = "status" THEN {i[2]} ELSE {}

\* The stages of an enumeration: of the join that will ask for it, until a device
\* is in the table and then until it is asked for; of the goroutine that
\* runs it, before its start, until it is released, and until all is said.
Staged(i, G, K) ==
  \/ i[1] = "put" /\ K = (IF G = "join" THEN "ask" ELSE G)
  \/ i[1] = "startEnumeration" /\ G = "ask" /\ K = "none"
  \/ i[1] = "begin" /\ G = "begin" /\ K = "run"
  \/ i[1] \in {"starts", "survey", "look"} /\ G = "run" /\ K = "run"
  \/ i[1] = "interrogate" /\ G = "run" /\ K = "none"
  \/ i[1] = "send" /\ i[2].kind = "start" /\ G = "run" /\ K = "run"
  \/ i[1] = "release" /\ G = "run" /\ K = "tell"
  \/ i[1] = "stops" /\ G = "tell" /\ K = "none"
  \/ i[1] = "status" /\ G = "tell" /\ K = "tell"
  \/ i[1] = "send" /\ i[2].kind = "stopped" /\ G = "tell" /\ K = "tell"
  \/ i = <<"runlock", "n.m">> /\ K = (IF G = "tell" THEN "none" ELSE G)
  \/ /\ i[1] \notin {"put", "startEnumeration", "begin", "starts", "survey", "look",
                     "interrogate", "release", "stops", "status"}
     /\ ~(i[1] = "send" /\ i[2].kind \in {"start", "stopped"})
     /\ i # <<"runlock", "n.m">>
     /\ K = G

\* The devices that "stopped" is yet to be said of.
Stopping(i, P, K) ==
  \/ i[1] = "release" /\ K = Dev
  \/ i[1] = "stops" /\ P = Dev /\ K = {}
  \/ i[1] = "interrogate" /\ P = {} /\ K = {}
  \/ i[1] \notin {"release", "stops", "interrogate"} /\ P \subseteq K \cup Speaks(i) /\ K \subseteq P

Ok(i, s, t) ==
  /\ Allowed(i, s.held, t.held)
  /\ s.due = (IF OnlyDue(i) THEN {i} ELSE {}) /\ t.due = Owes(i)
  /\ Speaks(i) \subseteq s.listed
  /\ t.listed = (IF i = <<"runlock", "n.m">> THEN {} ELSE s.listed)
  /\ Staged(i, s.stage, t.stage)
  /\ Stopping(i, s.stop, t.stop)
  /\ t = Stand(t.held, t.due, t.listed, t.stage, t.stop)

\* A program is read from one state to another.
Flow(c, s, t) ==
  \E h : /\ h[1] = s /\ h[Len(c) + 1] = t
         /\ \A i \in 1..Len(c) : Ok(c[i], h[i], h[i + 1])

Goes(c, s, t) == c \in Seq(Instr) /\ Flow(c, s, t)

-----------------------------------------------------------------------------
(* Reading programs.                                                       *)

LEMMA GoesNil ==
  ASSUME NEW s
  PROVE  Goes(<<>>, s, s)
<1> DEFINE h == [i \in 1..1 |-> s]
<1>1. h[1] = s /\ h[Len(<<>>) + 1] = s /\ \A i \in 1..Len(<<>>) : Ok(<<>>[i], h[i], h[i + 1])
  OBVIOUS
<1>2. Flow(<<>>, s, s)
  <2> HIDE DEF h
  <2> QED BY <1>1 DEF Flow
<1>3. <<>> \in Seq(Instr)
  OBVIOUS
<1> QED BY <1>2, <1>3 DEF Goes

LEMMA GoesOne ==
  ASSUME NEW i \in Instr, NEW s, NEW t, Ok(i, s, t)
  PROVE  Goes(<<i>>, s, t)
<1> DEFINE h == [n \in 1..2 |-> IF n = 1 THEN s ELSE t]
<1>3. h[1] = s /\ h[2] = t
  OBVIOUS
<1> HIDE DEF h
<1>4. Len(<<i>>) = 1 /\ <<i>>[1] = i /\ <<i>> \in Seq(Instr)
  OBVIOUS
<1>5. \A n \in 1..Len(<<i>>) : Ok(<<i>>[n], h[n], h[n + 1])
  <2>1. \A n \in 1..Len(<<i>>) : n = 1 /\ n + 1 = 2
    BY <1>4
  <2> QED BY <1>3, <1>4, <2>1
<1>6. h[Len(<<i>>) + 1] = t
  BY <1>3, <1>4
<1>7. Flow(<<i>>, s, t)
  BY <1>3, <1>5, <1>6 DEF Flow
<1> QED BY <1>4, <1>7 DEF Goes

LEMMA Joined ==
  ASSUME NEW T, NEW s \in Seq(T), NEW t \in Seq(T)
  PROVE  /\ s \o t \in Seq(T) /\ Len(s) \in Nat /\ Len(t) \in Nat
         /\ Len(s \o t) = Len(s) + Len(t)
         /\ \A i \in 1..Len(s) : (s \o t)[i] = s[i]
         /\ \A i \in 1..Len(t) : (s \o t)[Len(s) + i] = t[i]
OBVIOUS

LEMMA GoesOn ==
  ASSUME NEW c, NEW d, NEW s, NEW m, NEW t, Goes(c, s, m), Goes(d, m, t)
  PROVE  Goes(c \o d, s, t)
<1>1. c \in Seq(Instr) /\ d \in Seq(Instr)
  BY DEF Goes
<1>2. /\ c \o d \in Seq(Instr) /\ Len(c) \in Nat /\ Len(d) \in Nat
      /\ Len(c \o d) = Len(c) + Len(d)
      /\ \A i \in 1..Len(c) : (c \o d)[i] = c[i]
      /\ \A i \in 1..Len(d) : (c \o d)[Len(c) + i] = d[i]
  BY <1>1, Joined
<1>3. PICK n \in Nat : n = Len(c)
  BY <1>2
<1>4. PICK k \in Nat : k = Len(d)
  BY <1>2
<1>5. PICK e : e = c \o d
  OBVIOUS
<1>6. PICK h : h[1] = s /\ h[n + 1] = m /\ \A i \in 1..n : Ok(c[i], h[i], h[i + 1])
  BY <1>3 DEF Goes, Flow
<1>7. PICK j : j[1] = m /\ j[k + 1] = t /\ \A i \in 1..k : Ok(d[i], j[i], j[i + 1])
  BY <1>4 DEF Goes, Flow
<1> DEFINE f == [i \in 1..(n + k + 1) |-> IF i <= n THEN h[i] ELSE j[i - n]]
<1>8. f[1] = s
  <2>1. CASE n = 0
    <3>1. f[1] = j[1 - n] /\ 1 - n = 1
      BY <2>1
    <3> QED BY <1>6, <1>7, <2>1, <3>1
  <2>2. CASE n # 0
    <3>1. 1 <= n
      BY <2>2
    <3> QED BY <1>6, <3>1
  <2> QED BY <2>1, <2>2
<1>9. f[n + k + 1] = t
  <2>1. f[n + k + 1] = j[n + k + 1 - n] /\ n + k + 1 - n = k + 1
    OBVIOUS
  <2> QED BY <1>7, <2>1
<1>10. ASSUME NEW i \in 1..(n + k) PROVE Ok(e[i], f[i], f[i + 1])
  <2>1. CASE i < n
    <3>1. i \in 1..n /\ f[i] = h[i] /\ f[i + 1] = h[i + 1] /\ e[i] = c[i]
      BY <1>2, <1>3, <1>5, <2>1
    <3> QED BY <1>6, <3>1
  <2>2. CASE i = n
    <3>1. f[n] = h[n] /\ n \in 1..n
      BY <2>2
    <3>2. f[n + 1] = j[n + 1 - n] /\ n + 1 - n = 1
      OBVIOUS
    <3>3. f[n + 1] = h[n + 1] /\ e[n] = c[n]
      BY <1>2, <1>3, <1>5, <1>6, <1>7, <3>1, <3>2
    <3> QED BY <1>6, <2>2, <3>1, <3>3
  <2>3. CASE i > n
    <3>1. PICK a \in 1..k : i = n + a
      <4>1. i - n \in 1..k /\ i = n + (i - n)
        BY <2>3
      <4> QED BY <4>1
    <3>2. f[i] = j[a]
      <4>1. f[i] = j[i - n] /\ i - n = a
        BY <2>3, <3>1
      <4> QED BY <4>1
    <3>3. f[i + 1] = j[a + 1]
      <4>1. f[i + 1] = j[i + 1 - n] /\ i + 1 - n = a + 1
        BY <2>3, <3>1
      <4> QED BY <4>1
    <3>4. e[i] = d[a]
      BY <1>2, <1>3, <1>4, <1>5, <3>1
    <3> QED BY <1>7, <3>1, <3>2, <3>3, <3>4
  <2> QED BY <2>1, <2>2, <2>3
<1> HIDE DEF f
<1>11. Len(e) = n + k
  BY <1>2, <1>3, <1>4, <1>5
<1>12. Flow(e, s, t)
  BY <1>8, <1>9, <1>10, <1>11 DEF Flow
<1> QED BY <1>2, <1>5, <1>12 DEF Goes

\* A program that is not at its end has a first instruction.
LEMMA GoesHead ==
  ASSUME NEW c, NEW s, NEW t, Goes(c, s, t), c # <<>>
  PROVE  /\ Head(c) \in Instr /\ Tail(c) \in Seq(Instr)
         /\ \E m : Ok(Head(c), s, m) /\ Goes(Tail(c), m, t)
<1>1. c \in Seq(Instr)
  BY DEF Goes
<1>2. PICK n \in Nat : n + 1 = Len(c)
  <2>1. Len(c) \in Nat /\ Len(c) # 0
    BY <1>1
  <2> QED BY <2>1
<1>3. /\ Head(c) \in Instr /\ Tail(c) \in Seq(Instr) /\ Head(c) = c[1]
      /\ Len(Tail(c)) = n /\ \A i \in 1..n : Tail(c)[i] = c[i + 1]
  BY <1>1, <1>2
<1>4. PICK h : h[1] = s /\ h[n + 2] = t /\ \A i \in 1..(n + 1) : Ok(c[i], h[i], h[i + 1])
  <2>1. n + 1 + 1 = n + 2
    OBVIOUS
  <2> QED BY <1>2, <2>1 DEF Goes, Flow
<1>5. Ok(Head(c), s, h[2])
  <2>1. 1 \in 1..(n + 1) /\ 1 + 1 = 2
    OBVIOUS
  <2> QED BY <1>3, <1>4, <2>1
<1> DEFINE f == [i \in 1..(n + 1) |-> h[i + 1]]
<1>6. f[1] = h[2] /\ f[n + 1] = t
  <2>1. n + 1 + 1 = n + 2 /\ 1 \in 1..(n + 1) /\ n + 1 \in 1..(n + 1)
    OBVIOUS
  <2>2. f[n + 1] = h[n + 1 + 1] /\ f[1] = h[1 + 1]
    BY <2>1
  <2> QED BY <1>4, <2>1, <2>2
<1>7. ASSUME NEW i \in 1..n PROVE Ok(Tail(c)[i], f[i], f[i + 1])
  <2>1. i + 1 \in 1..(n + 1) /\ i \in 1..(n + 1)
    OBVIOUS
  <2>2. f[i] = h[i + 1] /\ f[i + 1] = h[i + 1 + 1]
    BY <2>1
  <2> QED BY <1>3, <1>4, <2>1, <2>2
<1> HIDE DEF f
<1>8. PICK e : e = Tail(c)
  OBVIOUS
<1>9. Flow(e, h[2], t)
  BY <1>3, <1>6, <1>7, <1>8 DEF Flow
<1> QED BY <1>3, <1>5, <1>8, <1>9 DEF Goes

LEMMA GoesEnd ==
  ASSUME NEW s, NEW t, Goes(<<>>, s, t)
  PROVE  s = t
<1>1. Len(<<>>) + 1 = 1
  OBVIOUS
<1> QED BY <1>1 DEF Goes, Flow

\* The least of a set of numbers, and induction up to a bound.
LEMMA LeastOf ==
  ASSUME NEW S \in SUBSET Nat, S # {}
  PROVE  \E n \in S : \A m \in S : n <= m
<1> DEFINE less == OpToRel(LAMBDA x, y : x < y, Nat)
<1>1. PICK n \in S : \A m \in S : <<m, n>> \notin less
  BY NatLessThanWellFounded, WFMin, Zenon DEF OpToRel
<1>2. \A m \in S : ~(m < n)
  BY <1>1, Zenon DEF OpToRel
<1>3. n \in Nat /\ \A m \in S : m \in Nat
  OBVIOUS
<1> QED BY <1>2, <1>3

LEMMA UpTo ==
  ASSUME NEW L \in Nat, NEW G, 0 \in G, \A n \in 0..(L - 1) : n \in G => n + 1 \in G
  PROVE  \A n \in 0..L : n \in G
<1> SUFFICES ASSUME NEW x \in 0..L, x \notin G PROVE FALSE
  OBVIOUS
<1> DEFINE S == {n \in 0..L : n \notin G}
<1>1. S \in SUBSET Nat /\ S # {}
  OBVIOUS
<1>2. PICK n \in S : \A m \in S : n <= m
  <2> HIDE DEF S
  <2> QED BY <1>1, LeastOf
<1>3. n \in 0..L /\ n # 0 /\ n - 1 \in 0..(L - 1) /\ n - 1 + 1 = n /\ n - 1 \notin S
  BY <1>2
<1> QED BY <1>3

\* Programs one after the other.  The function that FlattenSeq chooses exists.
Flattens(f, g, n) == f = [i \in 1..n |-> IF i = 1 THEN g[i] ELSE f[i - 1] \o g[i]]

LEMMA FlattenExists ==
  ASSUME NEW L \in Nat, NEW g
  PROVE  \E f : Flattens(f, g, L)
<1> DEFINE G == {n \in 0..L : \E f : Flattens(f, g, n)}
<1>1. 0 \in G
  <2> DEFINE f == [i \in 1..0 |-> g[i]]
  <2>1. Flattens(f, g, 0)
    BY DEF Flattens
  <2>2. 0 \in 0..L
    OBVIOUS
  <2> HIDE DEF f
  <2> QED BY <2>1, <2>2
<1>2. ASSUME NEW n \in 0..(L - 1), n \in G
      PROVE  n + 1 \in G
  <2>1. PICK f : Flattens(f, g, n)
    BY <1>2
  <2> DEFINE k == n + 1
             h == [i \in 1..k |-> IF i = k THEN IF k = 1 THEN g[k] ELSE f[n] \o g[k] ELSE f[i]]
  <2>2. k \in Nat /\ k \in 0..L /\ k - 1 = n
    OBVIOUS
  <2>3. ASSUME NEW i \in 1..k
        PROVE  h[i] = IF i = 1 THEN g[i] ELSE h[i - 1] \o g[i]
    <3>1. CASE i = k
      <4>1. h[k] = IF k = 1 THEN g[k] ELSE f[n] \o g[k]
        BY <3>1
      <4>2. CASE k = 1
        BY <3>1, <4>1, <4>2
      <4>3. CASE k # 1
        <5>1. n \in 1..k /\ n # k
          BY <2>2, <4>3
        <5>2. h[n] = f[n]
          BY <5>1
        <5> HIDE DEF h, k
        <5> QED BY <2>2, <3>1, <4>1, <4>3, <5>2
      <4> QED BY <4>2, <4>3
    <3>2. CASE i # k
      <4>1. i \in 1..n
        BY <2>2, <3>2
      <4>2. f[i] = IF i = 1 THEN g[i] ELSE f[i - 1] \o g[i]
        BY <2>1, <4>1 DEF Flattens
      <4>3. h[i] = f[i]
        BY <3>2
      <4>4. i # 1 => h[i - 1] = f[i - 1]
        <5>1. i # 1 => (i - 1 \in 1..k /\ i - 1 # k)
          BY <2>2, <4>1
        <5> QED BY <5>1
      <4> HIDE DEF h, k
      <4> QED BY <4>2, <4>3, <4>4
    <3> QED BY <3>1, <3>2
  <2>4. h = [i \in 1..k |-> h[i]]
    OBVIOUS
  <2> HIDE DEF h, k
  <2>5. h = [i \in 1..k |-> IF i = 1 THEN g[i] ELSE h[i - 1] \o g[i]]
    BY <2>3, <2>4
  <2>6. k \in G
    BY <2>2, <2>5 DEF Flattens
  <2> QED BY <2>6 DEF k
<1>3. L \in G
  <2> HIDE DEF G
  <2>1. \A n \in 0..L : n \in G
    BY <1>1, <1>2, UpTo
  <2> QED BY <2>1
<1> QED BY <1>3

LEMMA FlattenGoes ==
  ASSUME NEW L \in Nat, NEW g \in [1..L -> Seq(Instr)], NEW h,
         \A i \in 1..L : Goes(g[i], h[i], h[i + 1])
  PROVE  Goes(FlattenSeq(g), h[1], h[L + 1])
<1>1. g \in Seq(Seq(Instr)) /\ Len(g) = L
  OBVIOUS
<1>2. CASE L = 0
  <2>1. g = <<>>
    BY <1>1, <1>2
  <2>2. FlattenSeq(g) = <<>>
    BY <1>1, <1>2, <2>1 DEF FlattenSeq
  <2>3. L + 1 = 1
    BY <1>2
  <2> QED BY <2>2, <2>3, GoesNil
<1>3. CASE L # 0
  <2> DEFINE f == CHOOSE f : f = [i \in 1..L |-> IF i = 1 THEN g[i] ELSE f[i - 1] \o g[i]]
  <2>1. f = [i \in 1..L |-> IF i = 1 THEN g[i] ELSE f[i - 1] \o g[i]]
    <3>1. \E f1 : f1 = [i \in 1..L |-> IF i = 1 THEN g[i] ELSE f1[i - 1] \o g[i]]
      BY FlattenExists DEF Flattens
    <3> QED BY <3>1, Zenon
  <2>2. FlattenSeq(g) = f[L]
    BY <1>1, <1>3 DEF FlattenSeq
  <2> HIDE DEF f
  <2> DEFINE G == {n \in 0..L : n # 0 => Goes(f[n], h[1], h[n + 1])}
  <2>3. ASSUME NEW n \in 0..(L - 1), n \in G
        PROVE  n + 1 \in G
    <3> DEFINE k == n + 1
    <3>1. k \in 1..L /\ k - 1 = n /\ k \in 0..L
      OBVIOUS
    <3>2. f[k] = IF k = 1 THEN g[k] ELSE f[k - 1] \o g[k]
      BY <2>1, <3>1
    <3>3. Goes(g[k], h[k], h[k + 1])
      BY <3>1
    <3>4. CASE n = 0
      <4>1. k = 1
        BY <3>4
      <4>2. Goes(f[k], h[1], h[k + 1])
        BY <3>2, <3>3, <4>1
      <4> QED BY <3>1, <4>2
    <3>5. CASE n # 0
      <4>1. Goes(f[n], h[1], h[k])
        BY <2>3, <3>5
      <4>2. f[k] = f[n] \o g[k]
        <5>1. k # 1
          BY <3>5
        <5> HIDE DEF k
        <5> QED BY <3>1, <3>2, <5>1
      <4>3. Goes(f[k], h[1], h[k + 1])
        <5> HIDE DEF k
        <5> QED BY <3>3, <4>1, <4>2, GoesOn
      <4> QED BY <3>1, <4>3
    <3> QED BY <3>4, <3>5
  <2>4. L \in G
    <3>1. 0 \in G
      OBVIOUS
    <3> HIDE DEF G
    <3>2. \A n \in 0..L : n \in G
      BY <2>3, <3>1, UpTo
    <3> QED BY <3>2
  <2> QED BY <1>3, <2>2, <2>4
<1> QED BY <1>2, <1>3

\* A sequence of two, put together.
LEMMA TwoOf ==
  ASSUME NEW T, NEW a \in T, NEW b \in T
  PROVE  <<a>> \o <<b>> = <<a, b>>
<1> DEFINE s == <<a>>
           t == <<b>>
           u == <<a, b>>
           v == s \o t
<1>1. /\ s \in Seq(T) /\ t \in Seq(T) /\ u \in Seq(T) /\ Len(s) = 1 /\ Len(t) = 1 /\ Len(u) = 2
      /\ s[1] = a /\ t[1] = b /\ u[1] = a /\ u[2] = b
  OBVIOUS
<1> HIDE DEF s, t, u
<1>2. v \in Seq(T) /\ Len(v) = 2 /\ v[1] = a /\ v[2] = b
  <2>1. v \in Seq(T) /\ Len(v) = 1 + 1 /\ \A i \in 1..1 : v[i] = s[i] /\ v[1 + i] = t[i]
    BY <1>1, Joined
  <2>2. 1 + 1 = 2 /\ 1 \in 1..1
    OBVIOUS
  <2> QED BY <1>1, <2>1, <2>2
<1> HIDE DEF v
<1>3. \A i \in 1..2 : u[i] = v[i]
  <2>1. \A i \in 1..2 : i = 1 \/ i = 2
    OBVIOUS
  <2> QED BY <1>1, <1>2, <2>1
<1>4. u = [i \in 1..2 |-> u[i]] /\ v = [i \in 1..2 |-> v[i]]
  BY <1>1, <1>2
<1>5. u = v
  BY <1>3, <1>4
<1> QED BY <1>5 DEF s, t, u, v

-----------------------------------------------------------------------------
(* What each program does.                                                 *)

\* With nothing due and no device to speak of.
Rest(H, G, P) == Stand(H, {}, {}, G, P)

\* Instructions that change nothing but what is held.
Plain(i) ==
  \/ i[1] \in {"rlock", "lock", "acquire", "unlock", "brief", "pass", "attach", "remove",
               "createNode", "dropNode", "list", "snapshot", "getNode"}
  \/ i[1] = "runlock" /\ i[2] \in Dev
  \/ i[1] = "send" /\ i[2].kind \in {"capability", "reading"}

LEMMA PlainGoes ==
  ASSUME NEW i \in Instr, Plain(i), NEW H, NEW L, NEW G, NEW P, NEW K, Allowed(i, H, K)
  PROVE  Goes(<<i>>, Stand(H, {}, L, G, P), Stand(K, {}, L, G, P))
<1>1. i # <<"runlock", "n.m">>
  BY DeliveryAssumption DEF Plain
<1>2. Speaks(i) = {} /\ Owes(i) = {} /\ ~OnlyDue(i)
  BY DEF Plain, Speaks, Owes, OnlyDue
<1>3. Staged(i, G, G)
  BY <1>1 DEF Plain, Staged
<1>4. Stopping(i, P, P)
  BY <1>2 DEF Plain, Stopping
<1>5. Ok(i, Stand(H, {}, L, G, P), Stand(K, {}, L, G, P))
  BY <1>1, <1>2, <1>3, <1>4 DEF Ok, Stand
<1> QED BY <1>5, GoesOne

\* Mutexes are told apart, and each is above those further down.
LEMMA Mutexes ==
  /\ "z.nodeLock" \in Lock /\ "n.m" \in Lock /\ Dev \subseteq Lock
  /\ \A d \in Dev : Above(d) = {"z.nodeLock", "n.m"}
  /\ Above("n.m") = {"z.nodeLock"} /\ Above("z.nodeLock") = {}
  /\ \A l \in Lock : Above(l) \subseteq {"z.nodeLock", "n.m"}
BY DeliveryAssumption DEF Lock, Above

\* The instructions that are written down.
LEMMA Instructions ==
  /\ \A w \in OfLock, l \in Lock : <<w, l>> \in Instr
  /\ \A w \in OfDev, d \in Dev : <<w, d>> \in Instr
  /\ \A w \in OfNode : <<w>> \in Instr
  /\ \A e \in Event : <<"send", e>> \in Instr
  /\ \A k \in {"added", "removed", "capability", "start", "reading"}, d \in Dev :
       [kind |-> k, dev |-> d] \in Event /\ Tell(k, d) \in Instr
BY DEF Instr, Event, Tell, OfLock, OfDev, OfNode

LEMMA CreateGoes ==
  ASSUME NEW d \in Dev, NEW G, NEW P
  PROVE  Goes(CreateDevice(d), Rest({}, G, P),
              Rest({}, IF G = "join" THEN "ask" ELSE G, P))
<1> DEFINE W == {Writing("n.m")}
           A == IF G = "join" THEN "ask" ELSE G
<1>1. Goes(WLock("n.m"), Rest({}, G, P), Rest(W, G, P))
  <2>1. <<"lock", "n.m">> \in Instr /\ Plain(<<"lock", "n.m">>)
    BY Instructions, Mutexes DEF Plain, OfLock
  <2>2. Allowed(<<"lock", "n.m">>, {}, W)
    BY DEF Allowed, Ordered
  <2> HIDE DEF W
  <2> QED BY <2>1, <2>2, PlainGoes DEF WLock, Rest
<1>2. Goes(With("put", d), Rest(W, G, P), Stand(W, {Tell("added", d)}, {}, A, P))
  <2> DEFINE i == <<"put", d>>
  <2>1. i \in Instr
    BY Instructions DEF OfDev
  <2>2. Ok(i, Rest(W, G, P), Stand(W, {Tell("added", d)}, {}, A, P))
    BY DEF Ok, Rest, Stand, Allowed, Owes, OnlyDue, Speaks, Staged, Stopping
  <2> HIDE DEF W, A
  <2> QED BY <2>1, <2>2, GoesOne DEF With
<1>3. Goes(Send("added", d), Stand(W, {Tell("added", d)}, {}, A, P), Rest(W, A, P))
  <2>1. Tell("added", d) \in Instr
    BY Instructions
  <2>2. Ok(Tell("added", d), Stand(W, {Tell("added", d)}, {}, A, P), Rest(W, A, P))
    BY DEF Ok, Rest, Stand, Allowed, Owes, OnlyDue, Speaks, Staged, Stopping, Tell
  <2> HIDE DEF W, A
  <2> QED BY <2>1, <2>2, GoesOne DEF Send, Tell
<1>4. Goes(Send("capability", d), Rest(W, A, P), Rest(W, A, P))
  <2>1. Tell("capability", d) \in Instr /\ Plain(Tell("capability", d))
    BY Instructions DEF Plain, Tell
  <2>2. Allowed(Tell("capability", d), W, W)
    BY DEF Allowed, Tell
  <2> HIDE DEF W, A
  <2> QED BY <2>1, <2>2, PlainGoes DEF Send, Tell, Rest
<1>5. Goes(Unlock("n.m"), Rest(W, A, P), Rest({}, A, P))
  <2>1. <<"unlock", "n.m">> \in Instr /\ Plain(<<"unlock", "n.m">>)
    BY Instructions, Mutexes DEF Plain, OfLock
  <2>2. Allowed(<<"unlock", "n.m">>, W, {})
    BY DEF Allowed
  <2> HIDE DEF W, A
  <2> QED BY <2>1, <2>2, PlainGoes DEF Unlock, Rest
<1> HIDE DEF W, A
<1>6. Goes(WLock("n.m") \o With("put", d), Rest({}, G, P), Stand(W, {Tell("added", d)}, {}, A, P))
  BY <1>1, <1>2, GoesOn
<1>7. Goes(WLock("n.m") \o With("put", d) \o Send("added", d), Rest({}, G, P), Rest(W, A, P))
  BY <1>3, <1>6, GoesOn
<1>8. Goes(WLock("n.m") \o With("put", d) \o Send("added", d) \o Send("capability", d),
           Rest({}, G, P), Rest(W, A, P))
  BY <1>4, <1>7, GoesOn
<1>9. Goes(CreateDevice(d), Rest({}, G, P), Rest({}, A, P))
  BY <1>5, <1>8, GoesOn DEF CreateDevice
<1> QED BY <1>9 DEF A

LEMMA PassGoes ==
  ASSUME NEW l \in Lock, NEW H, NEW L, NEW G, NEW P, Ordered(l, H)
  PROVE  Goes(Pass(l), Stand(H, {}, L, G, P), Stand(H, {}, L, G, P))
<1>1. <<"pass", l>> \in Instr /\ Plain(<<"pass", l>>)
  BY Instructions DEF Plain, OfLock
<1>2. Allowed(<<"pass", l>>, H, H)
  BY DEF Allowed
<1> QED BY <1>1, <1>2, PlainGoes DEF Pass

LEMMA WLockGoes ==
  ASSUME NEW l \in Lock, NEW G, NEW P
  PROVE  Goes(WLock(l), Rest({}, G, P), Rest({Writing(l)}, G, P))
<1>1. <<"lock", l>> \in Instr /\ Plain(<<"lock", l>>)
  BY Instructions DEF Plain, OfLock
<1>2. Allowed(<<"lock", l>>, {}, {Writing(l)})
  BY DEF Allowed, Ordered
<1> QED BY <1>1, <1>2, PlainGoes DEF WLock, Rest

LEMMA UnlockGoes ==
  ASSUME NEW l \in Lock, NEW G, NEW P
  PROVE  Goes(Unlock(l), Rest({Writing(l)}, G, P), Rest({}, G, P))
<1>1. <<"unlock", l>> \in Instr /\ Plain(<<"unlock", l>>)
  BY Instructions DEF Plain, OfLock
<1>2. Allowed(<<"unlock", l>>, {Writing(l)}, {})
  BY DEF Allowed
<1> QED BY <1>1, <1>2, PlainGoes DEF Unlock, Rest

LEMMA SetUniqueIdGoes ==
  ASSUME NEW d \in Dev, NEW G, NEW P
  PROVE  Goes(SetUniqueId(d), Rest({}, G, P), Rest({}, G, P))
<1>1. d \in Lock
  BY Mutexes
<1>2. Goes(WLock(d), Rest({}, G, P), Rest({Writing(d)}, G, P))
  BY <1>1, WLockGoes
<1>3. Goes(<<<<"brief", d>>>>, Rest({Writing(d)}, G, P), Rest({}, G, P))
  <2>1. <<"brief", d>> \in Instr /\ Plain(<<"brief", d>>)
    BY <1>1, Instructions DEF Plain, OfLock
  <2>2. Allowed(<<"brief", d>>, {Writing(d)}, {})
    BY DEF Allowed, Ordered
  <2> QED BY <2>1, <2>2, PlainGoes DEF Rest
<1>4. Goes(WLock(d) \o <<<<"brief", d>>>>, Rest({}, G, P), Rest({}, G, P))
  BY <1>2, <1>3, GoesOn
<1>5. WLock(d) \o <<<<"brief", d>>>> = SetUniqueId(d)
  <2>1. <<"lock", d>> \in Instr /\ <<"brief", d>> \in Instr
    BY <1>1, Instructions DEF OfLock
  <2> QED BY <2>1, TwoOf DEF WLock, SetUniqueId, Brief
<1> QED BY <1>4, <1>5

LEMMA UpdateCapabilitiesGoes ==
  ASSUME NEW d \in Dev, NEW G, NEW P
  PROVE  Goes(UpdateCapabilities(d), Rest({}, G, P), Rest({}, G, P))
<1>1. d \in Lock
  BY Mutexes
<1>2. Goes(With("attach", d), Rest({Writing(d)}, G, P), Rest({Writing(d)}, G, P))
  <2>1. <<"attach", d>> \in Instr /\ Plain(<<"attach", d>>)
    BY Instructions DEF Plain, OfDev
  <2>2. Allowed(<<"attach", d>>, {Writing(d)}, {Writing(d)})
    BY DEF Allowed
  <2> QED BY <2>1, <2>2, PlainGoes DEF With, Rest
<1>3. Goes(WLock(d) \o With("attach", d), Rest({}, G, P), Rest({Writing(d)}, G, P))
  BY <1>1, <1>2, WLockGoes, GoesOn
<1> QED BY <1>1, <1>3, UnlockGoes, GoesOn DEF UpdateCapabilities

LEMMA RemoveFoundGoes ==
  ASSUME NEW d \in Dev, NEW G, NEW P
  PROVE  Goes(RemoveFound(d), Rest({Writing("n.m")}, G, P), Rest({}, G, P))
<1> DEFINE W == {Writing("n.m")}
           B == W \cup {Reading(d)}
<1>1. d \in Lock /\ Ordered(d, W) /\ B \ {Reading(d)} = W
  BY Mutexes DEF Ordered, Writing, Reading
<1>2. Goes(RLock(d), Rest(W, G, P), Rest(B, G, P))
  <2>1. <<"rlock", d>> \in Instr /\ Plain(<<"rlock", d>>)
    BY <1>1, Instructions DEF Plain, OfLock
  <2>2. Allowed(<<"rlock", d>>, W, B)
    BY <1>1 DEF Allowed
  <2> HIDE DEF W, B
  <2> QED BY <2>1, <2>2, PlainGoes DEF RLock, Rest
<1>3. Goes(With("attach", d), Rest(B, G, P), Rest(B, G, P))
  <2>1. <<"attach", d>> \in Instr /\ Plain(<<"attach", d>>)
    BY Instructions DEF Plain, OfDev
  <2>2. Allowed(<<"attach", d>>, B, B)
    BY DEF Allowed
  <2> HIDE DEF W, B
  <2> QED BY <2>1, <2>2, PlainGoes DEF With, Rest
<1>4. Goes(RUnlock(d), Rest(B, G, P), Rest(W, G, P))
  <2>1. <<"runlock", d>> \in Instr /\ Plain(<<"runlock", d>>)
    BY <1>1, Instructions DEF Plain, OfLock
  <2>2. Allowed(<<"runlock", d>>, B, W)
    BY <1>1 DEF Allowed
  <2> HIDE DEF W, B
  <2> QED BY <2>1, <2>2, PlainGoes DEF RUnlock, Rest
<1>5. Goes(Send("capability", d), Rest(W, G, P), Rest(W, G, P))
  <2>1. Tell("capability", d) \in Instr /\ Plain(Tell("capability", d))
    BY Instructions DEF Plain, Tell
  <2>2. Allowed(Tell("capability", d), W, W)
    BY DEF Allowed, Tell
  <2> HIDE DEF W, B
  <2> QED BY <2>1, <2>2, PlainGoes DEF Send, Tell, Rest
<1>6. Goes(Send("removed", d), Rest(W, G, P), Stand(W, {<<"drop", d>>}, {}, G, P))
  <2>1. Tell("removed", d) \in Instr
    BY Instructions
  <2>2. Ok(Tell("removed", d), Rest(W, G, P), Stand(W, {<<"drop", d>>}, {}, G, P))
    BY DEF Ok, Rest, Stand, Allowed, Owes, OnlyDue, Speaks, Staged, Stopping, Tell
  <2> HIDE DEF W, B
  <2> QED BY <2>1, <2>2, GoesOne DEF Send, Tell
<1>7. Goes(With("drop", d), Stand(W, {<<"drop", d>>}, {}, G, P), Rest({}, G, P))
  <2>1. <<"drop", d>> \in Instr
    BY Instructions DEF OfDev
  <2>2. Ok(<<"drop", d>>, Stand(W, {<<"drop", d>>}, {}, G, P), Rest({}, G, P))
    BY DEF Ok, Rest, Stand, Allowed, Owes, OnlyDue, Speaks, Staged, Stopping
  <2> HIDE DEF W, B
  <2> QED BY <2>1, <2>2, GoesOne DEF With
<1> HIDE DEF W, B
<1>8. Goes(RLock(d) \o With("attach", d), Rest(W, G, P), Rest(B, G, P))
  BY <1>2, <1>3, GoesOn
<1>9. Goes(RLock(d) \o With("attach", d) \o RUnlock(d), Rest(W, G, P), Rest(W, G, P))
  BY <1>4, <1>8, GoesOn
<1>10. Goes(RLock(d) \o With("attach", d) \o RUnlock(d) \o Send("capability", d),
            Rest(W, G, P), Rest(W, G, P))
  BY <1>5, <1>9, GoesOn
<1>11. Goes(RLock(d) \o With("attach", d) \o RUnlock(d) \o Send("capability", d)
              \o Send("removed", d), Rest(W, G, P), Stand(W, {<<"drop", d>>}, {}, G, P))
  BY <1>6, <1>10, GoesOn
<1>12. Goes(RemoveFound(d), Rest(W, G, P), Rest({}, G, P))
  BY <1>7, <1>11, GoesOn DEF RemoveFound
<1> QED BY <1>12 DEF W

LEMMA RemoveFromNodeGoes ==
  ASSUME NEW d \in Dev, NEW G, NEW P
  PROVE  Goes(RemoveFromNode(d), Rest({}, G, P), Rest({}, G, P))
<1>1. Goes(With("remove", d), Rest({Writing("n.m")}, G, P), Rest({}, G, P))
  <2>1. <<"remove", d>> \in Instr /\ Plain(<<"remove", d>>)
    BY Instructions DEF Plain, OfDev
  <2>2. Allowed(<<"remove", d>>, {Writing("n.m")}, {})
    BY DEF Allowed
  <2> QED BY <2>1, <2>2, PlainGoes DEF With, Rest
<1> QED BY <1>1, Mutexes, WLockGoes, GoesOn DEF RemoveFromNode

LEMMA RemoveDeviceGoes ==
  ASSUME NEW d \in Dev, NEW G, NEW P
  PROVE  Goes(RemoveDevice(d), Rest({}, G, P), Rest({}, G, P))
<1>1. <<"getNode", d>> \in Instr /\ Plain(<<"getNode", d>>)
  BY Instructions DEF Plain, OfDev
<1>2. Allowed(<<"getNode", d>>, {}, {})
  BY DEF Allowed
<1> QED BY <1>1, <1>2, PlainGoes DEF RemoveDevice, With, Rest

\* A sequence of devices, and the same program for each.
LEMMA ForEachTyped ==
  ASSUME NEW q \in Seq(Dev)
  PROVE  Len(q) \in Nat /\ DOMAIN q = 1..Len(q) /\ \A i \in 1..Len(q) : q[i] \in Dev
OBVIOUS

LEMMA PassesGo ==
  ASSUME NEW q \in Seq(Dev), NEW H, NEW L, NEW G, NEW P, H \subseteq {Reading("n.m")}
  PROVE  Goes(ForEach(q, Pass), Stand(H, {}, L, G, P), Stand(H, {}, L, G, P))
<1> DEFINE S == Stand(H, {}, L, G, P)
           g == [i \in 1..Len(q) |-> Pass(q[i])]
           h == [i \in 1..(Len(q) + 1) |-> S]
<1>1. ASSUME NEW i \in 1..Len(q) PROVE Goes(Pass(q[i]), S, S)
  <2>1. q[i] \in Dev /\ q[i] \in Lock
    BY ForEachTyped, Mutexes
  <2>2. Ordered(q[i], H)
    BY <2>1, Mutexes DEF Ordered, Reading
  <2> QED BY <2>1, <2>2, PassGoes
<1> HIDE DEF S
<1>2. Len(q) \in Nat /\ g \in [1..Len(q) -> Seq(Instr)]
  BY <1>1, ForEachTyped DEF Goes
<1>3. \A i \in 1..Len(q) : Goes(g[i], h[i], h[i + 1])
  <2>1. \A i \in 1..Len(q) : h[i] = S /\ h[i + 1] = S /\ g[i] = Pass(q[i])
    BY <1>2
  <2> HIDE DEF g, h
  <2> QED BY <1>1, <2>1
<1>4. h[1] = S /\ h[Len(q) + 1] = S
  BY <1>2
<1>5. ForEach(q, Pass) = FlattenSeq(g)
  BY ForEachTyped DEF ForEach
<1> HIDE DEF g, h
<1>6. Goes(FlattenSeq(g), h[1], h[Len(q) + 1])
  BY <1>2, <1>3, FlattenGoes
<1> QED BY <1>4, <1>5, <1>6 DEF S

LEMMA RemovesGo ==
  ASSUME NEW q \in Seq(Dev), NEW G, NEW P
  PROVE  Goes(ForEach(q, RemoveDevice), Rest({}, G, P), Rest({}, G, P))
<1> DEFINE S == Rest({}, G, P)
           g == [i \in 1..Len(q) |-> RemoveDevice(q[i])]
           h == [i \in 1..(Len(q) + 1) |-> S]
<1>1. ASSUME NEW i \in 1..Len(q) PROVE Goes(RemoveDevice(q[i]), S, S)
  BY ForEachTyped, RemoveDeviceGoes
<1> HIDE DEF S
<1>2. Len(q) \in Nat /\ g \in [1..Len(q) -> Seq(Instr)]
  BY <1>1, ForEachTyped DEF Goes
<1>3. \A i \in 1..Len(q) : Goes(g[i], h[i], h[i + 1])
  <2>1. \A i \in 1..Len(q) : h[i] = S /\ h[i + 1] = S /\ g[i] = RemoveDevice(q[i])
    BY <1>2
  <2> HIDE DEF g, h
  <2> QED BY <1>1, <2>1
<1>4. h[1] = S /\ h[Len(q) + 1] = S
  BY <1>2
<1>5. ForEach(q, RemoveDevice) = FlattenSeq(g)
  BY ForEachTyped DEF ForEach
<1> HIDE DEF g, h
<1>6. Goes(FlattenSeq(g), h[1], h[Len(q) + 1])
  BY <1>2, <1>3, FlattenGoes
<1> QED BY <1>4, <1>5, <1>6 DEF S

LEMMA UpdatesGo ==
  ASSUME NEW q \in Seq(Dev), NEW G, NEW P
  PROVE  Goes(ForEach(q, UpdateCapabilities), Rest({}, G, P), Rest({}, G, P))
<1> DEFINE S == Rest({}, G, P)
           g == [i \in 1..Len(q) |-> UpdateCapabilities(q[i])]
           h == [i \in 1..(Len(q) + 1) |-> S]
<1>1. ASSUME NEW i \in 1..Len(q) PROVE Goes(UpdateCapabilities(q[i]), S, S)
  BY ForEachTyped, UpdateCapabilitiesGoes
<1> HIDE DEF S
<1>2. Len(q) \in Nat /\ g \in [1..Len(q) -> Seq(Instr)]
  BY <1>1, ForEachTyped DEF Goes
<1>3. \A i \in 1..Len(q) : Goes(g[i], h[i], h[i + 1])
  <2>1. \A i \in 1..Len(q) : h[i] = S /\ h[i + 1] = S /\ g[i] = UpdateCapabilities(q[i])
    BY <1>2
  <2> HIDE DEF g, h
  <2> QED BY <1>1, <2>1
<1>4. h[1] = S /\ h[Len(q) + 1] = S
  BY <1>2
<1>5. ForEach(q, UpdateCapabilities) = FlattenSeq(g)
  BY ForEachTyped DEF ForEach
<1> HIDE DEF g, h
<1>6. Goes(FlattenSeq(g), h[1], h[Len(q) + 1])
  BY <1>2, <1>3, FlattenGoes
<1> QED BY <1>4, <1>5, <1>6 DEF S

CreateAndSet(d) == CreateDevice(d) \o SetUniqueId(d)

LEMMA CreatesGo ==
  ASSUME NEW q \in Seq(Dev), NEW G, NEW P, G # "join"
  PROVE  Goes(ForEach(q, CreateAndSet), Rest({}, G, P), Rest({}, G, P))
<1> DEFINE S == Rest({}, G, P)
           g == [i \in 1..Len(q) |-> CreateAndSet(q[i])]
           h == [i \in 1..(Len(q) + 1) |-> S]
<1>1. ASSUME NEW i \in 1..Len(q) PROVE Goes(CreateAndSet(q[i]), S, S)
  <2>1. q[i] \in Dev
    BY ForEachTyped
  <2>2. Goes(CreateDevice(q[i]), S, S)
    BY <2>1, CreateGoes
  <2>3. Goes(SetUniqueId(q[i]), S, S)
    BY <2>1, SetUniqueIdGoes
  <2> QED BY <2>2, <2>3, GoesOn DEF CreateAndSet
<1> HIDE DEF S
<1>2. Len(q) \in Nat /\ g \in [1..Len(q) -> Seq(Instr)]
  BY <1>1, ForEachTyped DEF Goes
<1>3. \A i \in 1..Len(q) : Goes(g[i], h[i], h[i + 1])
  <2>1. \A i \in 1..Len(q) : h[i] = S /\ h[i + 1] = S /\ g[i] = CreateAndSet(q[i])
    BY <1>2
  <2> HIDE DEF g, h
  <2> QED BY <1>1, <2>1
<1>4. h[1] = S /\ h[Len(q) + 1] = S
  BY <1>2
<1>5. ForEach(q, CreateAndSet) = FlattenSeq(g)
  BY ForEachTyped DEF ForEach
<1> HIDE DEF g, h
<1>6. Goes(FlattenSeq(g), h[1], h[Len(q) + 1])
  BY <1>2, <1>3, FlattenGoes
<1> QED BY <1>4, <1>5, <1>6 DEF S

\* The end of a section in which the node's mutex is held for reading.
LEMMA LeaveNodeGoes ==
  ASSUME NEW L, NEW G, NEW P, G # "tell"
  PROVE  Goes(RUnlock("n.m"), Stand({Reading("n.m")}, {}, L, G, P), Rest({}, G, P))
<1> DEFINE i == <<"runlock", "n.m">>
<1>1. i \in Instr
  BY Instructions, Mutexes DEF OfLock
<1>2. Ok(i, Stand({Reading("n.m")}, {}, L, G, P), Rest({}, G, P))
  BY DEF Ok, Rest, Stand, Allowed, Owes, OnlyDue, Speaks, Staged, Stopping
<1> QED BY <1>1, <1>2, GoesOne DEF RUnlock

\* What "starts", "look" and "stops" stand for.
LEMMA StartsGo ==
  ASSUME NEW q \in Seq(Dev), NEW L, NEW P, \A i \in 1..Len(q) : q[i] \in L
  PROVE  Goes(ForEach(q, SendStart) \o RUnlock("n.m"),
              Stand({Reading("n.m")}, {}, L, "run", P), Rest({}, "run", P))
<1> DEFINE S == Stand({Reading("n.m")}, {}, L, "run", P)
           g == [i \in 1..Len(q) |-> SendStart(q[i])]
           h == [i \in 1..(Len(q) + 1) |-> S]
<1>1. ASSUME NEW i \in 1..Len(q) PROVE Goes(SendStart(q[i]), S, S)
  <2>1. PICK d \in Dev : d = q[i] /\ d \in L
    BY ForEachTyped
  <2>2. Tell("start", d) \in Instr
    BY Instructions
  <2>3. Ok(Tell("start", d), S, S)
    BY <2>1 DEF Ok, Stand, Allowed, Owes, OnlyDue, Speaks, Staged, Stopping, Tell
  <2> HIDE DEF S
  <2> QED BY <2>1, <2>2, <2>3, GoesOne DEF SendStart, Send, Tell
<1>0. Goes(RUnlock("n.m"), S, Rest({}, "run", P))
  BY LeaveNodeGoes
<1> HIDE DEF S
<1>2. Len(q) \in Nat /\ g \in [1..Len(q) -> Seq(Instr)]
  BY <1>1, ForEachTyped DEF Goes
<1>3. \A i \in 1..Len(q) : Goes(g[i], h[i], h[i + 1])
  <2>1. \A i \in 1..Len(q) : h[i] = S /\ h[i + 1] = S /\ g[i] = SendStart(q[i])
    BY <1>2
  <2> HIDE DEF g, h
  <2> QED BY <1>1, <2>1
<1>4. h[1] = S /\ h[Len(q) + 1] = S
  BY <1>2
<1>5. ForEach(q, SendStart) = FlattenSeq(g)
  BY ForEachTyped DEF ForEach
<1> HIDE DEF g, h
<1>6. Goes(FlattenSeq(g), h[1], h[Len(q) + 1])
  BY <1>2, <1>3, FlattenGoes
<1>7. Goes(ForEach(q, SendStart), S, S)
  BY <1>4, <1>5, <1>6
<1>8. Goes(ForEach(q, SendStart) \o RUnlock("n.m"), S, Rest({}, "run", P))
  BY <1>0, <1>7, GoesOn
<1> QED BY <1>8 DEF S

LEMMA StopsGo ==
  ASSUME NEW q \in Seq(Dev), NEW L, \A i \in 1..Len(q) : q[i] \in L
  PROVE  Goes(ForEach(q, StopOne) \o RUnlock("n.m"),
              Stand({Reading("n.m")}, {}, L, "tell", {q[i] : i \in 1..Len(q)}),
              Rest({}, "none", {}))
<1> DEFINE R == {Reading("n.m")}
           P(i) == {q[j] : j \in i..Len(q)}
           g == [i \in 1..Len(q) |-> StopOne(q[i])]
           h == [i \in 1..(Len(q) + 1) |-> Stand(R, {}, L, "tell", P(i))]
<1>1. ASSUME NEW i \in 1..Len(q)
      PROVE  Goes(StopOne(q[i]), Stand(R, {}, L, "tell", P(i)), Stand(R, {}, L, "tell", P(i + 1)))
  <2>1. PICK d \in Dev : d = q[i] /\ d \in L
    BY ForEachTyped
  <2>2. <<"status", d>> \in Instr
    BY Instructions DEF OfDev
  <2>3. P(i) \subseteq P(i + 1) \cup {d} /\ P(i + 1) \subseteq P(i)
    <3>1. \A j \in i..Len(q) : j = i \/ j \in (i + 1)..Len(q)
      BY ForEachTyped
    <3>2. \A j \in (i + 1)..Len(q) : j \in i..Len(q)
      BY ForEachTyped
    <3> QED BY <2>1, <3>1, <3>2
  <2> HIDE DEF P
  <2>4. Ok(<<"status", d>>, Stand(R, {}, L, "tell", P(i)), Stand(R, {}, L, "tell", P(i + 1)))
    BY <2>1, <2>3 DEF Ok, Stand, Allowed, Owes, OnlyDue, Speaks, Staged, Stopping
  <2> HIDE DEF R
  <2> QED BY <2>1, <2>2, <2>4, GoesOne DEF StopOne, With
<1>2. Len(q) \in Nat /\ g \in [1..Len(q) -> Seq(Instr)]
  <2> HIDE DEF P, R
  <2> QED BY <1>1, ForEachTyped DEF Goes
<1>3. \A i \in 1..Len(q) : Goes(g[i], h[i], h[i + 1])
  <2> HIDE DEF P, R
  <2>1. \A i \in 1..Len(q) :
          /\ h[i] = Stand(R, {}, L, "tell", P(i)) /\ h[i + 1] = Stand(R, {}, L, "tell", P(i + 1))
          /\ g[i] = StopOne(q[i])
    BY <1>2
  <2> HIDE DEF g, h
  <2> QED BY <1>1, <2>1
<1>4. h[1] = Stand(R, {}, L, "tell", P(1)) /\ h[Len(q) + 1] = Stand(R, {}, L, "tell", {})
  <2>1. P(Len(q) + 1) = {}
    BY <1>2
  <2>2. 1 \in 1..(Len(q) + 1) /\ Len(q) + 1 \in 1..(Len(q) + 1)
    BY <1>2
  <2> HIDE DEF P, R
  <2> QED BY <2>1, <2>2
<1>5. ForEach(q, StopOne) = FlattenSeq(g)
  BY ForEachTyped DEF ForEach
<1>6. Goes(ForEach(q, StopOne), Stand(R, {}, L, "tell", P(1)), Stand(R, {}, L, "tell", {}))
  <2> HIDE DEF g, h, P, R
  <2>1. Goes(FlattenSeq(g), h[1], h[Len(q) + 1])
    BY <1>2, <1>3, FlattenGoes
  <2> QED BY <1>4, <1>5, <2>1
<1>7. Goes(RUnlock("n.m"), Stand(R, {}, L, "tell", {}), Rest({}, "none", {}))
  <2> DEFINE i == <<"runlock", "n.m">>
  <2>1. i \in Instr
    BY Instructions, Mutexes DEF OfLock
  <2>2. Ok(i, Stand(R, {}, L, "tell", {}), Rest({}, "none", {}))
    BY DEF Ok, Rest, Stand, Allowed, Owes, OnlyDue, Speaks, Staged, Stopping
  <2> QED BY <2>1, <2>2, GoesOne DEF RUnlock
<1> HIDE DEF g, h, P
<1>8. Goes(ForEach(q, StopOne) \o RUnlock("n.m"), Stand(R, {}, L, "tell", P(1)),
           Rest({}, "none", {}))
  BY <1>6, <1>7, GoesOn
<1> QED BY <1>8 DEF P

LEMMA LookGoes ==
  ASSUME NEW q \in Seq(Dev), NEW L, NEW P
  PROVE  Goes(ForEach(q, Pass) \o RUnlock("n.m"),
              Stand({Reading("n.m")}, {}, L, "run", P), Rest({}, "run", P))
BY PassesGo, LeaveNodeGoes, GoesOn

LEMMA UpdateGoes ==
  ASSUME NEW stay \in Seq(Dev), NEW new \in Seq(Dev), NEW gone \in Seq(Dev), NEW L, NEW P
  PROVE  Goes(UpdateNodeTable(stay, new, gone),
              Stand({Reading("n.m")}, {}, L, "run", P), Rest({}, "run", P))
<1> DEFINE S == Stand({Reading("n.m")}, {}, L, "run", P)
           A == Rest({}, "run", P)
<1>1. stay \o gone \in Seq(Dev) /\ stay \o new \in Seq(Dev)
  OBVIOUS
<1>2. Goes(ForEach(stay \o gone, Pass) \o RUnlock("n.m"), S, A)
  BY <1>1, LookGoes
<1>3. Goes(ForEach(new, LAMBDA d : CreateDevice(d) \o SetUniqueId(d)), A, A)
  <2>1. ForEach(new, LAMBDA d : CreateDevice(d) \o SetUniqueId(d)) = ForEach(new, CreateAndSet)
    BY DEF ForEach, CreateAndSet
  <2> QED BY <2>1, CreatesGo
<1>4. Goes(Do("look"), A, A)
  <2>1. <<"look">> \in Instr
    BY Instructions DEF OfNode
  <2>2. Ok(<<"look">>, A, A)
    BY DEF Ok, Rest, Stand, Allowed, Owes, OnlyDue, Speaks, Staged, Stopping
  <2> HIDE DEF A
  <2> QED BY <2>1, <2>2, GoesOne DEF Do
<1>5. Goes(ForEach(gone, RemoveDevice), A, A)
  BY RemovesGo
<1>6. Goes(ForEach(stay \o new, UpdateCapabilities), A, A)
  BY <1>1, UpdatesGo
<1> HIDE DEF S, A
<1> DEFINE c1 == ForEach(stay \o gone, Pass) \o RUnlock("n.m")
           c2 == ForEach(new, LAMBDA d : CreateDevice(d) \o SetUniqueId(d))
           c3 == Do("look")
           c4 == ForEach(gone, RemoveDevice)
           c5 == ForEach(stay \o new, UpdateCapabilities)
<1>7. UpdateNodeTable(stay, new, gone) = c1 \o c2 \o c3 \o c4 \o c5
  BY DEF UpdateNodeTable
<1> HIDE DEF c1, c2, c3, c4, c5
<1>8. Goes(c1, S, A) /\ Goes(c2, A, A) /\ Goes(c3, A, A) /\ Goes(c4, A, A) /\ Goes(c5, A, A)
  BY <1>2, <1>3, <1>4, <1>5, <1>6 DEF c1, c2, c3, c4, c5
<1>9. Goes(c1 \o c2, S, A)
  BY <1>8, GoesOn
<1>10. Goes(c1 \o c2 \o c3, S, A)
  BY <1>8, <1>9, GoesOn
<1>11. Goes(c1 \o c2 \o c3 \o c4, S, A)
  BY <1>8, <1>10, GoesOn
<1>12. Goes(c1 \o c2 \o c3 \o c4 \o c5, S, A)
  BY <1>8, <1>11, GoesOn
<1> QED BY <1>7, <1>12 DEF S, A

\* An instruction that has no argument.
LEMMA DoGoes ==
  ASSUME NEW w \in OfNode, NEW s, NEW t, Ok(<<w>>, s, t)
  PROVE  Goes(Do(w), s, t)
<1>1. <<w>> \in Instr
  BY Instructions
<1> QED BY <1>1, GoesOne DEF Do

LEMMA FinishGoes == Goes(Finish, Rest({}, "run", {}), Free)
<1>1. Goes(Do("release"), Rest({}, "run", {}), Rest({}, "tell", Dev))
  <2>1. Ok(<<"release">>, Rest({}, "run", {}), Rest({}, "tell", Dev))
    BY DEF Ok, Rest, Stand, Allowed, Owes, OnlyDue, Speaks, Staged, Stopping
  <2> QED BY <2>1, DoGoes DEF OfNode
<1>2. Goes(Do("stops"), Rest({}, "tell", Dev), Free)
  <2>1. Ok(<<"stops">>, Rest({}, "tell", Dev), Free)
    BY DEF Ok, Rest, Free, Stand, Allowed, Owes, OnlyDue, Speaks, Staged, Stopping
  <2> QED BY <2>1, DoGoes DEF OfNode
<1> QED BY <1>1, <1>2, GoesOn DEF Finish

LEMMA SurveyedGoes == Goes(Do("survey") \o Finish, Rest({}, "run", {}), Free)
<1>1. Ok(<<"survey">>, Rest({}, "run", {}), Rest({}, "run", {}))
  BY DEF Ok, Rest, Stand, Allowed, Owes, OnlyDue, Speaks, Staged, Stopping
<1>2. Goes(Do("survey"), Rest({}, "run", {}), Rest({}, "run", {}))
  BY <1>1, DoGoes DEF OfNode
<1> QED BY <1>2, FinishGoes, GoesOn

LEMMA EnumerateGoes == Goes(Enumerate, Rest({}, "begin", {}), Free)
<1> DEFINE B == Rest({}, "begin", {})
           R == Rest({}, "run", {})
<1>1. Ok(<<"begin">>, B, R) /\ Ok(<<"starts">>, R, R) /\ Ok(<<"interrogate">>, R, Free)
  BY DEF Ok, Rest, Free, Stand, Allowed, Owes, OnlyDue, Speaks, Staged, Stopping
<1> HIDE DEF B, R
<1>2. Goes(Do("begin"), B, R) /\ Goes(Do("starts"), R, R) /\ Goes(Do("interrogate"), R, Free)
  BY <1>1, DoGoes DEF OfNode
<1>3. Goes(Do("begin") \o Do("starts"), B, R)
  BY <1>2, GoesOn
<1>4. Goes(Enumerate, B, Free)
  BY <1>2, <1>3, GoesOn DEF Enumerate
<1> QED BY <1>4 DEF B

LEMMA AskGoes == Goes(Do("startEnumeration"), Rest({}, "ask", {}), Free)
<1>1. Ok(<<"startEnumeration">>, Rest({}, "ask", {}), Free)
  BY DEF Ok, Rest, Free, Stand, Allowed, Owes, OnlyDue, Speaks, Staged, Stopping
<1> QED BY <1>1, DoGoes DEF OfNode

LEMMA JoinGoes ==
  ASSUME NEW d \in Dev
  PROVE  Goes(Join(d), Rest({}, "join", {}), Free)
<1> DEFINE J == Rest({}, "join", {})
           W == Rest({Writing("z.nodeLock")}, "join", {})
           A == Rest({}, "ask", {})
<1>1. Goes(WLock("z.nodeLock"), J, W)
  BY Mutexes, WLockGoes
<1>2. Goes(Do("createNode"), W, J)
  <2>1. Ok(<<"createNode">>, W, J)
    BY DEF Ok, Rest, Stand, Allowed, Owes, OnlyDue, Speaks, Staged, Stopping
  <2> QED BY <2>1, DoGoes DEF OfNode
<1>3. Goes(CreateDevice(d), J, A)
  BY CreateGoes
<1>4. Goes(Do("startEnumeration"), A, Free)
  BY AskGoes
<1> HIDE DEF J, W, A
<1>5. Goes(WLock("z.nodeLock") \o Do("createNode"), J, J)
  BY <1>1, <1>2, GoesOn
<1>6. Goes(WLock("z.nodeLock") \o Do("createNode") \o CreateDevice(d), J, A)
  BY <1>3, <1>5, GoesOn
<1>7. Goes(Join(d), J, Free)
  BY <1>4, <1>6, GoesOn DEF Join
<1> QED BY <1>7 DEF J

LEMMA RemoveNodeGoes ==
  ASSUME NEW G, NEW P
  PROVE  Goes(RemoveNode, Rest({}, G, P), Rest({}, G, P))
<1>1. Goes(Do("dropNode"), Rest({Writing("z.nodeLock")}, G, P), Rest({}, G, P))
  <2>1. Ok(<<"dropNode">>, Rest({Writing("z.nodeLock")}, G, P), Rest({}, G, P))
    BY DEF Ok, Rest, Stand, Allowed, Owes, OnlyDue, Speaks, Staged, Stopping
  <2> QED BY <2>1, DoGoes DEF OfNode
<1> QED BY <1>1, Mutexes, WLockGoes, GoesOn DEF RemoveNode

LEMMA LeaveGoes == Goes(Leave, Free, Free)
<1>1. Free = Rest({}, "none", {})
  BY DEF Free, Rest
<1>2. Goes(Pass("z.nodeLock"), Free, Free)
  BY <1>1, Mutexes, PassGoes DEF Ordered, Rest
<1>3. Goes(Do("snapshot"), Free, Free)
  <2>1. Ok(<<"snapshot">>, Free, Free)
    BY DEF Ok, Free, Stand, Allowed, Owes, OnlyDue, Speaks, Staged, Stopping
  <2> QED BY <2>1, DoGoes DEF OfNode
<1> QED BY <1>2, <1>3, GoesOn DEF Leave

\* What the reader calls, with an enumeration to ask for or without.
Wants(what) == Rest({}, IF what = "enumerate" THEN "ask" ELSE "none", {})

LEMMA CallGoes ==
  ASSUME NEW what \in Calls, NEW d \in Dev
  PROVE  Goes(Call(what, d), Wants(what), Free)
<1>0. what \in {"devices", "capability", "enumerate"} /\ Free = Rest({}, "none", {})
  BY DeliveryAssumption DEF Free, Rest
<1>1. CASE what = "devices"
  <2> DEFINE W == Rest({Writing("z.nodeLock")}, "none", {})
  <2>1. Goes(WLock("z.nodeLock"), Free, W)
    BY <1>0, Mutexes, WLockGoes
  <2>2. Goes(Do("list"), W, W)
    <3>1. Ok(<<"list">>, W, W)
      BY DEF Ok, Rest, Stand, Allowed, Owes, OnlyDue, Speaks, Staged, Stopping
    <3> HIDE DEF W
    <3> QED BY <3>1, DoGoes DEF OfNode
  <2>3. Goes(Unlock("z.nodeLock"), W, Free)
    BY <1>0, Mutexes, UnlockGoes
  <2> HIDE DEF W
  <2>4. Goes(WLock("z.nodeLock") \o Do("list"), Free, W)
    BY <2>1, <2>2, GoesOn
  <2>5. Goes(WLock("z.nodeLock") \o Do("list") \o Unlock("z.nodeLock"), Free, Free)
    BY <2>3, <2>4, GoesOn
  <2> QED BY <1>0, <1>1, <2>5 DEF Call, Wants
<1>2. CASE what = "capability"
  <2>1. Goes(Pass(d), Free, Free)
    BY <1>0, Mutexes, PassGoes DEF Ordered, Rest
  <2> QED BY <1>0, <1>2, <2>1 DEF Call, Wants
<1>3. CASE what = "enumerate"
  <2>1. Call(what, d) = Do("startEnumeration")
    BY <1>3 DEF Call
  <2> QED BY <1>3, <2>1, AskGoes DEF Wants
<1> QED BY <1>0, <1>1, <1>2, <1>3

\* The events of the capabilities that are attached or detached.
LEMMA AttachGoes ==
  ASSUME NEW d \in Dev, NEW H, NEW L, NEW G, NEW P, NEW c \in {<<>>, Send("capability", d)}
  PROVE  Goes(c, Stand(H, {}, L, G, P), Stand(H, {}, L, G, P))
<1>1. CASE c = <<>>
  BY <1>1, GoesNil
<1>2. CASE c = Send("capability", d)
  <2>1. Tell("capability", d) \in Instr /\ Plain(Tell("capability", d))
    BY Instructions DEF Plain, Tell
  <2>2. Allowed(Tell("capability", d), H, H)
    BY DEF Allowed, Tell
  <2>3. Goes(<<Tell("capability", d)>>, Stand(H, {}, L, G, P), Stand(H, {}, L, G, P))
    BY <2>1, <2>2, PlainGoes
  <2> QED BY <1>2, <2>3 DEF Send, Tell
<1> QED BY <1>1, <1>2

\* Each device once.
LEMMA Listed ==
  ASSUME NEW S \in SUBSET Dev, NEW q \in SetToSeqs(S)
  PROVE  q \in Seq(Dev) /\ \A i \in 1..Len(q) : q[i] \in S
<1>1. IsFiniteSet(S)
  BY FS_Subset, DeliveryAssumption
<1>2. PICK n \in Nat : n = Cardinality(S)
  BY <1>1, FS_CardinalityType
<1>3. q \in [1..n -> S]
  BY <1>2 DEF SetToSeqs
<1> QED BY <1>3

LEMMA ListedAll ==
  ASSUME NEW S \in SUBSET Dev, NEW q \in SetToSeqs(S)
  PROVE  S = {q[i] : i \in 1..Len(q)}
<1>1. IsFiniteSet(S)
  BY FS_Subset, DeliveryAssumption
<1>2. PICK n \in Nat : n = Cardinality(S)
  BY <1>1, FS_CardinalityType
<1>3. q \in [1..n -> S] /\ \A i, j \in 1..n : i # j => q[i] # q[j]
  BY <1>2 DEF SetToSeqs
<1> DEFINE T == {q[i] : i \in 1..n}
<1>4. T \subseteq S /\ Len(q) = n
  BY <1>3
<1>5. Cardinality(T) = n
  <2>1. q \in Bijection(1..n, T)
    <3>1. q \in [1..n -> T]
      BY <1>3
    <3>2. \A t \in T : \E i \in 1..n : q[i] = t
      OBVIOUS
    <3> HIDE DEF T
    <3> QED BY <1>3, <3>1, <3>2 DEF Bijection, Injection, Surjection, IsInjective
  <2>2. ExistsBijection(1..n, T)
    <3> HIDE DEF T
    <3> QED BY <2>1 DEF ExistsBijection
  <2> HIDE DEF T
  <2> QED BY <2>2, FS_CountingElements
<1> HIDE DEF T
<1>6. T = S
  BY <1>1, <1>2, <1>4, <1>5, FS_Subset
<1> QED BY <1>4, <1>6 DEF T

-----------------------------------------------------------------------------
(* The invariant.                                                          *)

\* The mutexes that g holds.
Holds(g) ==
  {k \in Lock \X {"r", "w"} : IF k[2] = "r" THEN g \in readers[k[1]] ELSE owner[k[1]] = g}

\* What the reader knows of d once it has read the event that waits for it.
Seen(d) == IF channel = <<>> THEN told[d] ELSE Tells(Head(channel))[d]

TypeOK ==
  /\ code \in [Goroutine -> Seq(Instr)]
  /\ readers \in [Lock -> SUBSET Goroutine] /\ owner \in [Lock -> Goroutine \cup {Nobody}]
  /\ channel \in {<<>>} \cup {<<e>> : e \in Event}
  /\ known \in BOOLEAN /\ device \in SUBSET Dev
  /\ free \in BOOLEAN /\ enumerating \in BOOLEAN
  /\ made \in SUBSET Dev /\ calls \in Nat /\ surveys \in Nat
  /\ told \in [Dev -> {"absent", "idle", "enumerating"}]

\* A mutex that is asked for while it is read is not yet taken.
Alone ==
  \A l \in Lock, g \in Goroutine :
    owner[l] = g /\ readers[l] # {} => code[g] # <<>> /\ Head(code[g]) = <<"acquire", l>>

\* p says where each goroutine stands; it goes on to its end from there.
Follows(p) ==
  \A g \in Goroutine : Goes(code[g], p[g], Free) /\ p[g].held = Holds(g)

\* A goroutine speaks of the devices that the reader knows.
Finds(p) ==
  \A g \in Goroutine : \A d \in p[g].listed :
    d \in Dev /\ Seen(d) # "absent" /\ Reading("n.m") \in p[g].held

\* The reader knows the devices of the table, but for one that is announced next
\* or taken out next.
Tables(p) ==
  \A d \in Dev :
    /\ Seen(d) # "absent" => d \in device
    /\ d \in device /\ Seen(d) = "absent" =>
         \E g \in Goroutine : p[g].due \cap {Tell("added", d), <<"drop", d>>} # {}
    /\ \A g \in Goroutine : Tell("added", d) \in p[g].due => d \in device
    /\ \A g \in Goroutine : <<"drop", d>> \in p[g].due => Seen(d) = "absent"

\* Whoever is known to be enumerating is yet to be told of.
Promises(s, d) == s.stage = "run" \/ d \in s.stop
Ends(p) ==
  \A d \in Dev : Seen(d) = "enumerating" => \E g \in Goroutine : Promises(p[g], d)

\* Sessions enumerate, and the loop joins.
Role(g, s) ==
  (s.stage \in {"begin", "run", "tell"} => g \in Session) /\ (s.stage = "join" => g = "loop")
Roles(p) == \A g \in Goroutine : Role(g, p[g])

\* Before the reader calls anything there is one enumeration, that of the join.
Over(i) == i[1] = "send" /\ i[2].kind = "stopped" => ~i[2].enumerating
First(p) ==
  calls = 0 =>
    /\ code["consumer"] = <<>>
    /\ \A g, x \in Goroutine : p[g].stage # "none" /\ p[x].stage # "none" => g = x
    /\ enumerating => \E g \in Goroutine : p[g].stage = "run"
    /\ made = {} => \A g \in Goroutine : p[g].stage \in {"none", "join"}
    /\ \A g \in Goroutine : \A i \in p[g].due : Over(i)
    /\ channel # <<>> => ~(Head(channel).kind = "stopped" /\ Head(channel).enumerating)

Accounts(p) ==
  Follows(p) /\ Finds(p) /\ Tables(p) /\ Ends(p) /\ Roles(p) /\ First(p)

IInv == TypeOK /\ Alone /\ \E p : Accounts(p)

-----------------------------------------------------------------------------
(* Its parts.                                                              *)

LEMMA Goroutines == "loop" \in Goroutine /\ "consumer" \in Goroutine /\ Session \subseteq Goroutine
BY DEF Goroutine

\* An instruction has its arguments.
LEMMA AtIs ==
  ASSUME TypeOK, NEW g \in Goroutine, NEW w, At(g, w)
  PROVE  /\ code[g] # <<>> /\ code[g] \in Seq(Instr) /\ Head(code[g]) \in Instr
         /\ Head(code[g])[1] = w
         /\ w \in OfLock => Arg(g) \in Lock /\ Head(code[g]) = <<w, Arg(g)>>
         /\ w \in OfDev => Arg(g) \in Dev /\ Head(code[g]) = <<w, Arg(g)>>
         /\ w \in OfNode => Head(code[g]) = <<w>>
         /\ w = "send" => Arg(g) \in Event /\ Head(code[g]) = <<w, Arg(g)>>
<1>1. code[g] # <<>> /\ code[g] \in Seq(Instr)
  BY DEF At, TypeOK
<1>2. PICK i : i = Head(code[g])
  OBVIOUS
<1>3. i \in Instr /\ i[1] = w /\ Arg(g) = i[2]
  BY <1>1, <1>2 DEF At, Arg
<1>4. \/ \E x \in OfLock, l \in Lock : i = <<x, l>>
      \/ \E x \in OfDev, d \in Dev : i = <<x, d>>
      \/ \E e \in Event : i = <<"send", e>>
      \/ \E x \in OfNode : i = <<x>>
  BY <1>3 DEF Instr
<1>5. /\ OfLock \cap OfDev = {} /\ OfLock \cap OfNode = {} /\ OfDev \cap OfNode = {}
      /\ "send" \notin OfLock /\ "send" \notin OfDev /\ "send" \notin OfNode
  BY DEF OfLock, OfDev, OfNode
<1>6. \/ w \in OfLock /\ i[2] \in Lock /\ i = <<w, i[2]>>
      \/ w \in OfDev /\ i[2] \in Dev /\ i = <<w, i[2]>>
      \/ w = "send" /\ i[2] \in Event /\ i = <<w, i[2]>>
      \/ w \in OfNode /\ i = <<w>>
  BY <1>3, <1>4
<1> QED BY <1>1, <1>2, <1>3, <1>5, <1>6

\* Where a goroutine that has something to do will stand after it.
LEMMA Ahead ==
  ASSUME TypeOK, NEW p, Follows(p), NEW g \in Goroutine, code[g] # <<>>
  PROVE  /\ Tail(code[g]) \in Seq(Instr)
         /\ \E m : Ok(Head(code[g]), p[g], m) /\ Goes(Tail(code[g]), m, Free)
BY GoesHead DEF Follows

LEMMA AtRest ==
  ASSUME NEW p, Follows(p), NEW g \in Goroutine, code[g] = <<>>
  PROVE  p[g] = Free
BY GoesEnd DEF Follows

LEMMA DoneIs ==
  ASSUME TypeOK, NEW g \in Goroutine, Done(g), code[g] # <<>>
  PROVE  code' = [code EXCEPT ![g] = Tail(code[g])]
<1>1. Tail(code[g]) \in Seq(Instr)
  BY DEF TypeOK
<1>2. \A s \in Seq(Instr) : <<>> \o s = s
  OBVIOUS
<1>3. <<>> \o Tail(code[g]) = Tail(code[g])
  BY <1>1, <1>2
<1> QED BY <1>3 DEF Done, Becomes

\* One goroutine goes on and nobody else changes what it holds.
Moved(p, g, m) == [x \in Goroutine |-> IF x = g THEN m ELSE p[x]]

LEMMA MovedFollows ==
  ASSUME TypeOK, NEW p, Follows(p), NEW g \in Goroutine, NEW m, NEW c, Goes(c, m, Free),
         code' = [code EXCEPT ![g] = c], m.held = Holds(g)',
         \A x \in Goroutine \ {g} : Holds(x)' = Holds(x)
  PROVE  Follows(Moved(p, g, m))' /\ code' \in [Goroutine -> Seq(Instr)]
<1>1. c \in Seq(Instr)
  BY DEF Goes
<1>2. code' \in [Goroutine -> Seq(Instr)]
  BY <1>1 DEF TypeOK
<1>3. ASSUME NEW x \in Goroutine
      PROVE  Goes(code'[x], Moved(p, g, m)[x], Free) /\ Moved(p, g, m)[x].held = Holds(x)'
  <2>1. CASE x = g
    <3>1. code'[x] = c /\ Moved(p, g, m)[x] = m
      BY <2>1 DEF TypeOK, Moved
    <3> QED BY <2>1, <3>1
  <2>2. CASE x # g
    <3>1. code'[x] = code[x] /\ Moved(p, g, m)[x] = p[x]
      BY <2>2 DEF TypeOK, Moved
    <3>2. Goes(code[x], p[x], Free) /\ p[x].held = Holds(x) /\ Holds(x)' = Holds(x)
      BY <2>2 DEF Follows
    <3> QED BY <3>1, <3>2
  <2> QED BY <2>1, <2>2
<1>4. Follows(Moved(p, g, m))'
  BY <1>3 DEF Follows
<1> QED BY <1>2, <1>4

LEMMA MovedIs ==
  ASSUME NEW p, NEW g \in Goroutine, NEW m
  PROVE  Moved(p, g, m)[g] = m /\ \A x \in Goroutine : x # g => Moved(p, g, m)[x] = p[x]
BY DEF Moved

LEMMA SeenKept ==
  ASSUME channel' = channel, told' = told
  PROVE  \A d : Seen(d)' = Seen(d)
BY DEF Seen, Tells

\* One goroutine goes on, and neither the events nor the table are touched.
LEMMA Local ==
  ASSUME TypeOK, NEW p, Accounts(p), NEW g \in Goroutine, NEW m, NEW c,
         Goes(c, m, Free), code[g] # <<>> \/ g # "consumer",
         code' = [code EXCEPT ![g] = c], m.held = Holds(g)',
         \A x \in Goroutine \ {g} : Holds(x)' = Holds(x),
         channel' = channel, told' = told, device' = device, made' = made, calls' = calls,
         \A d \in m.listed : d \in Dev /\ Seen(d) # "absent" /\ Reading("n.m") \in m.held,
         p[g].due = {},
         \A i \in m.due : i[1] = "send" /\ i[2].kind = "stopped" /\ (calls = 0 => Over(i)),
         \A d \in Dev : Seen(d) = "enumerating" /\ Promises(p[g], d) => Promises(m, d),
         Role(g, m),
         calls = 0 =>
           /\ m.stage # "none" =>
                p[g].stage # "none" \/ \A x \in Goroutine : p[x].stage = "none"
           /\ enumerating' => m.stage = "run" \/ (enumerating /\ p[g].stage # "run")
           /\ made = {} => m.stage \in {"none", "join"}
  PROVE  code' \in [Goroutine -> Seq(Instr)] /\ \E q : Accounts(q)'
<1> DEFINE q == Moved(p, g, m)
<1>1. Follows(q)' /\ code' \in [Goroutine -> Seq(Instr)]
  BY MovedFollows DEF Accounts
<1>2. q[g] = m /\ \A x \in Goroutine : x # g => q[x] = p[x]
  BY MovedIs
<1> HIDE DEF q
<1>3. \A d : Seen(d)' = Seen(d)
  BY SeenKept
<1>4. \A x \in Goroutine : x # g => q[x].held = p[x].held
  BY <1>2
<1>5. Finds(q)'
  <2>1. ASSUME NEW x \in Goroutine, NEW d \in q[x].listed
        PROVE  d \in Dev /\ Seen(d) # "absent" /\ Reading("n.m") \in q[x].held
    <3>1. CASE x = g
      BY <1>2, <3>1
    <3>2. CASE x # g
      BY <1>2, <3>2 DEF Accounts, Finds
    <3> QED BY <3>1, <3>2
  <2> QED BY <1>3, <2>1 DEF Finds
<1>6. Tables(q)'
  <2>1. ASSUME NEW d \in Dev, NEW x \in Goroutine
        PROVE  /\ p[x].due \cap {Tell("added", d), <<"drop", d>>} # {}
                    => q[x].due \cap {Tell("added", d), <<"drop", d>>} # {}
               /\ Tell("added", d) \in q[x].due => Tell("added", d) \in p[x].due
               /\ <<"drop", d>> \in q[x].due => <<"drop", d>> \in p[x].due
    <3>1. CASE x = g
      <4>1. Tell("added", d) \notin m.due /\ <<"drop", d>> \notin m.due
        BY DEF Tell
      <4> QED BY <1>2, <3>1, <4>1
    <3>2. CASE x # g
      BY <1>2, <3>2
    <3> QED BY <3>1, <3>2
  <2>2. ASSUME NEW d \in Dev
        PROVE  /\ Seen(d) # "absent" => d \in device'
               /\ d \in device' /\ Seen(d) = "absent" =>
                    \E x \in Goroutine : q[x].due \cap {Tell("added", d), <<"drop", d>>} # {}
               /\ \A x \in Goroutine : Tell("added", d) \in q[x].due => d \in device'
               /\ \A x \in Goroutine : <<"drop", d>> \in q[x].due => Seen(d) = "absent"
    BY <2>1 DEF Accounts, Tables
  <2> QED BY <1>3, <2>2 DEF Tables
<1>7. Ends(q)'
  <2>1. ASSUME NEW d \in Dev, Seen(d) = "enumerating"
        PROVE  \E x \in Goroutine : Promises(q[x], d)
    <3>1. PICK x \in Goroutine : Promises(p[x], d)
      BY <2>1 DEF Accounts, Ends
    <3>2. Promises(q[x], d)
      <4>1. CASE x = g
        BY <1>2, <2>1, <3>1, <4>1
      <4>2. CASE x # g
        BY <1>2, <3>1, <4>2
      <4> QED BY <4>1, <4>2
    <3> QED BY <3>2
  <2> QED BY <1>3, <2>1 DEF Ends
<1>8. Roles(q)'
  <2>1. ASSUME NEW x \in Goroutine PROVE Role(x, q[x])
    BY <1>2 DEF Accounts, Roles
  <2> QED BY <2>1 DEF Roles
<1>9. First(q)'
  <2> SUFFICES ASSUME calls = 0
               PROVE  /\ code'["consumer"] = <<>>
                      /\ \A y, x \in Goroutine : q[y].stage # "none" /\ q[x].stage # "none" => y = x
                      /\ enumerating' => \E x \in Goroutine : q[x].stage = "run"
                      /\ made = {} => \A x \in Goroutine : q[x].stage \in {"none", "join"}
                      /\ \A x \in Goroutine : \A i \in q[x].due : Over(i)
                      /\ channel # <<>> =>
                           ~(Head(channel).kind = "stopped" /\ Head(channel).enumerating)
    BY DEF First
  <2>1. First(p)!2
    BY DEF Accounts, First
  <2>2. code'["consumer"] = <<>>
    BY <2>1, Goroutines DEF TypeOK
  <2>3. \A x, y \in Goroutine : q[x].stage # "none" /\ q[y].stage # "none" => x = y
    <3> SUFFICES ASSUME NEW x \in Goroutine, NEW y \in Goroutine,
                        q[x].stage # "none", q[y].stage # "none", x # y
                 PROVE  FALSE
      OBVIOUS
    <3>1. (x # g => p[x].stage # "none") /\ (y # g => p[y].stage # "none")
      BY <1>2
    <3>2. m.stage # "none"
      BY <1>2, <2>1, <3>1
    <3> QED BY <2>1, <3>1, <3>2
  <2>4. enumerating' => \E x \in Goroutine : q[x].stage = "run"
    <3>1. SUFFICES ASSUME enumerating', m.stage # "run"
                   PROVE  \E x \in Goroutine : q[x].stage = "run"
      BY <1>2
    <3>2. PICK x \in Goroutine : p[x].stage = "run"
      BY <2>1, <3>1
    <3>3. x # g
      BY <3>1, <3>2
    <3> QED BY <1>2, <3>2, <3>3
  <2>5. made = {} => \A x \in Goroutine : q[x].stage \in {"none", "join"}
    BY <1>2, <2>1
  <2>6. \A x \in Goroutine : \A i \in q[x].due : Over(i)
    BY <1>2, <2>1
  <2> QED BY <2>1, <2>2, <2>3, <2>4, <2>5, <2>6
<1>10. Accounts(q)'
  BY <1>1, <1>5, <1>6, <1>7, <1>8, <1>9 DEF Accounts
<1> QED BY <1>1, <1>10

\* Asking for a mutex is what may break the rule, and it does not.
LEMMA AloneKept ==
  ASSUME TypeOK, Alone, NEW g \in Goroutine, NEW c,
         code' = [code EXCEPT ![g] = c],
         \A l \in Lock :
           \/ owner'[l] = Nobody
           \/ owner'[l] = owner[l] /\ readers'[l] = {}
           \/ owner'[l] = owner[l] /\ readers'[l] \subseteq readers[l] /\ ~At(g, "acquire")
           \/ owner'[l] = g /\ c # <<>> /\ Head(c) = <<"acquire", l>>
  PROVE  Alone'
<1> SUFFICES ASSUME NEW l \in Lock, NEW x \in Goroutine, owner'[l] = x, readers'[l] # {}
             PROVE  code'[x] # <<>> /\ Head(code'[x]) = <<"acquire", l>>
  BY DEF Alone
<1>1. x # Nobody
  BY DeliveryAssumption
<1>2. CASE owner'[l] = owner[l] /\ readers'[l] \subseteq readers[l] /\ ~At(g, "acquire")
  <2>1. code[x] # <<>> /\ Head(code[x]) = <<"acquire", l>>
    BY <1>2 DEF Alone
  <2>2. x # g
    BY <1>2, <2>1 DEF At
  <2> QED BY <2>1, <2>2 DEF TypeOK
<1>3. CASE owner'[l] = g /\ c # <<>> /\ Head(c) = <<"acquire", l>>
  <2>1. code'[x] = c
    BY <1>3 DEF TypeOK
  <2> QED BY <1>3, <2>1
<1> QED BY <1>1, <1>2, <1>3

\* The mutexes that g holds, when one is taken or freed.
LEMMA HoldsKept ==
  ASSUME readers' = readers, owner' = owner
  PROVE  \A x : Holds(x)' = Holds(x)
BY DEF Holds

LEMMA HoldsRead ==
  ASSUME TypeOK, NEW g \in Goroutine, NEW l \in Lock, owner' = owner,
         readers' = [readers EXCEPT ![l] = @ \cup {g}]
  PROVE  /\ Holds(g)' = Holds(g) \cup {Reading(l)}
         /\ \A x \in Goroutine \ {g} : Holds(x)' = Holds(x)
         /\ readers' \in [Lock -> SUBSET Goroutine]
<1>1. \A k \in Lock : readers'[k] = IF k = l THEN readers[k] \cup {g} ELSE readers[k]
  BY DEF TypeOK
<1>2. readers' \in [Lock -> SUBSET Goroutine]
  BY DEF TypeOK
<1>3. Holds(g)' = Holds(g) \cup {Reading(l)}
  <2>1. Reading(l) \in Lock \X {"r", "w"} /\ Reading(l)[1] = l /\ Reading(l)[2] = "r"
    BY DEF Reading
  <2>2. \A k \in Lock \X {"r", "w"} : k[2] = "r" /\ k[1] = l => k = Reading(l)
    BY DEF Reading
  <2> QED BY <1>1, <2>1, <2>2 DEF Holds
<1>4. \A x \in Goroutine \ {g} : Holds(x)' = Holds(x)
  BY <1>1 DEF Holds
<1> QED BY <1>2, <1>3, <1>4

LEMMA HoldsUnread ==
  ASSUME TypeOK, NEW g \in Goroutine, NEW l \in Lock, owner' = owner,
         readers' = [readers EXCEPT ![l] = @ \ {g}]
  PROVE  /\ Holds(g)' = Holds(g) \ {Reading(l)}
         /\ \A x \in Goroutine \ {g} : Holds(x)' = Holds(x)
         /\ readers' \in [Lock -> SUBSET Goroutine]
<1>1. \A k \in Lock : readers'[k] = IF k = l THEN readers[k] \ {g} ELSE readers[k]
  BY DEF TypeOK
<1>2. readers' \in [Lock -> SUBSET Goroutine]
  BY DEF TypeOK
<1>3. Holds(g)' = Holds(g) \ {Reading(l)}
  <2>1. Reading(l)[1] = l /\ Reading(l)[2] = "r"
    BY DEF Reading
  <2>2. \A k \in Lock \X {"r", "w"} : k[2] = "r" /\ k[1] = l => k = Reading(l)
    BY DEF Reading
  <2> QED BY <1>1, <2>1, <2>2 DEF Holds
<1>4. \A x \in Goroutine \ {g} : Holds(x)' = Holds(x)
  BY <1>1 DEF Holds
<1> QED BY <1>2, <1>3, <1>4

LEMMA HoldsWrite ==
  ASSUME TypeOK, NEW g \in Goroutine, NEW l \in Lock, readers' = readers, owner[l] = Nobody,
         owner' = [owner EXCEPT ![l] = g]
  PROVE  /\ Holds(g)' = Holds(g) \cup {Writing(l)}
         /\ \A x \in Goroutine \ {g} : Holds(x)' = Holds(x)
         /\ owner' \in [Lock -> Goroutine \cup {Nobody}]
<1>1. \A k \in Lock : owner'[k] = IF k = l THEN g ELSE owner[k]
  BY DEF TypeOK
<1>2. owner' \in [Lock -> Goroutine \cup {Nobody}]
  BY DEF TypeOK
<1>3. Holds(g)' = Holds(g) \cup {Writing(l)}
  <2>1. Writing(l) \in Lock \X {"r", "w"} /\ Writing(l)[1] = l /\ Writing(l)[2] = "w"
    BY DEF Writing
  <2>2. \A k \in Lock \X {"r", "w"} : k[2] # "r" /\ k[1] = l => k = Writing(l)
    BY DEF Writing
  <2> QED BY <1>1, <2>1, <2>2 DEF Holds
<1>4. \A x \in Goroutine \ {g} : Holds(x)' = Holds(x)
  BY <1>1, DeliveryAssumption DEF Holds
<1> QED BY <1>2, <1>3, <1>4

LEMMA HoldsFree ==
  ASSUME TypeOK, NEW g \in Goroutine, NEW l \in Lock, readers' = readers,
         Writing(l) \in Holds(g), owner' = [owner EXCEPT ![l] = Nobody]
  PROVE  /\ Holds(g)' = Holds(g) \ {Writing(l)}
         /\ \A x \in Goroutine \ {g} : Holds(x)' = Holds(x)
         /\ owner' \in [Lock -> Goroutine \cup {Nobody}]
<1>0. owner[l] = g
  BY DEF Holds, Writing
<1>1. \A k \in Lock : owner'[k] = IF k = l THEN Nobody ELSE owner[k]
  BY DEF TypeOK
<1>2. owner' \in [Lock -> Goroutine \cup {Nobody}]
  BY DEF TypeOK
<1>3. Holds(g)' = Holds(g) \ {Writing(l)}
  <2>1. Writing(l)[1] = l /\ Writing(l)[2] = "w"
    BY DEF Writing
  <2>2. \A k \in Lock \X {"r", "w"} : k[2] # "r" /\ k[1] = l => k = Writing(l)
    BY DEF Writing
  <2> QED BY <1>0, <1>1, <2>1, <2>2, DeliveryAssumption DEF Holds
<1>4. \A x \in Goroutine \ {g} : Holds(x)' = Holds(x)
  BY <1>0, <1>1, DeliveryAssumption DEF Holds
<1> QED BY <1>2, <1>3, <1>4

-----------------------------------------------------------------------------
(* The steps.                                                              *)

LEMMA NoneListed ==
  ASSUME NEW p, Accounts(p), NEW g \in Goroutine, Reading("n.m") \notin p[g].held
  PROVE  p[g].listed = {}
BY DEF Accounts, Finds

\* A goroutine goes into a program, at the same stage.
LEMMA Into ==
  ASSUME TypeOK, NEW p, Accounts(p), NEW g \in Goroutine, code[g] # <<>>,
         NEW s, NEW m, NEW c, Goes(c, s, m), Goes(Tail(code[g]), m, Free),
         code' = [code EXCEPT ![g] = c \o Tail(code[g])], s.held = Holds(g)',
         \A x \in Goroutine \ {g} : Holds(x)' = Holds(x),
         channel' = channel, told' = told, device' = device, made' = made, calls' = calls,
         enumerating' = enumerating,
         \A d \in s.listed : d \in Dev /\ Seen(d) # "absent" /\ Reading("n.m") \in s.held,
         p[g].due = {},
         \A i \in s.due : i[1] = "send" /\ i[2].kind = "stopped" /\ (calls = 0 => Over(i)),
         s.stage = p[g].stage,
         \A d \in Dev : Seen(d) = "enumerating" /\ d \in p[g].stop => d \in s.stop
  PROVE  code' \in [Goroutine -> Seq(Instr)] /\ \E q : Accounts(q)'
<1>1. Goes(c \o Tail(code[g]), s, Free)
  BY GoesOn
<1>2. \A d \in Dev : Seen(d) = "enumerating" /\ Promises(p[g], d) => Promises(s, d)
  BY DEF Promises
<1>3. Role(g, s)
  BY DEF Accounts, Roles, Role
<1>4. calls = 0 =>
           /\ s.stage # "none" => p[g].stage # "none"
           /\ enumerating' => s.stage = "run" \/ (enumerating /\ p[g].stage # "run")
           /\ made = {} => s.stage \in {"none", "join"}
  BY DEF Accounts, First
<1>5. PICK e : e = c \o Tail(code[g])
  OBVIOUS
<1>6. Goes(e, s, Free) /\ code' = [code EXCEPT ![g] = e]
  BY <1>1, <1>5
<1> QED BY <1>2, <1>3, <1>4, <1>6, Local

\* An instruction is done, at the same stage, with the mutexes it takes or frees.
Simple == {"rlock", "runlock", "acquire", "pass", "unlock", "brief", "createNode", "dropNode"}

LEMMA Onward ==
  ASSUME TypeOK, NEW p, Accounts(p), NEW g \in Goroutine, code[g] # <<>>, Head(code[g])[1] \in Simple,
         NEW m, Ok(Head(code[g]), p[g], m), Goes(Tail(code[g]), m, Free),
         Done(g), m.held = Holds(g)', \A x \in Goroutine \ {g} : Holds(x)' = Holds(x),
         UNCHANGED <<channel, table, node, history>> \/ UNCHANGED <<channel, device, node, history>>
  PROVE  code' \in [Goroutine -> Seq(Instr)] /\ \E q : Accounts(q)'
<1>1. PICK i : i = Head(code[g])
  OBVIOUS
<1>2. i[1] \in Simple /\ Ok(i, p[g], m)
  BY <1>1
<1>3. p[g].due = {} /\ m.due = {}
  BY <1>2 DEF Ok, OnlyDue, Owes, Simple
<1>4. m.stop = p[g].stop
  <2>1. Speaks(i) = {}
    BY <1>2 DEF Speaks, Simple
  <2> QED BY <1>2, <2>1 DEF Ok, Stopping, Simple
<1>5. /\ m.stage \in {p[g].stage, "none"}
      /\ p[g].stage = "run" => m.stage = "run"
  BY <1>2 DEF Ok, Staged, Simple
<1>6. \A d \in m.listed : d \in Dev /\ Seen(d) # "absent" /\ Reading("n.m") \in m.held
  <2>1. CASE i = <<"runlock", "n.m">>
    BY <1>2, <2>1 DEF Ok
  <2>2. CASE i # <<"runlock", "n.m">>
    <3>1. m.listed = p[g].listed
      BY <1>2, <2>2 DEF Ok
    <3>2. ASSUME NEW d \in m.listed PROVE d \in Dev /\ Seen(d) # "absent" /\ Reading("n.m") \in p[g].held
      BY <3>1 DEF Accounts, Finds
    <3>3. Reading("n.m") \in p[g].held => Reading("n.m") \in m.held
      <4>1. \A l : Writing(l) # Reading("n.m")
        BY DEF Reading, Writing
      <4>2. Allowed(i, p[g].held, m.held)
        BY <1>2 DEF Ok
      <4>3. i[1] = "runlock" => Reading(i[2]) # Reading("n.m")
        <5>1. SUFFICES ASSUME i[1] = "runlock", i[2] = "n.m" PROVE FALSE
          BY DEF Reading
        <5>2. i \in Instr
          BY <1>1 DEF TypeOK
        <5>3. i = <<"runlock", "n.m">>
          BY <5>1, <5>2 DEF Instr, OfLock, OfDev, OfNode
        <5> QED BY <2>2, <5>3
      <4> QED BY <1>2, <4>1, <4>2, <4>3 DEF Allowed, Simple
    <3> QED BY <3>2, <3>3
  <2> QED BY <2>1, <2>2
<1>7. \A d \in Dev : Seen(d) = "enumerating" /\ Promises(p[g], d) => Promises(m, d)
  BY <1>4, <1>5 DEF Promises
<1>8. Role(g, m)
  BY <1>5 DEF Accounts, Roles, Role
<1>9. UNCHANGED <<channel, told, device, made, calls, enumerating>>
  BY DEF table, node, history
<1>10. calls = 0 =>
           /\ m.stage # "none" => p[g].stage # "none"
           /\ enumerating' => m.stage = "run" \/ (enumerating /\ p[g].stage # "run")
           /\ made = {} => m.stage \in {"none", "join"}
  BY <1>5, <1>9 DEF Accounts, First
<1>11. code' = [code EXCEPT ![g] = Tail(code[g])]
  BY DoneIs
<1>12. PICK c : c = Tail(code[g])
  OBVIOUS
<1> QED BY <1>3, <1>6, <1>7, <1>8, <1>9, <1>10, <1>11, <1>12, Local

\* What is left is to say that the variables keep their types.
LEMMA TypesKept ==
  ASSUME TypeOK, code' \in [Goroutine -> Seq(Instr)],
         readers' \in [Lock -> SUBSET Goroutine], owner' \in [Lock -> Goroutine \cup {Nobody}],
         UNCHANGED <<channel, known, device, free, enumerating, made, calls, surveys, told>>
  PROVE  TypeOK'
BY DEF TypeOK

LEMMA TakeForReadingInv ==
  ASSUME IInv, NEW g \in Goroutine, TakeForReading(g)
  PROVE  IInv'
<1> USE DEF IInv
<1>1. PICK p : Accounts(p)
  OBVIOUS
<1>2. /\ code[g] # <<>> /\ code[g] \in Seq(Instr) /\ Head(code[g])[1] = "rlock"
      /\ Arg(g) \in Lock /\ Head(code[g]) = <<"rlock", Arg(g)>>
  BY AtIs DEF TakeForReading, OfLock
<1>3. PICK l \in Lock : l = Arg(g)
  BY <1>2
<1>4. PICK m : Ok(<<"rlock", l>>, p[g], m) /\ Goes(Tail(code[g]), m, Free)
  BY <1>1, <1>2, <1>3, Ahead DEF Accounts
<1>5. /\ owner[l] = Nobody /\ owner' = owner /\ readers' = [readers EXCEPT ![l] = @ \cup {g}]
      /\ Done(g) /\ UNCHANGED <<channel, table, node, history>>
  BY <1>3 DEF TakeForReading, Shares
<1>6. /\ Holds(g)' = Holds(g) \cup {Reading(l)}
      /\ \A x \in Goroutine \ {g} : Holds(x)' = Holds(x)
      /\ readers' \in [Lock -> SUBSET Goroutine]
  BY <1>5, HoldsRead
<1>7. m.held = p[g].held \cup {Reading(l)} /\ p[g].held = Holds(g)
  BY <1>1, <1>4 DEF Ok, Allowed, Accounts, Follows
<1>8. code' \in [Goroutine -> Seq(Instr)] /\ \E q : Accounts(q)'
  <2>1. m.held = Holds(g)' /\ Head(code[g])[1] \in Simple /\ Ok(Head(code[g]), p[g], m)
    BY <1>2, <1>3, <1>4, <1>6, <1>7 DEF Simple
  <2> QED BY <1>1, <1>2, <1>4, <1>5, <1>6, <2>1, Onward
<1>9. TypeOK'
  BY <1>5, <1>6, <1>8, TypesKept DEF TypeOK, table, node, history
<1>10. Alone'
  <2>1. code' = [code EXCEPT ![g] = Tail(code[g])]
    BY <1>2, <1>5, DoneIs
  <2>2. \A k \in Lock : owner'[k] = Nobody \/ (owner'[k] = owner[k] /\ readers'[k] \subseteq readers[k])
    BY <1>5 DEF TypeOK
  <2>3. ~At(g, "acquire")
    BY <1>2 DEF At
  <2>4. PICK c : c = Tail(code[g])
    OBVIOUS
  <2> QED BY <2>1, <2>2, <2>3, <2>4, AloneKept
<1> QED BY <1>8, <1>9, <1>10

LEMMA LeaveReadingInv ==
  ASSUME IInv, NEW g \in Goroutine, LeaveReading(g)
  PROVE  IInv'
<1> USE DEF IInv
<1>1. PICK p : Accounts(p)
  OBVIOUS
<1>2. /\ code[g] # <<>> /\ code[g] \in Seq(Instr) /\ Head(code[g])[1] = "runlock"
      /\ Arg(g) \in Lock /\ Head(code[g]) = <<"runlock", Arg(g)>>
  BY AtIs DEF LeaveReading, OfLock
<1>3. PICK l \in Lock : l = Arg(g)
  BY <1>2
<1>4. PICK m : Ok(<<"runlock", l>>, p[g], m) /\ Goes(Tail(code[g]), m, Free)
  BY <1>1, <1>2, <1>3, Ahead DEF Accounts
<1>5. /\ owner' = owner /\ readers' = [readers EXCEPT ![l] = @ \ {g}]
      /\ Done(g) /\ UNCHANGED <<channel, table, node, history>>
  BY <1>3 DEF LeaveReading
<1>6. /\ Holds(g)' = Holds(g) \ {Reading(l)}
      /\ \A x \in Goroutine \ {g} : Holds(x)' = Holds(x)
      /\ readers' \in [Lock -> SUBSET Goroutine]
  BY <1>5, HoldsUnread
<1>7. m.held = p[g].held \ {Reading(l)} /\ p[g].held = Holds(g)
  BY <1>1, <1>4 DEF Ok, Allowed, Accounts, Follows
<1>8. code' \in [Goroutine -> Seq(Instr)] /\ \E q : Accounts(q)'
  <2>1. m.held = Holds(g)' /\ Head(code[g])[1] \in Simple /\ Ok(Head(code[g]), p[g], m)
    BY <1>2, <1>3, <1>4, <1>6, <1>7 DEF Simple
  <2> QED BY <1>1, <1>2, <1>4, <1>5, <1>6, <2>1, Onward
<1>9. TypeOK'
  BY <1>5, <1>6, <1>8, TypesKept DEF TypeOK, table, node, history
<1>10. Alone'
  <2>1. code' = [code EXCEPT ![g] = Tail(code[g])]
    BY <1>2, <1>5, DoneIs
  <2>2. \A k \in Lock : owner'[k] = owner[k] /\ readers'[k] \subseteq readers[k]
    BY <1>5 DEF TypeOK
  <2>3. ~At(g, "acquire")
    BY <1>2 DEF At
  <2>4. PICK c : c = Tail(code[g])
    OBVIOUS
  <2> QED BY <2>1, <2>2, <2>3, <2>4, AloneKept
<1> QED BY <1>8, <1>9, <1>10

LEMMA AskForWritingInv ==
  ASSUME IInv, NEW g \in Goroutine, AskForWriting(g)
  PROVE  IInv'
<1> USE DEF IInv
<1>1. PICK p : Accounts(p)
  OBVIOUS
<1>2. /\ code[g] # <<>> /\ code[g] \in Seq(Instr) /\ Head(code[g])[1] = "lock"
      /\ Arg(g) \in Lock /\ Head(code[g]) = <<"lock", Arg(g)>>
  BY AtIs DEF AskForWriting, OfLock
<1>3. PICK l \in Lock : l = Arg(g)
  BY <1>2
<1>4. PICK m : Ok(<<"lock", l>>, p[g], m) /\ Goes(Tail(code[g]), m, Free)
  BY <1>1, <1>2, <1>3, Ahead DEF Accounts
<1>5. /\ owner[l] = Nobody /\ owner' = [owner EXCEPT ![l] = g] /\ readers' = readers
      /\ code' = [code EXCEPT ![g] = With("acquire", l) \o Tail(code[g])]
      /\ UNCHANGED <<channel, table, node, history>>
  BY <1>3 DEF AskForWriting, Becomes
<1>6. /\ Holds(g)' = Holds(g) \cup {Writing(l)}
      /\ \A x \in Goroutine \ {g} : Holds(x)' = Holds(x)
      /\ owner' \in [Lock -> Goroutine \cup {Nobody}]
  BY <1>5, HoldsWrite
<1>7. /\ m.held = p[g].held \cup {Writing(l)} /\ p[g].held = Holds(g)
      /\ Ordered(l, p[g].held)
  BY <1>1, <1>4 DEF Ok, Allowed, Accounts, Follows
<1>8. /\ p[g].due = {} /\ m.due = {} /\ m.listed = p[g].listed /\ m.stage = p[g].stage
      /\ m.stop = p[g].stop /\ m = Stand(m.held, m.due, m.listed, m.stage, m.stop)
  BY <1>4 DEF Ok, OnlyDue, Owes, Staged, Stopping, Speaks
<1>9. Goes(With("acquire", l), m, m)
  <2>1. <<"acquire", l>> \in Instr /\ Plain(<<"acquire", l>>)
    BY Instructions DEF Plain, OfLock
  <2>2. Ordered(l, m.held \ {Writing(l)})
    BY <1>7 DEF Ordered
  <2>3. Allowed(<<"acquire", l>>, m.held, m.held)
    BY <1>7, <2>2 DEF Allowed
  <2> QED BY <1>8, <2>1, <2>3, PlainGoes DEF With
<1>10. code' \in [Goroutine -> Seq(Instr)] /\ \E q : Accounts(q)'
  <2>1. \A d \in m.listed : d \in Dev /\ Seen(d) # "absent" /\ Reading("n.m") \in m.held
    BY <1>1, <1>7, <1>8 DEF Accounts, Finds
  <2>2. /\ m.held = Holds(g)' /\ channel' = channel /\ told' = told /\ device' = device
        /\ made' = made /\ calls' = calls /\ enumerating' = enumerating
    BY <1>5, <1>6, <1>7 DEF table, node, history
  <2>3. PICK c : c = With("acquire", l)
    OBVIOUS
  <2>4. Goes(c, m, m) /\ code' = [code EXCEPT ![g] = c \o Tail(code[g])]
    BY <1>5, <1>9, <2>3
  <2>5. /\ code[g] # <<>> /\ p[g].due = {} /\ m.stage = p[g].stage
        /\ \A i \in m.due : i[1] = "send" /\ i[2].kind = "stopped" /\ (calls = 0 => Over(i))
        /\ \A d \in Dev : Seen(d) = "enumerating" /\ d \in p[g].stop => d \in m.stop
    BY <1>2, <1>8
  <2>6. TypeOK /\ Goes(Tail(code[g]), m, Free)
    BY <1>4
  <2> HIDE DEF IInv
  <2> QED BY <1>1, <1>6, <2>1, <2>2, <2>4, <2>5, <2>6, Into
<1>11. TypeOK'
  BY <1>5, <1>6, <1>10, TypesKept DEF TypeOK, table, node, history
<1>12. Alone'
  <2>1. PICK c : c = With("acquire", l) \o Tail(code[g])
    OBVIOUS
  <2>2. c # <<>> /\ Head(c) = <<"acquire", l>>
    <3>1. Tail(code[g]) \in Seq(Instr) /\ <<"acquire", l>> \in Instr
      BY <1>2, Instructions DEF OfLock
    <3>2. \A i \in Instr, s \in Seq(Instr) : <<i>> \o s # <<>> /\ Head(<<i>> \o s) = i
      OBVIOUS
    <3> QED BY <2>1, <3>1, <3>2 DEF With
  <2>3. \A k \in Lock : k # l => owner'[k] = owner[k] /\ readers'[k] \subseteq readers[k]
    BY <1>5 DEF TypeOK
  <2>4. ~At(g, "acquire")
    BY <1>2 DEF At
  <2>5. owner'[l] = g
    BY <1>5 DEF TypeOK
  <2>6. code' = [code EXCEPT ![g] = c]
    BY <1>5, <2>1
  <2> QED BY <2>2, <2>3, <2>4, <2>5, <2>6, AloneKept
<1> QED BY <1>10, <1>11, <1>12

LEMMA TakeForWritingInv ==
  ASSUME IInv, NEW g \in Goroutine, TakeForWriting(g)
  PROVE  IInv'
<1> USE DEF IInv
<1>1. PICK p : Accounts(p)
  OBVIOUS
<1>2. /\ code[g] # <<>> /\ code[g] \in Seq(Instr) /\ Head(code[g])[1] = "acquire"
      /\ Arg(g) \in Lock /\ Head(code[g]) = <<"acquire", Arg(g)>>
  BY AtIs DEF TakeForWriting, OfLock
<1>3. PICK l \in Lock : l = Arg(g)
  BY <1>2
<1>4. PICK m : Ok(<<"acquire", l>>, p[g], m) /\ Goes(Tail(code[g]), m, Free)
  BY <1>1, <1>2, <1>3, Ahead DEF Accounts
<1>5. /\ readers[l] = {} /\ owner' = owner /\ readers' = readers
      /\ Done(g) /\ UNCHANGED <<channel, table, node, history>>
  BY <1>3 DEF TakeForWriting, locks
<1>6. \A x : Holds(x)' = Holds(x)
  BY <1>5, HoldsKept
<1>7. m.held = p[g].held /\ p[g].held = Holds(g)
  BY <1>1, <1>4 DEF Ok, Allowed, Accounts, Follows
<1>8. code' \in [Goroutine -> Seq(Instr)] /\ \E q : Accounts(q)'
  <2>1. m.held = Holds(g)' /\ Head(code[g])[1] \in Simple /\ Ok(Head(code[g]), p[g], m)
    BY <1>2, <1>3, <1>4, <1>6, <1>7 DEF Simple
  <2> QED BY <1>1, <1>2, <1>4, <1>5, <1>6, <2>1, Onward
<1>9. TypeOK'
  BY <1>5, <1>8, TypesKept DEF TypeOK, table, node, history
<1>10. Alone'
  <2>1. code' = [code EXCEPT ![g] = Tail(code[g])]
    BY <1>2, <1>5, DoneIs
  <2>2. SUFFICES ASSUME NEW k \in Lock, NEW x \in Goroutine, owner[k] = x, readers[k] # {}
                 PROVE  code'[x] # <<>> /\ Head(code'[x]) = <<"acquire", k>>
    BY <1>5 DEF Alone
  <2>3. code[x] # <<>> /\ Head(code[x]) = <<"acquire", k>> /\ k # l
    BY <1>5, <2>2 DEF Alone
  <2>4. x # g
    BY <1>2, <1>3, <2>3
  <2> QED BY <2>1, <2>3, <2>4 DEF TypeOK
<1> QED BY <1>8, <1>9, <1>10

LEMMA PassReadingInv ==
  ASSUME IInv, NEW g \in Goroutine, PassReading(g)
  PROVE  IInv'
<1> USE DEF IInv
<1>1. PICK p : Accounts(p)
  OBVIOUS
<1>2. /\ code[g] # <<>> /\ code[g] \in Seq(Instr) /\ Head(code[g])[1] = "pass"
      /\ Arg(g) \in Lock /\ Head(code[g]) = <<"pass", Arg(g)>>
  BY AtIs DEF PassReading, OfLock
<1>3. PICK l \in Lock : l = Arg(g)
  BY <1>2
<1>4. PICK m : Ok(<<"pass", l>>, p[g], m) /\ Goes(Tail(code[g]), m, Free)
  BY <1>1, <1>2, <1>3, Ahead DEF Accounts
<1>5. /\ owner' = owner /\ readers' = readers
      /\ Done(g) /\ UNCHANGED <<channel, table, node, history>>
  BY <1>3 DEF PassReading, locks
<1>6. \A x : Holds(x)' = Holds(x)
  BY <1>5, HoldsKept
<1>7. m.held = p[g].held /\ p[g].held = Holds(g)
  BY <1>1, <1>4 DEF Ok, Allowed, Accounts, Follows
<1>8. code' \in [Goroutine -> Seq(Instr)] /\ \E q : Accounts(q)'
  <2>1. m.held = Holds(g)' /\ Head(code[g])[1] \in Simple /\ Ok(Head(code[g]), p[g], m)
    BY <1>2, <1>3, <1>4, <1>6, <1>7 DEF Simple
  <2> QED BY <1>1, <1>2, <1>4, <1>5, <1>6, <2>1, Onward
<1>9. TypeOK'
  BY <1>5, <1>8, TypesKept DEF TypeOK, table, node, history
<1>10. Alone'
  <2>1. code' = [code EXCEPT ![g] = Tail(code[g])]
    BY <1>2, <1>5, DoneIs
  <2>2. \A k \in Lock : owner'[k] = owner[k] /\ readers'[k] \subseteq readers[k]
    BY <1>5
  <2>3. ~At(g, "acquire")
    BY <1>2 DEF At
  <2>4. PICK c : c = Tail(code[g])
    OBVIOUS
  <2> QED BY <2>1, <2>2, <2>3, <2>4, AloneKept
<1> QED BY <1>8, <1>9, <1>10

LEMMA LeaveWritingInv ==
  ASSUME IInv, NEW g \in Goroutine, LeaveWriting(g)
  PROVE  IInv'
<1> USE DEF IInv
<1>1. PICK p : Accounts(p)
  OBVIOUS
<1>2. PICK w \in {"unlock", "brief"} : At(g, w)
  BY DEF LeaveWriting
<1>3. /\ code[g] # <<>> /\ code[g] \in Seq(Instr) /\ Head(code[g])[1] = w
      /\ Arg(g) \in Lock /\ Head(code[g]) = <<w, Arg(g)>>
  BY <1>2, AtIs DEF OfLock
<1>4. PICK l \in Lock : l = Arg(g)
  BY <1>3
<1>5. PICK m : Ok(<<w, l>>, p[g], m) /\ Goes(Tail(code[g]), m, Free)
  BY <1>1, <1>3, <1>4, Ahead DEF Accounts
<1>6. /\ owner' = [owner EXCEPT ![l] = Nobody] /\ readers' = readers
      /\ Done(g) /\ UNCHANGED <<channel, table, node, history>>
  BY <1>4 DEF LeaveWriting, Releases
<1>7. /\ m.held = p[g].held \ {Writing(l)} /\ Writing(l) \in p[g].held /\ p[g].held = Holds(g)
  BY <1>1, <1>5 DEF Ok, Allowed, Accounts, Follows
<1>8. /\ Holds(g)' = Holds(g) \ {Writing(l)}
      /\ \A x \in Goroutine \ {g} : Holds(x)' = Holds(x)
      /\ owner' \in [Lock -> Goroutine \cup {Nobody}]
  BY <1>6, <1>7, HoldsFree
<1>9. code' \in [Goroutine -> Seq(Instr)] /\ \E q : Accounts(q)'
  <2>1. m.held = Holds(g)' /\ Head(code[g])[1] \in Simple /\ Ok(Head(code[g]), p[g], m)
    BY <1>3, <1>4, <1>5, <1>7, <1>8 DEF Simple
  <2> QED BY <1>1, <1>3, <1>5, <1>6, <1>8, <2>1, Onward
<1>10. TypeOK'
  BY <1>6, <1>8, <1>9, TypesKept DEF TypeOK, table, node, history
<1>11. Alone'
  <2>1. code' = [code EXCEPT ![g] = Tail(code[g])]
    BY <1>3, <1>6, DoneIs
  <2>2. \A k \in Lock : owner'[k] = Nobody \/ (owner'[k] = owner[k] /\ readers'[k] \subseteq readers[k])
    BY <1>6 DEF TypeOK
  <2>3. ~At(g, "acquire")
    BY <1>3 DEF At
  <2>4. PICK c : c = Tail(code[g])
    OBVIOUS
  <2> QED BY <2>1, <2>2, <2>3, <2>4, AloneKept
<1> QED BY <1>9, <1>10, <1>11

LEMMA SetKnownInv ==
  ASSUME IInv, NEW g \in Goroutine, SetKnown(g)
  PROVE  IInv'
<1> USE DEF IInv
<1>1. PICK p : Accounts(p)
  OBVIOUS
<1>2. PICK w \in {"createNode", "dropNode"} : At(g, w)
  BY DEF SetKnown
<1>3. /\ code[g] # <<>> /\ code[g] \in Seq(Instr) /\ Head(code[g])[1] = w
      /\ Head(code[g]) = <<w>>
  BY <1>2, AtIs DEF OfNode
<1>4. PICK l \in Lock : l = "z.nodeLock"
  BY Mutexes
<1>5. PICK m : Ok(<<w>>, p[g], m) /\ Goes(Tail(code[g]), m, Free)
  BY <1>1, <1>3, Ahead DEF Accounts
<1>6. /\ owner' = [owner EXCEPT ![l] = Nobody] /\ readers' = readers /\ known' \in BOOLEAN
      /\ Done(g) /\ UNCHANGED <<channel, device, node, history>>
  BY <1>4 DEF SetKnown, Releases, At
<1>7. /\ m.held = p[g].held \ {Writing(l)} /\ Writing(l) \in p[g].held /\ p[g].held = Holds(g)
  BY <1>1, <1>4, <1>5 DEF Ok, Allowed, Accounts, Follows
<1>8. /\ Holds(g)' = Holds(g) \ {Writing(l)}
      /\ \A x \in Goroutine \ {g} : Holds(x)' = Holds(x)
      /\ owner' \in [Lock -> Goroutine \cup {Nobody}]
  BY <1>6, <1>7, HoldsFree
<1>9. code' \in [Goroutine -> Seq(Instr)] /\ \E q : Accounts(q)'
  <2>1. m.held = Holds(g)' /\ Head(code[g])[1] \in Simple /\ Ok(Head(code[g]), p[g], m)
    BY <1>3, <1>5, <1>7, <1>8 DEF Simple
  <2> QED BY <1>1, <1>3, <1>5, <1>6, <1>8, <2>1, Onward
<1>10. TypeOK'
  BY <1>6, <1>8, <1>9 DEF TypeOK, node, history
<1>11. Alone'
  <2>1. code' = [code EXCEPT ![g] = Tail(code[g])]
    BY <1>3, <1>6, DoneIs
  <2>2. \A k \in Lock : owner'[k] = Nobody \/ (owner'[k] = owner[k] /\ readers'[k] \subseteq readers[k])
    BY <1>6 DEF TypeOK
  <2>3. ~At(g, "acquire")
    BY <1>3 DEF At
  <2>4. PICK c : c = Tail(code[g])
    OBVIOUS
  <2> QED BY <2>1, <2>2, <2>3, <2>4, AloneKept
<1> QED BY <1>9, <1>10, <1>11

\* An instruction gives way to a program, with the mutexes as they are.
LEMMA Unfold ==
  ASSUME IInv, NEW p, Accounts(p), NEW g \in Goroutine, code[g] # <<>>, ~At(g, "acquire"),
         NEW s, NEW m, NEW c, Goes(c, s, m), Goes(Tail(code[g]), m, Free), Becomes(g, c),
         UNCHANGED <<locks, channel, table, node, made, calls, told>>, surveys' \in Nat,
         s.held = p[g].held, s.listed = p[g].listed, p[g].due = {},
         \A i \in s.due : i[1] = "send" /\ i[2].kind = "stopped" /\ (calls = 0 => Over(i)),
         s.stage = p[g].stage, s.stop = p[g].stop
  PROVE  IInv'
<1> USE DEF IInv
<1>1. /\ owner' = owner /\ readers' = readers /\ channel' = channel /\ told' = told
      /\ device' = device /\ made' = made /\ calls' = calls /\ enumerating' = enumerating
  BY DEF locks, table, node
<1>2. \A x : Holds(x)' = Holds(x)
  BY <1>1, HoldsKept
<1>3. s.held = Holds(g)'
  BY <1>2 DEF Accounts, Follows
<1>4. \A d \in s.listed : d \in Dev /\ Seen(d) # "absent" /\ Reading("n.m") \in s.held
  BY DEF Accounts, Finds
<1>5. code' = [code EXCEPT ![g] = c \o Tail(code[g])]
  BY DEF Becomes
<1>6. code' \in [Goroutine -> Seq(Instr)] /\ \E q : Accounts(q)'
  BY <1>1, <1>2, <1>3, <1>4, <1>5, Into
<1>7. TypeOK'
  BY <1>1, <1>6 DEF TypeOK, table, node
<1>8. Alone'
  <2>1. PICK e : e = c \o Tail(code[g])
    OBVIOUS
  <2>2. \A k \in Lock : owner'[k] = owner[k] /\ readers'[k] \subseteq readers[k]
    BY <1>1
  <2> QED BY <1>5, <2>1, <2>2, AloneKept
<1> QED BY <1>6, <1>7, <1>8

\* Whoever holds the node's mutex and has a device to announce or to take out
\* holds it for writing.
LEMMA DueHolds ==
  ASSUME TypeOK, NEW p, Accounts(p), NEW x \in Goroutine, NEW d \in Dev,
         p[x].due \cap {Tell("added", d), <<"drop", d>>} # {}
  PROVE  /\ owner["n.m"] = x /\ code[x] # <<>> /\ p[x].due = {Head(code[x])}
         /\ Head(code[x]) \in {Tell("added", d), <<"drop", d>>}
<1>1. code[x] # <<>>
  <2>1. Follows(p)
    BY DEF Accounts
  <2>2. p[x] # Free
    BY DEF Free, Stand
  <2> QED BY <2>1, <2>2, AtRest
<1>2. PICK m : Ok(Head(code[x]), p[x], m)
  BY <1>1, Ahead DEF Accounts
<1>3. PICK i : i = Head(code[x])
  OBVIOUS
<1>4. p[x].due = {i} /\ i \in {Tell("added", d), <<"drop", d>>}
  BY <1>2, <1>3 DEF Ok
<1>5. p[x].held = {Writing("n.m")}
  <2>1. Allowed(i, p[x].held, m.held)
    BY <1>2, <1>3 DEF Ok
  <2>2. CASE i = Tell("added", d)
    BY <2>1, <2>2 DEF Allowed, Tell
  <2>3. CASE i = <<"drop", d>>
    BY <2>1, <2>3 DEF Allowed
  <2> QED BY <1>4, <2>2, <2>3
<1>6. owner["n.m"] = x
  <2>1. Writing("n.m") \in Holds(x)
    BY <1>5 DEF Accounts, Follows
  <2> QED BY <2>1 DEF Holds, Writing
<1> QED BY <1>1, <1>3, <1>4, <1>6

LEMMA AllKnown ==
  ASSUME TypeOK, NEW p, Accounts(p), owner["n.m"] = Nobody
  PROVE  \A d \in device : d \in Dev /\ Seen(d) # "absent"
<1> SUFFICES ASSUME NEW d \in device, Seen(d) = "absent" PROVE FALSE
  BY DEF TypeOK
<1>1. d \in Dev
  BY DEF TypeOK
<1>2. PICK x \in Goroutine : p[x].due \cap {Tell("added", d), <<"drop", d>>} # {}
  BY <1>1 DEF Accounts, Tables
<1>3. owner["n.m"] = x
  BY <1>1, <1>2, DueHolds
<1> QED BY <1>3, DeliveryAssumption

\* An instruction gives way to a program that begins with the node's mutex taken
\* for reading.
LEMMA UnfoldReading ==
  ASSUME IInv, NEW p, Accounts(p), NEW g \in Goroutine, code[g] # <<>>, ~At(g, "acquire"),
         NEW s, NEW m, NEW c, Goes(c, s, m), Goes(Tail(code[g]), m, Free), Becomes(g, c),
         Shares(g, "n.m"), UNCHANGED <<owner, channel, table, node, history>>,
         p[g].held = {}, s.held = {Reading("n.m")}, s.listed \subseteq device,
         p[g].due = {}, s.due = {}, s.stage = p[g].stage,
         \A d \in Dev : Seen(d) = "enumerating" /\ d \in p[g].stop => d \in s.stop
  PROVE  IInv'
<1> USE DEF IInv
<1>1. /\ owner' = owner /\ channel' = channel /\ told' = told
      /\ device' = device /\ made' = made /\ calls' = calls /\ enumerating' = enumerating
  BY DEF table, node, history
<1>2. PICK l \in Lock : l = "n.m"
  BY Mutexes
<1>3. owner[l] = Nobody /\ readers' = [readers EXCEPT ![l] = @ \cup {g}]
  BY <1>2 DEF Shares
<1>4. /\ Holds(g)' = Holds(g) \cup {Reading(l)}
      /\ \A x \in Goroutine \ {g} : Holds(x)' = Holds(x)
      /\ readers' \in [Lock -> SUBSET Goroutine]
  BY <1>1, <1>3, HoldsRead
<1>5. s.held = Holds(g)'
  BY <1>2, <1>4 DEF Accounts, Follows
<1>6. \A d \in s.listed : d \in Dev /\ Seen(d) # "absent" /\ Reading("n.m") \in s.held
  BY <1>2, <1>3, AllKnown
<1>7. code' = [code EXCEPT ![g] = c \o Tail(code[g])]
  BY DEF Becomes
<1>8. code' \in [Goroutine -> Seq(Instr)] /\ \E q : Accounts(q)'
  BY <1>1, <1>4, <1>5, <1>6, <1>7, Into
<1>9. TypeOK'
  BY <1>1, <1>4, <1>8 DEF TypeOK, table, node, history
<1>10. Alone'
  <2>1. PICK e : e = c \o Tail(code[g])
    OBVIOUS
  <2>2. \A k \in Lock : owner'[k] = Nobody \/ (owner'[k] = owner[k] /\ readers'[k] \subseteq readers[k])
    BY <1>1, <1>3 DEF TypeOK
  <2> QED BY <1>7, <2>1, <2>2, AloneKept
<1> QED BY <1>8, <1>9, <1>10

\* What the expansion of an instruction has to fit into.
LEMMA AtOk ==
  ASSUME IInv, NEW p, Accounts(p), NEW g \in Goroutine, NEW w, At(g, w)
  PROVE  /\ code[g] # <<>> /\ Head(code[g])[1] = w
         /\ w \in OfDev => Arg(g) \in Dev
         /\ \E m : /\ Goes(Tail(code[g]), m, Free)
                   /\ w \in OfDev => Ok(<<w, Arg(g)>>, p[g], m)
                   /\ w \in OfNode => Ok(<<w>>, p[g], m)
                   /\ w = "send" => Ok(<<w, Arg(g)>>, p[g], m)
<1>1. TypeOK /\ Follows(p)
  BY DEF IInv, Accounts
<1>2. code[g] # <<>>
  BY <1>1, AtIs
<1>3. PICK m : Ok(Head(code[g]), p[g], m) /\ Goes(Tail(code[g]), m, Free)
  BY <1>1, <1>2, Ahead
<1>4. /\ Head(code[g])[1] = w
      /\ w \in OfDev => Arg(g) \in Dev /\ Head(code[g]) = <<w, Arg(g)>>
      /\ w \in OfNode => Head(code[g]) = <<w>>
      /\ w = "send" => Head(code[g]) = <<w, Arg(g)>>
  BY <1>1, AtIs
<1>5. /\ w \in OfDev => Ok(<<w, Arg(g)>>, p[g], m)
      /\ w \in OfNode => Ok(<<w>>, p[g], m)
      /\ w = "send" => Ok(<<w, Arg(g)>>, p[g], m)
  BY <1>3, <1>4
<1> QED BY <1>2, <1>3, <1>4, <1>5

LEMMA AttachInv ==
  ASSUME IInv, NEW g \in Goroutine, Attach(g)
  PROVE  IInv'
<1>1. PICK p : Accounts(p)
  BY DEF IInv
<1>2. At(g, "attach") /\ "attach" \in OfDev
  BY DEF Attach, OfDev
<1>3. PICK d \in Dev : d = Arg(g)
  BY <1>1, <1>2, AtOk
<1>4. PICK m : Ok(<<"attach", d>>, p[g], m) /\ Goes(Tail(code[g]), m, Free)
  BY <1>1, <1>2, <1>3, AtOk
<1>5. /\ m = Stand(p[g].held, {}, p[g].listed, p[g].stage, p[g].stop) /\ p[g].due = {}
      /\ m.held = p[g].held /\ m.listed = p[g].listed /\ m.stage = p[g].stage
      /\ m.stop = p[g].stop /\ m.due = {}
  <2>1. p[g].due = {} /\ m.due = {} /\ m.listed = p[g].listed
    BY <1>4 DEF Ok, OnlyDue, Owes
  <2>2. m.stage = p[g].stage
    BY <1>4 DEF Ok, Staged
  <2>3. m.stop = p[g].stop
    BY <1>4 DEF Ok, Stopping, Speaks
  <2>4. m.held = p[g].held
    BY <1>4 DEF Ok, Allowed
  <2>5. m = Stand(m.held, m.due, m.listed, m.stage, m.stop)
    BY <1>4 DEF Ok
  <2> QED BY <2>1, <2>2, <2>3, <2>4, <2>5
<1>6. PICK c \in {<<>>, Send("capability", d)} :
        Becomes(g, c) /\ UNCHANGED <<locks, channel, table, node, history>>
  BY <1>3 DEF Attach
<1>7. Goes(c, m, m)
  BY <1>5, <1>6, AttachGoes
<1>8. UNCHANGED <<locks, channel, table, node, made, calls, told>> /\ surveys' \in Nat
  BY <1>6 DEF history, IInv, TypeOK
<1>9. code[g] # <<>> /\ ~At(g, "acquire")
  BY <1>1, <1>2, AtOk DEF At
<1> QED BY <1>1, <1>4, <1>5, <1>6, <1>7, <1>8, <1>9, Unfold

LEMMA GetNodeInv ==
  ASSUME IInv, NEW g \in Goroutine, GetNode(g)
  PROVE  IInv'
<1>1. PICK p : Accounts(p)
  BY DEF IInv
<1>2. At(g, "getNode") /\ "getNode" \in OfDev
  BY DEF GetNode, OfDev
<1>3. PICK d \in Dev : d = Arg(g)
  BY <1>1, <1>2, AtOk
<1>4. PICK m : Ok(<<"getNode", d>>, p[g], m) /\ Goes(Tail(code[g]), m, Free)
  BY <1>1, <1>2, <1>3, AtOk
<1>5. p[g].held = {}
  BY <1>4 DEF Ok, Allowed
<1>6. p[g].listed = {}
  BY <1>1, <1>5, NoneListed
<1>7. /\ m = Rest({}, p[g].stage, p[g].stop) /\ p[g].due = {}
      /\ m.held = p[g].held /\ m.listed = p[g].listed /\ m.stage = p[g].stage
      /\ m.stop = p[g].stop /\ m.due = {}
  <2>1. p[g].due = {} /\ m.due = {} /\ m.listed = p[g].listed
    BY <1>4 DEF Ok, OnlyDue, Owes
  <2>2. m.stage = p[g].stage
    BY <1>4 DEF Ok, Staged
  <2>3. m.stop = p[g].stop
    BY <1>4 DEF Ok, Stopping, Speaks
  <2>4. m.held = p[g].held
    BY <1>4 DEF Ok, Allowed
  <2>5. m = Stand(m.held, m.due, m.listed, m.stage, m.stop)
    BY <1>4 DEF Ok
  <2> QED BY <1>5, <1>6, <2>1, <2>2, <2>3, <2>4, <2>5 DEF Rest
<1>8. PICK c \in {<<>>, RemoveFromNode(d)} :
        Becomes(g, c) /\ UNCHANGED <<locks, channel, table, node, history>>
  BY <1>3 DEF GetNode
<1>9. Goes(c, m, m)
  BY <1>7, <1>8, GoesNil, RemoveFromNodeGoes
<1>10. UNCHANGED <<locks, channel, table, node, made, calls, told>> /\ surveys' \in Nat
  BY <1>8 DEF history, IInv, TypeOK
<1>11. code[g] # <<>> /\ ~At(g, "acquire")
  BY <1>1, <1>2, AtOk DEF At
<1> QED BY <1>1, <1>4, <1>7, <1>8, <1>9, <1>10, <1>11, Unfold

LEMMA RemoveIfThereInv ==
  ASSUME IInv, NEW g \in Goroutine, RemoveIfThere(g)
  PROVE  IInv'
<1>1. PICK p : Accounts(p)
  BY DEF IInv
<1>2. At(g, "remove") /\ "remove" \in OfDev
  BY DEF RemoveIfThere, OfDev
<1>3. PICK d \in Dev : d = Arg(g)
  BY <1>1, <1>2, AtOk
<1>4. PICK m : Ok(<<"remove", d>>, p[g], m) /\ Goes(Tail(code[g]), m, Free)
  BY <1>1, <1>2, <1>3, AtOk
<1>5. p[g].held = {Writing("n.m")} /\ m.held = {}
  BY <1>4 DEF Ok, Allowed
<1>6. p[g].listed = {}
  <2>1. Reading("n.m") # Writing("n.m")
    BY DEF Reading, Writing
  <2> QED BY <1>1, <1>5, <2>1, NoneListed
<1>7. m = Rest({}, p[g].stage, p[g].stop) /\ p[g].due = {}
  <2>1. p[g].due = {} /\ m.due = {} /\ m.listed = p[g].listed
    BY <1>4 DEF Ok, OnlyDue, Owes
  <2>2. m.stage = p[g].stage
    BY <1>4 DEF Ok, Staged
  <2>3. m.stop = p[g].stop
    BY <1>4 DEF Ok, Stopping, Speaks
  <2>4. m = Stand(m.held, m.due, m.listed, m.stage, m.stop)
    BY <1>4 DEF Ok
  <2> QED BY <1>5, <1>6, <2>1, <2>2, <2>3, <2>4 DEF Rest
<1>8. PICK s : s = Rest({Writing("n.m")}, p[g].stage, p[g].stop)
  OBVIOUS
<1>9. /\ s.held = p[g].held /\ s.listed = p[g].listed /\ s.stage = p[g].stage
      /\ s.stop = p[g].stop /\ s.due = {}
  BY <1>5, <1>6, <1>8 DEF Rest, Stand
<1>10. PICK c \in {Unlock("n.m"), RemoveFound(d)} :
        Becomes(g, c) /\ UNCHANGED <<locks, channel, table, node, history>>
  BY <1>3 DEF RemoveIfThere
<1>11. Goes(c, s, m)
  BY <1>7, <1>8, <1>10, Mutexes, UnlockGoes, RemoveFoundGoes
<1>12. UNCHANGED <<locks, channel, table, node, made, calls, told>> /\ surveys' \in Nat
  BY <1>10 DEF history, IInv, TypeOK
<1>13. code[g] # <<>> /\ ~At(g, "acquire")
  BY <1>1, <1>2, AtOk DEF At
<1> QED BY <1>1, <1>4, <1>7, <1>9, <1>10, <1>11, <1>12, <1>13, Unfold

LEMMA ListInv ==
  ASSUME IInv, NEW g \in Goroutine, List(g)
  PROVE  IInv'
<1>1. PICK p : Accounts(p)
  BY DEF IInv
<1>2. At(g, "list") /\ "list" \in OfNode
  BY DEF List, OfNode
<1>3. PICK m : Ok(<<"list">>, p[g], m) /\ Goes(Tail(code[g]), m, Free)
  BY <1>1, <1>2, AtOk
<1>4. p[g].held = {Writing("z.nodeLock")}
  BY <1>3 DEF Ok, Allowed
<1>5. /\ m = Stand(p[g].held, {}, p[g].listed, p[g].stage, p[g].stop) /\ p[g].due = {}
      /\ m.held = p[g].held /\ m.listed = p[g].listed /\ m.stage = p[g].stage
      /\ m.stop = p[g].stop /\ m.due = {}
  <2>1. p[g].due = {} /\ m.due = {} /\ m.listed = p[g].listed
    BY <1>3 DEF Ok, OnlyDue, Owes
  <2>2. m.stage = p[g].stage
    BY <1>3 DEF Ok, Staged
  <2>3. m.stop = p[g].stop
    BY <1>3 DEF Ok, Stopping, Speaks
  <2>4. m.held = p[g].held
    BY <1>3 DEF Ok, Allowed
  <2>5. m = Stand(m.held, m.due, m.listed, m.stage, m.stop)
    BY <1>3 DEF Ok
  <2> QED BY <2>1, <2>2, <2>3, <2>4, <2>5
<1>6. PICK c \in {<<>>, Pass("n.m")} :
        Becomes(g, c) /\ UNCHANGED <<locks, channel, table, node, history>>
  BY DEF List
<1>7. Goes(c, m, m)
  <2>1. Ordered("n.m", p[g].held)
    BY <1>4, Mutexes DEF Ordered, Writing
  <2> QED BY <1>5, <1>6, <2>1, Mutexes, GoesNil, PassGoes
<1>8. UNCHANGED <<locks, channel, table, node, made, calls, told>> /\ surveys' \in Nat
  BY <1>6 DEF history, IInv, TypeOK
<1>9. code[g] # <<>> /\ ~At(g, "acquire")
  BY <1>1, <1>2, AtOk DEF At
<1> QED BY <1>1, <1>3, <1>5, <1>6, <1>7, <1>8, <1>9, Unfold

LEMMA SnapshotInv ==
  ASSUME IInv, NEW g \in Goroutine, Snapshot(g)
  PROVE  IInv'
<1>1. PICK p : Accounts(p)
  BY DEF IInv
<1>2. At(g, "snapshot") /\ "snapshot" \in OfNode
  BY DEF Snapshot, OfNode
<1>3. PICK m : Ok(<<"snapshot">>, p[g], m) /\ Goes(Tail(code[g]), m, Free)
  BY <1>1, <1>2, AtOk
<1>4. p[g].held = {}
  BY <1>3 DEF Ok, Allowed
<1>5. p[g].listed = {}
  BY <1>1, <1>4, NoneListed
<1>6. /\ m = Rest({}, p[g].stage, p[g].stop) /\ p[g].due = {}
      /\ m.held = p[g].held /\ m.listed = p[g].listed /\ m.stage = p[g].stage
      /\ m.stop = p[g].stop /\ m.due = {}
  <2>1. p[g].due = {} /\ m.due = {} /\ m.listed = p[g].listed
    BY <1>3 DEF Ok, OnlyDue, Owes
  <2>2. m.stage = p[g].stage
    BY <1>3 DEF Ok, Staged
  <2>3. m.stop = p[g].stop
    BY <1>3 DEF Ok, Stopping, Speaks
  <2>4. m.held = p[g].held
    BY <1>3 DEF Ok, Allowed
  <2>5. m = Stand(m.held, m.due, m.listed, m.stage, m.stop)
    BY <1>3 DEF Ok
  <2> QED BY <1>4, <1>5, <2>1, <2>2, <2>3, <2>4, <2>5 DEF Rest
<1>7. PICK q \in SetToSeqs(device) : Becomes(g, ForEach(q, RemoveDevice) \o RemoveNode)
  BY DEF Snapshot
<1>8. PICK c : c = ForEach(q, RemoveDevice) \o RemoveNode
  OBVIOUS
<1>9. Goes(c, m, m) /\ Becomes(g, c)
  <2>1. q \in Seq(Dev)
    BY Listed DEF IInv, TypeOK
  <2>2. Goes(ForEach(q, RemoveDevice), m, m) /\ Goes(RemoveNode, m, m)
    BY <1>6, <2>1, RemovesGo, RemoveNodeGoes
  <2> QED BY <1>7, <1>8, <2>2, GoesOn
<1>10. UNCHANGED <<locks, channel, table, node, made, calls, told>> /\ surveys' \in Nat
  BY DEF Snapshot, history, IInv, TypeOK
<1>11. code[g] # <<>> /\ ~At(g, "acquire")
  BY <1>1, <1>2, AtOk DEF At
<1> QED BY <1>1, <1>3, <1>6, <1>9, <1>10, <1>11, Unfold

LEMMA LookAtInv ==
  ASSUME IInv, NEW g \in Goroutine, LookAt(g)
  PROVE  IInv'
<1>1. PICK p : Accounts(p)
  BY DEF IInv
<1>2. At(g, "look") /\ "look" \in OfNode
  BY DEF LookAt, OfNode
<1>3. PICK m : Ok(<<"look">>, p[g], m) /\ Goes(Tail(code[g]), m, Free)
  BY <1>1, <1>2, AtOk
<1>4. p[g].held = {}
  BY <1>3 DEF Ok, Allowed
<1>5. p[g].listed = {}
  BY <1>1, <1>4, NoneListed
<1>6. m = Rest({}, "run", p[g].stop) /\ p[g].stage = "run" /\ p[g].due = {}
  <2>1. p[g].due = {} /\ m.due = {} /\ m.listed = {}
    BY <1>3, <1>5 DEF Ok, OnlyDue, Owes
  <2>2. p[g].stage = "run" /\ m.stage = "run"
    BY <1>3 DEF Ok, Staged
  <2>3. m.stop = p[g].stop
    BY <1>3 DEF Ok, Stopping, Speaks
  <2>4. m.held = {}
    BY <1>3 DEF Ok, Allowed
  <2>5. m = Stand(m.held, m.due, m.listed, m.stage, m.stop)
    BY <1>3 DEF Ok
  <2> QED BY <2>1, <2>2, <2>3, <2>4, <2>5 DEF Rest
<1>7. PICK q \in SetToSeqs(device) : Becomes(g, ForEach(q, Pass) \o RUnlock("n.m"))
  BY DEF LookAt, EachDevice
<1>8. PICK c : c = ForEach(q, Pass) \o RUnlock("n.m")
  OBVIOUS
<1>9. PICK s : s = Stand({Reading("n.m")}, {}, {}, "run", p[g].stop)
  OBVIOUS
<1>10. Goes(c, s, m) /\ Becomes(g, c)
  <2>1. q \in Seq(Dev)
    BY Listed DEF IInv, TypeOK
  <2> QED BY <1>6, <1>7, <1>8, <1>9, <2>1, LookGoes
<1>11. /\ s.held = {Reading("n.m")} /\ s.listed \subseteq device /\ s.due = {}
       /\ s.stage = p[g].stage /\ s.stop = p[g].stop
  BY <1>6, <1>9 DEF Stand
<1>12. Shares(g, "n.m") /\ UNCHANGED <<owner, channel, table, node, history>>
  BY DEF LookAt, EachDevice
<1>13. code[g] # <<>> /\ ~At(g, "acquire")
  BY <1>1, <1>2, AtOk DEF At
<1> QED BY <1>1, <1>3, <1>4, <1>6, <1>10, <1>11, <1>12, <1>13, UnfoldReading

LEMMA SurveyInv ==
  ASSUME IInv, NEW g \in Goroutine, Survey(g)
  PROVE  IInv'
<1>1. PICK p : Accounts(p)
  BY DEF IInv
<1>2. At(g, "survey") /\ "survey" \in OfNode
  BY DEF Survey, OfNode
<1>3. PICK m : Ok(<<"survey">>, p[g], m) /\ Goes(Tail(code[g]), m, Free)
  BY <1>1, <1>2, AtOk
<1>4. p[g].held = {}
  BY <1>3 DEF Ok, Allowed
<1>5. p[g].listed = {}
  BY <1>1, <1>4, NoneListed
<1>6. m = Rest({}, "run", p[g].stop) /\ p[g].stage = "run" /\ p[g].due = {}
  <2>1. p[g].due = {} /\ m.due = {} /\ m.listed = {}
    BY <1>3, <1>5 DEF Ok, OnlyDue, Owes
  <2>2. p[g].stage = "run" /\ m.stage = "run"
    BY <1>3 DEF Ok, Staged
  <2>3. m.stop = p[g].stop
    BY <1>3 DEF Ok, Stopping, Speaks
  <2>4. m.held = {}
    BY <1>3 DEF Ok, Allowed
  <2>5. m = Stand(m.held, m.due, m.listed, m.stage, m.stop)
    BY <1>3 DEF Ok
  <2> QED BY <2>1, <2>2, <2>3, <2>4, <2>5 DEF Rest
<1>7. PICK stay \in SUBSET device, new \in SUBSET (Dev \ made) :
        \E a \in SetToSeqs(stay), b \in SetToSeqs(new), r \in SetToSeqs(device \ stay) :
          Becomes(g, UpdateNodeTable(a, b, r))
  BY DEF Survey
<1>8. PICK a \in SetToSeqs(stay), b \in SetToSeqs(new), r \in SetToSeqs(device \ stay) :
        Becomes(g, UpdateNodeTable(a, b, r))
  BY <1>7
<1>9. PICK s : s = Stand({Reading("n.m")}, {}, {}, "run", p[g].stop)
  OBVIOUS
<1>10. PICK c : c = UpdateNodeTable(a, b, r)
  OBVIOUS
<1>11. Goes(c, s, m) /\ Becomes(g, c)
  <2>1. device \subseteq Dev
    BY DEF IInv, TypeOK
  <2>2. PICK gone \in SUBSET Dev : gone = device \ stay
    BY <2>1
  <2>3. a \in Seq(Dev) /\ b \in Seq(Dev) /\ r \in Seq(Dev)
    <3>1. stay \in SUBSET Dev /\ new \in SUBSET Dev
      BY <2>1
    <3> QED BY <2>2, <3>1, Listed
  <2> QED BY <1>6, <1>8, <1>9, <1>10, <2>3, UpdateGoes
<1>12. /\ s.held = {Reading("n.m")} /\ s.listed \subseteq device /\ s.due = {}
       /\ s.stage = p[g].stage /\ s.stop = p[g].stop
  BY <1>6, <1>9 DEF Stand
<1>13. Shares(g, "n.m") /\ UNCHANGED <<owner, channel, table, node, history>>
  BY DEF Survey
<1>14. code[g] # <<>> /\ ~At(g, "acquire")
  BY <1>1, <1>2, AtOk DEF At
<1> QED BY <1>1, <1>3, <1>4, <1>6, <1>11, <1>12, <1>13, <1>14, UnfoldReading

LEMMA StartsInv ==
  ASSUME IInv, NEW g \in Goroutine, Starts(g)
  PROVE  IInv'
<1>1. PICK p : Accounts(p)
  BY DEF IInv
<1>2. At(g, "starts") /\ "starts" \in OfNode
  BY DEF Starts, OfNode
<1>3. PICK m : Ok(<<"starts">>, p[g], m) /\ Goes(Tail(code[g]), m, Free)
  BY <1>1, <1>2, AtOk
<1>4. p[g].held = {}
  BY <1>3 DEF Ok, Allowed
<1>5. p[g].listed = {}
  BY <1>1, <1>4, NoneListed
<1>6. m = Rest({}, "run", p[g].stop) /\ p[g].stage = "run" /\ p[g].due = {}
  <2>1. p[g].due = {} /\ m.due = {} /\ m.listed = {}
    BY <1>3, <1>5 DEF Ok, OnlyDue, Owes
  <2>2. p[g].stage = "run" /\ m.stage = "run"
    BY <1>3 DEF Ok, Staged
  <2>3. m.stop = p[g].stop
    BY <1>3 DEF Ok, Stopping, Speaks
  <2>4. m.held = {}
    BY <1>3 DEF Ok, Allowed
  <2>5. m = Stand(m.held, m.due, m.listed, m.stage, m.stop)
    BY <1>3 DEF Ok
  <2> QED BY <2>1, <2>2, <2>3, <2>4, <2>5 DEF Rest
<1>7. PICK q \in SetToSeqs(device) : Becomes(g, ForEach(q, SendStart) \o RUnlock("n.m"))
  BY DEF Starts, EachDevice
<1>8. PICK c : c = ForEach(q, SendStart) \o RUnlock("n.m")
  OBVIOUS
<1>9. PICK s : s = Stand({Reading("n.m")}, {}, device, "run", p[g].stop)
  OBVIOUS
<1>10. Goes(c, s, m) /\ Becomes(g, c)
  <2>1. q \in Seq(Dev) /\ \A i \in 1..Len(q) : q[i] \in device
    BY Listed DEF IInv, TypeOK
  <2> QED BY <1>6, <1>7, <1>8, <1>9, <2>1, StartsGo
<1>11. /\ s.held = {Reading("n.m")} /\ s.listed \subseteq device /\ s.due = {}
       /\ s.stage = p[g].stage /\ s.stop = p[g].stop
  BY <1>6, <1>9 DEF Stand
<1>12. Shares(g, "n.m") /\ UNCHANGED <<owner, channel, table, node, history>>
  BY DEF Starts, EachDevice
<1>13. code[g] # <<>> /\ ~At(g, "acquire")
  BY <1>1, <1>2, AtOk DEF At
<1> QED BY <1>1, <1>3, <1>4, <1>6, <1>10, <1>11, <1>12, <1>13, UnfoldReading

LEMMA StopsInv ==
  ASSUME IInv, NEW g \in Goroutine, Stops(g)
  PROVE  IInv'
<1>1. PICK p : Accounts(p)
  BY DEF IInv
<1>2. At(g, "stops") /\ "stops" \in OfNode
  BY DEF Stops, OfNode
<1>3. PICK m : Ok(<<"stops">>, p[g], m) /\ Goes(Tail(code[g]), m, Free)
  BY <1>1, <1>2, AtOk
<1>4. p[g].held = {}
  BY <1>3 DEF Ok, Allowed
<1>5. p[g].listed = {}
  BY <1>1, <1>4, NoneListed
<1>6. m = Rest({}, "none", {}) /\ p[g].stage = "tell" /\ p[g].due = {}
  <2>1. p[g].due = {} /\ m.due = {} /\ m.listed = {}
    BY <1>3, <1>5 DEF Ok, OnlyDue, Owes
  <2>2. p[g].stage = "tell" /\ m.stage = "none"
    BY <1>3 DEF Ok, Staged
  <2>3. m.stop = {}
    BY <1>3 DEF Ok, Stopping, Speaks
  <2>4. m.held = {}
    BY <1>3 DEF Ok, Allowed
  <2>5. m = Stand(m.held, m.due, m.listed, m.stage, m.stop)
    BY <1>3 DEF Ok
  <2> QED BY <2>1, <2>2, <2>3, <2>4, <2>5 DEF Rest
<1>7. PICK q \in SetToSeqs(device) : Becomes(g, ForEach(q, StopOne) \o RUnlock("n.m"))
  BY DEF Stops, EachDevice
<1>8. PICK c : c = ForEach(q, StopOne) \o RUnlock("n.m")
  OBVIOUS
<1>9. PICK s : s = Stand({Reading("n.m")}, {}, device, "tell", device)
  OBVIOUS
<1>10. Goes(c, s, m) /\ Becomes(g, c)
  <2>1. /\ q \in Seq(Dev) /\ \A i \in 1..Len(q) : q[i] \in device
        /\ device = {q[i] : i \in 1..Len(q)}
    BY Listed, ListedAll DEF IInv, TypeOK
  <2>2. Goes(ForEach(q, StopOne) \o RUnlock("n.m"),
             Stand({Reading("n.m")}, {}, device, "tell", {q[i] : i \in 1..Len(q)}), m)
    BY <1>6, <2>1, StopsGo
  <2> QED BY <1>7, <1>8, <1>9, <2>1, <2>2
<1>11. /\ s.held = {Reading("n.m")} /\ s.listed \subseteq device /\ s.due = {}
       /\ s.stage = p[g].stage /\ s.stop = device
  BY <1>6, <1>9 DEF Stand
<1>12. Shares(g, "n.m") /\ UNCHANGED <<owner, channel, table, node, history>>
  BY DEF Stops, EachDevice
<1>13. code[g] # <<>> /\ ~At(g, "acquire")
  BY <1>1, <1>2, AtOk DEF At
<1>14. \A d \in Dev : Seen(d) = "enumerating" /\ d \in p[g].stop => d \in s.stop
  BY <1>1, <1>11 DEF Accounts, Tables
<1> QED BY <1>1, <1>3, <1>4, <1>6, <1>10, <1>11, <1>12, <1>13, <1>14, UnfoldReading

LEMMA InterrogateInv ==
  ASSUME IInv, NEW g \in Goroutine, Interrogate(g)
  PROVE  IInv'
<1>1. PICK p : Accounts(p)
  BY DEF IInv
<1>2. At(g, "interrogate") /\ "interrogate" \in OfNode
  BY DEF Interrogate, OfNode
<1>3. PICK m : Ok(<<"interrogate">>, p[g], m) /\ Goes(Tail(code[g]), m, Free)
  BY <1>1, <1>2, AtOk
<1>4. p[g].held = {}
  BY <1>3 DEF Ok, Allowed
<1>5. p[g].listed = {}
  BY <1>1, <1>4, NoneListed
<1>6. m = Free /\ p[g].stage = "run" /\ p[g].due = {} /\ p[g].stop = {}
  <2>1. p[g].due = {} /\ m.due = {} /\ m.listed = {}
    BY <1>3, <1>5 DEF Ok, OnlyDue, Owes
  <2>2. p[g].stage = "run" /\ m.stage = "none"
    BY <1>3 DEF Ok, Staged
  <2>3. p[g].stop = {} /\ m.stop = {}
    BY <1>3 DEF Ok, Stopping, Speaks
  <2>4. m.held = {}
    BY <1>3 DEF Ok, Allowed
  <2>5. m = Stand(m.held, m.due, m.listed, m.stage, m.stop)
    BY <1>3 DEF Ok
  <2> QED BY <2>1, <2>2, <2>3, <2>4, <2>5 DEF Free
<1>7. PICK c \in {Finish, Do("survey") \o Finish} : Becomes(g, c)
  BY DEF Interrogate
<1>8. PICK s : s = Rest({}, "run", {})
  OBVIOUS
<1>9. Goes(c, s, m)
  BY <1>6, <1>7, <1>8, FinishGoes, SurveyedGoes
<1>10. /\ s.held = p[g].held /\ s.listed = p[g].listed /\ s.due = {}
       /\ s.stage = p[g].stage /\ s.stop = p[g].stop
  BY <1>4, <1>5, <1>6, <1>8 DEF Rest, Stand
<1>11. UNCHANGED <<locks, channel, table, node, made, calls, told>> /\ surveys' \in Nat
  BY DEF Interrogate, IInv, TypeOK
<1>12. code[g] # <<>> /\ ~At(g, "acquire")
  BY <1>1, <1>2, AtOk DEF At
<1> QED BY <1>1, <1>3, <1>6, <1>7, <1>9, <1>10, <1>11, <1>12, Unfold

LEMMA StatusInv ==
  ASSUME IInv, NEW g \in Goroutine, Status(g)
  PROVE  IInv'
<1>1. PICK p : Accounts(p)
  BY DEF IInv
<1>2. At(g, "status") /\ "status" \in OfDev
  BY DEF Status, OfDev
<1>3. PICK d \in Dev : d = Arg(g)
  BY <1>1, <1>2, AtOk
<1>4. PICK m : Ok(<<"status", d>>, p[g], m) /\ Goes(Tail(code[g]), m, Free)
  BY <1>1, <1>2, <1>3, AtOk
<1>5. /\ p[g].held = {Reading("n.m")} /\ m.held = {Reading("n.m")}
      /\ p[g].due = {} /\ m.due = {} /\ d \in p[g].listed /\ m.listed = p[g].listed
  BY <1>4 DEF Ok, Allowed, OnlyDue, Owes, Speaks
<1>6. p[g].stage = "tell" /\ m.stage = "tell"
  BY <1>4 DEF Ok, Staged
<1>7. p[g].stop \subseteq m.stop \cup {d} /\ m.stop \subseteq p[g].stop
  BY <1>4 DEF Ok, Stopping, Speaks
<1>8. PICK e : e = [kind |-> "stopped", dev |-> d, enumerating |-> enumerating]
  OBVIOUS
<1>9. e \in Event /\ e.kind = "stopped" /\ e.dev = d /\ e.enumerating = enumerating
  BY <1>8 DEF Event, IInv, TypeOK
<1>10. PICK i : i = <<"send", e>>
  OBVIOUS
<1>11. i \in Instr /\ i[1] = "send" /\ i[2] = e
  BY <1>9, <1>10, Instructions
<1>12. PICK s : s = Stand(p[g].held, {i}, p[g].listed, "tell", p[g].stop)
  OBVIOUS
<1>13. /\ s.held = p[g].held /\ s.due = {i} /\ s.listed = p[g].listed /\ s.stage = p[g].stage
       /\ s.stop = p[g].stop /\ s.stage = "tell"
  BY <1>6, <1>12 DEF Stand
<1>14. Ok(i, s, m)
  <2>1. Allowed(i, s.held, m.held)
    BY <1>5, <1>9, <1>11, <1>13 DEF Allowed
  <2>2. OnlyDue(i) /\ Owes(i) = {} /\ Speaks(i) = {d}
    BY <1>9, <1>11 DEF OnlyDue, Owes, Speaks
  <2>3. Staged(i, s.stage, m.stage)
    BY <1>6, <1>9, <1>11, <1>13 DEF Staged
  <2>4. Stopping(i, s.stop, m.stop)
    BY <1>7, <1>11, <1>13, <2>2 DEF Stopping
  <2>5. i # <<"runlock", "n.m">>
    BY <1>11
  <2>6. m = Stand(m.held, m.due, m.listed, m.stage, m.stop)
    BY <1>4 DEF Ok
  <2> QED BY <1>5, <1>13, <2>1, <2>2, <2>3, <2>4, <2>5, <2>6 DEF Ok
<1>15. PICK c : c = <<i>>
  OBVIOUS
<1>16. Goes(c, s, m) /\ Becomes(g, c)
  <2>1. Becomes(g, c)
    BY <1>3, <1>8, <1>10, <1>15 DEF Status
  <2> QED BY <1>11, <1>14, <1>15, <2>1, GoesOne
<1>17. calls = 0 => ~enumerating
  <2>1. SUFFICES ASSUME calls = 0, enumerating PROVE FALSE
    OBVIOUS
  <2>2. PICK x \in Goroutine : p[x].stage = "run"
    BY <1>1, <2>1 DEF Accounts, First
  <2>3. x = g
    BY <1>1, <1>6, <2>1, <2>2 DEF Accounts, First
  <2> QED BY <1>6, <2>2, <2>3
<1>18. \A j \in s.due : j[1] = "send" /\ j[2].kind = "stopped" /\ (calls = 0 => Over(j))
  BY <1>9, <1>11, <1>13, <1>17 DEF Over
<1>19. UNCHANGED <<locks, channel, table, node, made, calls, told>> /\ surveys' \in Nat
  BY DEF Status, history, IInv, TypeOK
<1>20. code[g] # <<>> /\ ~At(g, "acquire")
  BY <1>1, <1>2, AtOk DEF At
<1> QED BY <1>1, <1>4, <1>5, <1>13, <1>16, <1>18, <1>19, <1>20, Unfold

LEMMA BeginInv ==
  ASSUME IInv, NEW g \in Goroutine, Begin(g)
  PROVE  IInv'
<1> USE DEF IInv
<1>1. PICK p : Accounts(p)
  OBVIOUS
<1>2. At(g, "begin") /\ "begin" \in OfNode
  BY DEF Begin, OfNode
<1>3. PICK m : Ok(<<"begin">>, p[g], m) /\ Goes(Tail(code[g]), m, Free)
  BY <1>1, <1>2, AtOk
<1>4. code[g] # <<>> /\ ~At(g, "acquire")
  BY <1>1, <1>2, AtOk DEF At
<1>5. /\ owner' = owner /\ readers' = readers /\ channel' = channel /\ told' = told
      /\ device' = device /\ known' = known /\ made' = made /\ calls' = calls
      /\ surveys' = surveys /\ enumerating' = TRUE /\ free' = free /\ Done(g)
  BY DEF Begin, locks, table, history
<1>6. \A x : Holds(x)' = Holds(x)
  BY <1>5, HoldsKept
<1>7. p[g].held = {} /\ m.held = {} /\ m.held = Holds(g)'
  BY <1>1, <1>3, <1>6 DEF Ok, Allowed, Accounts, Follows
<1>8. p[g].due = {} /\ m.due = {} /\ m.listed = {}
  <2>1. p[g].listed = {}
    BY <1>1, <1>7, NoneListed
  <2> QED BY <1>3, <2>1 DEF Ok, OnlyDue, Owes
<1>9. p[g].stage = "begin" /\ m.stage = "run"
  BY <1>3 DEF Ok, Staged
<1>10. Role(g, m)
  BY <1>1, <1>9 DEF Accounts, Roles, Role
<1>11. calls = 0 => made # {}
  BY <1>1, <1>9 DEF Accounts, First
<1>12. code' = [code EXCEPT ![g] = Tail(code[g])]
  BY <1>4, <1>5, DoneIs
<1>13. PICK c : c = Tail(code[g])
  OBVIOUS
<1>14. code' \in [Goroutine -> Seq(Instr)] /\ \E q : Accounts(q)'
  <2>1. \A d \in Dev : Seen(d) = "enumerating" /\ Promises(p[g], d) => Promises(m, d)
    BY <1>9 DEF Promises
  <2> QED BY <1>1, <1>3, <1>4, <1>5, <1>6, <1>7, <1>8, <1>9, <1>10, <1>11, <1>12, <1>13, <2>1, Local
<1>15. TypeOK'
  BY <1>5, <1>14 DEF TypeOK
<1>16. Alone'
  <2>1. \A k \in Lock : owner'[k] = owner[k] /\ readers'[k] \subseteq readers[k]
    BY <1>5
  <2> QED BY <1>4, <1>12, <1>13, <2>1, AloneKept
<1> QED BY <1>14, <1>15, <1>16

LEMMA ReleaseInv ==
  ASSUME IInv, NEW g \in Goroutine, Release(g)
  PROVE  IInv'
<1> USE DEF IInv
<1>1. PICK p : Accounts(p)
  OBVIOUS
<1>2. At(g, "release") /\ "release" \in OfNode
  BY DEF Release, OfNode
<1>3. PICK m : Ok(<<"release">>, p[g], m) /\ Goes(Tail(code[g]), m, Free)
  BY <1>1, <1>2, AtOk
<1>4. code[g] # <<>> /\ ~At(g, "acquire")
  BY <1>1, <1>2, AtOk DEF At
<1>5. /\ owner' = owner /\ readers' = readers /\ channel' = channel /\ told' = told
      /\ device' = device /\ known' = known /\ made' = made /\ calls' = calls
      /\ surveys' = surveys /\ enumerating' = FALSE /\ free' = TRUE /\ Done(g)
  BY DEF Release, locks, table, history
<1>6. \A x : Holds(x)' = Holds(x)
  BY <1>5, HoldsKept
<1>7. p[g].held = {} /\ m.held = {} /\ m.held = Holds(g)'
  BY <1>1, <1>3, <1>6 DEF Ok, Allowed, Accounts, Follows
<1>8. p[g].due = {} /\ m.due = {} /\ m.listed = {}
  <2>1. p[g].listed = {}
    BY <1>1, <1>7, NoneListed
  <2> QED BY <1>3, <2>1 DEF Ok, OnlyDue, Owes
<1>9. p[g].stage = "run" /\ m.stage = "tell"
  BY <1>3 DEF Ok, Staged
<1>10. Role(g, m)
  BY <1>1, <1>9 DEF Accounts, Roles, Role
<1>11. calls = 0 => made # {}
  BY <1>1, <1>9 DEF Accounts, First
<1>12. code' = [code EXCEPT ![g] = Tail(code[g])]
  BY <1>4, <1>5, DoneIs
<1>13. PICK c : c = Tail(code[g])
  OBVIOUS
<1>14. code' \in [Goroutine -> Seq(Instr)] /\ \E q : Accounts(q)'
  <2>1. m.stop = Dev
    BY <1>3 DEF Ok, Stopping
  <2>2. \A d \in Dev : Seen(d) = "enumerating" /\ Promises(p[g], d) => Promises(m, d)
    BY <2>1 DEF Promises
  <2> QED BY <1>1, <1>3, <1>4, <1>5, <1>6, <1>7, <1>8, <1>9, <1>10, <1>11, <1>12, <1>13, <2>2, Local
<1>15. TypeOK'
  BY <1>5, <1>14 DEF TypeOK
<1>16. Alone'
  <2>1. \A k \in Lock : owner'[k] = owner[k] /\ readers'[k] \subseteq readers[k]
    BY <1>5
  <2> QED BY <1>4, <1>12, <1>13, <2>1, AloneKept
<1> QED BY <1>14, <1>15, <1>16

LEMMA ReceiveInv ==
  ASSUME IInv, Receive
  PROVE  IInv'
<1> USE DEF IInv
<1>1. PICK p : Accounts(p)
  OBVIOUS
<1>2. PICK g \in Goroutine : g = "loop"
  BY Goroutines
<1>3. p[g] = Free
  BY <1>1, <1>2, AtRest DEF Receive, Accounts
<1>4. /\ owner' = owner /\ readers' = readers /\ channel' = channel /\ told' = told
      /\ device' = device /\ known' = known /\ made' = made /\ calls' = calls
      /\ surveys' = surveys /\ enumerating' = enumerating /\ free' = free
  BY DEF Receive, locks, table, node, history
<1>5. PICK c : code' = [code EXCEPT ![g] = c]
        /\ \/ made = {} /\ c = Join(CHOOSE d \in Dev : TRUE)
           \/ c = Leave
           \/ device # {} /\ c = Send("reading", CHOOSE d \in device : TRUE)
  BY <1>2 DEF Receive, Begins
<1>6. \E m : /\ Goes(c, m, Free) /\ m.held = {} /\ m.listed = {} /\ m.due = {} /\ m.stop = {}
             /\ m.stage \in {"none", "join"} /\ (m.stage = "join" => made = {})
  <2>0. /\ Free.held = {} /\ Free.listed = {} /\ Free.due = {} /\ Free.stop = {}
        /\ Free.stage = "none"
    BY DEF Free, Stand
  <2>1. CASE made = {} /\ c = Join(CHOOSE d \in Dev : TRUE)
    <3>1. PICK d \in Dev : d = CHOOSE e \in Dev : TRUE
      BY DeliveryAssumption
    <3>2. PICK m : m = Rest({}, "join", {})
      OBVIOUS
    <3>3. Goes(c, m, Free)
      BY <2>1, <3>1, <3>2, JoinGoes
    <3>4. m.held = {} /\ m.listed = {} /\ m.due = {} /\ m.stop = {} /\ m.stage = "join"
      BY <3>2 DEF Rest, Stand
    <3> QED BY <2>1, <3>3, <3>4
  <2>2. CASE c = Leave
    BY <2>0, <2>2, LeaveGoes
  <2>3. CASE device # {} /\ c = Send("reading", CHOOSE d \in device : TRUE)
    <3>1. PICK d \in Dev : d = CHOOSE e \in device : TRUE
      BY <2>3 DEF TypeOK
    <3>2. Tell("reading", d) \in Instr /\ Plain(Tell("reading", d))
      BY Instructions DEF Plain, Tell
    <3>3. Allowed(Tell("reading", d), {}, {})
      BY DEF Allowed, Tell
    <3>4. Goes(<<Tell("reading", d)>>, Free, Free)
      BY <3>2, <3>3, PlainGoes DEF Free
    <3>5. Goes(c, Free, Free)
      BY <2>3, <3>1, <3>4 DEF Send, Tell
    <3> QED BY <2>0, <3>5
  <2> QED BY <1>5, <2>1, <2>2, <2>3
<1>7. PICK m : /\ Goes(c, m, Free) /\ m.held = {} /\ m.listed = {} /\ m.due = {} /\ m.stop = {}
               /\ m.stage \in {"none", "join"} /\ (m.stage = "join" => made = {})
  BY <1>6
<1>8. \A x : Holds(x)' = Holds(x)
  BY <1>4, HoldsKept
<1>9. m.held = Holds(g)'
  <2>1. p[g].held = Holds(g)
    BY <1>1 DEF Accounts, Follows
  <2> QED BY <1>3, <1>7, <1>8, <2>1 DEF Free, Stand
<1>10. p[g].due = {} /\ p[g].stage = "none" /\ \A d : ~Promises(p[g], d)
  BY <1>3 DEF Free, Stand, Promises
<1>11. Role(g, m)
  BY <1>2, <1>7 DEF Role
<1>12. calls = 0 /\ made = {} => \A x \in Goroutine : p[x].stage = "none"
  <2>1. SUFFICES ASSUME calls = 0, made = {}, NEW x \in Goroutine PROVE p[x].stage = "none"
    OBVIOUS
  <2>2. p[x].stage \in {"none", "join"}
    BY <1>1, <2>1 DEF Accounts, First
  <2>3. p[x].stage = "join" => x = g
    BY <1>1, <1>2 DEF Accounts, Roles, Role
  <2> QED BY <1>10, <2>2, <2>3
<1>13. code' \in [Goroutine -> Seq(Instr)] /\ \E q : Accounts(q)'
  <2>1. g # "consumer"
    BY <1>2
  <2>2. calls = 0 => (m.stage # "none" => \A x \in Goroutine : p[x].stage = "none")
    BY <1>7, <1>12
  <2> QED BY <1>1, <1>4, <1>5, <1>7, <1>8, <1>9, <1>10, <1>11, <2>1, <2>2, Local
<1>14. TypeOK'
  BY <1>4, <1>13 DEF TypeOK
<1>15. Alone'
  <2>1. \A k \in Lock : owner'[k] = owner[k] /\ readers'[k] \subseteq readers[k]
    BY <1>4
  <2>2. ~At(g, "acquire")
    BY <1>2 DEF At, Receive
  <2>3. PICK e : e = c
    OBVIOUS
  <2> QED BY <1>5, <2>1, <2>2, <2>3, AloneKept
<1> QED BY <1>13, <1>14, <1>15

\* An event is read, and the reader may call something.
LEMMA ReadEventInv ==
  ASSUME IInv, ReadEvent
  PROVE  IInv'
<1> USE DEF IInv
<1>1. PICK p : Accounts(p)
  OBVIOUS
<1>2. PICK g \in Goroutine : g = "consumer"
  BY Goroutines
<1>3. p[g] = Free /\ code[g] = <<>>
  <2>1. code[g] = <<>>
    BY <1>2 DEF ReadEvent
  <2> QED BY <1>1, <2>1, AtRest DEF Accounts
<1>4. PICK e \in Event : channel = <<e>>
  BY DEF ReadEvent, TypeOK
<1>5. /\ channel # <<>> /\ Head(channel) = e /\ e.dev \in Dev
  BY <1>4 DEF Event
<1>6. /\ owner' = owner /\ readers' = readers /\ channel' = <<>> /\ told' = Tells(e)
      /\ device' = device /\ known' = known /\ made' = made
      /\ surveys' = surveys /\ enumerating' = enumerating /\ free' = free
  BY <1>5 DEF ReadEvent, locks, table, node
<1>7. \A d : Seen(d)' = Seen(d)
  BY <1>5, <1>6 DEF Seen
<1>8. told' \in [Dev -> {"absent", "idle", "enumerating"}]
  BY <1>5, <1>6 DEF Tells, TypeOK
<1>9. \A x : Holds(x)' = Holds(x)
  BY <1>6, HoldsKept
<1>10. CASE UNCHANGED <<code, calls>>
  <2>1. code' = code /\ calls' = calls
    BY <1>10
  <2>2. TypeOK'
    BY <1>6, <1>8, <2>1 DEF TypeOK
  <2>3. Alone'
    BY <1>6, <2>1 DEF Alone
  <2>4. Follows(p)'
    BY <1>1, <1>9, <2>1 DEF Accounts, Follows
  <2>5. Finds(p)'
    BY <1>1, <1>7 DEF Accounts, Finds
  <2>6. Tables(p)'
    BY <1>1, <1>6, <1>7 DEF Accounts, Tables
  <2>7. Ends(p)'
    BY <1>1, <1>7 DEF Accounts, Ends
  <2>8. Roles(p)'
    BY <1>1 DEF Accounts, Roles
  <2>9. First(p)'
    BY <1>1, <1>6, <2>1 DEF Accounts, First
  <2>10. Accounts(p)'
    BY <2>4, <2>5, <2>6, <2>7, <2>8, <2>9 DEF Accounts
  <2> QED BY <2>2, <2>3, <2>10
<1>11. ASSUME NEW what \in Calls, calls' = calls + 1, Begins("consumer", Call(what, Head(channel).dev))
       PROVE  IInv'
  <2>1. PICK m : m = Wants(what)
    OBVIOUS
  <2>2. PICK c : c = Call(what, e.dev)
    OBVIOUS
  <2>3. Goes(c, m, Free) /\ code' = [code EXCEPT ![g] = c]
    BY <1>2, <1>5, <1>11, <2>1, <2>2, CallGoes DEF Begins
  <2>4. /\ m.held = {} /\ m.due = {} /\ m.listed = {} /\ m.stop = {} /\ m.stage \in {"none", "ask"}
    BY <2>1 DEF Wants, Rest, Stand
  <2>5. /\ p[g].held = {} /\ p[g].due = {} /\ p[g].listed = {} /\ p[g].stop = {} /\ p[g].stage = "none"
    BY <1>3 DEF Free, Stand
  <2>6. m.held = Holds(g)'
    BY <1>1, <1>9, <2>4, <2>5 DEF Accounts, Follows
  <2>7. PICK q : q = Moved(p, g, m)
    OBVIOUS
  <2>8. Follows(q)' /\ code' \in [Goroutine -> Seq(Instr)]
    BY <1>1, <1>9, <2>3, <2>6, <2>7, MovedFollows DEF Accounts
  <2>9. q[g] = m /\ \A x \in Goroutine : x # g => q[x] = p[x]
    BY <2>7, MovedIs
  <2>10. calls' \in Nat /\ calls' # 0
    BY <1>11 DEF TypeOK
  <2>11. TypeOK'
    BY <1>6, <1>8, <2>8, <2>10 DEF TypeOK
  <2>12. Alone'
    <3>1. \A k \in Lock : owner'[k] = owner[k] /\ readers'[k] \subseteq readers[k]
      BY <1>6
    <3>2. ~At(g, "acquire")
      BY <1>3 DEF At
    <3> QED BY <2>3, <3>1, <3>2, AloneKept
  <2>13. Finds(q)'
    <3>1. ASSUME NEW x \in Goroutine, NEW d \in q[x].listed
          PROVE  d \in Dev /\ Seen(d) # "absent" /\ Reading("n.m") \in q[x].held
      BY <1>1, <2>4, <2>9, <3>1 DEF Accounts, Finds
    <3> QED BY <1>7, <3>1 DEF Finds
  <2>14. Tables(q)'
    <3>1. \A x \in Goroutine : q[x].due = p[x].due
      BY <2>4, <2>5, <2>9
    <3> QED BY <1>1, <1>6, <1>7, <3>1 DEF Accounts, Tables
  <2>15. Ends(q)'
    <3>1. ASSUME NEW x \in Goroutine, NEW d, Promises(p[x], d) PROVE Promises(q[x], d)
      BY <2>5, <2>9, <3>1 DEF Promises
    <3> QED BY <1>1, <1>7, <3>1 DEF Accounts, Ends
  <2>16. Roles(q)'
    <3>1. ASSUME NEW x \in Goroutine PROVE Role(x, q[x])
      BY <1>1, <2>4, <2>9 DEF Accounts, Roles, Role
    <3> QED BY <3>1 DEF Roles
  <2>17. First(q)'
    BY <2>10 DEF First
  <2>18. Accounts(q)'
    BY <2>8, <2>13, <2>14, <2>15, <2>16, <2>17 DEF Accounts
  <2> QED BY <2>11, <2>12, <2>18
<1> QED BY <1>10, <1>11 DEF ReadEvent

\* The one that asked goes on, and a session begins.
LEMMA StartEnumerationInv ==
  ASSUME IInv, NEW g \in Goroutine, StartEnumeration(g)
  PROVE  IInv'
<1> USE DEF IInv
<1>1. PICK p : Accounts(p)
  OBVIOUS
<1>2. At(g, "startEnumeration") /\ "startEnumeration" \in OfNode
  BY DEF StartEnumeration, OfNode
<1>3. PICK m : Ok(<<"startEnumeration">>, p[g], m) /\ Goes(Tail(code[g]), m, Free)
  BY <1>1, <1>2, AtOk
<1>4. code[g] # <<>> /\ ~At(g, "acquire")
  BY <1>1, <1>2, AtOk DEF At
<1>5. /\ owner' = owner /\ readers' = readers /\ channel' = channel /\ told' = told
      /\ device' = device /\ known' = known /\ made' = made /\ calls' = calls
      /\ surveys' = surveys /\ enumerating' = enumerating
  BY DEF StartEnumeration, locks, table, history
<1>6. \A x : Holds(x)' = Holds(x)
  BY <1>5, HoldsKept
<1>7. p[g].held = {} /\ m.held = {} /\ m.held = Holds(g)'
  BY <1>1, <1>3, <1>6 DEF Ok, Allowed, Accounts, Follows
<1>8. p[g].due = {} /\ m.due = {} /\ m.listed = {}
  <2>1. p[g].listed = {}
    BY <1>1, <1>7, NoneListed
  <2> QED BY <1>3, <2>1 DEF Ok, OnlyDue, Owes
<1>9. p[g].stage = "ask" /\ m.stage = "none"
  BY <1>3 DEF Ok, Staged
<1>10. m.stop = p[g].stop
  BY <1>3 DEF Ok, Stopping, Speaks
<1>11. \A d : Promises(p[g], d) => Promises(m, d)
  BY <1>9, <1>10 DEF Promises
<1>12. Role(g, m)
  BY <1>9 DEF Role
<1>13. CASE ~free /\ Done(g) /\ UNCHANGED free
  <2>1. code' = [code EXCEPT ![g] = Tail(code[g])]
    BY <1>4, <1>13, DoneIs
  <2>2. PICK c : c = Tail(code[g])
    OBVIOUS
  <2>3. code' \in [Goroutine -> Seq(Instr)] /\ \E q : Accounts(q)'
    <3>1. calls = 0 => (enumerating' => enumerating /\ p[g].stage # "run")
      BY <1>5, <1>9
    <3> QED BY <1>1, <1>3, <1>4, <1>5, <1>6, <1>7, <1>8, <1>9, <1>11, <1>12, <2>1, <2>2, <3>1, Local
  <2>4. TypeOK'
    BY <1>5, <1>13, <2>3 DEF TypeOK
  <2>5. Alone'
    <3>1. \A k \in Lock : owner'[k] = owner[k] /\ readers'[k] \subseteq readers[k]
      BY <1>5
    <3> QED BY <1>4, <2>1, <2>2, <3>1, AloneKept
  <2> QED BY <2>3, <2>4, <2>5
<1>14. CASE free' = FALSE /\ \E s \in Session : code[s] = <<>> /\ code' = [code EXCEPT ![g] = Tail(@), ![s] = Enumerate]
  <2>1. PICK s \in Session : code[s] = <<>> /\ code' = [code EXCEPT ![g] = Tail(@), ![s] = Enumerate]
    BY <1>14
  <2>2. s \in Goroutine /\ s # g
    BY <1>4, <2>1, Goroutines
  <2>3. p[s] = Free
    BY <1>1, <2>1, <2>2, AtRest DEF Accounts
  <2>4. PICK b : b = Rest({}, "begin", {})
    OBVIOUS
  <2>5. Goes(Enumerate, b, Free)
    BY <2>4, EnumerateGoes
  <2>6. b.held = {} /\ b.due = {} /\ b.listed = {} /\ b.stage = "begin" /\ b.stop = {}
    BY <2>4 DEF Rest, Stand
  <2>7. /\ p[s].held = {} /\ p[s].due = {} /\ p[s].listed = {} /\ p[s].stage = "none"
        /\ p[s].stop = {}
    BY <2>3 DEF Free, Stand
  <2>8. PICK q : q = [x \in Goroutine |-> IF x = g THEN m ELSE IF x = s THEN b ELSE p[x]]
    OBVIOUS
  <2>9. q[g] = m /\ q[s] = b /\ \A x \in Goroutine : x # g /\ x # s => q[x] = p[x]
    BY <2>2, <2>8
  <2>10. /\ code'[g] = Tail(code[g]) /\ code'[s] = Enumerate
         /\ \A x \in Goroutine : x # g /\ x # s => code'[x] = code[x]
    BY <2>1, <2>2 DEF TypeOK
  <2>11. code' \in [Goroutine -> Seq(Instr)]
    <3>1. Tail(code[g]) \in Seq(Instr) /\ Enumerate \in Seq(Instr)
      BY <1>3, <2>5 DEF Goes
    <3> QED BY <2>1, <3>1 DEF TypeOK
  <2>12. Follows(q)'
    <3>1. ASSUME NEW x \in Goroutine
          PROVE  Goes(code'[x], q[x], Free) /\ q[x].held = Holds(x)'
      <4>1. CASE x = g
        BY <1>3, <1>7, <2>9, <2>10, <4>1
      <4>2. CASE x = s
        <5>1. Holds(s) = {}
          BY <1>1, <2>2, <2>7 DEF Accounts, Follows
        <5> QED BY <1>6, <2>5, <2>6, <2>9, <2>10, <4>2, <5>1
      <4>3. CASE x # g /\ x # s
        BY <1>1, <1>6, <2>9, <2>10, <4>3 DEF Accounts, Follows
      <4> QED BY <4>1, <4>2, <4>3
    <3> QED BY <3>1 DEF Follows
  <2>13. \A d : Seen(d)' = Seen(d)
    BY <1>5, SeenKept
  <2>14. Finds(q)'
    <3>1. ASSUME NEW x \in Goroutine, NEW d \in q[x].listed
          PROVE  d \in Dev /\ Seen(d) # "absent" /\ Reading("n.m") \in q[x].held
      <4>1. x # g /\ x # s
        BY <1>8, <2>6, <2>9, <3>1
      <4> QED BY <1>1, <2>9, <3>1, <4>1 DEF Accounts, Finds
    <3> QED BY <2>13, <3>1 DEF Finds
  <2>15. Tables(q)'
    <3>1. \A x \in Goroutine : q[x].due = p[x].due
      BY <1>8, <2>2, <2>6, <2>7, <2>9
    <3> QED BY <1>1, <1>5, <2>13, <3>1 DEF Accounts, Tables
  <2>16. Ends(q)'
    <3>1. ASSUME NEW x \in Goroutine, NEW d, Promises(p[x], d) PROVE Promises(q[x], d)
      <4>1. x # s
        BY <2>7, <3>1 DEF Promises
      <4> QED BY <1>11, <2>9, <3>1, <4>1
    <3> QED BY <1>1, <2>13, <3>1 DEF Accounts, Ends
  <2>17. Roles(q)'
    <3>1. ASSUME NEW x \in Goroutine PROVE Role(x, q[x])
      <4>1. Role(s, b)
        BY <2>6 DEF Role
      <4> QED BY <1>1, <1>12, <2>9, <4>1 DEF Accounts, Roles
    <3> QED BY <3>1 DEF Roles
  <2>18. First(q)'
    <3> SUFFICES ASSUME calls = 0
                 PROVE  /\ code'["consumer"] = <<>>
                        /\ \A y, x \in Goroutine : q[y].stage # "none" /\ q[x].stage # "none" => y = x
                        /\ enumerating => \E x \in Goroutine : q[x].stage = "run"
                        /\ made = {} => \A x \in Goroutine : q[x].stage \in {"none", "join"}
                        /\ \A x \in Goroutine : \A i \in q[x].due : Over(i)
                        /\ channel # <<>> =>
                             ~(Head(channel).kind = "stopped" /\ Head(channel).enumerating)
      BY <1>5 DEF First
    <3>1. First(p)!2
      BY <1>1 DEF Accounts, First
    <3>2. code'["consumer"] = <<>>
      <4>1. "consumer" \in Goroutine /\ "consumer" # g /\ "consumer" # s
        BY <1>4, <3>1, <2>1, Goroutines, DeliveryAssumption
      <4> QED BY <2>10, <3>1, <4>1
    <3>3. \A x \in Goroutine : p[x].stage # "none" => x = g
      BY <1>9, <3>1
    <3>4. \A x \in Goroutine : q[x].stage # "none" => x = s
      BY <1>9, <2>9, <3>3
    <3>5. ~enumerating
      BY <1>9, <3>1, <3>3
    <3>6. made # {}
      BY <1>9, <3>1
    <3>7. \A x \in Goroutine : \A i \in q[x].due : Over(i)
      BY <1>8, <2>6, <2>9, <3>1
    <3> QED BY <3>1, <3>2, <3>4, <3>5, <3>6, <3>7
  <2>19. Accounts(q)'
    BY <2>12, <2>14, <2>15, <2>16, <2>17, <2>18 DEF Accounts
  <2>20. TypeOK'
    BY <1>5, <1>14, <2>11 DEF TypeOK
  <2>21. Alone'
    <3> SUFFICES ASSUME NEW l \in Lock, NEW x \in Goroutine, owner[l] = x, readers[l] # {}
                 PROVE  code'[x] # <<>> /\ Head(code'[x]) = <<"acquire", l>>
      BY <1>5 DEF Alone
    <3>1. code[x] # <<>> /\ Head(code[x]) = <<"acquire", l>>
      BY DEF Alone
    <3>2. x # g /\ x # s
      BY <1>4, <2>1, <3>1 DEF At
    <3> QED BY <2>10, <3>1, <3>2
  <2> QED BY <2>19, <2>20, <2>21
<1> QED BY <1>13, <1>14 DEF StartEnumeration

\* A device comes into the table, to be announced next.
LEMMA PutInv ==
  ASSUME IInv, NEW g \in Goroutine, Put(g)
  PROVE  IInv'
<1> USE DEF IInv
<1>1. PICK p : Accounts(p)
  OBVIOUS
<1>2. At(g, "put") /\ "put" \in OfDev
  BY DEF Put, OfDev
<1>3. PICK d0 \in Dev : d0 = Arg(g)
  BY <1>1, <1>2, AtOk
<1>4. PICK m : Ok(<<"put", d0>>, p[g], m) /\ Goes(Tail(code[g]), m, Free)
  BY <1>1, <1>2, <1>3, AtOk
<1>5. code[g] # <<>> /\ ~At(g, "acquire")
  BY <1>1, <1>2, AtOk DEF At
<1>6. /\ owner' = owner /\ readers' = readers /\ channel' = channel /\ told' = told
      /\ device' = device \cup {d0} /\ made' = made \cup {d0} /\ known' = known /\ calls' = calls
      /\ surveys' = surveys /\ enumerating' = enumerating /\ free' = free /\ Done(g)
  BY <1>3 DEF Put, locks, node
<1>7. \A x : Holds(x)' = Holds(x)
  BY <1>6, HoldsKept
<1>8. p[g].held = {Writing("n.m")} /\ m.held = p[g].held /\ m.held = Holds(g)'
  BY <1>1, <1>4, <1>7 DEF Ok, Allowed, Accounts, Follows
<1>9. p[g].due = {} /\ m.due = {Tell("added", d0)} /\ m.listed = {}
  <2>1. Reading("n.m") # Writing("n.m")
    BY DEF Reading, Writing
  <2>2. p[g].listed = {}
    BY <1>1, <1>8, <2>1, NoneListed
  <2> QED BY <1>4, <2>2 DEF Ok, OnlyDue, Owes
<1>10. m.stage = IF p[g].stage = "join" THEN "ask" ELSE p[g].stage
  BY <1>4 DEF Ok, Staged
<1>11. m.stop = p[g].stop
  BY <1>4 DEF Ok, Stopping, Speaks
<1>12. code' = [code EXCEPT ![g] = Tail(code[g])]
  BY <1>5, <1>6, DoneIs
<1>13. PICK c : c = Tail(code[g])
  OBVIOUS
<1>14. PICK q : q = Moved(p, g, m)
  OBVIOUS
<1>15. Follows(q)' /\ code' \in [Goroutine -> Seq(Instr)]
  BY <1>1, <1>4, <1>7, <1>8, <1>12, <1>13, <1>14, MovedFollows DEF Accounts
<1>16. q[g] = m /\ \A x \in Goroutine : x # g => q[x] = p[x]
  BY <1>14, MovedIs
<1>17. \A d : Seen(d)' = Seen(d)
  BY <1>6, SeenKept
<1>18. Finds(q)'
  <2>1. ASSUME NEW x \in Goroutine, NEW d \in q[x].listed
        PROVE  d \in Dev /\ Seen(d) # "absent" /\ Reading("n.m") \in q[x].held
    BY <1>1, <1>9, <1>16, <2>1 DEF Accounts, Finds
  <2> QED BY <1>17, <2>1 DEF Finds
<1>19. Tables(q)'
  <2>1. ASSUME NEW d \in Dev
        PROVE  /\ Seen(d) # "absent" => d \in device'
               /\ d \in device' /\ Seen(d) = "absent" =>
                    \E x \in Goroutine : q[x].due \cap {Tell("added", d), <<"drop", d>>} # {}
               /\ \A x \in Goroutine : Tell("added", d) \in q[x].due => d \in device'
               /\ \A x \in Goroutine : <<"drop", d>> \in q[x].due => Seen(d) = "absent"
    <3>1. Seen(d) # "absent" => d \in device'
      BY <1>1, <1>6 DEF Accounts, Tables
    <3>2. ASSUME d \in device', Seen(d) = "absent"
          PROVE  \E x \in Goroutine : q[x].due \cap {Tell("added", d), <<"drop", d>>} # {}
      <4>1. CASE d = d0
        BY <1>9, <1>16, <4>1
      <4>2. CASE d # d0
        <5>1. PICK x \in Goroutine : p[x].due \cap {Tell("added", d), <<"drop", d>>} # {}
          BY <1>1, <1>6, <3>2, <4>2 DEF Accounts, Tables
        <5>2. x # g
          BY <1>9, <5>1
        <5> QED BY <1>16, <5>1, <5>2
      <4> QED BY <4>1, <4>2
    <3>3. ASSUME NEW x \in Goroutine, Tell("added", d) \in q[x].due PROVE d \in device'
      <4>1. CASE x = g
        <5>1. Tell("added", d) = Tell("added", d0)
          BY <1>9, <1>16, <3>3, <4>1
        <5> QED BY <1>6, <5>1 DEF Tell
      <4>2. CASE x # g
        BY <1>1, <1>6, <1>16, <3>3, <4>2 DEF Accounts, Tables
      <4> QED BY <4>1, <4>2
    <3>4. ASSUME NEW x \in Goroutine, <<"drop", d>> \in q[x].due PROVE Seen(d) = "absent"
      <4>1. x # g
        BY <1>9, <1>16, <3>4 DEF Tell
      <4> QED BY <1>1, <1>16, <3>4, <4>1 DEF Accounts, Tables
    <3> QED BY <3>1, <3>2, <3>3, <3>4
  <2> QED BY <1>17, <2>1 DEF Tables
<1>20. Ends(q)'
  <2>1. ASSUME NEW x \in Goroutine, NEW d, Promises(p[x], d) PROVE Promises(q[x], d)
    BY <1>10, <1>11, <1>16, <2>1 DEF Promises
  <2> QED BY <1>1, <1>17, <2>1 DEF Accounts, Ends
<1>21. Roles(q)'
  <2>1. ASSUME NEW x \in Goroutine PROVE Role(x, q[x])
    BY <1>1, <1>10, <1>16 DEF Accounts, Roles, Role
  <2> QED BY <2>1 DEF Roles
<1>22. First(q)'
  <2> SUFFICES ASSUME calls = 0
               PROVE  /\ code'["consumer"] = <<>>
                      /\ \A y, x \in Goroutine : q[y].stage # "none" /\ q[x].stage # "none" => y = x
                      /\ enumerating => \E x \in Goroutine : q[x].stage = "run"
                      /\ \A x \in Goroutine : \A i \in q[x].due : Over(i)
                      /\ channel # <<>> =>
                           ~(Head(channel).kind = "stopped" /\ Head(channel).enumerating)
    BY <1>6 DEF First
  <2>1. First(p)!2
    BY <1>1 DEF Accounts, First
  <2>2. code'["consumer"] = <<>>
    BY <1>5, <1>12, <2>1, Goroutines DEF TypeOK
  <2>3. \A x \in Goroutine : q[x].stage # "none" => p[x].stage # "none"
    BY <1>10, <1>16
  <2>4. enumerating => \E x \in Goroutine : q[x].stage = "run"
    <3>1. \A x \in Goroutine : p[x].stage = "run" => q[x].stage = "run"
      BY <1>10, <1>16
    <3> QED BY <2>1, <3>1
  <2>5. Over(Tell("added", d0))
    BY DEF Over, Tell
  <2>6. \A x \in Goroutine : \A i \in q[x].due : Over(i)
    BY <1>9, <1>16, <2>1, <2>5
  <2> QED BY <2>1, <2>2, <2>3, <2>4, <2>6
<1>23. Accounts(q)'
  BY <1>15, <1>18, <1>19, <1>20, <1>21, <1>22 DEF Accounts
<1>24. TypeOK'
  BY <1>6, <1>15 DEF TypeOK
<1>25. Alone'
  <2>1. \A k \in Lock : owner'[k] = owner[k] /\ readers'[k] \subseteq readers[k]
    BY <1>6
  <2> QED BY <1>5, <1>12, <1>13, <2>1, AloneKept
<1> QED BY <1>23, <1>24, <1>25

\* A device that was withdrawn leaves the table.
LEMMA DropInv ==
  ASSUME IInv, NEW g \in Goroutine, Drop(g)
  PROVE  IInv'
<1> USE DEF IInv
<1>1. PICK p : Accounts(p)
  OBVIOUS
<1>2. At(g, "drop") /\ "drop" \in OfDev
  BY DEF Drop, OfDev
<1>3. PICK d0 \in Dev : d0 = Arg(g)
  BY <1>1, <1>2, AtOk
<1>4. PICK m : Ok(<<"drop", d0>>, p[g], m) /\ Goes(Tail(code[g]), m, Free)
  BY <1>1, <1>2, <1>3, AtOk
<1>5. code[g] # <<>> /\ ~At(g, "acquire")
  BY <1>1, <1>2, AtOk DEF At
<1>6. PICK l \in Lock : l = "n.m"
  BY Mutexes
<1>7. /\ owner' = [owner EXCEPT ![l] = Nobody] /\ readers' = readers /\ channel' = channel
      /\ told' = told /\ device' = device \ {d0} /\ made' = made /\ known' = known /\ calls' = calls
      /\ surveys' = surveys /\ enumerating' = enumerating /\ free' = free /\ Done(g)
  BY <1>3, <1>6 DEF Drop, node, Releases, history
<1>8. p[g].held = {Writing(l)} /\ m.held = {} /\ p[g].held = Holds(g)
  BY <1>1, <1>4, <1>6 DEF Ok, Allowed, Accounts, Follows
<1>9. /\ Holds(g)' = Holds(g) \ {Writing(l)}
      /\ \A x \in Goroutine \ {g} : Holds(x)' = Holds(x)
      /\ owner' \in [Lock -> Goroutine \cup {Nobody}]
  BY <1>7, <1>8, HoldsFree
<1>10. m.held = Holds(g)'
  BY <1>8, <1>9
<1>11. p[g].due = {<<"drop", d0>>} /\ m.due = {} /\ m.listed = {}
  <2>1. Reading("n.m") # Writing(l)
    BY DEF Reading, Writing
  <2>2. p[g].listed = {}
    BY <1>1, <1>8, <2>1, NoneListed
  <2> QED BY <1>4, <2>2 DEF Ok, OnlyDue, Owes
<1>12. m.stage = p[g].stage
  BY <1>4 DEF Ok, Staged
<1>13. m.stop = p[g].stop
  BY <1>4 DEF Ok, Stopping, Speaks
<1>14. code' = [code EXCEPT ![g] = Tail(code[g])]
  BY <1>5, <1>7, DoneIs
<1>15. PICK c : c = Tail(code[g])
  OBVIOUS
<1>16. PICK q : q = Moved(p, g, m)
  OBVIOUS
<1>17. Follows(q)' /\ code' \in [Goroutine -> Seq(Instr)]
  BY <1>1, <1>4, <1>9, <1>10, <1>14, <1>15, <1>16, MovedFollows DEF Accounts
<1>18. q[g] = m /\ \A x \in Goroutine : x # g => q[x] = p[x]
  BY <1>16, MovedIs
<1>19. \A d : Seen(d)' = Seen(d)
  BY <1>7, SeenKept
<1>20. Seen(d0) = "absent"
  BY <1>1, <1>11 DEF Accounts, Tables
<1>21. Finds(q)'
  <2>1. ASSUME NEW x \in Goroutine, NEW d \in q[x].listed
        PROVE  d \in Dev /\ Seen(d) # "absent" /\ Reading("n.m") \in q[x].held
    BY <1>1, <1>11, <1>18, <2>1 DEF Accounts, Finds
  <2> QED BY <1>19, <2>1 DEF Finds
<1>22. Tables(q)'
  <2>1. ASSUME NEW d \in Dev
        PROVE  /\ Seen(d) # "absent" => d \in device'
               /\ d \in device' /\ Seen(d) = "absent" =>
                    \E x \in Goroutine : q[x].due \cap {Tell("added", d), <<"drop", d>>} # {}
               /\ \A x \in Goroutine : Tell("added", d) \in q[x].due => d \in device'
               /\ \A x \in Goroutine : <<"drop", d>> \in q[x].due => Seen(d) = "absent"
    <3>1. Seen(d) # "absent" => d \in device'
      BY <1>1, <1>7, <1>20 DEF Accounts, Tables
    <3>2. ASSUME d \in device', Seen(d) = "absent"
          PROVE  \E x \in Goroutine : q[x].due \cap {Tell("added", d), <<"drop", d>>} # {}
      <4>1. d \in device /\ d # d0
        BY <1>7, <3>2
      <4>2. PICK x \in Goroutine : p[x].due \cap {Tell("added", d), <<"drop", d>>} # {}
        BY <1>1, <3>2, <4>1 DEF Accounts, Tables
      <4>3. x # g
        BY <1>11, <4>1, <4>2 DEF Tell
      <4> QED BY <1>18, <4>2, <4>3
    <3>3. ASSUME NEW x \in Goroutine, Tell("added", d) \in q[x].due PROVE FALSE
      <4>1. x # g
        BY <1>11, <1>18, <3>3
      <4>2. Tell("added", d) \in p[x].due
        BY <1>18, <3>3, <4>1
      <4>3. owner["n.m"] = x
        BY <1>1, <4>2, DueHolds
      <4>4. owner["n.m"] = g
        BY <1>1, <1>11, DueHolds
      <4> QED BY <4>1, <4>3, <4>4
    <3>4. ASSUME NEW x \in Goroutine, <<"drop", d>> \in q[x].due PROVE Seen(d) = "absent"
      <4>1. x # g
        BY <1>11, <1>18, <3>4
      <4> QED BY <1>1, <1>18, <3>4, <4>1 DEF Accounts, Tables
    <3> QED BY <3>1, <3>2, <3>3, <3>4
  <2> QED BY <1>19, <2>1 DEF Tables
<1>23. Ends(q)'
  <2>1. ASSUME NEW x \in Goroutine, NEW d, Promises(p[x], d) PROVE Promises(q[x], d)
    BY <1>12, <1>13, <1>18, <2>1 DEF Promises
  <2> QED BY <1>1, <1>19, <2>1 DEF Accounts, Ends
<1>24. Roles(q)'
  <2>1. ASSUME NEW x \in Goroutine PROVE Role(x, q[x])
    BY <1>1, <1>12, <1>18 DEF Accounts, Roles, Role
  <2> QED BY <2>1 DEF Roles
<1>25. First(q)'
  <2> SUFFICES ASSUME calls = 0
               PROVE  /\ code'["consumer"] = <<>>
                      /\ \A y, x \in Goroutine : q[y].stage # "none" /\ q[x].stage # "none" => y = x
                      /\ enumerating => \E x \in Goroutine : q[x].stage = "run"
                      /\ made = {} => \A x \in Goroutine : q[x].stage \in {"none", "join"}
                      /\ \A x \in Goroutine : \A i \in q[x].due : Over(i)
                      /\ channel # <<>> =>
                           ~(Head(channel).kind = "stopped" /\ Head(channel).enumerating)
    BY <1>7 DEF First
  <2>1. First(p)!2
    BY <1>1 DEF Accounts, First
  <2>2. code'["consumer"] = <<>>
    BY <1>5, <1>14, <2>1, Goroutines DEF TypeOK
  <2>3. \A x \in Goroutine : q[x].stage = p[x].stage
    BY <1>12, <1>18
  <2>4. \A x \in Goroutine : \A i \in q[x].due : Over(i)
    BY <1>11, <1>18, <2>1
  <2> QED BY <2>1, <2>2, <2>3, <2>4
<1>26. Accounts(q)'
  BY <1>17, <1>21, <1>22, <1>23, <1>24, <1>25 DEF Accounts
<1>27. TypeOK'
  BY <1>7, <1>9, <1>17 DEF TypeOK
<1>28. Alone'
  <2>1. \A k \in Lock : owner'[k] = Nobody \/ (owner'[k] = owner[k] /\ readers'[k] \subseteq readers[k])
    BY <1>7 DEF TypeOK
  <2> QED BY <1>5, <1>14, <1>15, <2>1, AloneKept
<1> QED BY <1>26, <1>27, <1>28

\* An event is put into the channel: what the reader will know of its device.
LEMMA SeenSent ==
  ASSUME TypeOK, NEW e \in Event, channel = <<>>, channel' = <<e>>, told' = told
  PROVE  /\ e.dev \in Dev
         /\ \A d \in Dev : d # e.dev => Seen(d)' = Seen(d)
         /\ e.kind \in {"added", "stopped"} => Seen(e.dev)' = "idle"
         /\ e.kind = "start" => Seen(e.dev)' = "enumerating"
         /\ e.kind = "removed" => Seen(e.dev)' = "absent"
         /\ e.kind \notin {"added", "stopped", "start", "removed"} => Seen(e.dev)' = Seen(e.dev)
<1>1. PICK d0 \in Dev : d0 = e.dev
  BY DEF Event
<1>2. PICK T \in [Dev -> {"absent", "idle", "enumerating"}] : T = told
  BY DEF TypeOK
<1>3. \A d : Seen(d) = T[d]
  BY <1>2 DEF Seen
<1>4. Head(channel') = e /\ channel' # <<>>
  OBVIOUS
<1>5. PICK S : S = (CASE e.kind = "added"   -> [T EXCEPT ![d0] = "idle"]
                      [] e.kind = "start"   -> [T EXCEPT ![d0] = "enumerating"]
                      [] e.kind = "stopped" -> [T EXCEPT ![d0] = "idle"]
                      [] e.kind = "removed" -> [T EXCEPT ![d0] = "absent"]
                      [] OTHER              -> T)
  OBVIOUS
<1>6. \A d : Seen(d)' = S[d]
  BY <1>1, <1>2, <1>4, <1>5 DEF Seen, Tells
<1>7. /\ e.kind \in {"added", "stopped"} => S = [T EXCEPT ![d0] = "idle"]
      /\ e.kind = "start" => S = [T EXCEPT ![d0] = "enumerating"]
      /\ e.kind = "removed" => S = [T EXCEPT ![d0] = "absent"]
      /\ e.kind \notin {"added", "stopped", "start", "removed"} => S = T
  BY <1>5
<1>8. \A d \in Dev : d # d0 => S[d] = T[d]
  BY <1>7
<1> QED BY <1>1, <1>3, <1>6, <1>7, <1>8

LEMMA SendEventInv ==
  ASSUME IInv, NEW g \in Goroutine, SendEvent(g)
  PROVE  IInv'
<1> USE DEF IInv
<1>1. PICK p : Accounts(p)
  OBVIOUS
<1>2. At(g, "send")
  BY DEF SendEvent
<1>3. PICK e \in Event : e = Arg(g)
  BY <1>2, AtIs
<1>4. PICK m : Ok(<<"send", e>>, p[g], m) /\ Goes(Tail(code[g]), m, Free)
  BY <1>1, <1>2, <1>3, AtOk
<1>5. code[g] # <<>> /\ Head(code[g]) = <<"send", e>> /\ ~At(g, "acquire")
  BY <1>2, <1>3, AtIs DEF At
<1>6. /\ owner' = owner /\ readers' = readers /\ channel = <<>> /\ channel' = <<e>>
      /\ told' = told /\ device' = device /\ made' = made /\ known' = known /\ calls' = calls
      /\ surveys' = surveys /\ enumerating' = enumerating /\ free' = free /\ Done(g)
  BY <1>3 DEF SendEvent, locks, table, node, history
<1>7. \A x : Holds(x)' = Holds(x)
  BY <1>6, HoldsKept
<1>8. PICK i : i = <<"send", e>>
  OBVIOUS
<1>9. PICK d0 \in Dev : d0 = e.dev
  BY DEF Event
<1>10. i[1] = "send" /\ i[2] = e /\ Ok(i, p[g], m)
  BY <1>4, <1>8
<1>11. m.held = p[g].held /\ m.held = Holds(g)' /\ p[g].held = Holds(g)
  <2>1. m.held = p[g].held
    BY <1>10 DEF Ok, Allowed
  <2> QED BY <1>1, <1>7, <2>1 DEF Accounts, Follows
<1>12. m.listed = p[g].listed
  BY <1>10 DEF Ok
<1>13. m.stage = p[g].stage
  BY <1>10 DEF Ok, Staged
<1>14. p[g].due = (IF OnlyDue(i) THEN {i} ELSE {}) /\ m.due = Owes(i)
  BY <1>10 DEF Ok
<1>15. p[g].stop \subseteq m.stop \cup Speaks(i)
  BY <1>10 DEF Ok, Stopping
<1>16. e.kind \in {"start", "stopped"} => Seen(d0) # "absent"
  <2>1. ASSUME e.kind \in {"start", "stopped"} PROVE d0 \in p[g].listed
    BY <1>9, <1>10, <2>1 DEF Ok, Speaks
  <2> QED BY <1>1, <2>1 DEF Accounts, Finds
<1>17. e.kind = "added" => i = Tell("added", d0) /\ p[g].due = {i} /\ d0 \in device
  <2>1. SUFFICES ASSUME e.kind = "added"
                 PROVE  i = Tell("added", d0) /\ p[g].due = {i} /\ d0 \in device
    OBVIOUS
  <2>2. e = [kind |-> "added", dev |-> d0]
    BY <1>9, <2>1 DEF Event
  <2>3. i = Tell("added", d0)
    BY <1>8, <2>2 DEF Tell
  <2>4. p[g].due = {i}
    BY <1>10, <1>14, <2>1 DEF OnlyDue
  <2> QED BY <1>1, <2>3, <2>4 DEF Accounts, Tables
<1>18. e.kind = "removed" => p[g].held = {Writing("n.m")} /\ m.due = {<<"drop", d0>>}
  <2>1. SUFFICES ASSUME e.kind = "removed"
                 PROVE  p[g].held = {Writing("n.m")} /\ m.due = {<<"drop", d0>>}
    OBVIOUS
  <2>2. p[g].held = {Writing("n.m")}
    BY <1>10, <2>1 DEF Ok, Allowed
  <2> QED BY <1>9, <1>10, <1>14, <2>1, <2>2 DEF Owes
<1>19. e.kind # "removed" => m.due = {}
  BY <1>10, <1>14 DEF Owes
<1>20. /\ \A d \in Dev : d # d0 => Seen(d)' = Seen(d)
       /\ e.kind \in {"added", "stopped"} => Seen(d0)' = "idle"
       /\ e.kind = "start" => Seen(d0)' = "enumerating"
       /\ e.kind = "removed" => Seen(d0)' = "absent"
       /\ e.kind \notin {"added", "stopped", "start", "removed"} => Seen(d0)' = Seen(d0)
  BY <1>6, <1>9, SeenSent
<1>21. code' = [code EXCEPT ![g] = Tail(code[g])]
  BY <1>5, <1>6, DoneIs
<1>22. PICK c : c = Tail(code[g])
  OBVIOUS
<1>23. PICK q : q = Moved(p, g, m)
  OBVIOUS
<1>24. Follows(q)' /\ code' \in [Goroutine -> Seq(Instr)]
  BY <1>1, <1>4, <1>7, <1>11, <1>21, <1>22, <1>23, MovedFollows DEF Accounts
<1>25. q[g] = m /\ \A x \in Goroutine : x # g => q[x] = p[x]
  BY <1>23, MovedIs
<1>26. Finds(q)'
  <2>1. ASSUME NEW x \in Goroutine, NEW d \in q[x].listed
        PROVE  d \in Dev /\ Seen(d)' # "absent" /\ Reading("n.m") \in q[x].held
    <3>1. d \in p[x].listed /\ q[x].held = p[x].held
      BY <1>11, <1>12, <1>25, <2>1
    <3>2. d \in Dev /\ Seen(d) # "absent" /\ Reading("n.m") \in p[x].held
      BY <1>1, <3>1 DEF Accounts, Finds
    <3>3. ~(e.kind = "removed" /\ d = d0)
      <4>1. SUFFICES ASSUME e.kind = "removed" PROVE FALSE
        OBVIOUS
      <4>2. Reading("n.m") \in Holds(x) /\ Writing("n.m") \in Holds(g)
        BY <1>11, <1>18, <1>1, <3>2, <4>1 DEF Accounts, Follows
      <4>3. "n.m" \in Lock /\ x \in readers["n.m"] /\ owner["n.m"] = g
        BY <4>2, Mutexes DEF Holds, Reading, Writing
      <4>4. Head(code[g]) = <<"acquire", "n.m">>
        BY <4>3 DEF Alone
      <4> QED BY <1>5, <4>4
    <3>4. Seen(d)' # "absent"
      BY <1>9, <1>20, <3>2, <3>3
    <3> QED BY <3>1, <3>2, <3>4
  <2> QED BY <2>1 DEF Finds
<1>27. Tables(q)'
  <2>1. ASSUME NEW d \in Dev
        PROVE  /\ Seen(d)' # "absent" => d \in device
               /\ d \in device /\ Seen(d)' = "absent" =>
                    \E x \in Goroutine : q[x].due \cap {Tell("added", d), <<"drop", d>>} # {}
               /\ \A x \in Goroutine : Tell("added", d) \in q[x].due => d \in device
               /\ \A x \in Goroutine : <<"drop", d>> \in q[x].due => Seen(d)' = "absent"
    <3>0. Seen(d) # "absent" => d \in device
      BY <1>1 DEF Accounts, Tables
    <3>1. Seen(d)' # "absent" => d \in device
      <4>1. CASE d # d0
        BY <1>20, <3>0, <4>1
      <4>2. CASE d = d0
        BY <1>16, <1>17, <1>20, <3>0, <4>2
      <4> QED BY <4>1, <4>2
    <3>2. ASSUME d \in device, Seen(d)' = "absent"
          PROVE  \E x \in Goroutine : q[x].due \cap {Tell("added", d), <<"drop", d>>} # {}
      <4>1. CASE e.kind = "removed" /\ d = d0
        BY <1>18, <1>25, <4>1
      <4>2. CASE ~(e.kind = "removed" /\ d = d0)
        <5>1. Seen(d) = "absent" /\ ~(e.kind = "added" /\ d = d0)
          BY <1>20, <3>2, <4>2
        <5>2. PICK x \in Goroutine : p[x].due \cap {Tell("added", d), <<"drop", d>>} # {}
          BY <1>1, <3>2, <5>1 DEF Accounts, Tables
        <5>3. x # g
          <6>1. SUFFICES ASSUME x = g PROVE FALSE
            OBVIOUS
          <6>2. i \in {Tell("added", d), <<"drop", d>>}
            BY <1>1, <1>5, <1>8, <5>2, <6>1, DueHolds
          <6>3. e = [kind |-> "added", dev |-> d]
            BY <1>8, <6>2 DEF Tell
          <6> QED BY <1>9, <5>1, <6>3
        <5> QED BY <1>25, <5>2, <5>3
      <4> QED BY <4>1, <4>2
    <3>3. ASSUME NEW x \in Goroutine, Tell("added", d) \in q[x].due PROVE d \in device
      <4>1. x # g
        BY <1>18, <1>19, <1>25, <3>3 DEF Tell
      <4> QED BY <1>1, <1>25, <3>3, <4>1 DEF Accounts, Tables
    <3>4. ASSUME NEW x \in Goroutine, <<"drop", d>> \in q[x].due PROVE Seen(d)' = "absent"
      <4>1. CASE x = g
        BY <1>18, <1>19, <1>20, <1>25, <3>4, <4>1
      <4>2. CASE x # g
        <5>1. <<"drop", d>> \in p[x].due
          BY <1>25, <3>4, <4>2
        <5>2. Seen(d) = "absent"
          BY <1>1, <5>1 DEF Accounts, Tables
        <5>3. owner["n.m"] = x
          BY <1>1, <5>1, DueHolds
        <5>4. e.kind # "added"
          <6>1. SUFFICES ASSUME e.kind = "added" PROVE FALSE
            OBVIOUS
          <6>2. owner["n.m"] = g
            BY <1>1, <1>17, <6>1, DueHolds
          <6> QED BY <4>2, <5>3, <6>2
        <5> QED BY <1>16, <1>20, <5>2, <5>4
      <4> QED BY <4>1, <4>2
    <3> QED BY <3>1, <3>2, <3>3, <3>4
  <2> QED BY <1>6, <2>1 DEF Tables
<1>28. Ends(q)'
  <2>1. ASSUME NEW d \in Dev, Seen(d)' = "enumerating" PROVE \E x \in Goroutine : Promises(q[x], d)
    <3>1. CASE e.kind = "start" /\ d = d0
      <4>1. p[g].stage = "run"
        BY <1>10, <3>1 DEF Ok, Staged
      <4> QED BY <1>13, <1>25, <4>1 DEF Promises
    <3>2. CASE ~(e.kind = "start" /\ d = d0)
      <4>1. Seen(d) = "enumerating" /\ ~(e.kind = "stopped" /\ d = d0)
        BY <1>20, <2>1, <3>2
      <4>2. PICK x \in Goroutine : Promises(p[x], d)
        BY <1>1, <4>1 DEF Accounts, Ends
      <4>3. d \notin Speaks(i)
        BY <1>9, <1>10, <3>2, <4>1 DEF Speaks
      <4>4. Promises(q[x], d)
        BY <1>13, <1>15, <1>25, <4>2, <4>3 DEF Promises
      <4> QED BY <4>4
    <3> QED BY <3>1, <3>2
  <2> QED BY <2>1 DEF Ends
<1>29. Roles(q)'
  <2>1. ASSUME NEW x \in Goroutine PROVE Role(x, q[x])
    BY <1>1, <1>13, <1>25 DEF Accounts, Roles, Role
  <2> QED BY <2>1 DEF Roles
<1>30. First(q)'
  <2> SUFFICES ASSUME calls = 0
               PROVE  /\ code'["consumer"] = <<>>
                      /\ \A y, x \in Goroutine : q[y].stage # "none" /\ q[x].stage # "none" => y = x
                      /\ enumerating => \E x \in Goroutine : q[x].stage = "run"
                      /\ made = {} => \A x \in Goroutine : q[x].stage \in {"none", "join"}
                      /\ \A x \in Goroutine : \A j \in q[x].due : Over(j)
                      /\ ~(e.kind = "stopped" /\ e.enumerating)
    BY <1>6 DEF First
  <2>1. First(p)!2
    BY <1>1 DEF Accounts, First
  <2>2. code'["consumer"] = <<>>
    BY <1>5, <1>21, <2>1, Goroutines DEF TypeOK
  <2>3. \A x \in Goroutine : q[x].stage = p[x].stage
    BY <1>13, <1>25
  <2>4. \A x \in Goroutine : \A j \in q[x].due : Over(j)
    <3>1. \A j \in m.due : Over(j)
      BY <1>18, <1>19 DEF Over
    <3> QED BY <1>25, <2>1, <3>1
  <2>5. ~(e.kind = "stopped" /\ e.enumerating)
    <3>1. SUFFICES ASSUME e.kind = "stopped" PROVE ~e.enumerating
      OBVIOUS
    <3>2. i \in p[g].due
      BY <1>10, <1>14, <3>1 DEF OnlyDue
    <3>3. Over(i)
      BY <2>1, <3>2
    <3> QED BY <1>10, <3>1, <3>3 DEF Over
  <2> QED BY <2>1, <2>2, <2>3, <2>4, <2>5
<1>31. Accounts(q)'
  BY <1>24, <1>26, <1>27, <1>28, <1>29, <1>30 DEF Accounts
<1>32. TypeOK'
  BY <1>6, <1>24 DEF TypeOK
<1>33. Alone'
  <2>1. \A k \in Lock : owner'[k] = owner[k] /\ readers'[k] \subseteq readers[k]
    BY <1>6
  <2> QED BY <1>5, <1>21, <1>22, <2>1, AloneKept
<1> QED BY <1>31, <1>32, <1>33

LEMMA InitInv ==
  ASSUME Init
  PROVE  IInv
<1>1. TypeOK
  <2>1. <<>> \in Seq(Instr)
    OBVIOUS
  <2> QED BY <2>1 DEF Init, TypeOK
<1>2. Alone
  BY DEF Init, Alone
<1> DEFINE p == [g \in Goroutine |-> Free]
<1>3. \A g \in Goroutine : p[g] = Free
  OBVIOUS
<1> HIDE DEF p
<1>4. /\ Free.held = {} /\ Free.due = {} /\ Free.listed = {} /\ Free.stage = "none" /\ Free.stop = {}
  BY DEF Free, Stand
<1>5. Follows(p)
  <2>1. ASSUME NEW g \in Goroutine PROVE Goes(code[g], p[g], Free) /\ p[g].held = Holds(g)
    <3>1. code[g] = <<>> /\ Holds(g) = {}
      BY DeliveryAssumption DEF Init, Holds
    <3> QED BY <1>3, <1>4, <3>1, GoesNil
  <2> QED BY <2>1 DEF Follows
<1>6. \A d \in Dev : Seen(d) = "absent"
  BY DEF Init, Seen
<1>7. Finds(p) /\ Tables(p)
  BY <1>3, <1>4, <1>6 DEF Finds, Tables, Init
<1>8. Ends(p) /\ Roles(p)
  BY <1>3, <1>4, <1>6 DEF Ends, Roles, Role
<1>9. First(p)
  BY <1>3, <1>4, Goroutines DEF First, Init
<1> QED BY <1>1, <1>2, <1>5, <1>7, <1>8, <1>9 DEF IInv, Accounts

LEMMA StutterInv ==
  ASSUME IInv, UNCHANGED vars
  PROVE  IInv'
<1>1. /\ code' = code /\ readers' = readers /\ owner' = owner /\ channel' = channel
      /\ known' = known /\ device' = device /\ free' = free /\ enumerating' = enumerating
      /\ made' = made /\ calls' = calls /\ surveys' = surveys /\ told' = told
  BY DEF vars, locks, table, node, history
<1>2. PICK p : Accounts(p)
  BY DEF IInv
<1>3. (\A x : Holds(x)' = Holds(x)) /\ (\A d : Seen(d)' = Seen(d))
  BY <1>1, HoldsKept, SeenKept
<1>4. Follows(p)' /\ Finds(p)' /\ Tables(p)' /\ Ends(p)' /\ Roles(p)'
  BY <1>1, <1>2, <1>3 DEF Accounts, Follows, Finds, Tables, Ends, Roles
<1>5. First(p)'
  BY <1>1, <1>2 DEF Accounts, First
<1>6. TypeOK' /\ Alone'
  BY <1>1 DEF IInv, TypeOK, Alone
<1> QED BY <1>4, <1>5, <1>6 DEF IInv, Accounts

LEMMA NextInv ==
  ASSUME IInv, [Next]_vars
  PROVE  IInv'
<1>1. CASE ReadEvent
  BY <1>1, ReadEventInv
<1>2. CASE Receive
  BY <1>2, ReceiveInv
<1>3. ASSUME NEW g \in Goroutine, Step(g) PROVE IInv'
  <2>1. CASE TakeForReading(g) \/ LeaveReading(g) \/ PassReading(g)
    BY <2>1, TakeForReadingInv, LeaveReadingInv, PassReadingInv
  <2>2. CASE AskForWriting(g) \/ TakeForWriting(g) \/ LeaveWriting(g)
    BY <2>2, AskForWritingInv, TakeForWritingInv, LeaveWritingInv
  <2>3. CASE SendEvent(g) \/ StartEnumeration(g) \/ Begin(g)
    BY <2>3, SendEventInv, StartEnumerationInv, BeginInv
  <2>4. CASE Starts(g) \/ LookAt(g) \/ Interrogate(g) \/ Survey(g)
    BY <2>4, StartsInv, LookAtInv, InterrogateInv, SurveyInv
  <2>5. CASE Attach(g) \/ Release(g) \/ Stops(g) \/ Status(g)
    BY <2>5, AttachInv, ReleaseInv, StopsInv, StatusInv
  <2>6. CASE Put(g) \/ GetNode(g) \/ RemoveIfThere(g) \/ Drop(g)
    BY <2>6, PutInv, GetNodeInv, RemoveIfThereInv, DropInv
  <2>7. CASE Snapshot(g) \/ SetKnown(g) \/ List(g)
    BY <2>7, SnapshotInv, SetKnownInv, ListInv
  <2> QED BY <1>3, <2>1, <2>2, <2>3, <2>4, <2>5, <2>6, <2>7 DEF Step
<1> QED BY <1>1, <1>2, <1>3, StutterInv DEF Next

(* Every goroutine, from where it stands to the end of what it has yet to  *)
(* do, asks for mutexes in their order, frees what it holds, and speaks of *)
(* a device only while a mutex keeps it in the table: sendEvent and the    *)
(* handlers that call it, whatever is interleaved with them.               *)
THEOREM IInvHolds == Spec => []IInv
<1>1. Init => IInv
  BY InitInv
<1>2. IInv /\ [Next]_vars => IInv'
  BY NextInv
<1> QED BY <1>1, <1>2, PTL DEF Spec

\* The variables keep their types: every goroutine has only instructions of the
\* program to do, with their arguments, and the channel holds one event at most.
THEOREM TypeCorrect == Spec => []TypeOK
<1>1. IInv => TypeOK
  BY DEF IInv
<1> QED BY <1>1, IInvHolds, PTL

-----------------------------------------------------------------------------
(* Nobody waits for ever, but for a call of the reader.                    *)

\* A mutex that somebody holds, or has asked to hold alone.
Taken(l) == owner[l] # Nobody \/ readers[l] # {}

\* Where a goroutine that waits for another waits.
LEMMA WaitsFor ==
  ASSUME TypeOK, NEW p, Accounts(p), channel = <<>>, NEW g \in Goroutine, Busy(g), Waiting(g)
  PROVE  \E l \in Lock :
           /\ Taken(l) /\ Ordered(l, p[g].held \ {Writing(l)})
           /\ Writing(l) \in p[g].held => readers[l] # {}
<1> DEFINE Goal == \E l \in Lock :
                     /\ Taken(l) /\ Ordered(l, p[g].held \ {Writing(l)})
                     /\ Writing(l) \in p[g].held => readers[l] # {}
<1>1. PICK i : i = Head(code[g])
  OBVIOUS
<1>2. PICK m : Ok(i, p[g], m)
  BY <1>1, Ahead DEF Accounts, Busy
<1>3. Allowed(i, p[g].held, m.held) /\ p[g].held = Holds(g)
  BY <1>2 DEF Ok, Accounts, Follows
<1>4. \A l \in Lock : owner[l] # Nobody /\ Ordered(l, p[g].held) => Goal
  <2> SUFFICES ASSUME NEW l \in Lock, owner[l] # Nobody, Ordered(l, p[g].held) PROVE Goal
    OBVIOUS
  <2>1. Writing(l) \notin p[g].held
    <3>1. l \notin Above(l)
      BY DeliveryAssumption DEF Above, Lock
    <3> QED BY <3>1 DEF Ordered, Writing
  <2>2. Ordered(l, p[g].held \ {Writing(l)})
    BY DEF Ordered
  <2> QED BY <2>1, <2>2 DEF Taken
<1>5. ASSUME NEW op \in {"rlock", "pass", "lock", "status"}, At(g, op), owner[Arg(g)] # Nobody
      PROVE  Goal
  <2>1. PICK l \in Lock : l = Arg(g) /\ i = <<op, l>> /\ (op = "status" => l \in Dev)
    <3>1. op # "status" => Arg(g) \in Lock /\ i = <<op, Arg(g)>>
      BY <1>1, <1>5, AtIs DEF OfLock
    <3>2. op = "status" => Arg(g) \in Dev /\ i = <<op, Arg(g)>>
      BY <1>1, <1>5, AtIs DEF OfDev
    <3> QED BY <3>1, <3>2, Mutexes
  <2>2. Ordered(l, p[g].held)
    <3>1. CASE op = "status"
      <4>1. p[g].held = {Reading("n.m")}
        BY <1>3, <2>1, <3>1 DEF Allowed
      <4>2. "n.m" \in Above(l)
        BY <2>1, <3>1, Mutexes
      <4> QED BY <4>1, <4>2 DEF Ordered, Reading
    <3>2. CASE op # "status"
      BY <1>3, <2>1, <3>2 DEF Allowed
    <3> QED BY <3>1, <3>2
  <2> QED BY <1>4, <1>5, <2>1, <2>2
<1>6. ASSUME At(g, "getNode"), owner["z.nodeLock"] # Nobody PROVE Goal
  <2>1. i[1] = "getNode"
    BY <1>1, <1>6 DEF At
  <2>2. p[g].held = {}
    BY <1>3, <2>1 DEF Allowed
  <2> QED BY <1>4, <1>6, <2>2, Mutexes DEF Ordered
<1>7. ASSUME NEW op \in {"starts", "stops", "look", "survey", "snapshot"}, At(g, op),
             owner["n.m"] # Nobody
      PROVE  Goal
  <2>1. i[1] = op
    BY <1>1, <1>7 DEF At
  <2>2. p[g].held = {}
    BY <1>3, <2>1 DEF Allowed
  <2> QED BY <1>4, <1>7, <2>2, Mutexes DEF Ordered
<1>8. ASSUME NEW op \in {"acquire", "brief"}, At(g, op), readers[Arg(g)] # {} PROVE Goal
  <2>1. PICK l \in Lock : l = Arg(g) /\ i = <<op, l>>
    BY <1>1, <1>8, AtIs DEF OfLock
  <2>2. Ordered(l, p[g].held \ {Writing(l)})
    BY <1>3, <2>1 DEF Allowed
  <2> QED BY <1>8, <2>1, <2>2 DEF Taken
<1> QED BY <1>5, <1>6, <1>7, <1>8 DEF Waiting

\* When all wait, who holds a mutex waits for one further down.
LEMMA WaitsBelow ==
  ASSUME TypeOK, NEW p, Accounts(p), Stuck, channel = <<>>, NEW l \in Lock, Taken(l)
  PROVE  \E k \in Lock : Taken(k) /\ l \in Above(k)
<1>1. ASSUME NEW g \in Goroutine, p[g].held # {}
      PROVE  \E k \in Lock : /\ Taken(k) /\ Ordered(k, p[g].held \ {Writing(k)})
                             /\ Writing(k) \in p[g].held => readers[k] # {}
  <2>1. Busy(g)
    <3>1. Free.held = {}
      BY DEF Free, Stand
    <3> QED BY <1>1, <3>1, AtRest DEF Accounts, Busy
  <2> QED BY <2>1, WaitsFor DEF Stuck
<1>2. ASSUME readers[l] # {} PROVE \E k \in Lock : Taken(k) /\ l \in Above(k)
  <2>1. PICK g \in Goroutine : g \in readers[l]
    BY <1>2 DEF TypeOK
  <2>2. Reading(l) \in p[g].held
    BY <2>1 DEF Accounts, Follows, Holds, Reading
  <2>3. PICK k \in Lock : Taken(k) /\ Ordered(k, p[g].held \ {Writing(k)})
    BY <1>1, <2>2
  <2>4. Reading(l) # Writing(k) /\ Reading(l)[1] = l
    BY DEF Reading, Writing
  <2> QED BY <2>2, <2>3, <2>4 DEF Ordered
<1>3. ASSUME owner[l] # Nobody, readers[l] = {} PROVE \E k \in Lock : Taken(k) /\ l \in Above(k)
  <2>1. PICK g \in Goroutine : owner[l] = g
    BY <1>3 DEF TypeOK
  <2>2. Writing(l) \in p[g].held
    BY <2>1 DEF Accounts, Follows, Holds, Writing
  <2>3. PICK k \in Lock : /\ Taken(k) /\ Ordered(k, p[g].held \ {Writing(k)})
                          /\ Writing(k) \in p[g].held => readers[k] # {}
    BY <1>1, <2>2
  <2>4. k # l
    BY <1>3, <2>2, <2>3
  <2>5. Writing(l) # Writing(k) /\ Writing(l)[1] = l
    BY <2>4 DEF Writing
  <2> QED BY <2>2, <2>3, <2>5 DEF Ordered
<1> QED BY <1>2, <1>3 DEF Taken

(* The goroutines block each other for good only when the reader of events *)
(* called something between two reads.  Whoever holds a mutex can wait     *)
(* only for one further down, gateway, node, device, and a chain of three  *)
(* such waits has nowhere to go on to: this is what sendEvent and the      *)
(* mutexes it is called under come to.                                     *)
THEOREM NoDeadlock == Spec => []OnlyACallBlocks
<1>1. ASSUME IInv PROVE OnlyACallBlocks
  <2> SUFFICES ASSUME Stuck, ~Busy("consumer") PROVE FALSE
    BY DEF OnlyACallBlocks
  <2>1. PICK p : Accounts(p)
    BY <1>1 DEF IInv
  <2>2. TypeOK /\ channel = <<>>
    BY <1>1 DEF IInv, Stuck
  <2>3. PICK g \in Goroutine : Busy(g) /\ Waiting(g)
    BY DEF Stuck
  <2>4. PICK l0 \in Lock : Taken(l0)
    BY <2>1, <2>2, <2>3, WaitsFor
  <2>5. PICK l1 \in Lock : Taken(l1) /\ l0 \in Above(l1)
    BY <2>1, <2>2, <2>4, WaitsBelow
  <2>6. PICK l2 \in Lock : Taken(l2) /\ l1 \in Above(l2)
    BY <2>1, <2>2, <2>5, WaitsBelow
  <2>7. PICK l3 \in Lock : Taken(l3) /\ l2 \in Above(l3)
    BY <2>1, <2>2, <2>6, WaitsBelow
  <2> QED BY <2>5, <2>6, <2>7, Mutexes
<1> QED BY <1>1, IInvHolds, PTL

-----------------------------------------------------------------------------
(* What the reader is told.                                                *)

\* "stopped" is only owed by whoever enumerates.
Enumerates(s) == s.stop = {} \/ s.stage \in {"begin", "run", "tell"}

LEMMA OkEnumerates ==
  ASSUME NEW i, NEW s, NEW t, Ok(i, s, t), Enumerates(t)
  PROVE  Enumerates(s)
<1>1. Staged(i, s.stage, t.stage) /\ Stopping(i, s.stop, t.stop)
  BY DEF Ok
<1>2. CASE i[1] \in {"release", "stops", "interrogate"}
  BY <1>1, <1>2 DEF Staged, Enumerates
<1>3. CASE i[1] \notin {"release", "stops", "interrogate"}
  <2>1. SUFFICES ASSUME s.stop # {} PROVE s.stage \in {"begin", "run", "tell"}
    BY DEF Enumerates
  <2>2. Speaks(i) # {} \/ t.stop # {}
    BY <1>1, <1>3, <2>1 DEF Stopping
  <2>3. CASE Speaks(i) # {}
    <3>1. i[1] = "status" \/ (i[1] = "send" /\ i[2].kind \in {"start", "stopped"})
      BY <2>3 DEF Speaks
    <3> QED BY <1>1, <3>1 DEF Staged
  <2>4. CASE t.stop # {}
    <3>1. t.stage \in {"begin", "run", "tell"}
      BY <2>4 DEF Enumerates
    <3> QED BY <1>1, <3>1 DEF Staged
  <2> QED BY <2>2, <2>3, <2>4
<1> QED BY <1>2, <1>3

LEMMA GoesEnumerates ==
  ASSUME NEW c, NEW s, Goes(c, s, Free)
  PROVE  Enumerates(s)
<1>1. PICK n \in Nat : n = Len(c)
  BY DEF Goes
<1>2. PICK h : h[1] = s /\ h[n + 1] = Free /\ \A i \in 1..n : Ok(c[i], h[i], h[i + 1])
  BY <1>1 DEF Goes, Flow
<1> DEFINE S == {j \in 1..(n + 1) : Enumerates(h[j])}
<1>3. S \in SUBSET Nat /\ n + 1 \in S
  BY <1>2 DEF Enumerates, Free, Stand
<1>4. PICK j \in S : \A k \in S : j <= k
  <2> HIDE DEF S
  <2> QED BY <1>3, LeastOf
<1>5. j = 1
  <2>1. SUFFICES ASSUME j # 1 PROVE FALSE
    OBVIOUS
  <2>2. PICK k \in 1..n : k + 1 = j
    <3>1. j - 1 \in 1..n /\ j - 1 + 1 = j
      BY <2>1
    <3> QED BY <3>1
  <2>3. Enumerates(h[k])
    BY <1>2, <2>2, OkEnumerates
  <2>4. k \in S
    BY <2>3
  <2> QED BY <1>4, <2>2, <2>4
<1> QED BY <1>2, <1>5

(* When no enumeration runs and every event was read, the reader has been  *)
(* told of the end of every enumeration it was told of: by the deferred    *)
(* function of enumerate, whatever came of the interrogation and whatever  *)
(* devices came or went meanwhile.                                         *)
THEOREM EndsAreTold == Spec => []ToldStopped
<1>1. ASSUME IInv PROVE ToldStopped
  <2> SUFFICES ASSUME channel = <<>>, \A s \in Session : ~Busy(s),
                      NEW d \in Dev, told[d] = "enumerating"
               PROVE  FALSE
    BY DEF ToldStopped
  <2>1. PICK p : Accounts(p)
    BY <1>1 DEF IInv
  <2>2. Seen(d) = "enumerating"
    BY DEF Seen
  <2>3. PICK g \in Goroutine : Promises(p[g], d)
    BY <2>1, <2>2 DEF Accounts, Ends
  <2>4. Goes(code[g], p[g], Free)
    BY <2>1 DEF Accounts, Follows
  <2>5. p[g].stage \in {"begin", "run", "tell"}
    BY <2>3, <2>4, GoesEnumerates DEF Promises, Enumerates
  <2>6. g \in Session
    BY <2>1, <2>5 DEF Accounts, Roles, Role
  <2>7. p[g] = Free
    BY <2>1, <2>6, AtRest DEF Accounts, Busy
  <2> QED BY <2>5, <2>7 DEF Free, Stand
<1> QED BY <1>1, IInvHolds, PTL

(* Start and Stopped events are sent under the node's mutex, so the reader *)
(* gets none of a device it was told is gone, or was not told of.          *)
THEOREM OfListedOnly == Spec => []SessionEventsOfListed
<1>1. Init => SessionEventsOfListed
  BY DEF Init, SessionEventsOfListed
<1>2. ASSUME IInv, SessionEventsOfListed, [Next]_vars
      PROVE  SessionEventsOfListed'
  <2>1. CASE ReadEvent
    BY <2>1 DEF ReadEvent, SessionEventsOfListed
  <2>2. CASE channel' = channel /\ told' = told
    BY <1>2, <2>2 DEF SessionEventsOfListed
  <2>3. ASSUME NEW g \in Goroutine, SendEvent(g) PROVE SessionEventsOfListed'
    <3>1. PICK p : Accounts(p)
      BY <1>2 DEF IInv
    <3>2. At(g, "send") /\ TypeOK
      BY <1>2, <2>3 DEF SendEvent, IInv
    <3>3. PICK e \in Event : e = Arg(g)
      BY <3>2, AtIs
    <3>4. PICK m : Ok(<<"send", e>>, p[g], m)
      BY <1>2, <3>1, <3>2, <3>3, AtOk
    <3>5. channel = <<>> /\ channel' = <<e>> /\ told' = told
      BY <2>3, <3>3 DEF SendEvent, history
    <3>6. ASSUME e.kind \in {"start", "stopped"} PROVE told[e.dev] # "absent"
      <4>1. e.dev \in p[g].listed
        BY <3>4, <3>6 DEF Ok, Speaks
      <4>2. Seen(e.dev) # "absent"
        BY <3>1, <4>1 DEF Accounts, Finds
      <4> QED BY <3>5, <4>2 DEF Seen
    <3>7. Head(channel') = e
      BY <3>5
    <3> QED BY <3>5, <3>6, <3>7 DEF SessionEventsOfListed
  <2>4. ReadEvent \/ (channel' = channel /\ told' = told) \/ \E g \in Goroutine : SendEvent(g)
    <3>1. CASE UNCHANGED vars
      BY <3>1 DEF vars, history
    <3>2. CASE Receive
      BY <3>2 DEF Receive, history
    <3>3. ASSUME NEW g \in Goroutine, Step(g), ~SendEvent(g)
          PROVE  channel' = channel /\ told' = told
      BY <3>3 DEF Step, history, TakeForReading, LeaveReading, PassReading, AskForWriting,
         TakeForWriting, LeaveWriting, StartEnumeration, Begin, Starts, LookAt, Interrogate,
         Survey, Attach, Release, Stops, Status, Put, GetNode, RemoveIfThere, Drop, Snapshot,
         SetKnown, List
    <3> QED BY <1>2, <3>1, <3>2, <3>3 DEF Next
  <2> QED BY <2>1, <2>2, <2>3, <2>4
<1> QED BY <1>1, <1>2, IInvHolds, PTL DEF Spec

(* The status in a Stopped event says that the enumeration is over, unless *)
(* the reader asked for another: enumerate's deferred function resets the  *)
(* state before it reads it, and until then there is one enumeration only, *)
(* that of the join.                                                       *)
THEOREM StoppedSaysOver == Spec => []StoppedUnlessAsked
<1>1. ASSUME IInv PROVE StoppedUnlessAsked
  <2>1. PICK p : Accounts(p)
    BY <1>1 DEF IInv
  <2>2. calls = 0 => (channel # <<>> => ~(Head(channel).kind = "stopped" /\ Head(channel).enumerating))
    BY <2>1 DEF Accounts, First
  <2>3. calls \in Nat
    BY <1>1 DEF IInv, TypeOK
  <2> QED BY <2>2, <2>3 DEF StoppedUnlessAsked
<1> QED BY <1>1, IInvHolds, PTL
=============================================================================
