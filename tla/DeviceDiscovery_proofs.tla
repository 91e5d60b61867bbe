------------------------ MODULE DeviceDiscovery_proofs ------------------------
(***************************************************************************)
(* Proofs about DeviceDiscovery, for any number of callers and timers.     *)
(*                                                                         *)
(* OpenWindowHasTimer holds however calls and callbacks interleave, and    *)
(* needs little more than itself.  The two promises made to calls that     *)
(* come one after another need to know, at every point of the one call     *)
(* that is under way, what it has done so far.                             *)
(***************************************************************************)
EXTENDS DeviceDiscovery, TLAPS

\* Only Stop is at the points of Stop.
StopSeen == \A g \in Goroutine : op[g] \in StopPc => stopped

\* Calls and callbacks that came one after another: one is under way at most,
\* and an Enable that has opened the network finds it open.
Serial ==
  "overlap" \notin past =>
    /\ \A g, h \in Goroutine : op[g] # "idle" /\ op[h] # "idle" => g = h
    /\ \A g \in Goroutine : op[g] \in EnablePc \ {"permit"} => permit

\* With no failure either, what the call under way has done so far.
InStep ==
  past \cap {"overlap", "failure"} = {} =>
    /\ ~panicked
    /\ AtRest => discovering = permit
    /\ \A g \in Goroutine :
         /\ op[g] \in {"permit", "deny"} \cup StopPc => discovering = permit
         /\ op[g] \in {"stopOld", "stopAtStop"} => allowTimer # NoTimer
         /\ op[g] = "clear" => ~permit
         /\ op[g] = "clearTimer" => ~permit /\ ~discovering

\* Without a Disable of the consumer: a timer that is armed is the one of the
\* window promised last, and the window is open; Enable arms, and a callback
\* disables, when no timer is armed.
OneWindow ==
  past \subseteq {"failure"} =>
    /\ \A t \in Timer : timer[t] = "armed" =>
         /\ t = latest /\ t = allowTimer /\ permit
         /\ discovering \/ \E g \in Goroutine : op[g] = "enabled"
    /\ \A g \in Goroutine : op[g] \in {"arm"} \cup DisablePc =>
         \A t \in Timer : timer[t] # "armed"

IInv ==
  /\ TypeOK /\ StopSeen /\ Serial /\ InStep /\ OneWindow
  /\ OpenWindowHasTimer

-----------------------------------------------------------------------------
LEMMA InitIInv == Init => IInv
<1> SUFFICES ASSUME Init PROVE IInv
  OBVIOUS
<1>1. TypeOK
  BY DiscoveryAssumption DEF Init, TypeOK
<1> QED BY <1>1 DEF IInv, Init, StopSeen, Serial, InStep, OneWindow, OpenWindowHasTimer,
                    StopPc, EnablePc, DisablePc

LEMMA CallIInv ==
  ASSUME IInv, NEW c \in Caller, Call(c)
  PROVE  IInv'
<1> USE DEF Call, Goto, Note, Goroutine, EnablePc, DisablePc, StopPc, Event, IInv, TypeOK
<1>1. TypeOK'
  OBVIOUS
<1>2. StopSeen' /\ OpenWindowHasTimer'
  BY DEF StopSeen, OpenWindowHasTimer
<1>3. Serial'
  BY DEF Serial, AtRest
<1>4. InStep'
  BY DEF InStep, AtRest
<1>5. OneWindow'
  BY DEF OneWindow
<1> QED BY <1>1, <1>2, <1>3, <1>4, <1>5

LEMMA ElapseIInv ==
  ASSUME IInv, NEW t \in Timer, Elapse(t)
  PROVE  IInv'
<1> USE DEF Elapse, Goto, Note, Goroutine, EnablePc, DisablePc, StopPc, Event, IInv, TypeOK
<1>1. TypeOK'
  OBVIOUS
<1>2. StopSeen' /\ OpenWindowHasTimer'
  BY DEF StopSeen, OpenWindowHasTimer
<1>3. Serial'
  BY DEF Serial, AtRest
<1>4. InStep'
  BY DEF InStep, AtRest
<1>5. OneWindow'
  BY DEF OneWindow, AtRest
<1> QED BY <1>1, <1>2, <1>3, <1>4, <1>5

LEMMA EnableIInv ==
  ASSUME IInv, NEW g \in Goroutine,
         PermitJoin(g) \/ IfTimer(g) \/ StopOld(g) \/ Enabled(g)
  PROVE  IInv'
<1> USE DEF Goto, AfterStop, StopTimer, Goroutine, EnablePc, DisablePc, StopPc, Event, IInv, TypeOK
<1>1. CASE PermitJoin(g)
  <2>1. TypeOK'
    BY <1>1 DEF PermitJoin
  <2>2. StopSeen'
    BY <1>1 DEF PermitJoin, StopSeen
  <2>3. OpenWindowHasTimer'
    BY <1>1 DEF PermitJoin, OpenWindowHasTimer
  <2>4. Serial' /\ InStep'
    <3>1. CASE permit' = TRUE /\ Goto(g, "ifTimer") /\ UNCHANGED past
      <4>1. Serial'
        BY <1>1, <3>1 DEF PermitJoin, Serial
      <4>2. InStep'
        BY <1>1, <3>1 DEF PermitJoin, Serial, InStep, AtRest
      <4> QED BY <4>1, <4>2
    <3>2. CASE Goto(g, "idle") /\ past' = past \cup {"failure"}
      <4>1. Serial'
        BY <1>1, <3>2 DEF PermitJoin, Serial
      <4>2. InStep'
        BY <3>2 DEF InStep
      <4> QED BY <4>1, <4>2
    <3> QED BY <1>1, <3>1, <3>2 DEF PermitJoin
  <2>5. OneWindow'
    BY <1>1 DEF PermitJoin, Serial, OneWindow
  <2> QED BY <2>1, <2>2, <2>3, <2>4, <2>5
<1>2. CASE IfTimer(g)
  <2>1. TypeOK'
    BY <1>2 DEF IfTimer
  <2>2. StopSeen'
    BY <1>2 DEF IfTimer, StopSeen
  <2>3. OpenWindowHasTimer'
    BY <1>2 DEF IfTimer, OpenWindowHasTimer
  <2>4. Serial' /\ InStep'
    BY <1>2 DEF IfTimer, Serial, InStep, AtRest
  <2>5. OneWindow'
    BY <1>2, DiscoveryAssumption DEF IfTimer, Serial, OneWindow
  <2> QED BY <2>1, <2>2, <2>3, <2>4, <2>5
<1>3. CASE StopOld(g)
  <2>1. TypeOK'
    BY <1>3 DEF StopOld
  <2>2. StopSeen'
    BY <1>3 DEF StopOld, StopSeen
  <2>3. OpenWindowHasTimer'
    <3>1. CASE allowTimer = NoTimer
      BY <1>3, <3>1 DEF StopOld, OpenWindowHasTimer
    <3>2. CASE op[g] = "stopAtStop"
      BY <1>3, <3>2 DEF StopOld, StopSeen, OpenWindowHasTimer
    <3>3. CASE allowTimer # NoTimer /\ op[g] = "stopOld"
      BY <1>3, <3>3 DEF StopOld, OpenWindowHasTimer
    <3> QED BY <1>3, <3>1, <3>2, <3>3 DEF StopOld
  <2>4. Serial' /\ InStep'
    BY <1>3 DEF StopOld, Serial, InStep, AtRest
  <2>5. OneWindow'
    BY <1>3, DiscoveryAssumption DEF StopOld, Serial, OneWindow
  <2> QED BY <2>1, <2>2, <2>3, <2>4, <2>5
<1>4. CASE Enabled(g)
  <2>1. TypeOK'
    BY <1>4 DEF Enabled
  <2>2. StopSeen'
    BY <1>4 DEF Enabled, StopSeen
  <2>3. OpenWindowHasTimer'
    BY <1>4 DEF Enabled, OpenWindowHasTimer
  <2>4. Serial' /\ InStep'
    BY <1>4 DEF Enabled, Serial, InStep, AtRest
  <2>5. OneWindow'
    BY <1>4 DEF Enabled, Serial, OneWindow
  <2> QED BY <2>1, <2>2, <2>3, <2>4, <2>5
<1> QED BY <1>1, <1>2, <1>3, <1>4

LEMMA ArmIInv ==
  ASSUME IInv, NEW g \in Goroutine, NEW t \in Timer, Arm(g, t)
  PROVE  IInv'
<1> USE DEF Arm, Goto, Unused, Goroutine, EnablePc, DisablePc, StopPc, Event, IInv, TypeOK
<1>1. TypeOK'
  OBVIOUS
<1>2. StopSeen' /\ OpenWindowHasTimer'
  BY DEF StopSeen, OpenWindowHasTimer
<1>3. Serial' /\ InStep'
  BY DEF Serial, InStep, AtRest
<1>4. OneWindow'
  BY DEF Serial, OneWindow
<1> QED BY <1>1, <1>2, <1>3, <1>4

LEMMA DisableIInv ==
  ASSUME IInv, NEW g \in Goroutine, DenyJoin(g) \/ Clear(g) \/ ClearTimer(g)
  PROVE  IInv'
<1> USE DEF Goto, Goroutine, EnablePc, DisablePc, StopPc, Event, IInv, TypeOK
<1>1. CASE DenyJoin(g)
  <2>1. TypeOK'
    BY <1>1 DEF DenyJoin
  <2>2. StopSeen'
    BY <1>1 DEF DenyJoin, StopSeen
  <2>3. OpenWindowHasTimer'
    BY <1>1 DEF DenyJoin, OpenWindowHasTimer
  <2>4. Serial' /\ InStep'
    <3>1. CASE permit' = FALSE /\ Goto(g, "clear") /\ UNCHANGED past
      BY <1>1, <3>1 DEF DenyJoin, Serial, InStep, AtRest
    <3>2. CASE Goto(g, "idle") /\ past' = past \cup {"failure"}
      <4>1. Serial'
        BY <1>1, <3>2 DEF DenyJoin, Serial
      <4>2. InStep'
        BY <3>2 DEF InStep
      <4> QED BY <4>1, <4>2
    <3> QED BY <1>1, <3>1, <3>2 DEF DenyJoin
  <2>5. OneWindow'
    BY <1>1 DEF DenyJoin, Serial, OneWindow
  <2> QED BY <2>1, <2>2, <2>3, <2>4, <2>5
<1>2. CASE Clear(g)
  <2>1. TypeOK'
    BY <1>2 DEF Clear
  <2>2. StopSeen'
    BY <1>2 DEF Clear, StopSeen
  <2>3. OpenWindowHasTimer'
    BY <1>2 DEF Clear, OpenWindowHasTimer
  <2>4. Serial' /\ InStep'
    BY <1>2 DEF Clear, Serial, InStep, AtRest
  <2>5. OneWindow'
    BY <1>2 DEF Clear, Serial, OneWindow
  <2> QED BY <2>1, <2>2, <2>3, <2>4, <2>5
<1>3. CASE ClearTimer(g)
  <2>1. TypeOK'
    BY <1>3 DEF ClearTimer
  <2>2. StopSeen'
    BY <1>3 DEF ClearTimer, StopSeen
  <2>3. OpenWindowHasTimer'
    BY <1>3 DEF ClearTimer, OpenWindowHasTimer
  <2>4. Serial' /\ InStep'
    BY <1>3 DEF ClearTimer, Serial, InStep, AtRest
  <2>5. OneWindow'
    BY <1>3 DEF ClearTimer, Serial, OneWindow
  <2> QED BY <2>1, <2>2, <2>3, <2>4, <2>5
<1> QED BY <1>1, <1>2, <1>3

LEMMA NextIInv == IInv /\ [Next]_vars => IInv'
<1> SUFFICES ASSUME IInv, [Next]_vars PROVE IInv'
  OBVIOUS
<1>1. ASSUME NEW g \in Goroutine, Step(g) PROVE IInv'
  BY <1>1, EnableIInv, ArmIInv, DisableIInv DEF Step
<1>2. CASE UNCHANGED vars
  BY <1>2 DEF vars, IInv, TypeOK, StopSeen, Serial, InStep, AtRest, OneWindow,
              OpenWindowHasTimer
<1> QED BY <1>1, <1>2, CallIInv, ElapseIInv DEF Next

-----------------------------------------------------------------------------
\* At every point of Enable, Disable, Stop and the callbacks it is known what
\* has been done, as far as they come one after another.
THEOREM IInvHolds == Spec => []IInv
BY InitIInv, NextIInv, PTL DEF Spec

\* The fields of deviceDiscovery, the timers and the calls keep their types.
THEOREM TypeCorrect == Spec => []TypeOK
<1>1. IInv => TypeOK
  BY DEF IInv
<1> QED BY <1>1, IInvHolds, PTL

\* However calls and callbacks interleave, an open network has a timer, or a call
\* under way that will arm one or close it (Enable, Disable).
THEOREM OpenWindowIsWatched == Spec => []OpenWindowHasTimer
<1>1. IInv => OpenWindowHasTimer
  BY DEF IInv
<1> QED BY <1>1, IInvHolds, PTL

\* When calls come one after another and no request fails, Status tells the truth
\* and nothing panics (Enable, Disable, Status).
THEOREM StatusIsTrue == Spec => []StatusTruthful
<1>1. IInv => StatusTruthful
  BY DEF IInv, InStep, StatusTruthful
<1> QED BY <1>1, IInvHolds, PTL

\* Windows are extended by a later Enable, also past requests that fail, when
\* calls come one after another and the consumer does not disable (Enable).
THEOREM ExtensionsHold == Spec => []ExtensionHonoured
<1>1. IInv => ExtensionHonoured
  BY DEF IInv, TypeOK, OneWindow, ExtensionHonoured, WindowHonoured, AtRest
<1> QED BY <1>1, IInvHolds, PTL
=============================================================================
