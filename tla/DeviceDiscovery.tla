-------------------------- MODULE DeviceDiscovery --------------------------
(***************************************************************************)
(* Letting nodes join for a while (device_discovery.go): Enable opens the  *)
(* network and arms a timer whose callback runs Disable, in a goroutine of *)
(* its own and with no lock.  Durations are arbitrary, so timers run out in *)
(* any order.  Pointer and boolean fields are read and written whole, one  *)
(* statement at a time; allowExpiresAt, which only Status reads, is left   *)
(* out.                                                                    *)
(***************************************************************************)
CONSTANTS
  Caller,          \* goroutines of the consumer that call Enable and Disable
  Timer,           \* time.Timer objects, with the goroutine of their callback
  NoTimer

ASSUME DiscoveryAssumption ==
  NoTimer \notin Timer /\ Caller \cap Timer = {}

VARIABLES
  permit,       \* the provider lets nodes join
  discovering, allowTimer,   \* the fields of deviceDiscovery
  timer,        \* state of every time.Timer
  op,           \* where the Enable or Disable of a goroutine is
  latest,       \* the timer of the Enable last answered, unless disabled since
  stopped,      \* Stop has been called
  panicked,     \* a goroutine has panicked, and the process with it
  past          \* history: what has happened that weakens the promises

vars == <<permit, discovering, allowTimer, timer, op, latest, stopped,
          panicked, past>>

Goroutine == Caller \cup Timer
EnablePc  == {"permit", "ifTimer", "stopOld", "arm", "enabled"}
StopPc    == {"ifTimerAtStop", "stopAtStop"}
DisablePc == {"deny", "clear", "clearTimer"}

\* Two calls or callbacks overlapped; the consumer called Disable; the provider
\* returned an error.
Event == {"overlap", "disable", "failure"}

TypeOK ==
  /\ permit \in BOOLEAN /\ discovering \in BOOLEAN
  /\ stopped \in BOOLEAN /\ panicked \in BOOLEAN
  /\ allowTimer \in {t \in Timer : timer[t] # "free"} \cup {NoTimer}
  /\ latest \in Timer \cup {NoTimer}
  /\ timer \in [Timer -> {"free", "armed", "spent"}]
  /\ op \in [Goroutine -> EnablePc \cup DisablePc \cup StopPc \cup {"idle"}]
  /\ past \subseteq Event

Init ==
  /\ permit = FALSE /\ discovering = FALSE /\ stopped = FALSE /\ panicked = FALSE
  /\ allowTimer = NoTimer /\ latest = NoTimer
  /\ timer = [t \in Timer |-> "free"]
  /\ op = [g \in Goroutine |-> "idle"]
  /\ past = {}

AtRest == \A g \in Goroutine : op[g] = "idle"
Goto(g, pc) == op' = [op EXCEPT ![g] = pc]

\* What is remembered when a call or a callback begins.
Note(events) == past' = past \cup events \cup (IF AtRest THEN {} ELSE {"overlap"})

\* time.Timer.Stop: no effect on a callback that has started.
StopTimer(t) ==
  timer' = IF t # NoTimer /\ timer[t] = "armed"
           THEN [timer EXCEPT ![t] = "spent"] ELSE timer

\* A timer object nothing refers to any more.
Unused(t) ==
  /\ timer[t] # "armed" /\ op[t] = "idle"
  /\ t \notin {allowTimer, latest}

-----------------------------------------------------------------------------
\* Enable, Disable and, once, Stop are called.
Call(c) ==
  /\ ~panicked /\ op[c] = "idle" /\ ~stopped
  /\ \/ Goto(c, "permit") /\ Note({}) /\ UNCHANGED stopped
     \/ Goto(c, "deny") /\ Note({"disable"}) /\ UNCHANGED stopped
     \/ Goto(c, "ifTimerAtStop") /\ Note({}) /\ stopped' = TRUE
  /\ UNCHANGED <<permit, discovering, allowTimer, timer, latest, panicked>>

\* Enable: PermitJoin; on an error nothing else is done.  A request that fails
\* may have been carried out all the same.
PermitJoin(g) ==
  /\ op[g] = "permit"
  /\ \/ permit' = TRUE /\ Goto(g, "ifTimer") /\ UNCHANGED past
     \/ /\ permit' \in {TRUE, permit} /\ Goto(g, "idle")
        /\ past' = past \cup {"failure"}
  /\ UNCHANGED <<discovering, allowTimer, timer, latest, stopped, panicked>>

\* What Enable goes on to, and Stop, when there is no timer to stop any more.
AfterStop(g) == IF op[g] \in EnablePc THEN "arm" ELSE "idle"

\* Enable and Stop: is there a timer of an earlier Enable?
IfTimer(g) ==
  /\ op[g] \in {"ifTimer", "ifTimerAtStop"}
  /\ Goto(g, IF allowTimer = NoTimer THEN AfterStop(g)
             ELSE IF op[g] = "ifTimer" THEN "stopOld" ELSE "stopAtStop")
  /\ UNCHANGED <<permit, discovering, allowTimer, timer, latest, stopped, panicked, past>>

\* Mutant of StopOld: the earlier timer is left alone.
StopOldForgotten(g) ==
  /\ op[g] \in {"stopOld", "stopAtStop"}
  /\ Goto(g, AfterStop(g))
  /\ UNCHANGED <<permit, discovering, allowTimer, timer, latest, stopped, panicked, past>>

\* Enable and Stop: the field is read again, and its timer stopped; there may
\* be none by now.  Stop leaves the network as it is.
StopOld(g) ==
  /\ op[g] \in {"stopOld", "stopAtStop"}
  /\ IF allowTimer = NoTimer
     THEN panicked' = TRUE /\ UNCHANGED <<op, timer>>
     ELSE StopTimer(allowTimer) /\ Goto(g, AfterStop(g)) /\ UNCHANGED panicked
  /\ UNCHANGED <<permit, discovering, allowTimer, latest, stopped, past>>

\* Mutant of Arm: an Enable in an open window does not arm a timer again.
ArmOnce(g, t) ==
  /\ op[g] = "arm"
  /\ Unused(t)
  /\ IF allowTimer = NoTimer
     THEN /\ timer' = [timer EXCEPT ![t] = "armed"]
          /\ allowTimer' = t /\ latest' = t
     ELSE UNCHANGED <<timer, allowTimer, latest>>
  /\ Goto(g, "enabled")
  /\ UNCHANGED <<permit, discovering, stopped, panicked, past>>

\* Enable: time.AfterFunc.
Arm(g, t) ==
  /\ op[g] = "arm"
  /\ Unused(t)
  /\ timer' = [timer EXCEPT ![t] = "armed"]
  /\ allowTimer' = t /\ latest' = t
  /\ Goto(g, "enabled")
  /\ UNCHANGED <<permit, discovering, stopped, panicked, past>>

\* Enable: the flag, and the event.
Enabled(g) ==
  /\ op[g] = "enabled"
  /\ discovering' = TRUE
  /\ Goto(g, "idle")
  /\ UNCHANGED <<permit, allowTimer, timer, latest, stopped, panicked, past>>

\* A timer runs out: the runtime starts its callback, which calls Disable.
Elapse(t) ==
  /\ ~panicked /\ timer[t] = "armed"
  /\ timer' = [timer EXCEPT ![t] = "spent"]
  /\ Goto(t, "deny") /\ Note({})
  /\ UNCHANGED <<permit, discovering, allowTimer, latest, stopped, panicked>>

\* Disable: DenyJoin.  Nothing is done on an error, which a callback only logs.
DenyJoin(g) ==
  /\ op[g] = "deny"
  /\ \/ permit' = FALSE /\ Goto(g, "clear") /\ UNCHANGED past
     \/ /\ permit' \in {FALSE, permit} /\ Goto(g, "idle")
        /\ past' = past \cup {"failure"}
  /\ UNCHANGED <<discovering, allowTimer, timer, latest, stopped, panicked>>

\* Mutant of Clear: the flag is left set.
ClearWindowOnly(g) ==
  /\ op[g] = "clear"
  /\ latest' = IF g \in Caller THEN NoTimer ELSE latest
  /\ Goto(g, "clearTimer")
  /\ UNCHANGED <<permit, discovering, allowTimer, timer, stopped, panicked, past>>

\* Disable: the flag.  A consumer that disables gives its window up.
Clear(g) ==
  /\ op[g] = "clear"
  /\ discovering' = FALSE
  /\ latest' = IF g \in Caller THEN NoTimer ELSE latest
  /\ Goto(g, "clearTimer")
  /\ UNCHANGED <<permit, allowTimer, timer, stopped, panicked, past>>

\* Mutant of ClearTimer: Disable stops the timer it forgets without a thought
\* for the one a concurrent Enable has just armed.
ClearAllTimers(g) ==
  /\ op[g] = "clearTimer"
  /\ timer' = [t \in Timer |-> IF timer[t] = "armed" THEN "spent" ELSE timer[t]]
  /\ allowTimer' = NoTimer
  /\ Goto(g, "idle")
  /\ UNCHANGED <<permit, discovering, latest, stopped, panicked, past>>

\* Disable: the timer is forgotten, not stopped; and the event.
ClearTimer(g) ==
  /\ op[g] = "clearTimer"
  /\ allowTimer' = NoTimer
  /\ Goto(g, "idle")
  /\ UNCHANGED <<permit, discovering, timer, latest, stopped, panicked, past>>

Step(g) ==
  /\ ~panicked
  /\ \/ PermitJoin(g) \/ IfTimer(g) \/ StopOld(g) \/ Enabled(g)
     \/ \E t \in Timer : Arm(g, t)
     \/ DenyJoin(g) \/ Clear(g) \/ ClearTimer(g)

Next ==
  \/ \E c \in Caller : Call(c)
  \/ \E g \in Goroutine : Step(g)
  \/ \E t \in Timer : Elapse(t)

Spec == Init /\ [][Next]_vars

\* Goroutines run and timers run out; nobody has to call anything.
Fairness ==
  /\ \A g \in Goroutine : WF_vars(Step(g))
  /\ \A t \in Timer : WF_vars(Elapse(t))
FairSpec == Spec /\ Fairness

-----------------------------------------------------------------------------
\* A network that lets nodes join will be closed: some timer is armed, or a
\* goroutine is on its way to arm one or to deny (Enable stops a timer only to
\* arm another; Disable forgets a timer without stopping it).
OpenWindowHasTimer ==
  permit /\ ~stopped /\ "failure" \notin past =>
    \/ \E t \in Timer : timer[t] = "armed"
    \/ \E g \in Goroutine : op[g] \in {"ifTimer", "stopOld", "arm", "deny"}

\* When calls and callbacks came one after another, nothing has panicked and the
\* flag that Status reports is what the provider was told last.
StatusTruthful ==
  past \cap {"overlap", "failure"} = {} =>
    ~panicked /\ (AtRest => discovering = permit)

\* A window lasts as long as the Enable last answered said: until its timer runs
\* out, nodes may join.
WindowHonoured ==
  AtRest /\ latest # NoTimer /\ timer[latest] = "armed" => permit /\ discovering

\* So it is, in particular when windows are extended and requests fail, as long
\* as calls come one after another and the consumer does not disable discovery.
ExtensionHonoured == past \subseteq {"failure"} => WindowHonoured

\* So it would be with a consumer that disables discovery between two windows.
SecondWindowHonoured == past \subseteq {"disable"} => WindowHonoured

\* Once the consumer leaves discovery alone, an open network is closed, by a
\* timer if by nobody else (Enable's AfterFunc callback runs Disable).
CallersDone   == <>[](\A c \in Caller : op[c] = "idle")
Undisturbed   == [](~stopped /\ ~panicked /\ "failure" \notin past)
NetworkCloses == CallersDone /\ Undisturbed => (permit ~> ~permit)
=============================================================================
