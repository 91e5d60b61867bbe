------------------------------ MODULE Identify ------------------------------
(***************************************************************************)
(* Identifying a device (implcaps/zcl/identify/impl.go).  A report of the  *)
(* node, or a call of Identify, sets the time at which it ends, and starts *)
(* a chain: an event, and as long as the node identifies another a second  *)
(* later.  Nothing ties the chains together but the stored time: each      *)
(* reads it, and then sends what it read.                                  *)
(*                                                                         *)
(* Time passes in seconds.  `left' is rounded up, so that a duration equal *)
(* to it or one less may be within the quarter of a second that counts as  *)
(* no change.                                                              *)
(***************************************************************************)
EXTENDS Naturals

CONSTANTS
  Chain,       \* bound: the updates there may be, and their chains
  Requested,   \* durations that callers ask for, in milliseconds
  MaxTime      \* the longest a node can be asked to identify (65535 seconds)

VARIABLES
  left,    \* persisted: the seconds until EndTime
  chain,   \* where each update is, and the duration or the answer it carries
  served,  \* the capability is the device's, and is told of reports and calls
  heard    \* the consumer's last IdentifyUpdate said Identifying

identifyVars == <<left, chain, served, heard>>

Least(a, b) == IF a < b THEN a ELSE b

\* Identify: whole seconds, as many as fit.
identifyTime(duration) == Least(MaxTime, duration \div 1000)

\* Enumerate has attached the monitor.
IdentifyInit ==
  /\ left = 0 /\ served = TRUE /\ heard = FALSE
  /\ chain = [c \in Chain |-> [at |-> "unused"]]

Goes(c, to) == chain' = [chain EXCEPT ![c] = to]

\* updateDuration, once the node answered the request or reported a time; a
\* duration that is what is left already starts nothing.
UpdateDuration(c, duration) ==
  /\ served /\ chain[c].at = "unused"
  /\ \/ duration # left /\ Goes(c, [at |-> "store", duration |-> duration])
     \/ duration = left /\ left > 0 /\ Goes(c, [at |-> "store", duration |-> duration])
     \/ duration \in {left, left - 1} /\ Goes(c, [at |-> "ended"])
  /\ UNCHANGED <<left, served, heard>>

\* update and Identify.
Report(c)  == \E seconds \in 0..MaxTime : UpdateDuration(c, seconds)
Command(c) == \E duration \in Requested : UpdateDuration(c, identifyTime(duration))

Store(c) ==
  /\ chain[c].at = "store"
  /\ left' = chain[c].duration
  /\ Goes(c, [at |-> "look"])
  /\ UNCHANGED <<served, heard>>

\* sendEvent: the time is read, and what it says sent.
Look(c) ==
  /\ chain[c].at = "look"
  /\ Goes(c, [at |-> "send", identifying |-> left > 0])
  /\ UNCHANGED <<left, served, heard>>

\* Mutant of Send: a second event follows only the update itself.
SendAndStop(c) ==
  /\ chain[c].at = "send"
  /\ heard' = chain[c].identifying
  /\ Goes(c, [at |-> "ended"])
  /\ UNCHANGED <<left, served>>

\* periodicSendEvent: the event, and the timer for the next.
Send(c) ==
  /\ chain[c].at = "send"
  /\ heard' = chain[c].identifying
  /\ Goes(c, [at |-> IF chain[c].identifying THEN "armed" ELSE "ended"])
  /\ UNCHANGED <<left, served>>

\* The timer of a chain fires.
Fire(c) ==
  /\ chain[c].at = "armed"
  /\ Goes(c, [at |-> "look"])
  /\ UNCHANGED <<left, served, heard>>

Pass ==
  /\ left > 0 /\ left' = left - 1
  /\ UNCHANGED <<chain, served, heard>>

\* Detach: no more updates, but nobody stops the timers.  Whether the section can
\* still be read once it is deleted is up to the persistence library.
IdentifyDetach ==
  /\ served /\ served' = FALSE
  /\ left' \in {left, 0}
  /\ UNCHANGED <<chain, heard>>

\* The process restarts: the end time is stored, the timers are not, and a
\* consumer begins again.  Load may fail for want of the endpoint or the monitor.
IdentifyLoad ==
  /\ served /\ served' \in BOOLEAN
  /\ heard' = FALSE
  /\ chain' = [c \in Chain |->
                 [at |-> IF chain[c].at = "unused" THEN "unused" ELSE "ended"]]
  /\ UNCHANGED left

Go(c) == Store(c) \/ Look(c) \/ Send(c) \/ Fire(c)

IdentifyNext ==
  \/ Pass \/ IdentifyDetach \/ IdentifyLoad
  \/ \E c \in Chain : Report(c) \/ Command(c) \/ Go(c)

\* Goroutines run, timers fire and time passes.
IdentifyFairness ==
  WF_identifyVars(Pass) /\ \A c \in Chain : WF_identifyVars(Go(c))

-----------------------------------------------------------------------------
\* However reports and calls overlap, and whatever answers their chains carry
\* when the time is changed under them, a consumer that was told the device is
\* identifying is told that it no longer is once that is so for good, also of a
\* capability it no longer has, and by then no timer is left.
EndAnnounced ==
  <>[](left = 0) => <>[](~heard /\ \A c \in Chain : chain[c].at # "armed")
=============================================================================
