-------------------------- MODULE AttributeMonitor --------------------------
(***************************************************************************)
(* One attribute monitor and its section of the persistence                *)
(* (attribute/monitor.go), driven as the capabilities drive it: Load after *)
(* a restart, Attach at every enumeration, and one Detach, after which the *)
(* object is dropped.  The poller is a goroutine that shares the fields of *)
(* the monitor with these calls and takes no lock.                         *)
(*                                                                         *)
(* The k-th Load or Attach of the object registers match k, makes ticker k *)
(* and starts poller k.                                                    *)
(***************************************************************************)
EXTENDS Naturals

CONSTANTS
  MaxStarts,   \* bound: Loads and Attaches of one monitor object
  Reporting,   \* the reporting modes asked for
  Polling,     \* the polling modes asked for
  CrashDuring  \* environment: the operations a crash may interrupt

ASSUME MonitorAssumption ==
  /\ MaxStarts \in Nat \ {0}
  /\ Reporting \subseteq {"attempt", "never"}
  /\ Polling \subseteq {"ifFailed", "always", "never"}
  /\ CrashDuring \subseteq
       {"new", "attaching", "reattach", "attached", "failed", "unregistered"}

Start == 1..MaxStarts
None  == 0

VARIABLES
  stored,     \* persisted: endpoint, cluster, attribute and data type
  reporting,  \* persisted: ReportingConfigured
  polling,    \* persisted: PollingConfigured
  asked,      \* the modes of the last Attach
  op,         \* where the life of the monitor object is
  starts,     \* Loads and Attaches of this object that came to reattach
  matches,    \* matches registered with the ZCL communicator
  match,      \* z.match
  ticking,    \* tickers made and not stopped
  ticker,     \* z.ticker
  stopSlot,   \* z.pollerStop holds a message
  stopClosed, \* z.pollerStop is closed
  poller,     \* where each poller is
  selected,   \* the ticker each poller waits on
  panicked    \* a goroutine has panicked, and the process with it

config   == <<stored, reporting, polling, asked>>
fields   == <<match, ticker>>
channel  == <<stopSlot, stopClosed>>
pollers  == <<poller, selected, panicked>>
vars == <<config, op, starts, matches, ticking, fields, channel, pollers>>

TypeOK ==
  /\ stored \in BOOLEAN /\ reporting \in BOOLEAN /\ polling \in BOOLEAN
  /\ stopSlot \in BOOLEAN /\ stopClosed \in BOOLEAN /\ panicked \in BOOLEAN
  /\ asked \in Reporting \X Polling
  /\ op \in {"new", "attaching", "reattach", "attached", "failed",
             "unregistered", "detached"}
  /\ starts \in 0..MaxStarts
  /\ matches \subseteq 1..starts /\ match \in 0..starts
  /\ ticking \subseteq 1..starts /\ ticker \in ticking \cup {None}
  /\ poller \in [Start -> {"none", "loop", "select", "read", "stop", "close", "ended"}]
  /\ selected \in [Start -> 0..starts]

\* A monitor object as NewMonitor and Init leave it.
Fresh ==
  /\ starts' = 0 /\ matches' = {} /\ match' = None
  /\ ticking' = {} /\ ticker' = None
  /\ stopSlot' = FALSE /\ stopClosed' = FALSE
  /\ poller' = [k \in Start |-> "none"]
  /\ selected' = [k \in Start |-> None]

Init ==
  /\ stored = FALSE /\ reporting = FALSE /\ polling = FALSE
  /\ asked \in Reporting \X Polling
  /\ op = "new" /\ starts = 0
  /\ matches = {} /\ match = None /\ ticking = {} /\ ticker = None
  /\ stopSlot = FALSE /\ stopClosed = FALSE /\ panicked = FALSE
  /\ poller = [k \in Start |-> "none"]
  /\ selected = [k \in Start |-> None]

-----------------------------------------------------------------------------
\* Load: an error unless every parameter is in the section; a capability that
\* fails to load is not attached, and a later enumeration makes it anew.
Load ==
  /\ ~panicked /\ op = "new" /\ stored
  /\ op' = "reattach"
  /\ UNCHANGED <<config, starts, matches, ticking, fields, channel, pollers>>

\* Attach: the parameters are stored.
Attach(rc, pc) ==
  /\ ~panicked /\ op \in {"new", "attached"} /\ starts < MaxStarts
  /\ stored' = TRUE /\ asked' = <<rc, pc>>
  /\ op' = "attaching"
  /\ UNCHANGED <<reporting, polling, starts, matches, ticking, fields, channel, pollers>>

\* Mutant of Configure: polling is no answer to reporting that failed.
ConfigurePollIfAsked ==
  /\ ~panicked /\ op = "attaching"
  /\ \E accepted \in BOOLEAN :
       /\ reporting' = (reporting \/ (asked[1] = "attempt" /\ accepted))
       /\ polling' = (polling \/ asked[2] = "always")
       /\ op' = "reattach"
  /\ UNCHANGED <<stored, asked, starts, matches, ticking, fields, channel, pollers>>

\* Attach: reporting is attempted (bind, then configure), and polled for if it
\* failed.  Neither flag is ever cleared here.
Configure ==
  /\ ~panicked /\ op = "attaching"
  /\ \E accepted \in BOOLEAN :
       LET failed == asked[1] = "attempt" /\ ~accepted
           poll   == asked[2] = "always" \/ (failed /\ asked[2] = "ifFailed")
       IN /\ reporting' = (reporting \/ (asked[1] = "attempt" /\ accepted))
          /\ polling' = (polling \/ poll)
          /\ op' = IF failed /\ asked[2] = "never" THEN "failed" ELSE "reattach"
  /\ UNCHANGED <<stored, asked, starts, matches, ticking, fields, channel, pollers>>

\* Mutant of Reattach: the ticker of an earlier start is dropped once the node
\* reports by itself.
ReattachDropsTicker ==
  /\ ~panicked /\ op = "reattach"
  /\ LET k == starts + 1 IN
       /\ starts' = k
       /\ matches' = matches \cup {k} /\ match' = k
       /\ IF polling /\ ~reporting
          THEN /\ ticking' = ticking \cup {k} /\ ticker' = k
               /\ poller' = [poller EXCEPT ![k] = "loop"]
          ELSE ticking' = ticking \ {ticker} /\ ticker' = None /\ UNCHANGED poller
  /\ op' = "attached"
  /\ UNCHANGED <<config, channel, selected, panicked>>

\* reattach: a match is registered and, if polling is configured, a ticker is
\* made and a poller started.
Reattach ==
  /\ ~panicked /\ op = "reattach"
  /\ LET k == starts + 1 IN
       /\ starts' = k
       /\ matches' = matches \cup {k} /\ match' = k
       /\ IF polling
          THEN /\ ticking' = ticking \cup {k} /\ ticker' = k
               /\ poller' = [poller EXCEPT ![k] = "loop"]
          ELSE UNCHANGED <<ticking, ticker, poller>>
  /\ op' = "attached"
  /\ UNCHANGED <<config, channel, selected, panicked>>

\* Mutant of Unregister: the match stays with the communicator.
UnregisterNothing(unconfigure) ==
  /\ ~panicked /\ op = "attached"
  /\ reporting' = (reporting /\ ~unconfigure)
  /\ polling' = (polling /\ ~unconfigure)
  /\ op' = "unregistered"
  /\ UNCHANGED <<stored, asked, starts, matches, ticking, fields, channel, pollers>>

\* Detach: the match is unregistered; a capability that is no longer enumerated
\* has reporting unconfigured too, as far as the node answers.  The failure of
\* an Attach is answered with Detach (enumerateCapabilityOnDevice).
Unregister(unconfigure) ==
  /\ ~panicked
  /\ op = "attached" \/ (op = "failed" /\ ~unconfigure)
  /\ matches' = matches \ {match}
  /\ reporting' = (reporting /\ ~unconfigure)
  /\ polling' = (polling /\ ~unconfigure)
  /\ op' = "unregistered"
  /\ UNCHANGED <<stored, asked, starts, ticking, fields, channel, pollers>>

\* Mutant of Signal: the poller is not told.
SignalNobody ==
  /\ ~panicked /\ op = "unregistered"
  /\ op' = "detached"
  /\ UNCHANGED <<config, starts, matches, ticking, fields, channel, pollers>>

\* Detach: a poller is told to stop.
Signal ==
  /\ ~panicked /\ op = "unregistered"
  /\ stopSlot' = (ticker # None)
  /\ op' = "detached"
  /\ UNCHANGED <<config, starts, matches, ticking, fields, stopClosed, pollers>>

\* The capability of a device that never held it is dropped without its section
\* (detachCapabilityFromDevice), and made anew by the next enumeration.
Renew ==
  /\ ~panicked /\ op = "detached" /\ starts = 0
  /\ op' = "new"
  /\ Fresh
  /\ UNCHANGED <<config, panicked>>

-----------------------------------------------------------------------------
\* The poller evaluates z.ticker.C on its way into select.
Select(k) ==
  /\ ~panicked /\ poller[k] = "loop"
  /\ IF ticker = None
     THEN panicked' = TRUE /\ UNCHANGED <<poller, selected>>
     ELSE /\ poller' = [poller EXCEPT ![k] = "select"]
          /\ selected' = [selected EXCEPT ![k] = ticker]
          /\ UNCHANGED panicked
  /\ UNCHANGED <<config, op, starts, matches, ticking, fields, channel>>

\* A tick: the attribute is read.
Tick(k) ==
  /\ ~panicked /\ poller[k] = "select" /\ selected[k] \in ticking
  /\ poller' = [poller EXCEPT ![k] = "read"]
  /\ UNCHANGED <<config, op, starts, matches, ticking, fields, channel, selected, panicked>>

\* The read is answered, or times out.
ReadAttributes(k) ==
  /\ ~panicked /\ poller[k] = "read"
  /\ poller' = [poller EXCEPT ![k] = "loop"]
  /\ UNCHANGED <<config, op, starts, matches, ticking, fields, channel, selected, panicked>>

\* The stop channel holds a message, or is closed.
ReceiveStop(k) ==
  /\ ~panicked /\ poller[k] = "select"
  /\ stopSlot \/ stopClosed
  /\ stopSlot' = FALSE
  /\ poller' = [poller EXCEPT ![k] = "stop"]
  /\ UNCHANGED <<config, op, starts, matches, ticking, fields, stopClosed, selected, panicked>>

\* z.ticker.Stop, which panics without a ticker; and z.ticker = nil.
StopTicker(k) ==
  /\ ~panicked /\ poller[k] = "stop"
  /\ IF ticker = None
     THEN panicked' = TRUE /\ UNCHANGED <<poller, ticking, ticker>>
     ELSE /\ ticking' = ticking \ {ticker} /\ ticker' = None
          /\ poller' = [poller EXCEPT ![k] = "close"]
          /\ UNCHANGED panicked
  /\ UNCHANGED <<config, op, starts, matches, match, channel, selected>>

\* The deferred close, which panics on a closed channel.
Close(k) ==
  /\ ~panicked /\ poller[k] = "close"
  /\ IF stopClosed
     THEN panicked' = TRUE /\ UNCHANGED <<poller, stopClosed>>
     ELSE /\ stopClosed' = TRUE
          /\ poller' = [poller EXCEPT ![k] = "ended"]
          /\ UNCHANGED panicked
  /\ UNCHANGED <<config, op, starts, matches, ticking, fields, stopSlot, selected>>

\* The process dies and starts again: a new object on the same section.
Restart ==
  /\ ~panicked /\ op \in CrashDuring
  /\ op' = "new"
  /\ Fresh
  /\ UNCHANGED <<config, panicked>>

Poll(k) == Select(k) \/ ReadAttributes(k) \/ StopTicker(k) \/ Close(k)

Next ==
  \/ Load \/ Configure \/ Reattach \/ Signal \/ Renew \/ Restart
  \/ \E rc \in Reporting, pc \in Polling : Attach(rc, pc)
  \/ \E unconfigure \in BOOLEAN : Unregister(unconfigure)
  \/ \E k \in Start : Poll(k) \/ Tick(k) \/ ReceiveStop(k)

Spec == Init /\ [][Next]_vars

\* Detach runs to its end and goroutines run; Go's select takes each ready case
\* again and again.
Fairness ==
  /\ WF_vars(Signal)
  /\ \A k \in Start : WF_vars(Poll(k)) /\ SF_vars(ReceiveStop(k))
FairSpec == Spec /\ Fairness

-----------------------------------------------------------------------------
Alive(k) == poller[k] \notin {"none", "ended"}

\* No goroutine of the monitor panics (close of a closed channel, nil ticker).
NoPanic == ~panicked

\* One that is attached or loaded once never panics.
NoPanicOnce == starts <= 1 => ~panicked

\* One that is attached again, as every enumeration does, is sound until it is
\* detached.
NoPanicWhileAttached == panicked => op = "detached"

\* A monitor attached once hears each report once, and none when detached.
OneSubscription ==
  starts <= 1 =>
    /\ op = "attached" => matches = {match}
    /\ op = "detached" => matches = {}

\* An attached monitor that was to fall back on polling has a source of values:
\* reports the node agreed to send, or a live poller on a running ticker; also
\* after a restart, when Load has only the persistence to go by.
SourceWhileAttached ==
  /\ op = "attached"
  /\ asked[2] = "always" \/ asked = <<"attempt", "ifFailed">>
  => reporting \/ (ticker # None /\ \E k \in Start : Alive(k))

\* A monitor attached once and detached stops reading the node, for good.
DetachedFallsSilent ==
  op = "unregistered" /\ starts <= 1
    ~> op = "new" \/ (ticking = {} /\ \A k \in Start : ~Alive(k))
=============================================================================
