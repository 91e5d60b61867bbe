----------------------- MODULE AttributeMonitor_proofs -----------------------
(***************************************************************************)
(* Proofs about AttributeMonitor, for any number of attaches, any modes    *)
(* and a process that may end at any point; the last theorem needs that it *)
(* does not end in two windows.                                            *)
(*                                                                         *)
(* The pollers, the ticker field and the stop channel are in order until   *)
(* Detach has told a poller to stop.  From then on a single poller is the  *)
(* only one to touch them; that is the invariant behind NoPanicOnce, and   *)
(* what a second poller breaks.                                            *)
(***************************************************************************)
EXTENDS AttributeMonitor, TLAPS

\* A start is counted only where there is room for it, and every poller and the
\* match in the field belong to a start that was counted.
Counted ==
  /\ op = "new" => starts = 0
  /\ op = "attached" => starts # 0
  /\ op \in {"attaching", "reattach"} => starts < MaxStarts
  /\ match = starts
  /\ \A k \in Start : poller[k] # "none" => k <= starts

\* Until a poller is told to stop, all of them run on a ticker.
InOrder ==
  op # "detached" =>
    /\ ~panicked /\ ~stopSlot /\ ~stopClosed
    /\ \A k \in Start : poller[k] \in {"none", "loop", "select", "read"}
    /\ \A k \in Start : poller[k] # "none" => ticker # None

\* One poller stops its own ticker and closes the channel once.
Once ==
  starts <= 1 =>
    /\ ~panicked
    /\ \A k \in Start : poller[k] \in {"loop", "select", "read", "stop"} =>
         ticker # None /\ ~stopClosed
    /\ \A k \in Start : poller[k] = "close" => ~stopClosed

\* One match is registered from the first start to Detach.
Subscribed ==
  starts <= 1 =>
    matches = IF op \in {"unregistered", "detached"} THEN {} ELSE {starts} \ {None}

IInv == TypeOK /\ Counted /\ InOrder /\ Once /\ Subscribed

-----------------------------------------------------------------------------
\* Start numbers.
LEMMA Starts ==
  ASSUME TypeOK
  PROVE  /\ MaxStarts \in Nat /\ starts \in 0..MaxStarts
         /\ 0 \in 0..starts /\ ticker \in 0..starts
BY MonitorAssumption DEF TypeOK, None

LEMMA InitIInv == Init => IInv
<1> SUFFICES ASSUME Init PROVE IInv
  OBVIOUS
<1>1. MaxStarts \in Nat /\ asked \in Reporting \X Polling
  BY MonitorAssumption DEF Init
<1>2. /\ 0 \in 0..MaxStarts /\ 0 \in 0..starts /\ matches \subseteq 1..starts
      /\ ticking \subseteq 1..starts
  BY <1>1 DEF Init
<1>3. /\ poller \in [Start -> {"none", "loop", "select", "read", "stop", "close", "ended"}]
      /\ selected \in [Start -> 0..starts]
  BY <1>2 DEF Init, None
<1>4. TypeOK
  BY <1>1, <1>2, <1>3 DEF Init, TypeOK, None
<1> QED BY <1>1, <1>4 DEF IInv, Init, Counted, InOrder, Once, Subscribed, None

\* Steps that touch neither the pollers nor what they share.
LEMMA ConfigIInv ==
  ASSUME IInv,
         \/ Load \/ Configure
         \/ \E rc \in Reporting, pc \in Polling : Attach(rc, pc)
  PROVE  IInv'
<1> USE MonitorAssumption DEF config, fields, channel, pollers, Start, None
<1>1. UNCHANGED <<starts, matches, ticking, fields, channel, pollers>>
  BY DEF Load, Configure, Attach
<1>2. op \notin {"unregistered", "detached"} /\ op' \in {"attaching", "reattach", "failed"}
  BY DEF Load, Configure, Attach
<1>3. stored' \in BOOLEAN /\ reporting' \in BOOLEAN /\ polling' \in BOOLEAN
  BY DEF Load, Configure, Attach, IInv, TypeOK
<1>4. asked' \in Reporting \X Polling
  BY DEF Load, Configure, Attach, IInv, TypeOK
<1>5. op' \in {"attaching", "reattach"} => starts < MaxStarts
  BY DEF Load, Configure, Attach, IInv, Counted
<1>6. TypeOK'
  BY <1>1, <1>2, <1>3, <1>4 DEF IInv, TypeOK
<1>7. Counted'
  BY <1>1, <1>2, <1>5 DEF IInv, Counted
<1> QED BY <1>1, <1>2, <1>6, <1>7 DEF IInv, InOrder, Once, Subscribed

LEMMA ReattachIInv ==
  ASSUME IInv, Reattach
  PROVE  IInv'
<1> USE MonitorAssumption DEF config, channel, Start, None
<1> DEFINE k == starts + 1
<1>1. starts \in Nat /\ k \in Start /\ starts < MaxStarts /\ MaxStarts \in Nat
  BY DEF Reattach, IInv, TypeOK, Counted
<1>2. TypeOK'
  <2>1. k \in 0..MaxStarts /\ 0..starts \subseteq 0..k /\ 1..starts \subseteq 1..k /\ k \in 1..k
        /\ k \in 0..k
    BY <1>1
  <2>2. matches \subseteq 1..starts /\ ticking \subseteq 1..starts /\ ticker \in ticking \cup {0}
    BY DEF IInv, TypeOK
  <2>3. matches' = matches \cup {k} /\ match' = k
    BY DEF Reattach
  <2>4. \/ ticking' = ticking \cup {k} /\ ticker' = k
        \/ ticking' = ticking /\ ticker' = ticker
    BY DEF Reattach
  <2>5. matches' \subseteq 1..k
    BY <2>1, <2>2, <2>3
  <2>6. ticking' \subseteq 1..k
    BY <2>1, <2>2, <2>4
  <2>7. ticker' \in ticking' \cup {0}
    BY <2>2, <2>4
  <2>8. poller' \in [Start -> {"none", "loop", "select", "read", "stop", "close", "ended"}]
    BY <1>1 DEF Reattach, IInv, TypeOK
  <2>9. selected' \in [Start -> 0..k]
    BY <2>1 DEF Reattach, IInv, TypeOK
  <2>10. starts' = k /\ match' = k /\ op' = "attached"
         /\ UNCHANGED <<config, channel, selected, panicked>>
    BY DEF Reattach
  <2> QED BY <2>1, <2>5, <2>6, <2>7, <2>8, <2>9, <2>10 DEF IInv, TypeOK
<1>3. Counted'
  BY <1>1 DEF Reattach, IInv, TypeOK, Counted
<1>4. InOrder' /\ Once'
  BY <1>1 DEF Reattach, IInv, TypeOK, InOrder, Once
<1>5. Subscribed'
  BY <1>1 DEF Reattach, IInv, TypeOK, Subscribed
<1> QED BY <1>2, <1>3, <1>4, <1>5 DEF IInv

\* Detach.
LEMMA DetachIInv ==
  ASSUME IInv, Signal \/ \E unconfigure \in BOOLEAN : Unregister(unconfigure)
  PROVE  IInv'
<1> USE MonitorAssumption DEF config, fields, pollers, channel, Start, None
<1>1. CASE Signal
  <2>1. TypeOK' /\ Counted'
    BY <1>1 DEF Signal, IInv, TypeOK, Counted
  <2>2. InOrder' /\ Once' /\ Subscribed'
    BY <1>1 DEF Signal, IInv, InOrder, Once, Subscribed
  <2> QED BY <2>1, <2>2 DEF IInv
<1>2. ASSUME NEW unconfigure \in BOOLEAN, Unregister(unconfigure) PROVE IInv'
  <2>1. (reporting /\ ~unconfigure) \in BOOLEAN /\ (polling /\ ~unconfigure) \in BOOLEAN
    OBVIOUS
  <2>2. reporting' \in BOOLEAN /\ polling' \in BOOLEAN
    BY <1>2, <2>1 DEF Unregister
  <2>3. TypeOK'
    BY <1>2, <2>2 DEF Unregister, IInv, TypeOK
  <2>4. Counted' /\ InOrder' /\ Once'
    BY <1>2 DEF Unregister, IInv, Counted, InOrder, Once
  <2>5. Subscribed'
    BY <1>2 DEF Unregister, IInv, TypeOK, Counted, Subscribed
  <2> QED BY <2>3, <2>4, <2>5 DEF IInv
<1> QED BY <1>1, <1>2

\* A new object.
LEMMA FreshIInv ==
  ASSUME IInv, Renew \/ Restart
  PROVE  IInv'
<1> USE MonitorAssumption DEF config, Start, None
<1>1. Fresh /\ op' = "new" /\ UNCHANGED <<config, panicked>> /\ ~panicked
  BY DEF Renew, Restart
<1>2. /\ poller' \in [Start -> {"none", "loop", "select", "read", "stop", "close", "ended"}]
      /\ selected' \in [Start -> 0..starts']
      /\ starts' \in 0..MaxStarts /\ match' \in 0..starts' /\ ticker' \in ticking' \cup {0}
      /\ matches' \subseteq 1..starts' /\ ticking' \subseteq 1..starts'
      /\ stopSlot' \in BOOLEAN /\ stopClosed' \in BOOLEAN
  <2>1. starts' = 0 /\ 0 \in 0..MaxStarts /\ 0 \in 0..0
    BY <1>1 DEF Fresh
  <2>2. selected' \in [Start -> 0..starts']
    BY <1>1, <2>1 DEF Fresh
  <2> QED BY <1>1, <2>1, <2>2 DEF Fresh
<1>3. TypeOK'
  BY <1>1, <1>2 DEF IInv, TypeOK
<1> QED BY <1>1, <1>3 DEF Fresh, IInv, Counted, InOrder, Once, Subscribed

LEMMA PollIInv ==
  ASSUME IInv, NEW k \in Start, Poll(k) \/ Tick(k) \/ ReceiveStop(k)
  PROVE  IInv'
<1> USE MonitorAssumption DEF config, fields, channel, Start, None
<1>1. CASE Select(k)
  <2>1. TypeOK'
    <3>1. selected' \in [Start -> 0..starts]
      BY <1>1, Starts, SMTT(60) DEF Select, IInv, TypeOK
    <3>2. poller' \in [Start -> {"none", "loop", "select", "read", "stop", "close", "ended"}]
      BY <1>1 DEF Select, IInv, TypeOK
    <3> QED BY <1>1, <3>1, <3>2 DEF Select, IInv, TypeOK
  <2>2. Counted' /\ Subscribed'
    BY <1>1 DEF Select, IInv, TypeOK, Counted, Subscribed
  <2>3. InOrder'
    BY <1>1 DEF Select, IInv, TypeOK, InOrder
  <2>4. Once'
    BY <1>1 DEF Select, IInv, TypeOK, Counted, InOrder, Once
  <2> QED BY <2>1, <2>2, <2>3, <2>4 DEF IInv
<1>2. CASE ReadAttributes(k) \/ Tick(k)
  <2>1. TypeOK'
    <3>1. poller' \in [Start -> {"none", "loop", "select", "read", "stop", "close", "ended"}]
      BY <1>2 DEF ReadAttributes, Tick, IInv, TypeOK
    <3> QED BY <1>2, <3>1 DEF ReadAttributes, Tick, IInv, TypeOK
  <2>2. Counted'
    BY <1>2 DEF ReadAttributes, Tick, IInv, TypeOK, Counted
  <2>4. Subscribed'
    BY <1>2 DEF ReadAttributes, Tick, IInv, Subscribed
  <2>3. InOrder' /\ Once'
    BY <1>2 DEF ReadAttributes, Tick, IInv, TypeOK, InOrder, Once
  <2> QED BY <2>1, <2>2, <2>3, <2>4 DEF IInv
<1>3. CASE ReceiveStop(k)
  <2>1. TypeOK'
    BY <1>3 DEF ReceiveStop, IInv, TypeOK
  <2>2. Counted' /\ Subscribed'
    BY <1>3 DEF ReceiveStop, IInv, TypeOK, Counted, Subscribed
  <2>3. InOrder'
    BY <1>3 DEF ReceiveStop, IInv, TypeOK, InOrder
  <2>4. Once'
    BY <1>3 DEF ReceiveStop, IInv, TypeOK, Counted, InOrder, Once
  <2> QED BY <2>1, <2>2, <2>3, <2>4 DEF IInv
<1>4. CASE StopTicker(k)
  <2>1. TypeOK'
    BY <1>4 DEF StopTicker, IInv, TypeOK
  <2>2. Counted' /\ Subscribed'
    BY <1>4 DEF StopTicker, IInv, TypeOK, Counted, Subscribed
  <2>3. InOrder'
    BY <1>4 DEF StopTicker, IInv, TypeOK, InOrder
  <2>4. Once'
    BY <1>4 DEF StopTicker, IInv, TypeOK, Counted, InOrder, Once
  <2> QED BY <2>1, <2>2, <2>3, <2>4 DEF IInv
<1>5. CASE Close(k)
  <2>1. TypeOK'
    BY <1>5 DEF Close, IInv, TypeOK
  <2>2. Counted' /\ Subscribed'
    BY <1>5 DEF Close, IInv, TypeOK, Counted, Subscribed
  <2>3. InOrder'
    BY <1>5 DEF Close, IInv, TypeOK, InOrder
  <2>4. ASSUME starts <= 1 PROVE Once'
    <3>1. \A j \in Start : poller[j] # "none" => j = k
      BY <1>5, <2>4, Starts DEF Close, IInv, Counted
    <3>2. ~stopClosed
      BY <1>5, <2>4 DEF Close, IInv, Once
    <3> QED BY <1>5, <2>4, <3>1, <3>2 DEF Close, IInv, TypeOK, Once
  <2>5. starts' = starts
    BY <1>5 DEF Close
  <2> QED BY <2>1, <2>2, <2>3, <2>4, <2>5 DEF IInv, Once
<1> QED BY <1>1, <1>2, <1>3, <1>4, <1>5 DEF Poll

LEMMA NextIInv == IInv /\ [Next]_vars => IInv'
<1> SUFFICES ASSUME IInv, [Next]_vars PROVE IInv'
  OBVIOUS
<1>1. CASE UNCHANGED vars
  BY <1>1 DEF vars, config, fields, channel, pollers, IInv, TypeOK, Counted, InOrder,
              Once, Subscribed
<1> QED BY <1>1, ConfigIInv, ReattachIInv, DetachIInv, FreshIInv, PollIInv DEF Next

-----------------------------------------------------------------------------
\* Pollers, ticker, stop channel and matches are in order until Detach, and
\* after it with one poller (reattach, Detach and poller share them unguarded).
THEOREM IInvHolds == Spec => []IInv
BY InitIInv, NextIInv, PTL DEF Spec

\* The fields, the section and the pollers keep their types.
THEOREM TypeCorrect == Spec => []TypeOK
<1>1. IInv => TypeOK
  BY DEF IInv
<1> QED BY <1>1, IInvHolds, PTL

\* A monitor attached or loaded once never panics, whatever the poller and
\* Detach do at the same time (poller, Detach).
THEOREM NoPanicWhenOnce == Spec => []NoPanicOnce
<1>1. IInv => NoPanicOnce
  BY DEF IInv, Once, NoPanicOnce
<1> QED BY <1>1, IInvHolds, PTL

\* Nor does one that is attached any number of times, until it is detached.
THEOREM NoPanicAttached == Spec => []NoPanicWhileAttached
<1>1. IInv => NoPanicWhileAttached
  BY DEF IInv, InOrder, NoPanicWhileAttached
<1> QED BY <1>1, IInvHolds, PTL

\* A monitor attached once has one match with the communicator, and none when it
\* is detached (reattach, Detach).
THEOREM SubscribedOnce == Spec => []OneSubscription
<1>1. IInv => OneSubscription
  BY DEF IInv, TypeOK, Counted, Subscribed, OneSubscription, None
<1> QED BY <1>1, IInvHolds, PTL

-----------------------------------------------------------------------------
(* A source of values, where the process does not end while parameters are *)
(* stored but reporting is not configured yet, or in the middle of Detach. *)

\* The modes that promise values.
Promised == asked[2] = "always" \/ asked = <<"attempt", "ifFailed">>

\* What is persisted keeps the promise whenever Load may have to go by it.
Configured ==
  /\ op \in {"attaching", "reattach", "attached"} => stored
  /\ op = "failed" => asked[2] = "never"
  /\ stored /\ op \in {"unregistered", "detached"} /\ starts = 0 => asked[2] = "never"
  /\ stored /\ op \in {"new", "reattach", "attached"} /\ Promised => reporting \/ polling

\* Where polling is configured a poller runs.
Polled ==
  op = "attached" /\ polling => ticker # None /\ \E k \in Start : poller[k] # "none"

Sourced == Configured /\ Polled

LEMMA InitSourced == Init => Sourced
BY DEF Init, Sourced, Configured, Polled

LEMMA NextSourced ==
  ASSUME CrashDuring \subseteq {"new", "reattach", "attached"},
         IInv, Sourced, [Next]_vars
  PROVE  Sourced'
<1> USE DEF config, fields, channel, pollers, Sourced, Promised, None, Start
<1>1. CASE Load
  BY <1>1 DEF Load, Configured, Polled
<1>2. CASE Configure
  <2>1. PICK accepted \in BOOLEAN :
          LET failed == asked[1] = "attempt" /\ ~accepted
              poll   == asked[2] = "always" \/ (failed /\ asked[2] = "ifFailed")
          IN /\ reporting' = (reporting \/ (asked[1] = "attempt" /\ accepted))
             /\ polling' = (polling \/ poll)
             /\ op' = IF failed /\ asked[2] = "never" THEN "failed" ELSE "reattach"
    BY <1>2, Zenon DEF Configure
  <2>2. asked[2] = "always" => polling'
    BY <2>1, Zenon
  <2>3. asked[1] = "attempt" /\ asked[2] = "ifFailed" => reporting' \/ polling'
    BY <2>1, Zenon
  <2>4. asked = <<"attempt", "ifFailed">> => asked[1] = "attempt" /\ asked[2] = "ifFailed"
    OBVIOUS
  <2>5. op' \in {"failed", "reattach"} /\ (op' = "failed" => asked[2] = "never")
    BY <2>1
  <2>6. stored' /\ asked' = asked
    BY <1>2 DEF Configure, Configured
  <2> QED BY <2>2, <2>3, <2>4, <2>5, <2>6 DEF Configured, Polled
<1>3. CASE Reattach
  <2>1. starts + 1 \in Start
    BY <1>3, MonitorAssumption DEF Reattach, IInv, TypeOK, Counted
  <2>2. polling => ticker' # None /\ poller'[starts + 1] = "loop"
    BY <1>3, <2>1, MonitorAssumption DEF Reattach, IInv, TypeOK
  <2> QED BY <1>3, <2>1, <2>2 DEF Reattach, Configured, Polled
<1>4. CASE Signal
  BY <1>4 DEF Signal, Configured, Polled
<1>5. CASE Renew
  BY <1>5 DEF Renew, Fresh, Configured, Polled
<1>6. CASE Restart
  BY <1>6 DEF Restart, Fresh, Configured, Polled
<1>7. ASSUME NEW rc \in Reporting, NEW pc \in Polling, Attach(rc, pc) PROVE Sourced'
  BY <1>7 DEF Attach, Configured, Polled
<1>8. ASSUME NEW unconfigure \in BOOLEAN, Unregister(unconfigure) PROVE Sourced'
  <2>1. op = "attached" => starts # 0
    BY DEF IInv, Counted
  <2> QED BY <1>8, <2>1 DEF Unregister, Configured, Polled
<1>9. ASSUME NEW k \in Start, Poll(k) \/ Tick(k) \/ ReceiveStop(k) PROVE Sourced'
  <2>1. UNCHANGED <<config, op, starts>>
    BY <1>9 DEF Poll, Tick, ReceiveStop, Select, ReadAttributes, StopTicker, Close
  <2>2. ASSUME op = "attached", polling
        PROVE  ticker' # None /\ \E j \in Start : poller'[j] # "none"
    <3>1. poller[k] \notin {"stop", "close"} /\ ~stopSlot /\ ~stopClosed
      BY <2>2 DEF IInv, InOrder
    <3>2. ticker' = ticker /\ (poller' = poller \/ poller'[k] # "none")
      BY <1>9, <3>1 DEF Poll, Tick, ReceiveStop, Select, ReadAttributes, StopTicker,
         Close, IInv, TypeOK
    <3> QED BY <2>2, <3>2 DEF Polled
  <2> QED BY <2>1, <2>2 DEF Configured, Polled
<1>10. CASE UNCHANGED vars
  BY <1>10 DEF vars, Configured, Polled
<1> QED BY <1>1, <1>2, <1>3, <1>4, <1>5, <1>6, <1>7, <1>8, <1>9, <1>10 DEF Next

\* A monitor that was to fall back on polling has a source of values while it is
\* attached, also when Load had only the persistence to go by (Attach, Load).
THEOREM SourceOfValues ==
  ASSUME CrashDuring \subseteq {"new", "reattach", "attached"}
  PROVE  Spec => []SourceWhileAttached
<1>1. IInv /\ Sourced /\ [Next]_vars => Sourced'
  BY NextSourced
<1>2. Spec => []Sourced
  BY <1>1, InitSourced, IInvHolds, PTL DEF Spec
<1>3. IInv /\ Sourced => SourceWhileAttached
  BY DEF IInv, InOrder, Sourced, Configured, Polled, Promised, SourceWhileAttached,
         Alive, None
<1> QED BY <1>2, <1>3, IInvHolds, PTL
=============================================================================
