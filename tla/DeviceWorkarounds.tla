-------------------------- MODULE DeviceWorkarounds --------------------------
(***************************************************************************)
(* Workarounds for a device (implcaps/generic/device_workarounds/impl.go), *)
(* each enabled by a setting whose name begins with "Enable", whatever its *)
(* value.  There is one, which has the node report its ZCL version so      *)
(* often that the network does not forget it.  The process may end between *)
(* any two steps of an enumeration.                                        *)
(***************************************************************************)
CONSTANTS
  Setting,    \* names of settings that begin with "Enable"
  KeepAlive   \* "EnableZCLReportingKeepAlive"; the others mean nothing yet

VARIABLES
  enabled,    \* i.workaroundsEnabled
  stored,     \* persisted: the keys of the section "Workarounds"
  keptAlive,  \* the node was told to report
  busy,       \* Enumerate is running,
  pending     \* and has yet to come to these settings

workaroundVars == <<enabled, stored, keptAlive, busy, pending>>

WorkaroundsInit ==
  enabled = {} /\ stored = {} /\ keptAlive = FALSE /\ busy = FALSE /\ pending = {}

\* Enumerate forgets the workarounds, in memory and stored.
Reset ==
  /\ ~busy /\ busy' = TRUE
  /\ enabled' = {} /\ stored' = {}
  /\ pending' \in SUBSET Setting
  /\ UNCHANGED keptAlive

\* enumerateWorkaround of a name it does not know does nothing.
PassOver ==
  /\ \E w \in pending \ {KeepAlive} : pending' = pending \ {w}
  /\ UNCHANGED <<enabled, stored, keptAlive, busy>>

\* Mutant of Configure: it is stored before the node has answered.
ConfigureStored ==
  /\ KeepAlive \in pending \ stored
  /\ stored' = stored \cup {KeepAlive}
  /\ keptAlive' \in {keptAlive, TRUE}
  /\ UNCHANGED <<enabled, busy, pending>>

\* enumerateZCLReportingKeepAlive: the node binds, and takes the configuration.
Configure ==
  /\ KeepAlive \in pending \ stored
  /\ keptAlive' = TRUE /\ stored' = stored \cup {KeepAlive}
  /\ UNCHANGED <<enabled, busy, pending>>

Append ==
  /\ KeepAlive \in pending \cap stored
  /\ enabled' = enabled \cup {KeepAlive} /\ pending' = pending \ {KeepAlive}
  /\ UNCHANGED <<stored, keptAlive, busy>>

\* No answer, whether or not the node was reached: Enumerate returns false and
\* the capability goes.
Refused ==
  /\ KeepAlive \in pending \ stored
  /\ enabled' = {} /\ stored' = {} /\ pending' = {} /\ busy' = FALSE
  /\ keptAlive' \in {keptAlive, TRUE}

Return ==
  /\ busy /\ pending = {}
  /\ busy' = FALSE
  /\ UNCHANGED <<enabled, stored, keptAlive, pending>>

\* Detach tells the node nothing; the section goes with the capability.
WorkaroundsDetach ==
  /\ ~busy
  /\ enabled' = {} /\ stored' = {}
  /\ UNCHANGED <<keptAlive, busy, pending>>

\* The process restarts: Load lists what is stored.
WorkaroundsLoad ==
  /\ enabled' = stored
  /\ busy' = FALSE /\ pending' = {}
  /\ UNCHANGED <<stored, keptAlive>>

WorkaroundsNext ==
  \/ Reset \/ PassOver \/ Configure \/ Append \/ Refused \/ Return
  \/ WorkaroundsDetach \/ WorkaroundsLoad

-----------------------------------------------------------------------------
\* The list is the one a restart would show, and the node was told to do what
\* it says, however often the rules change and wherever an enumeration fails or
\* is cut short.
EnabledInForce ==
  /\ ~busy => enabled = stored
  /\ KeepAlive \in enabled \cup stored => keptAlive
=============================================================================
