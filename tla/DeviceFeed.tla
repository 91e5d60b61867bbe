----------------------------- MODULE DeviceFeed -----------------------------
(***************************************************************************)
(* What the gateway promises a consumer about devices (da.Gateway: ReadEvent *)
(* and Devices()).  A device is known by its identifier, an address and a  *)
(* sub-identifier.  Announcing and withdrawing alternate for every         *)
(* identifier, Devices() lists exactly the announced ones, and once a      *)
(* device stands for an endpoint it stands for that endpoint until it is   *)
(* withdrawn, over any number of restarts of the process.                  *)
(***************************************************************************)
EXTENDS Integers

CONSTANTS Node, Sub, Endpoint

Id == Node \X Sub
None == -1

VARIABLES
  live,       \* the identifiers Devices() lists
  balance,    \* DeviceAdded minus DeviceRemoved events since the restart
  identity    \* the endpoint a device stands for, None when undecided

feedVars == <<live, balance, identity>>

FeedInit ==
  /\ live = {}
  /\ balance = [i \in Id |-> 0]
  /\ identity = [i \in Id |-> None]

Announce(i) ==
  /\ i \notin live
  /\ balance[i] = 0
  /\ live' = live \cup {i}
  /\ balance' = [balance EXCEPT ![i] = 1]
  /\ UNCHANGED identity

\* No two devices of a node stand for the same endpoint.
Identify(i, e) ==
  /\ i \in live
  /\ identity[i] = None
  /\ \A j \in Id : j[1] = i[1] => identity[j] # e
  /\ identity' = [identity EXCEPT ![i] = e]
  /\ UNCHANGED <<live, balance>>

Withdraw(i) ==
  /\ i \in live
  /\ balance[i] = 1
  /\ live' = live \ {i}
  /\ balance' = [balance EXCEPT ![i] = 0]
  /\ identity' = [identity EXCEPT ![i] = None]

Restart ==
  /\ live' = {}
  /\ balance' = [i \in Id |-> 0]
  /\ UNCHANGED identity

FeedNext ==
  \/ Restart
  \/ \E i \in Id : Announce(i) \/ Withdraw(i) \/ \E e \in Endpoint : Identify(i, e)

FeedSpec == FeedInit /\ [][FeedNext]_feedVars
=============================================================================
