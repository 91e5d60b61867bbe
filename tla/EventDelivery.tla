--------------------------- MODULE EventDelivery ---------------------------
(***************************************************************************)
(* Events, and the locks they are sent under (da_events.go, table.go,      *)
(* enumerate_device.go, provider_loop.go).  sendEvent blocks while the one *)
(* slot of the channel is taken, and most events are sent with a mutex of  *)
(* the node or of a device held; the goroutine that reads the events may   *)
(* ask for the same mutexes between two reads.                             *)
(*                                                                         *)
(* A goroutine is the list of what it has yet to do: an instruction takes  *)
(* or frees a mutex, sends an event, changes the tables, or stands for     *)
(* what follows from the tables when it is reached.  There is one node,    *)
(* which joins once and leaves once.  Steps that touch no mutex, event or  *)
(* table are left out, and so are the mutexes that are never held while    *)
(* another is asked for or an event is sent.  A critical section in which  *)
(* nothing blocks is one step, once the mutex is to be had.                *)
(***************************************************************************)
EXTENDS Naturals, SequencesExt

CONSTANTS
  Dev,             \* device objects
  Session,         \* goroutines that enumerate, at most so many at a time
  Calls,           \* what the reader of events calls: "devices", "capability",
                   \* "enumerate"
  MaxCalls,        \* bound on its calls
  MaxSurveys,      \* bound on the enumerations whose interrogation succeeds
  Nobody

VARIABLES
  code,         \* what each goroutine has yet to do
  readers,      \* RWMutex: who holds it for reading,
  owner,        \* and who holds it for writing, or has asked to
  channel,      \* ZDA.events
  known,        \* the node is in z.node
  device,       \* n.device
  free,         \* n.enumerationSem
  enumerating,  \* n.enumerationState
  made,         \* bound: the device objects that were made; each is made once
  calls,        \* bound: the calls of the reader so far
  surveys,      \* bound: the interrogations that succeeded so far
  told          \* history: what the events read so far say of each device

locks == <<readers, owner>>
table == <<known, device>>
node  == <<free, enumerating>>
history == <<made, calls, surveys, told>>
vars  == <<code, locks, channel, table, node, history>>

Goroutine == {"loop", "consumer"} \cup Session
Lock      == {"z.nodeLock", "n.m"} \cup Dev     \* d.m of device d is d

ASSUME DeliveryAssumption ==
  /\ IsFiniteSet(Dev) /\ Dev # {} /\ "z.nodeLock" \notin Dev /\ "n.m" \notin Dev
  /\ "loop" \notin Session /\ "consumer" \notin Session
  /\ Calls \subseteq {"devices", "capability", "enumerate"}
  /\ MaxCalls \in Nat /\ MaxSurveys \in Nat
  /\ Nobody \notin Goroutine

-----------------------------------------------------------------------------
\* Instructions, each as a program of its own: "lock" and "unlock" of an RWMutex,
\* "rlock" and "runlock", "send" of an event, and those named below.
RLock(l)  == <<<<"rlock", l>>>>
RUnlock(l) == <<<<"runlock", l>>>>
WLock(l)  == <<<<"lock", l>>>>
Unlock(l) == <<<<"unlock", l>>>>
Do(what)  == <<<<what>>>>
With(what, d) == <<<<what, d>>>>
Pass(l)   == <<<<"pass", l>>>>                 \* RLock and RUnlock
Brief(l)  == <<<<"lock", l>>, <<"brief", l>>>>   \* Lock and Unlock
Send(kind, d) == <<<<"send", [kind |-> kind, dev |-> d]>>>>

\* A program for each element of a sequence, one after the other.
ForEach(q, Program(_)) == FlattenSeq([i \in DOMAIN q |-> Program(q[i])])

\* createNextDevice, once the number is found.
CreateDevice(d) ==
  WLock("n.m") \o With("put", d) \o Send("added", d) \o Send("capability", d)
    \o Unlock("n.m")

\* removeDevice, of an address; of a node that was found; of a device that was.
RemoveDevice(d) == With("getNode", d)
RemoveFromNode(d) == WLock("n.m") \o With("remove", d)
RemoveFound(d) ==
  RLock(d) \o With("attach", d) \o RUnlock(d)
    \o Send("capability", d) \o Send("removed", d) \o With("drop", d)

\* enumerate, from its first statement to the interrogation.
Enumerate == Do("begin") \o Do("starts") \o Do("interrogate")

\* enumerate, its deferred function.
Finish == Do("release") \o Do("stops")

\* setDeviceUniqueId.
SetUniqueId(d) == Brief(d)

\* updateCapabilitiesOnDevice: the capabilities are attached or detached, and
\* announced, with the lock of the device held throughout.
UpdateCapabilities(d) == WLock(d) \o With("attach", d) \o Unlock(d)

\* Mutant of UpdateNodeTable: devices are made with the lock still held.
UpdateNodeTableLocked(stay, new, gone) ==
  ForEach(stay \o gone, Pass)
    \o ForEach(new, LAMBDA d : CreateDevice(d) \o SetUniqueId(d))
    \o RUnlock("n.m") \o Do("look") \o ForEach(gone, RemoveDevice)
    \o ForEach(stay \o new, UpdateCapabilities)

\* updateNodeTable, and updateCapabilitiesOnDevice for every device that stays
\* or is new.  The survey stands for its two first looks at the devices.
UpdateNodeTable(stay, new, gone) ==
  ForEach(stay \o gone, Pass) \o RUnlock("n.m")
    \o ForEach(new, LAMBDA d : CreateDevice(d) \o SetUniqueId(d))
    \o Do("look") \o ForEach(gone, RemoveDevice)
    \o ForEach(stay \o new, UpdateCapabilities)

\* receiveNodeJoinEvent, of a node that is not known, and onNodeJoin.
Join(d) == WLock("z.nodeLock") \o Do("createNode") \o CreateDevice(d) \o Do("startEnumeration")

\* receiveNodeLeaveEvent, of a node that is known.
Leave == Pass("z.nodeLock") \o Do("snapshot")
RemoveNode == WLock("z.nodeLock") \o Do("dropNode")

\* What the reader of an event calls: Devices of the gateway, Capability or
\* Capabilities of a device, Enumerate of its enumeration.
Call(what, d) ==
  CASE what = "devices"    -> WLock("z.nodeLock") \o Do("list") \o Unlock("z.nodeLock")
    [] what = "capability" -> Pass(d)
    [] what = "enumerate"  -> Do("startEnumeration")

-----------------------------------------------------------------------------
Init ==
  /\ code = [g \in Goroutine |-> <<>>]
  /\ readers = [l \in Lock |-> {}] /\ owner = [l \in Lock |-> Nobody]
  /\ channel = <<>>
  /\ known = FALSE /\ device = {}
  /\ free = TRUE /\ enumerating = FALSE
  /\ made = {} /\ calls = 0 /\ surveys = 0
  /\ told = [d \in Dev |-> "absent"]

At(g, what) == code[g] # <<>> /\ Head(code[g])[1] = what
Arg(g)      == Head(code[g])[2]

\* The instruction is replaced by what it stands for; Done removes it.
Becomes(g, program) == code' = [code EXCEPT ![g] = program \o Tail(@)]
Done(g) == Becomes(g, <<>>)
Begins(g, program) == code' = [code EXCEPT ![g] = program]

-----------------------------------------------------------------------------
\* sync.RWMutex.  A writer that waits keeps new readers out.
Shares(g, l) ==
  owner[l] = Nobody /\ readers' = [readers EXCEPT ![l] = @ \cup {g}]

TakeForReading(g) ==
  /\ At(g, "rlock") /\ Shares(g, Arg(g))
  /\ Done(g)
  /\ UNCHANGED <<owner, channel, table, node, history>>

LeaveReading(g) ==
  /\ At(g, "runlock")
  /\ readers' = [readers EXCEPT ![Arg(g)] = @ \ {g}]
  /\ Done(g)
  /\ UNCHANGED <<owner, channel, table, node, history>>

AskForWriting(g) ==
  /\ At(g, "lock") /\ owner[Arg(g)] = Nobody
  /\ owner' = [owner EXCEPT ![Arg(g)] = g]
  /\ Becomes(g, With("acquire", Arg(g)))
  /\ UNCHANGED <<readers, channel, table, node, history>>

TakeForWriting(g) ==
  /\ At(g, "acquire") /\ readers[Arg(g)] = {}
  /\ Done(g)
  /\ UNCHANGED <<locks, channel, table, node, history>>

PassReading(g) ==
  /\ At(g, "pass") /\ owner[Arg(g)] = Nobody
  /\ Done(g)
  /\ UNCHANGED <<locks, channel, table, node, history>>

Releases(l) == owner' = [owner EXCEPT ![l] = Nobody]

LeaveWriting(g) ==
  /\ \/ At(g, "unlock")
     \/ At(g, "brief") /\ readers[Arg(g)] = {}
  /\ Releases(Arg(g))
  /\ Done(g)
  /\ UNCHANGED <<readers, channel, table, node, history>>

\* sendEvent.
SendEvent(g) ==
  /\ At(g, "send") /\ channel = <<>>
  /\ channel' = <<Arg(g)>>
  /\ Done(g)
  /\ UNCHANGED <<locks, table, node, history>>

\* What an event tells its reader.
Tells(e) ==
  CASE e.kind = "added"   -> [told EXCEPT ![e.dev] = "idle"]
    [] e.kind = "start"   -> [told EXCEPT ![e.dev] = "enumerating"]
    [] e.kind = "stopped" -> [told EXCEPT ![e.dev] = "idle"]
    [] e.kind = "removed" -> [told EXCEPT ![e.dev] = "absent"]
    [] OTHER              -> told

\* ReadEvent, and what its caller does with the event before it reads another.
ReadEvent ==
  /\ code["consumer"] = <<>> /\ channel # <<>>
  /\ channel' = <<>> /\ told' = Tells(Head(channel))
  /\ \/ UNCHANGED <<code, calls>>
     \/ \E what \in Calls :
          /\ calls < MaxCalls /\ calls' = calls + 1
          /\ Begins("consumer", Call(what, Head(channel).dev))
  /\ UNCHANGED <<locks, table, node, made, surveys>>

-----------------------------------------------------------------------------
\* startEnumeration: refused while another holds the semaphore.  The goroutine
\* it starts is one that Session, a bound, has to spare.
StartEnumeration(g) ==
  /\ At(g, "startEnumeration")
  /\ \/ ~free /\ Done(g) /\ UNCHANGED free
     \/ /\ free /\ free' = FALSE /\ \E s \in Session : code[s] = <<>>
        /\ LET s == CHOOSE s \in Session : code[s] = <<>>
           IN  code' = [code EXCEPT ![g] = Tail(@), ![s] = Enumerate]
  /\ UNCHANGED <<locks, channel, table, enumerating, history>>

Begin(g) ==
  /\ At(g, "begin")
  /\ enumerating' = TRUE
  /\ Done(g)
  /\ UNCHANGED <<locks, channel, table, free, history>>

\* The node's devices in the order its map gives them, with its mutex held.
EachDevice(g, Program(_)) ==
  /\ Shares(g, "n.m")
  /\ \E q \in SetToSeqs(device) : Becomes(g, ForEach(q, Program) \o RUnlock("n.m"))

SendStart(d) == Send("start", d)

\* Mutant of Starts: the devices are copied and the lock released first.
StartsUnlocked(g) ==
  /\ At(g, "starts") /\ owner["n.m"] = Nobody
  /\ \E q \in SetToSeqs(device) : Becomes(g, ForEach(q, SendStart))
  /\ UNCHANGED <<locks, channel, table, node, history>>

Starts(g) ==
  /\ At(g, "starts") /\ EachDevice(g, SendStart)
  /\ UNCHANGED <<owner, channel, table, node, history>>

LookAt(g) ==
  /\ At(g, "look") /\ EachDevice(g, Pass)
  /\ UNCHANGED <<owner, channel, table, node, history>>

\* Mutant of Interrogate: an error returns past the deferred function.
InterrogateAndReturn(g) ==
  /\ At(g, "interrogate")
  /\ \/ Done(g) /\ UNCHANGED surveys
     \/ /\ surveys < MaxSurveys /\ surveys' = surveys + 1
        /\ Becomes(g, Do("survey") \o Finish)
  /\ UNCHANGED <<locks, channel, table, node, made, calls, told>>

\* interrogateNode and runRules: they fail, or the endpoints are known.
Interrogate(g) ==
  /\ At(g, "interrogate")
  /\ \/ Becomes(g, Finish) /\ UNCHANGED surveys
     \/ /\ surveys < MaxSurveys /\ surveys' = surveys + 1
        /\ Becomes(g, Do("survey") \o Finish)
  /\ UNCHANGED <<locks, channel, table, node, made, calls, told>>

\* updateNodeTable finds which devices an endpoint is left for, and how many are
\* to be made.
Survey(g) ==
  /\ At(g, "survey") /\ Shares(g, "n.m")
  /\ \E stay \in SUBSET device, new \in SUBSET (Dev \ made) :
       \E p \in SetToSeqs(stay), q \in SetToSeqs(new), r \in SetToSeqs(device \ stay) :
         Becomes(g, UpdateNodeTable(p, q, r))
  /\ UNCHANGED <<owner, channel, table, node, history>>

\* The capabilities of a device, which are attached or detached, each with an
\* event: there may be none.
Attach(g) ==
  /\ At(g, "attach")
  /\ \E events \in {<<>>, Send("capability", Arg(g))} : Becomes(g, events)
  /\ UNCHANGED <<locks, channel, table, node, history>>

\* Mutant of Release: the semaphore alone is released.
ReleaseOnly(g) ==
  /\ At(g, "release")
  /\ free' = TRUE
  /\ Done(g)
  /\ UNCHANGED <<locks, channel, table, enumerating, history>>

Release(g) ==
  /\ At(g, "release")
  /\ enumerating' = FALSE /\ free' = TRUE
  /\ Done(g)
  /\ UNCHANGED <<locks, channel, table, history>>

\* The deferred function reads a status and sends it, device by device.
StopOne(d) == With("status", d)

\* Mutant of Stops: the lock is not released.
StopsHolding(g) ==
  /\ At(g, "stops") /\ Shares(g, "n.m")
  /\ \E q \in SetToSeqs(device) : Becomes(g, ForEach(q, StopOne))
  /\ UNCHANGED <<owner, channel, table, node, history>>

Stops(g) ==
  /\ At(g, "stops") /\ EachDevice(g, StopOne)
  /\ UNCHANGED <<owner, channel, table, node, history>>

\* Status: the state of the enumeration is copied, to be sent later.
Status(g) ==
  /\ At(g, "status") /\ owner[Arg(g)] = Nobody
  /\ Becomes(g,
       <<<<"send", [kind |-> "stopped", dev |-> Arg(g), enumerating |-> enumerating]>>>>)
  /\ UNCHANGED <<locks, channel, table, node, history>>

-----------------------------------------------------------------------------
\* createSpecificDevice, the table.
Put(g) ==
  /\ At(g, "put")
  /\ device' = device \cup {Arg(g)} /\ made' = made \cup {Arg(g)}
  /\ Done(g)
  /\ UNCHANGED <<locks, channel, known, node, calls, surveys, told>>

\* removeDevice: nothing if the node is gone,
GetNode(g) ==
  /\ At(g, "getNode") /\ owner["z.nodeLock"] = Nobody
  /\ Becomes(g, IF known THEN RemoveFromNode(Arg(g)) ELSE <<>>)
  /\ UNCHANGED <<locks, channel, table, node, history>>

\* or the device;
RemoveIfThere(g) ==
  /\ At(g, "remove")
  /\ Becomes(g, IF Arg(g) \in device THEN RemoveFound(Arg(g)) ELSE Unlock("n.m"))
  /\ UNCHANGED <<locks, channel, table, node, history>>

\* it leaves the table after its events, and the node's mutex is freed.
Drop(g) ==
  /\ At(g, "drop")
  /\ device' = device \ {Arg(g)} /\ Releases("n.m")
  /\ Done(g)
  /\ UNCHANGED <<readers, channel, known, node, history>>

\* getDevicesOnNode, for receiveNodeLeaveEvent: then the devices are removed one
\* at a time, and the node.
Snapshot(g) ==
  /\ At(g, "snapshot") /\ owner["n.m"] = Nobody
  /\ \E q \in SetToSeqs(device) : Becomes(g, ForEach(q, RemoveDevice) \o RemoveNode)
  /\ UNCHANGED <<locks, channel, table, node, history>>

\* createNode and removeNode, the table.
SetKnown(g) ==
  /\ At(g, "createNode") \/ At(g, "dropNode")
  /\ known' = At(g, "createNode") /\ Releases("z.nodeLock")
  /\ Done(g)
  /\ UNCHANGED <<readers, channel, device, node, history>>

\* getDevices: each node in turn, with the lock of the gateway held for writing.
List(g) ==
  /\ At(g, "list")
  /\ Becomes(g, IF known THEN Pass("n.m") ELSE <<>>)
  /\ UNCHANGED <<locks, channel, table, node, history>>

\* providerLoop: an event of the provider.  A report of an attribute ends in an
\* event that is sent with no lock held.
Receive ==
  /\ code["loop"] = <<>>
  /\ \/ made = {} /\ Begins("loop", Join(CHOOSE d \in Dev : TRUE))
     \/ known /\ Begins("loop", Leave)
     \/ device # {} /\ Begins("loop", Send("reading", CHOOSE d \in device : TRUE))
  /\ UNCHANGED <<locks, channel, table, node, history>>

-----------------------------------------------------------------------------
Step(g) ==
  \/ TakeForReading(g) \/ LeaveReading(g) \/ PassReading(g)
  \/ AskForWriting(g) \/ TakeForWriting(g) \/ LeaveWriting(g)
  \/ SendEvent(g) \/ StartEnumeration(g) \/ Begin(g) \/ Starts(g) \/ LookAt(g)
  \/ Interrogate(g) \/ Survey(g) \/ Attach(g) \/ Release(g) \/ Stops(g) \/ Status(g)
  \/ Put(g) \/ GetNode(g) \/ RemoveIfThere(g) \/ Drop(g)
  \/ Snapshot(g) \/ SetKnown(g) \/ List(g)

Next == ReadEvent \/ Receive \/ \E g \in Goroutine : Step(g)

Spec == Init /\ [][Next]_vars

\* A goroutine that can run does so in the end.  Those that wait for the channel
\* or for a mutex are served in turn, so it is enough that their turn comes again
\* and again.  The reader of events keeps reading.
FairSpec ==
  Spec /\ WF_vars(ReadEvent) /\ \A g \in Goroutine : SF_vars(Step(g))

-----------------------------------------------------------------------------
\* A goroutine that has something to do and cannot do it now.
Waiting(g) ==
  \/ At(g, "send") /\ channel # <<>>
  \/ \E op \in {"rlock", "pass", "lock", "status"} : At(g, op) /\ owner[Arg(g)] # Nobody
  \/ At(g, "getNode") /\ owner["z.nodeLock"] # Nobody
  \/ \E op \in {"starts", "stops", "look", "survey", "snapshot"} :
       At(g, op) /\ owner["n.m"] # Nobody
  \/ \E op \in {"acquire", "brief"} : At(g, op) /\ readers[Arg(g)] # {}
Busy(g) == code[g] # <<>>

\* Nobody can go on: whoever has something to do waits, and no event is read.
Stuck ==
  /\ \E g \in Goroutine : Busy(g)
  /\ \A g \in Goroutine : Busy(g) => Waiting(g)
  /\ channel # <<>> => Busy("consumer")

\* The mutexes are taken in one order, gateway, node, device, and a goroutine
\* that sends with some of them held waits for the reader alone: the goroutines
\* block each other for good only if the reader, between two reads, called
\* something that takes a mutex itself.
OnlyACallBlocks == Stuck => Busy("consumer")

\* Short of that, the provider loop is never held up for good: whatever handler
\* it runs gets its mutexes and sends its events, and the loop returns to the
\* provider for the next event.
LoopReturns == Busy("loop") ~> (~Busy("loop") \/ (Stuck /\ Busy("consumer")))

\* When no enumeration runs and every event was read, the reader has been told
\* of the end of every enumeration it was told of, whatever came between: a
\* failed interrogation, a device made or removed meanwhile, the next
\* enumeration begun before the last of the Stopped events.
ToldStopped ==
  (channel = <<>> /\ \A s \in Session : ~Busy(s))
    => \A d \in Dev : told[d] # "enumerating"

\* The Start and Stopped events are sent under the node's mutex, so the reader
\* gets none of a device it has been told is gone, or has not been told of.
SessionEventsOfListed ==
  channel # <<>> =>
    (Head(channel).kind \in {"start", "stopped"} => told[Head(channel).dev] # "absent")

\* The status in a Stopped event says that the enumeration is over, unless
\* another was asked for before the status was read.
StoppedUnlessAsked ==
  channel # <<>> =>
    (Head(channel).kind = "stopped" /\ Head(channel).enumerating => calls > 0)
=============================================================================
