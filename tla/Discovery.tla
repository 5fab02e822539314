------------------------------ MODULE Discovery ------------------------------
(***************************************************************************)
(* The Android side of peer discovery: DiscoveryHandler, which serves the  *)
(* platform channel, and the managers it creates, WifiDirectManager        *)
(* (Wi-Fi P2P) and WifiAwareManagerWrapper (NAN).                          *)
(*                                                                         *)
(* Everything runs on Android's main thread, so a handler is one step, but *)
(* what a handler starts is not over when it returns: a coroutine waits    *)
(* its turn in launched, and each request to the Wi-Fi service waits in    *)
(* pending for the callback that answers it.  A manager is a number, given *)
(* in the order of creation; a manager the handler has dropped keeps its   *)
(* fields for the callbacks that still hold it.                            *)
(*                                                                         *)
(* External, modelled by how the managers use it: the devices in range     *)
(* (visible), the Wi-Fi Direct group this device is a member of (group,    *)
(* without itself) and who owns it (owner).                                *)
(***************************************************************************)
EXTENDS Naturals, FiniteSets, Sequences

CONSTANTS
  Peers,        \* the other devices
  Self,         \* this device
  MaxManagers,  \* bound: managers created in the life of the handler
  MaxLaunched,  \* bound: coroutines waiting at once
  MaxPending    \* bound: unanswered requests when a call or the world adds one

ASSUME ConstantsAssumption ==
  /\ Self \notin Peers
  /\ MaxManagers \in Nat \ {0}
  /\ MaxLaunched \in Nat /\ MaxPending \in Nat

VARIABLES
  mode,        \* currentMode
  launched,    \* coroutines launched on the main dispatcher, not yet run
  created,     \* how many managers were created
  direct,      \* wifiDirectManager, or None
  aware,       \* wifiAwareManager, or None
  listening,   \* whether eventSink is set
  permitted,   \* whether the permissions are granted
  destroyed,   \* whether the activity is destroyed
  listed,      \* manager -> latestDevices, discoveredPeers
  linked,      \* manager -> connectedDeviceAddresses, connectedPeerIds
  receiving,   \* managers whose broadcast receiver is registered
  sessions,    \* managers that hold an open awareSession
  services,    \* managers that publish or subscribe in that session
  pending,     \* requests the Wi-Fi service has not answered
  shown,       \* the list last pushed to Dart
  visible, forming, group, owner

handler  == <<mode, launched, created, direct, aware, listening, permitted, destroyed>>
managers == <<listed, linked, receiving, sessions, services, pending>>
radio    == <<visible, forming, group, owner>>
vars     == <<handler, managers, shown, radio>>

Modes    == {"max_speed", "keep_internet"}
None     == 0
Managers == 1..MaxManagers
NoPeer   == Self
Jobs     == [job : {"start"}, peer : {NoPeer}] \cup [job : {"connect"}, peer : Peers]
Requests == [call : {"peers", "attach", "publish", "subscribe"}, by : Managers, peer : {NoPeer}]
            \cup [call : {"connect", "remove", "info"}, by : Managers, peer : Peers]
Nothing  == [by |-> None, peers |-> {}, linked |-> {}]

HandlerOK ==
  /\ mode \in Modes
  /\ listening \in BOOLEAN /\ permitted \in BOOLEAN /\ destroyed \in BOOLEAN
QueueOK    == launched \in Seq(Jobs) /\ Len(launched) <= MaxLaunched
BackendsOK == created \in 0..MaxManagers /\ direct \in 0..created /\ aware \in 0..created
ListsOK    == listed \in [Managers -> SUBSET Peers] /\ linked \in [Managers -> SUBSET Peers]
SessionsOK ==
  /\ receiving \subseteq 1..created
  /\ sessions \subseteq 1..created /\ services \subseteq 1..created
RequestsOK == pending \subseteq {r \in Requests : r.by <= created}
ShownOK    == shown \in [by : 0..created, peers : SUBSET Peers, linked : SUBSET Peers]
RadioOK ==
  /\ visible \subseteq Peers /\ forming \subseteq Peers /\ group \subseteq Peers
  /\ owner \in Peers \cup {Self}

TypeOK ==
  HandlerOK /\ QueueOK /\ BackendsOK /\ ListsOK /\ SessionsOK /\ RequestsOK /\ ShownOK /\ RadioOK

Init ==
  /\ mode = "max_speed" /\ launched = <<>> /\ created = 0
  /\ direct = None /\ aware = None /\ listening = FALSE
  /\ permitted \in BOOLEAN /\ destroyed = FALSE
  /\ listed = [g \in Managers |-> {}] /\ linked = [g \in Managers |-> {}]
  /\ receiving = {} /\ sessions = {} /\ services = {} /\ pending = {}
  /\ shown = Nothing
  /\ visible = {} /\ forming = {} /\ group = {} /\ owner = Self

Room == Cardinality(pending) + Len(launched) < MaxPending

Request(c, g, p) == [call |-> c, by |-> g, peer |-> p]

\* emitPeers: the list of manager g, through the sink if there is one.
Emit(g) ==
  shown' = IF listening
             THEN [by |-> g, peers |-> listed'[g], linked |-> linked'[g] \cap listed'[g]]
             ELSE shown

------------------------------------------------------------------------------
(* The handler. *)

SetMode(m) ==
  /\ ~destroyed
  /\ mode' = m
  /\ UNCHANGED <<launched, created, direct, aware, listening, permitted, destroyed>>
  /\ UNCHANGED <<managers, shown, radio>>

Launch(j) ==
  /\ ~destroyed /\ Len(launched) < MaxLaunched
  /\ launched' = Append(launched, j)
  /\ UNCHANGED <<mode, created, direct, aware, listening, permitted, destroyed>>
  /\ UNCHANGED <<managers, shown, radio>>

StartsWaiting == Cardinality({i \in DOMAIN launched : launched[i].job = "start"})

StartDiscovery ==
  /\ created + StartsWaiting < MaxManagers
  /\ Launch([job |-> "start", peer |-> NoPeer])

ConnectToPeer(p) == Room /\ Launch([job |-> "connect", peer |-> p])

\* What stopping leaves of the managers' fields: closing a session also ends
\* the publish and subscribe requests made in it.
Stopped == {direct, aware} \ {None}
ListedWhenStopped    == [g \in Managers |-> IF g \in Stopped THEN {} ELSE listed[g]]
ReceivingWhenStopped == receiving \ {direct}
SessionsWhenStopped  == sessions \ {aware}
PendingWhenStopped   ==
  {r \in pending : ~(r.call \in {"publish", "subscribe"} /\ r.by = aware)}

StopInternal ==
  /\ direct' = None /\ aware' = None
  /\ listed' = ListedWhenStopped
  /\ receiving' = ReceivingWhenStopped
  /\ sessions' = SessionsWhenStopped /\ services' = services \cap SessionsWhenStopped
  /\ pending' = PendingWhenStopped
  /\ UNCHANGED linked

StopDiscovery ==
  /\ ~destroyed
  /\ StopInternal
  /\ UNCHANGED <<mode, launched, created, listening, permitted, destroyed, shown, radio>>

\* Mutant: a new manager is started beside the running one.
StartInternal_NoStop ==
  LET g == created + 1 IN
  /\ created' = g
  /\ IF mode = "keep_internet"
       THEN /\ aware' = g /\ pending' = pending \cup {Request("attach", g, NoPeer)}
            /\ UNCHANGED <<direct, receiving>>
       ELSE /\ direct' = g /\ receiving' = receiving \cup {g}
            /\ UNCHANGED <<aware, pending>>
  /\ UNCHANGED <<listed, linked, sessions, services>>

\* Mutant: the previous session is cleaned up after the new one is started.
StartInternal_StopLast == created' = created + 1 /\ StopInternal

\* The started manager: Wi-Fi Direct registers its receiver at once, Wi-Fi
\* Aware has asked to attach.
StartInternal ==
  LET g == created + 1 IN
  /\ created' = g
  /\ listed' = ListedWhenStopped
  /\ sessions' = SessionsWhenStopped /\ services' = services \cap SessionsWhenStopped
  /\ IF mode = "keep_internet"
       THEN /\ direct' = None /\ aware' = g
            /\ receiving' = ReceivingWhenStopped
            /\ pending' = PendingWhenStopped \cup {Request("attach", g, NoPeer)}
       ELSE /\ direct' = g /\ aware' = None
            /\ receiving' = ReceivingWhenStopped \cup {g}
            /\ pending' = PendingWhenStopped
  /\ UNCHANGED linked

TakeJob(j) == launched # <<>> /\ Head(launched).job = j /\ launched' = Tail(launched)

RunStart ==
  /\ TakeJob("start") /\ permitted
  /\ created < MaxManagers  \* the bound, for which StartDiscovery leaves room
  /\ StartInternal
  /\ UNCHANGED <<mode, listening, permitted, destroyed, shown, radio>>

RunStartDenied ==
  /\ TakeJob("start") /\ ~permitted
  /\ UNCHANGED <<mode, created, direct, aware, listening, permitted, destroyed>>
  /\ UNCHANGED <<managers, shown, radio>>

\* The manager currentMode selects, which may be none.
Selected == IF mode = "keep_internet" THEN aware ELSE direct
Knows(p) == Selected # None /\ p \in listed[Selected]

RunConnectAware ==
  /\ TakeJob("connect") /\ mode = "keep_internet" /\ Knows(Head(launched).peer)
  /\ linked' = [linked EXCEPT ![aware] = @ \cup {Head(launched).peer}]
  /\ UNCHANGED <<listed, receiving, sessions, services, pending>>
  /\ Emit(aware)
  /\ UNCHANGED <<mode, created, direct, aware, listening, permitted, destroyed, radio>>

RunConnectDirect ==
  /\ TakeJob("connect") /\ mode = "max_speed" /\ Knows(Head(launched).peer)
  /\ pending' = pending \cup {Request("connect", direct, Head(launched).peer)}
  /\ UNCHANGED <<listed, linked, receiving, sessions, services>>
  /\ UNCHANGED <<mode, created, direct, aware, listening, permitted, destroyed, shown, radio>>

RunConnectUnknown ==
  /\ TakeJob("connect") /\ ~Knows(Head(launched).peer)
  /\ UNCHANGED <<mode, created, direct, aware, listening, permitted, destroyed>>
  /\ UNCHANGED <<managers, shown, radio>>

DisconnectAware(p) ==
  /\ ~destroyed /\ mode = "keep_internet" /\ aware # None
  /\ linked' = [linked EXCEPT ![aware] = @ \ {p}]
  /\ UNCHANGED <<listed, receiving, sessions, services, pending>>
  /\ Emit(aware)
  /\ UNCHANGED <<handler, radio>>

\* Mutant: the manager is not tested for null.
DisconnectDirect_NoTest(p) ==
  /\ ~destroyed /\ mode = "max_speed" /\ Room
  /\ linked' = [linked EXCEPT ![direct] = @ \ {p}]
  /\ pending' = pending \cup {Request("remove", direct, p)}
  /\ UNCHANGED <<listed, receiving, sessions, services>>
  /\ UNCHANGED <<handler, shown, radio>>

DisconnectDirect(p) ==
  /\ ~destroyed /\ mode = "max_speed" /\ direct # None /\ Room
  /\ linked' = [linked EXCEPT ![direct] = @ \ {p}]
  /\ pending' = pending \cup {Request("remove", direct, p)}
  /\ UNCHANGED <<listed, receiving, sessions, services>>
  /\ UNCHANGED <<handler, shown, radio>>

GetConnectionInfo(p) ==
  /\ ~destroyed /\ mode = "max_speed" /\ direct # None /\ Room
  /\ pending' = pending \cup {Request("info", direct, p)}
  /\ UNCHANGED <<listed, linked, receiving, sessions, services>>
  /\ UNCHANGED <<handler, shown, radio>>

\* A new subscription on the Dart side starts from no list.
OnListen ==
  /\ ~destroyed /\ ~listening
  /\ listening' = TRUE /\ shown' = Nothing
  /\ UNCHANGED <<mode, launched, created, direct, aware, permitted, destroyed, managers, radio>>

OnCancel ==
  /\ ~destroyed /\ listening
  /\ listening' = FALSE /\ shown' = Nothing
  /\ UNCHANGED <<mode, launched, created, direct, aware, permitted, destroyed, managers, radio>>

\* Mutant: the scope is not cancelled.
Destroy_KeepsScope ==
  /\ ~destroyed
  /\ destroyed' = TRUE
  /\ StopInternal /\ listening' = FALSE
  /\ UNCHANGED <<mode, launched, created, permitted, shown, radio>>

\* Mutant: cleanup does not drop the sink.
Destroy_KeepsSink ==
  /\ ~destroyed
  /\ destroyed' = TRUE
  /\ StopInternal /\ launched' = <<>>
  /\ UNCHANGED <<mode, listening, created, permitted, shown, radio>>

\* onDestroy: cleanup, then the scope is cancelled with all that waits in it.
Destroy ==
  /\ ~destroyed
  /\ destroyed' = TRUE
  /\ StopInternal /\ listening' = FALSE /\ launched' = <<>>
  /\ UNCHANGED <<mode, created, permitted, shown, radio>>

\* The user answers the request ensurePermissions made.
Grant ==
  /\ ~permitted /\ permitted' = TRUE
  /\ UNCHANGED <<mode, launched, created, direct, aware, listening, destroyed>>
  /\ UNCHANGED <<managers, shown, radio>>

------------------------------------------------------------------------------
(* The Wi-Fi service: its broadcasts and its answers. *)

Broadcast ==
  /\ Room
  /\ pending' = pending \cup {Request("peers", g, NoPeer) : g \in receiving}

InRange(V) ==
  /\ visible' = V /\ Broadcast
  /\ UNCHANGED <<listed, linked, receiving, sessions, services, handler, shown, forming, group, owner>>

Appear(p) == p \notin visible /\ InRange(visible \cup {p})
Vanish(p) == p \in visible /\ InRange(visible \ {p})

\* A connection that was accepted comes up, or does not.
Formed(p) ==
  /\ p \in forming /\ forming' = forming \ {p}
  /\ group' = group \cup {p}
  /\ owner' \in IF group = {} THEN {Self, p} ELSE {owner}
  /\ Broadcast
  /\ UNCHANGED <<listed, linked, receiving, sessions, services, handler, shown, visible>>

NotFormed(p) ==
  /\ p \in forming /\ forming' = forming \ {p}
  /\ Broadcast
  /\ UNCHANGED <<listed, linked, receiving, sessions, services, handler, shown, visible, group, owner>>

GroupLost ==
  /\ group # {} /\ group' = {} /\ owner' = Self
  /\ Broadcast
  /\ UNCHANGED <<listed, linked, receiving, sessions, services, handler, shown, visible, forming>>

Answered(r) == r \in pending /\ pending' = pending \ {r}

\* Mutant: devices are added to the list, never replaced.
PeersReply_Adds(g) ==
  /\ Answered(Request("peers", g, NoPeer))
  /\ listed' = [listed EXCEPT ![g] = @ \cup visible]
  /\ UNCHANGED <<linked, receiving, sessions, services>>
  /\ Emit(g)
  /\ UNCHANGED <<handler, radio>>

PeersReply(g) ==
  /\ Answered(Request("peers", g, NoPeer))
  /\ listed' = [listed EXCEPT ![g] = visible]
  /\ UNCHANGED <<linked, receiving, sessions, services>>
  /\ Emit(g)
  /\ UNCHANGED <<handler, radio>>

\* Mutant: the mark is not pushed to Dart.
ConnectAccepted_Silent(g, p) ==
  /\ Answered(Request("connect", g, p))
  /\ linked' = [linked EXCEPT ![g] = @ \cup {p}]
  /\ UNCHANGED <<listed, receiving, sessions, services, handler, shown>>
  /\ forming' = (forming \cup {p}) \ group
  /\ UNCHANGED <<visible, group, owner>>

ConnectAccepted(g, p) ==
  /\ Answered(Request("connect", g, p))
  /\ linked' = [linked EXCEPT ![g] = @ \cup {p}]
  /\ UNCHANGED <<listed, receiving, sessions, services>>
  /\ Emit(g)
  /\ forming' = (forming \cup {p}) \ group
  /\ UNCHANGED <<handler, visible, group, owner>>

\* Answers that change nothing: a refused connect or removal, and the reply
\* to requestConnectionInfo, which only goes back to Dart.
Unavailing(r) ==
  /\ r.call \in {"connect", "remove", "info"} /\ Answered(r)
  /\ UNCHANGED <<listed, linked, receiving, sessions, services, handler, shown, radio>>

RemoveDone(g, p) ==
  /\ group # {}
  /\ group' = {} /\ owner' = Self
  /\ Request("remove", g, p) \in pending
  /\ pending' = (pending \ {Request("remove", g, p)})
                  \cup {Request("peers", h, NoPeer) : h \in receiving}
  /\ UNCHANGED <<listed, linked, receiving, sessions, services>>
  /\ Emit(g)
  /\ UNCHANGED <<handler, visible, forming>>

\* onAttached: the session is kept and both services are asked for.
Attached(g) ==
  /\ Request("attach", g, NoPeer) \in pending
  /\ sessions' = sessions \cup {g}
  /\ pending' = (pending \ {Request("attach", g, NoPeer)})
                  \cup {Request(c, g, NoPeer) : c \in {"publish", "subscribe"}}
  /\ UNCHANGED <<listed, linked, receiving, services, handler, shown, radio>>

AttachFailed(g) ==
  /\ Answered(Request("attach", g, NoPeer))
  /\ UNCHANGED <<listed, linked, receiving, sessions, services, handler, shown, radio>>

ServiceStarted(g) ==
  /\ \E c \in {"publish", "subscribe"} : Answered(Request(c, g, NoPeer))
  /\ services' = services \cup {g}
  /\ UNCHANGED <<listed, linked, receiving, sessions, handler, shown, radio>>

\* addPeer, from a discovered service or from a HELLO message.
AddPeer(g, p) ==
  /\ g \in services /\ p \in visible \ listed[g]
  /\ listed' = [listed EXCEPT ![g] = @ \cup {p}]
  /\ UNCHANGED <<linked, receiving, sessions, services, pending>>
  /\ Emit(g)
  /\ UNCHANGED <<handler, radio>>

------------------------------------------------------------------------------
Calls ==
  \/ \E m \in Modes : SetMode(m)
  \/ StartDiscovery \/ StopDiscovery \/ OnListen \/ OnCancel \/ Destroy
  \/ \E p \in Peers : \/ ConnectToPeer(p) \/ GetConnectionInfo(p)
                      \/ DisconnectAware(p) \/ DisconnectDirect(p)

Coroutine == RunStart \/ RunStartDenied \/ RunConnectAware \/ RunConnectDirect \/ RunConnectUnknown

Answer ==
  \E g \in Managers :
     \/ PeersReply(g) \/ Attached(g) \/ AttachFailed(g) \/ ServiceStarted(g)
     \/ \E p \in Peers : ConnectAccepted(g, p) \/ RemoveDone(g, p) \/ AddPeer(g, p)
     \/ \E r \in pending : r.by = g /\ Unavailing(r)

World ==
  \/ Grant \/ GroupLost
  \/ \E p \in Peers : Appear(p) \/ Vanish(p) \/ Formed(p) \/ NotFormed(p)

Next == Calls \/ Coroutine \/ Answer \/ World

Spec == Init /\ [][Next]_vars

\* The main thread runs the coroutines that wait for it.
FairSpec == Spec /\ WF_vars(Coroutine)

------------------------------------------------------------------------------
(* Properties. *)

\* However starts, stops and changes of mode follow each other, at most one
\* backend runs, and the only receiver registered is its own.
OneBackend ==
  /\ direct = None \/ aware = None
  /\ receiving = {direct} \ {None}

\* The Wi-Fi Direct list misses no broadcast: once the peers it asked for are
\* in, it is what is in range (or empty, before the first broadcast).
FreshList ==
  direct # None /\ Request("peers", direct, NoPeer) \notin pending =>
    listed[direct] \in {{}, visible}

\* What Dart was last shown of the running backend is its list, with every
\* connection the backend has marked.
ShownIsCurrent ==
  LET g == shown.by IN
  g # None /\ g \in {direct, aware} =>
    /\ shown.peers = listed[g]
    /\ linked[g] \cap listed[g] \subseteq shown.linked

\* Once the activity is destroyed, callbacks that come late start nothing and
\* push nothing to Dart (MainActivity: in-flight work "is cancelled cleanly").
DestroyedIsQuiet == [][destroyed => UNCHANGED <<shown, created, direct, aware, receiving>>]_vars

\* A start that waits its turn leaves a backend running, unless permission is
\* missing or the activity goes away.
StartTakes ==
  StartsWaiting > 0 ~> (direct # None \/ aware # None \/ ~permitted \/ destroyed)

\* The inductive invariant of the proofs: what makes the properties above
\* survive a step.  Services belong to open sessions, and neither a session nor a request
\* for one to a Wi-Fi Direct manager; a manager not yet created lists nothing, a silent sink has shown
\* nothing, and a destroyed activity left nothing behind.
SessionInv ==
  /\ services \subseteq sessions /\ direct \notin sessions
  /\ \A r \in pending : r.call \in {"publish", "subscribe"} => r.by \in sessions
  /\ \A r \in pending : r.call = "attach" => r.by # direct
NothingListedYet   == \A g \in Managers : g > created => listed[g] = {}
NothingShownUnheard == ~listening /\ ~destroyed => shown = Nothing
CleanWhenDestroyed ==
  destroyed => launched = <<>> /\ direct = None /\ aware = None /\ receiving = {} /\ ~listening

DiscoveryInv ==
  /\ TypeOK
  /\ OneBackend
  /\ FreshList
  /\ ShownIsCurrent
  /\ SessionInv
  /\ NothingListedYet
  /\ NothingShownUnheard
  /\ CleanWhenDestroyed

(* What the documentation says and the code does not do. *)

\* DiscoveryHandler: "Routes Flutter MethodChannel calls to the active
\* discovery backend".  A connect reaches the backend that runs.
RoutedToActive ==
  [][launched # <<>> /\ Head(launched).job = "connect" /\ launched' = Tail(launched) /\ ~destroyed' =>
       (direct # None => Selected = direct) /\ (aware # None => Selected = aware)]_vars
==============================================================================
