--------------------------- MODULE DiscoveryProofs ---------------------------
(***************************************************************************)
(* Theorems about Discovery for every set of peers and every bound.        *)
(***************************************************************************)
EXTENDS Discovery, TLAPS

LEMMA InitTypeOK == Init => TypeOK
<1> SUFFICES ASSUME Init PROVE TypeOK
  OBVIOUS
<1>1. HandlerOK
  BY DEF Init, HandlerOK, Modes
<1>2. QueueOK
  BY ConstantsAssumption DEF Init, QueueOK
<1>3. BackendsOK /\ SessionsOK /\ RequestsOK
  BY ConstantsAssumption DEF Init, BackendsOK, SessionsOK, RequestsOK, None
<1>4. ListsOK /\ RadioOK
  BY DEF Init, ListsOK, RadioOK
<1>5. ShownOK
  BY DEF Init, ShownOK, Nothing, None
<1> QED
  BY <1>1, <1>2, <1>3, <1>4, <1>5 DEF TypeOK

LEMMA RequestType ==
    ASSUME NEW g \in Managers
    PROVE  /\ \A c \in {"peers", "attach", "publish", "subscribe"} :
                /\ Request(c, g, NoPeer) \in Requests
                /\ Request(c, g, NoPeer).by = g
           /\ \A c \in {"connect", "remove", "info"}, p \in Peers :
                /\ Request(c, g, p) \in Requests
                /\ Request(c, g, p).by = g
BY DEF Request, Requests

LEMMA LaunchType ==
    ASSUME TypeOK, NEW j \in Jobs, Launch(j)
    PROVE  QueueOK'
BY ConstantsAssumption DEF TypeOK, QueueOK, Launch

LEMMA TakeType ==
    ASSUME TypeOK, NEW j, TakeJob(j)
    PROVE  QueueOK' /\ Head(launched) \in Jobs /\ Head(launched).job = j
BY ConstantsAssumption DEF TypeOK, QueueOK, TakeJob

LEMMA HandlerStep ==
    ASSUME TypeOK, [Next]_vars
    PROVE  HandlerOK'
<1> USE DEF TypeOK, HandlerOK, Modes, handler
<1>1. CASE Calls
  BY <1>1 DEF Calls, SetMode, StartDiscovery, ConnectToPeer, Launch, StopDiscovery, OnListen,
     OnCancel, Destroy, GetConnectionInfo, DisconnectAware, DisconnectDirect
<1>2. CASE Coroutine
  BY <1>2 DEF Coroutine, RunStart, RunStartDenied, RunConnectAware, RunConnectDirect,
     RunConnectUnknown
<1>3. CASE Answer
  BY <1>3 DEF Answer, PeersReply, Attached, AttachFailed, ServiceStarted, ConnectAccepted,
     RemoveDone, AddPeer, Unavailing
<1>4. CASE World
  BY <1>4 DEF World, Grant, GroupLost, Appear, Vanish, InRange, Formed, NotFormed
<1> QED
  BY <1>1, <1>2, <1>3, <1>4 DEF Next, vars

LEMMA QueueStep ==
    ASSUME TypeOK, [Next]_vars
    PROVE  QueueOK'
<1> USE DEF handler
<1>1. CASE Calls
  <2>1. [job |-> "start", peer |-> NoPeer] \in Jobs
        /\ \A p \in Peers : [job |-> "connect", peer |-> p] \in Jobs
    BY DEF Jobs
  <2>2. CASE StartDiscovery \/ \E p \in Peers : ConnectToPeer(p)
    BY <2>1, <2>2, LaunchType DEF StartDiscovery, ConnectToPeer
  <2>3. CASE Destroy
    BY <2>3, ConstantsAssumption DEF Destroy, QueueOK
  <2> QED
    BY <1>1, <2>2, <2>3 DEF TypeOK, QueueOK, Calls, SetMode, StopDiscovery, OnListen, OnCancel,
       GetConnectionInfo, DisconnectAware, DisconnectDirect
<1>2. CASE Coroutine
  BY <1>2, TakeType DEF Coroutine, RunStart, RunStartDenied, RunConnectAware, RunConnectDirect,
     RunConnectUnknown
<1>3. CASE Answer
  BY <1>3 DEF TypeOK, QueueOK, Answer, PeersReply, Attached, AttachFailed, ServiceStarted,
     ConnectAccepted, RemoveDone, AddPeer, Unavailing
<1>4. CASE World
  BY <1>4 DEF TypeOK, QueueOK, World, Grant, GroupLost, Appear, Vanish, InRange, Formed, NotFormed
<1> QED
  BY <1>1, <1>2, <1>3, <1>4 DEF Next, vars, TypeOK, QueueOK

LEMMA BackendsStep ==
    ASSUME TypeOK, [Next]_vars
    PROVE  BackendsOK' /\ created' \in {created, created + 1}
<1> USE ConstantsAssumption DEF TypeOK, BackendsOK, handler, None
<1>1. CASE Calls
  <2>1. CASE StopDiscovery \/ Destroy
    BY <2>1 DEF StopDiscovery, Destroy, StopInternal
  <2> QED
    BY <1>1, <2>1 DEF Calls, SetMode, StartDiscovery, ConnectToPeer, Launch, OnListen, OnCancel,
       GetConnectionInfo, DisconnectAware, DisconnectDirect
<1>2. CASE RunStart
  BY <1>2 DEF RunStart, StartInternal
<1>3. CASE Coroutine /\ ~RunStart
  BY <1>3 DEF Coroutine, RunStartDenied, RunConnectAware, RunConnectDirect, RunConnectUnknown
<1>4. CASE Answer
  BY <1>4 DEF Answer, PeersReply, Attached, AttachFailed, ServiceStarted, ConnectAccepted,
     RemoveDone, AddPeer, Unavailing
<1>5. CASE World
  BY <1>5 DEF World, Grant, GroupLost, Appear, Vanish, InRange, Formed, NotFormed
<1> QED
  BY <1>1, <1>2, <1>3, <1>4, <1>5 DEF Next, vars
LEMMA ListsStep ==
    ASSUME TypeOK, [Next]_vars
    PROVE  ListsOK'
<1> USE DEF TypeOK, ListsOK, managers
<1>1. CASE Calls
  <2>1. CASE StopDiscovery \/ Destroy
    BY <2>1 DEF StopDiscovery, Destroy, StopInternal, ListedWhenStopped
  <2> QED
    BY <1>1, <2>1 DEF Calls, SetMode, StartDiscovery, ConnectToPeer, Launch, OnListen, OnCancel,
       GetConnectionInfo, DisconnectAware, DisconnectDirect
<1>2. CASE RunStart
  BY <1>2 DEF RunStart, StartInternal, ListedWhenStopped
<1>3. CASE Coroutine /\ ~RunStart
  BY <1>3, TakeType DEF Coroutine, RunStartDenied, RunConnectAware, RunConnectDirect,
     RunConnectUnknown, Jobs, NoPeer, Knows
<1>4. CASE Answer
  BY <1>4 DEF Answer, PeersReply, Attached, AttachFailed, ServiceStarted, ConnectAccepted,
     RemoveDone, AddPeer, Unavailing, RadioOK
<1>5. CASE World
  BY <1>5 DEF World, Grant, GroupLost, Appear, Vanish, InRange, Formed, NotFormed
<1> QED
  BY <1>1, <1>2, <1>3, <1>4, <1>5 DEF Next, vars

LEMMA SessionsStep ==
    ASSUME TypeOK, [Next]_vars
    PROVE  SessionsOK'
<1>0. BackendsOK' /\ created' \in {created, created + 1} /\ created \in Nat /\ 1..created \subseteq 1..created'
  BY BackendsStep, ConstantsAssumption DEF TypeOK, BackendsOK
<1> USE <1>0 DEF TypeOK, SessionsOK, managers
<1>1. CASE Calls
  <2>1. CASE StopDiscovery \/ Destroy
    BY <2>1 DEF StopDiscovery, Destroy, StopInternal, ReceivingWhenStopped, SessionsWhenStopped
  <2> QED
    BY <1>1, <2>1 DEF Calls, SetMode, StartDiscovery, ConnectToPeer, Launch, OnListen, OnCancel,
       GetConnectionInfo, DisconnectAware, DisconnectDirect
<1>2. CASE RunStart
  <2>1. /\ sessions' = sessions \ {aware} /\ services' = services \cap sessions'
        /\ created' = created + 1
        /\ receiving' \subseteq receiving \cup {created + 1}
    BY <1>2 DEF RunStart, StartInternal, ReceivingWhenStopped, SessionsWhenStopped
  <2>2. created + 1 \in 1..created'
    BY <2>1
  <2>3. sessions' \subseteq 1..created' /\ services' \subseteq 1..created'
    BY <2>1
  <2>4. receiving' \subseteq 1..created'
    BY <2>1, <2>2
  <2> QED
    BY <2>3, <2>4
<1>3. CASE Coroutine /\ ~RunStart
  BY <1>3 DEF Coroutine, RunStartDenied, RunConnectAware, RunConnectDirect, RunConnectUnknown
<1>4. CASE Answer
  <2>1. ASSUME NEW g \in Managers, Attached(g) PROVE SessionsOK'
    BY <2>1, RequestType DEF Attached, RequestsOK, Managers, handler
  <2>2. ASSUME NEW g \in Managers, ServiceStarted(g) PROVE SessionsOK'
    BY <2>2, RequestType DEF ServiceStarted, Answered, RequestsOK, Managers, handler
  <2> QED
    BY <1>4, <2>1, <2>2 DEF Answer, PeersReply, AttachFailed, ConnectAccepted,
       RemoveDone, AddPeer, Unavailing
<1>5. CASE World
  BY <1>5 DEF World, Grant, GroupLost, Appear, Vanish, InRange, Formed, NotFormed
<1> QED
  BY <1>1, <1>2, <1>3, <1>4, <1>5 DEF Next, vars
(* What a step adds to the unanswered requests is well formed. *)
LEMMA RequestsStep ==
    ASSUME TypeOK, [Next]_vars
    PROVE  RequestsOK'
<1>0. BackendsOK' /\ created' \in {created, created + 1} /\ created \in Nat /\ created' \in Nat
  BY BackendsStep, ConstantsAssumption DEF TypeOK, BackendsOK
<1>1. SUFFICES ASSUME NEW r \in pending' \ pending
               PROVE  r \in Requests /\ r.by <= created'
  BY <1>0 DEF TypeOK, RequestsOK, Requests, Managers
<1> USE DEF TypeOK, managers
<1>2. ASSUME Broadcast, created' = created
      PROVE  r \in Requests /\ r.by <= created'
  BY <1>0, <1>1, <1>2, RequestType, ConstantsAssumption DEF Broadcast, SessionsOK, BackendsOK, Managers
<1>3. CASE Calls
  <2>1. CASE StopDiscovery \/ Destroy
    BY <1>1, <2>1 DEF StopDiscovery, Destroy, StopInternal, PendingWhenStopped
  <2>2. CASE \E p \in Peers : GetConnectionInfo(p) \/ DisconnectDirect(p)
    <3>1. PICK p \in Peers : GetConnectionInfo(p) \/ DisconnectDirect(p)
      BY <2>2
    <3>2. direct \in Managers /\ direct <= created /\ created' = created
      BY <3>1, ConstantsAssumption
      DEF GetConnectionInfo, DisconnectDirect, BackendsOK, Managers, None, handler
    <3> QED
      BY <1>1, <3>1, <3>2, RequestType DEF GetConnectionInfo, DisconnectDirect
  <2> QED
    BY <1>1, <1>3, <2>1, <2>2 DEF Calls, SetMode, StartDiscovery, ConnectToPeer, Launch, OnListen,
       OnCancel, DisconnectAware
<1>4. CASE RunStart
  <2>1. created + 1 \in Managers /\ created' = created + 1
    BY <1>0, <1>4, ConstantsAssumption DEF RunStart, StartInternal, Managers
  <2>2. r = Request("attach", created + 1, NoPeer)
    BY <1>1, <1>4 DEF RunStart, StartInternal, PendingWhenStopped
  <2> QED
    BY <1>0, <2>1, <2>2, RequestType
<1>5. CASE RunConnectDirect
  <2>1. direct \in Managers /\ direct <= created /\ created' = created
    BY <1>5, ConstantsAssumption DEF RunConnectDirect, BackendsOK, Managers, None, Knows, Selected
  <2>2. r = Request("connect", direct, Head(launched).peer) /\ Head(launched).peer \in Peers
    BY <1>1, <1>5, TakeType DEF RunConnectDirect, Jobs
  <2> QED
    BY <2>1, <2>2, RequestType
<1>6. CASE Coroutine /\ ~RunStart /\ ~RunConnectDirect
  BY <1>1, <1>6 DEF Coroutine, RunStartDenied, RunConnectAware, RunConnectUnknown
<1>7. CASE Answer
  <2>1. ASSUME NEW g \in Managers, Attached(g)
        PROVE  r \in Requests /\ r.by <= created'
    <3>1. g <= created /\ created' = created
      BY <2>1, RequestType DEF Attached, RequestsOK, handler
    <3>2. r \in {Request(c, g, NoPeer) : c \in {"publish", "subscribe"}}
      BY <1>1, <2>1 DEF Attached
    <3> QED
      BY <3>1, <3>2, RequestType
  <2>2. ASSUME NEW g \in Managers, NEW p \in Peers, RemoveDone(g, p)
        PROVE  r \in Requests /\ r.by <= created'
    <3>1. PICK h \in receiving : r = Request("peers", h, NoPeer)
      BY <1>1, <2>2 DEF RemoveDone
    <3>2. h \in Managers /\ h <= created /\ created' = created
      BY <2>2, ConstantsAssumption DEF RemoveDone, SessionsOK, BackendsOK, Managers, handler
    <3> QED
      BY <3>1, <3>2, RequestType
  <2> QED
    BY <1>1, <1>7, <2>1, <2>2 DEF Answer, PeersReply, AttachFailed, ServiceStarted, Answered,
       ConnectAccepted, AddPeer, Unavailing
<1>8. CASE World
  BY <1>1, <1>2, <1>8 DEF World, Grant, GroupLost, Appear, Vanish, InRange, Formed, NotFormed, handler
<1> QED
  BY <1>1, <1>3, <1>4, <1>5, <1>6, <1>7, <1>8 DEF Next, vars

LEMMA ShownStep ==
    ASSUME TypeOK, [Next]_vars
    PROVE  ShownOK'
<1>0. /\ BackendsOK' /\ created' \in {created, created + 1} /\ created \in Nat /\ created' \in Nat
      /\ ListsOK'
  BY BackendsStep, ListsStep, ConstantsAssumption DEF TypeOK, BackendsOK
<1>1. ASSUME shown' \in {shown, Nothing}
      PROVE  ShownOK'
  BY <1>0, <1>1 DEF TypeOK, ShownOK, Nothing, None
<1>2. ASSUME NEW g \in Managers, g <= created, created' = created, Emit(g)
      PROVE  ShownOK'
  BY <1>0, <1>2 DEF TypeOK, ShownOK, ListsOK, Emit, Managers
<1>a. aware # None => aware \in Managers /\ aware <= created
  BY ConstantsAssumption DEF TypeOK, BackendsOK, None, Managers
<1>3. CASE Calls
  <2>1. ASSUME NEW p \in Peers, DisconnectAware(p)
        PROVE  ShownOK'
    BY <1>2, <1>a, <2>1 DEF DisconnectAware, handler
  <2> QED
    BY <1>1, <1>3, <2>1 DEF Calls, SetMode, StartDiscovery, ConnectToPeer, Launch, OnListen,
       OnCancel, StopDiscovery, Destroy, GetConnectionInfo, DisconnectDirect
<1>4. CASE RunConnectAware
  BY <1>2, <1>4, <1>a DEF RunConnectAware, Knows, Selected
<1>5. CASE Coroutine /\ ~RunConnectAware
  BY <1>1, <1>5 DEF Coroutine, RunStart, RunStartDenied, RunConnectDirect, RunConnectUnknown
<1>6. CASE Answer
  <2> SUFFICES ASSUME NEW g \in Managers
               PROVE  /\ PeersReply(g) => ShownOK'
                      /\ \A p \in Peers : ConnectAccepted(g, p) \/ RemoveDone(g, p) \/ AddPeer(g, p) => ShownOK'
    BY <1>1, <1>6 DEF Answer, Attached, AttachFailed, ServiceStarted, Unavailing
  <2>1. \A c, p : Request(c, g, p) \in pending => g <= created
    BY DEF Request, TypeOK, RequestsOK
  <2>2. g \in services => g <= created
    BY <1>0 DEF TypeOK, SessionsOK
  <2> QED
    BY <1>2, <2>1, <2>2 DEF PeersReply, ConnectAccepted, RemoveDone, AddPeer, Answered, handler
<1>7. CASE World
  BY <1>1, <1>7 DEF World, Grant, GroupLost, Appear, Vanish, InRange, Formed, NotFormed
<1> QED
  BY <1>1, <1>3, <1>4, <1>5, <1>6, <1>7 DEF Next, vars

LEMMA RadioStep ==
    ASSUME TypeOK, [Next]_vars
    PROVE  RadioOK'
<1> USE DEF TypeOK, RadioOK, radio
<1>1. CASE Calls
  BY <1>1 DEF Calls, SetMode, StartDiscovery, ConnectToPeer, Launch, StopDiscovery, OnListen,
     OnCancel, Destroy, GetConnectionInfo, DisconnectAware, DisconnectDirect
<1>2. CASE Coroutine
  BY <1>2 DEF Coroutine, RunStart, RunStartDenied, RunConnectAware, RunConnectDirect,
     RunConnectUnknown
<1>3. CASE Answer
  BY <1>3 DEF Answer, PeersReply, Attached, AttachFailed, ServiceStarted, ConnectAccepted,
     RemoveDone, AddPeer, Unavailing
<1>4. CASE World
  BY <1>4 DEF World, Grant, GroupLost, Appear, Vanish, InRange, Formed, NotFormed
<1> QED
  BY <1>1, <1>2, <1>3, <1>4 DEF Next, vars

LEMMA TypeStep ==
    ASSUME TypeOK, [Next]_vars
    PROVE  TypeOK'
BY HandlerStep, QueueStep, BackendsStep, ListsStep, SessionsStep, RequestsStep, ShownStep, RadioStep
   DEF TypeOK
(* Only a start, a stop and the end of the activity change which manager runs. *)
LEMMA BackendsChange ==
    ASSUME [Next]_vars
    PROVE  StopDiscovery \/ Destroy \/ RunStart \/ UNCHANGED <<created, direct, aware, receiving>>
<1> USE DEF handler, managers
<1>1. CASE Calls
  BY <1>1 DEF Calls, SetMode, StartDiscovery, ConnectToPeer, Launch, OnListen, OnCancel,
     GetConnectionInfo, DisconnectAware, DisconnectDirect
<1>2. CASE Coroutine
  BY <1>2 DEF Coroutine, RunStartDenied, RunConnectAware, RunConnectDirect, RunConnectUnknown
<1>3. CASE Answer
  BY <1>3 DEF Answer, PeersReply, Attached, AttachFailed, ServiceStarted, ConnectAccepted,
     RemoveDone, AddPeer, Unavailing
<1>4. CASE World
  BY <1>4 DEF World, Grant, GroupLost, Appear, Vanish, InRange, Formed, NotFormed
<1> QED
  BY <1>1, <1>2, <1>3, <1>4 DEF Next, vars

LEMMA OneBackendStep ==
    ASSUME TypeOK, OneBackend, [Next]_vars
    PROVE  OneBackend'
<1>1. CASE StopDiscovery \/ Destroy
  BY <1>1 DEF OneBackend, StopDiscovery, Destroy, StopInternal, ReceivingWhenStopped
<1>2. CASE RunStart
  <2>1. ReceivingWhenStopped = {} /\ created + 1 # None
    BY ConstantsAssumption
    DEF TypeOK, BackendsOK, OneBackend, ReceivingWhenStopped, None
  <2> QED
    BY <1>2, <2>1 DEF OneBackend, RunStart, StartInternal
<1> QED
  BY <1>1, <1>2, BackendsChange DEF OneBackend

LEMMA SessionStep ==
    ASSUME TypeOK, OneBackend, SessionInv, [Next]_vars
    PROVE  SessionInv'
<1> USE DEF SessionInv, managers, handler
<1>1. CASE StopDiscovery \/ Destroy
  <2>1. direct' = None /\ None \notin sessions /\ \A r \in pending : r.by # None
    BY <1>1 DEF StopDiscovery, Destroy, StopInternal, TypeOK, SessionsOK, RequestsOK, Requests,
       Managers, None
  <2> QED
    BY <1>1, <2>1 DEF StopDiscovery, Destroy, StopInternal, SessionsWhenStopped, PendingWhenStopped
<1>2. CASE RunStart
  <2>1. /\ None \notin sessions /\ \A r \in pending : r.by # None
        /\ created + 1 \notin sessions /\ \A r \in pending : r.by # created + 1
        /\ created + 1 # None
    BY ConstantsAssumption
    DEF TypeOK, BackendsOK, SessionsOK, RequestsOK, Requests, Managers, None
  <2>2. CASE mode = "keep_internet"
    BY <1>2, <2>1, <2>2 DEF RunStart, StartInternal, SessionsWhenStopped, PendingWhenStopped, Request
  <2>3. CASE mode # "keep_internet"
    BY <1>2, <2>1, <2>3 DEF RunStart, StartInternal, SessionsWhenStopped, PendingWhenStopped
  <2> QED
    BY <2>2, <2>3
<1>3. CASE Calls /\ ~StopDiscovery /\ ~Destroy
  <2>1. ASSUME NEW p \in Peers, GetConnectionInfo(p) \/ DisconnectDirect(p)
        PROVE  SessionInv'
    BY <2>1 DEF GetConnectionInfo, DisconnectDirect, Request
  <2> QED
    BY <1>3, <2>1 DEF Calls, SetMode, StartDiscovery, ConnectToPeer, Launch, OnListen, OnCancel,
       DisconnectAware
<1>4. CASE Coroutine /\ ~RunStart
  BY <1>4 DEF Coroutine, RunStartDenied, RunConnectAware, RunConnectDirect, RunConnectUnknown, Request
<1>5. CASE Answer
  <2>1. ASSUME NEW g \in Managers, Attached(g)
        PROVE  SessionInv'
    BY <2>1 DEF Attached, Request
  <2>2. ASSUME NEW g \in Managers, ServiceStarted(g)
        PROVE  SessionInv'
    BY <2>2 DEF ServiceStarted, Answered, Request
  <2>3. ASSUME NEW g \in Managers, NEW p \in Peers, RemoveDone(g, p)
        PROVE  SessionInv'
    BY <2>3 DEF RemoveDone, Request
  <2> QED
    BY <1>5, <2>1, <2>2, <2>3 DEF Answer, PeersReply, AttachFailed, ConnectAccepted, AddPeer,
       Unavailing, Answered
<1>6. CASE World
  BY <1>6 DEF World, Grant, GroupLost, Appear, Vanish, InRange, Formed, NotFormed, Broadcast, Request
<1> QED
  BY <1>1, <1>2, <1>3, <1>4, <1>5, <1>6 DEF Next, vars

LEMMA NothingListedYetStep ==
    ASSUME TypeOK, NothingListedYet, [Next]_vars
    PROVE  NothingListedYet'
<1>0. /\ created' \in {created, created + 1} /\ created \in Nat
      /\ \A g \in Managers : g > created' => g > created
  BY BackendsStep, ConstantsAssumption DEF TypeOK, BackendsOK, Managers
<1> USE <1>0 DEF NothingListedYet, managers, handler
<1>1. CASE StopDiscovery \/ Destroy
  BY <1>1 DEF StopDiscovery, Destroy, StopInternal, ListedWhenStopped
<1>2. CASE RunStart
  BY <1>2 DEF RunStart, StartInternal, ListedWhenStopped
<1>3. CASE Calls /\ ~StopDiscovery /\ ~Destroy
  BY <1>3 DEF Calls, SetMode, StartDiscovery, ConnectToPeer, Launch, OnListen, OnCancel,
     GetConnectionInfo, DisconnectAware, DisconnectDirect
<1>4. CASE Coroutine /\ ~RunStart
  BY <1>4 DEF Coroutine, RunStartDenied, RunConnectAware, RunConnectDirect, RunConnectUnknown
<1>5. CASE Answer
  <2>1. ASSUME NEW g \in Managers, PeersReply(g)
        PROVE  NothingListedYet'
    <3>1. g <= created
      BY <2>1 DEF PeersReply, Answered, Request, TypeOK, RequestsOK
    <3>2. \A h \in Managers : h > created => listed'[h] = listed[h]
      BY <2>1, <3>1 DEF PeersReply, TypeOK, ListsOK, Managers
    <3> QED
      BY <3>2
  <2>2. ASSUME NEW g \in Managers, NEW p \in Peers, AddPeer(g, p)
        PROVE  NothingListedYet'
    <3>1. g <= created
      BY <2>2 DEF AddPeer, TypeOK, SessionsOK
    <3>2. \A h \in Managers : h > created => listed'[h] = listed[h]
      BY <2>2, <3>1 DEF AddPeer, TypeOK, ListsOK, Managers
    <3> QED
      BY <3>2
  <2> QED
    BY <1>5, <2>1, <2>2 DEF Answer, Attached, AttachFailed, ServiceStarted, ConnectAccepted,
       RemoveDone, Unavailing
<1>6. CASE World
  BY <1>6 DEF World, Grant, GroupLost, Appear, Vanish, InRange, Formed, NotFormed
<1> QED
  BY <1>1, <1>2, <1>3, <1>4, <1>5, <1>6 DEF Next, vars
LEMMA FreshListStep ==
    ASSUME TypeOK, OneBackend, FreshList, SessionInv, NothingListedYet, [Next]_vars
    PROVE  FreshList'
<1>1. CASE StopDiscovery \/ Destroy
  BY <1>1 DEF FreshList, StopDiscovery, Destroy, StopInternal
<1>2. CASE RunStart
  <2>1. created + 1 \in Managers /\ listed[created + 1] = {}
    BY <1>2, ConstantsAssumption DEF RunStart, NothingListedYet, TypeOK, BackendsOK, Managers
  <2>2. listed'[created + 1] = {}
    BY <1>2, <2>1 DEF RunStart, StartInternal, ListedWhenStopped
  <2> QED
    BY <1>2, <2>2 DEF FreshList, RunStart, StartInternal
<1> USE DEF FreshList, managers, handler, radio
<1>3. ASSUME Broadcast, direct' = direct
      PROVE  FreshList'
  BY <1>3 DEF Broadcast, OneBackend, None
<1>4. CASE Calls /\ ~StopDiscovery /\ ~Destroy
  BY <1>4 DEF Calls, SetMode, StartDiscovery, ConnectToPeer, Launch, OnListen, OnCancel,
     GetConnectionInfo, DisconnectAware, DisconnectDirect
<1>5. CASE Coroutine /\ ~RunStart
  BY <1>5 DEF Coroutine, RunStartDenied, RunConnectAware, RunConnectDirect, RunConnectUnknown
<1>6. CASE Answer
  <2>0. direct # None => direct \in Managers
    BY ConstantsAssumption DEF TypeOK, BackendsOK, None, Managers
  <2>1. ASSUME NEW g \in Managers, PeersReply(g)
        PROVE  FreshList'
    <3>1. CASE g = direct
      BY <2>1, <3>1 DEF PeersReply, TypeOK, ListsOK
    <3>2. CASE g # direct
      <4>1. Request("peers", direct, NoPeer) # Request("peers", g, NoPeer)
        BY <3>2 DEF Request
      <4>2. direct # None => listed'[direct] = listed[direct]
        BY <2>0, <2>1, <3>2 DEF PeersReply, TypeOK, ListsOK
      <4> QED
        BY <2>1, <4>1, <4>2 DEF PeersReply, Answered
    <3> QED
      BY <3>1, <3>2
  <2>2. ASSUME NEW g \in Managers, NEW p \in Peers, AddPeer(g, p)
        PROVE  FreshList'
    <3>1. direct # None => listed'[direct] = listed[direct]
      BY <2>0, <2>2 DEF AddPeer, TypeOK, ListsOK, SessionInv
    <3> QED
      BY <2>2, <3>1 DEF AddPeer
  <2>3. ASSUME NEW r \in Requests, r.call # "peers", Answered(r), UNCHANGED <<listed, handler, visible>>
        PROVE  FreshList'
    BY <2>3 DEF Answered, Request
  <2>4. ASSUME NEW g \in Managers
        PROVE  /\ \A c \in {"attach", "publish", "subscribe"} :
                    Request(c, g, NoPeer) \in Requests /\ Request(c, g, NoPeer).call # "peers"
               /\ \A p \in Peers :
                    Request("connect", g, p) \in Requests /\ Request("connect", g, p).call # "peers"
    BY DEF Request, Requests
  <2>5. ASSUME NEW g \in Managers, Attached(g)
        PROVE  FreshList'
    BY <2>5 DEF Attached, Request
  <2>6. ASSUME NEW g \in Managers, AttachFailed(g) \/ ServiceStarted(g)
        PROVE  FreshList'
    BY <2>3, <2>4, <2>6 DEF AttachFailed, ServiceStarted
  <2>7. ASSUME NEW g \in Managers, NEW p \in Peers, ConnectAccepted(g, p)
        PROVE  FreshList'
    BY <2>3, <2>4, <2>7 DEF ConnectAccepted
  <2>8. ASSUME NEW g \in Managers, NEW p \in Peers, RemoveDone(g, p)
        PROVE  FreshList'
    BY <2>8 DEF RemoveDone, Request
  <2>9. ASSUME NEW r \in pending, Unavailing(r)
        PROVE  FreshList'
    BY <2>3, <2>9 DEF Unavailing, TypeOK, RequestsOK
  <2> QED
    BY <1>6, <2>1, <2>2, <2>5, <2>6, <2>7, <2>8, <2>9 DEF Answer
<1>7. CASE World
  BY <1>3, <1>7 DEF World, Grant, GroupLost, Appear, Vanish, InRange, Formed, NotFormed
<1> QED
  BY <1>1, <1>2, <1>4, <1>5, <1>6, <1>7 DEF Next, vars

LEMMA CleanStep ==
    ASSUME TypeOK, CleanWhenDestroyed, OneBackend, [Next]_vars
    PROVE  CleanWhenDestroyed'
<1> USE DEF CleanWhenDestroyed, handler, managers
<1>1. CASE StopDiscovery \/ Destroy
  BY <1>1 DEF OneBackend, StopDiscovery, Destroy, StopInternal, ReceivingWhenStopped
<1>2. CASE Calls /\ ~StopDiscovery /\ ~Destroy
  BY <1>2 DEF Calls, SetMode, StartDiscovery, ConnectToPeer, Launch, OnListen, OnCancel,
     GetConnectionInfo, DisconnectAware, DisconnectDirect
<1>3. CASE Coroutine
  BY <1>3 DEF Coroutine, TakeJob, RunStart, RunStartDenied, RunConnectAware, RunConnectDirect,
     RunConnectUnknown
<1>4. CASE Answer
  <2>1. ASSUME NEW g \in Managers,
               PeersReply(g) \/ Attached(g) \/ AttachFailed(g) \/ ServiceStarted(g)
        PROVE  CleanWhenDestroyed'
    BY <2>1 DEF PeersReply, Attached, AttachFailed, ServiceStarted
  <2>2. ASSUME NEW g \in Managers, NEW p \in Peers,
               ConnectAccepted(g, p) \/ RemoveDone(g, p) \/ AddPeer(g, p)
        PROVE  CleanWhenDestroyed'
    BY <2>2 DEF ConnectAccepted, RemoveDone, AddPeer
  <2>3. ASSUME NEW r \in pending, Unavailing(r)
        PROVE  CleanWhenDestroyed'
    BY <2>3 DEF Unavailing
  <2> QED BY <1>4, <2>1, <2>2, <2>3 DEF Answer
<1>5. CASE World
  BY <1>5 DEF World, Grant, GroupLost, Appear, Vanish, InRange, Formed, NotFormed
<1> QED
  BY <1>1, <1>2, <1>3, <1>4, <1>5 DEF Next, vars

LEMMA UnheardStep ==
    ASSUME TypeOK, NothingShownUnheard, CleanWhenDestroyed, [Next]_vars
    PROVE  NothingShownUnheard'
<1> USE DEF NothingShownUnheard, handler, Emit
<1>1. CASE Calls
  <2>1. CASE OnListen \/ OnCancel \/ Destroy
    BY <2>1 DEF OnListen, OnCancel, Destroy
  <2>2. ASSUME NEW p \in Peers, DisconnectAware(p)
        PROVE  NothingShownUnheard'
    BY <2>2 DEF DisconnectAware
  <2> QED
    BY <1>1, <2>1, <2>2 DEF Calls, SetMode, StartDiscovery, ConnectToPeer, Launch, StopDiscovery,
       GetConnectionInfo, DisconnectDirect
<1>2. CASE Coroutine
  BY <1>2 DEF Coroutine, RunStart, RunStartDenied, RunConnectAware, RunConnectDirect,
     RunConnectUnknown
<1>3. CASE Answer
  BY <1>3 DEF Answer, PeersReply, Attached, AttachFailed, ServiceStarted, ConnectAccepted,
     RemoveDone, AddPeer, Unavailing
<1>4. CASE World
  BY <1>4 DEF World, Grant, GroupLost, Appear, Vanish, InRange, Formed, NotFormed
<1> QED
  BY <1>1, <1>2, <1>3, <1>4 DEF Next, vars
LEMMA ShownIsCurrentStep ==
    ASSUME TypeOK, ShownIsCurrent, NothingShownUnheard, CleanWhenDestroyed, [Next]_vars
    PROVE  ShownIsCurrent'
<1>1. CASE StopDiscovery \/ Destroy
  BY <1>1 DEF ShownIsCurrent, StopDiscovery, Destroy, StopInternal
<1>2. CASE RunStart
  <2>1. shown' = shown /\ shown.by # created + 1
    BY <1>2, ConstantsAssumption DEF RunStart, TypeOK, BackendsOK, ShownOK
  <2>2. direct' \in {None, created + 1} /\ aware' \in {None, created + 1}
    BY <1>2 DEF RunStart, StartInternal
  <2> QED
    BY <2>1, <2>2 DEF ShownIsCurrent
\* A step that shows nothing and, of what is shown, changes nothing.
<1>3. ASSUME shown' = shown, UNCHANGED <<direct, aware, listed>>,
             \A g \in Managers : linked'[g] \subseteq linked[g]
      PROVE  ShownIsCurrent'
  <2>1. \A g \in {direct, aware} : g # None => g \in Managers
    BY ConstantsAssumption DEF TypeOK, BackendsOK, None, Managers
  <2> QED
    BY <1>3, <2>1 DEF ShownIsCurrent
<1>4. ASSUME shown' = Nothing
      PROVE  ShownIsCurrent'
  BY <1>4 DEF ShownIsCurrent, Nothing, None
<1>5. ASSUME NEW g, Emit(g), UNCHANGED <<direct, aware>>
      PROVE  ShownIsCurrent'
  <2>1. CASE listening
    BY <1>5, <2>1 DEF ShownIsCurrent, Emit
  <2>2. CASE ~listening /\ ~destroyed
    BY <1>4, <1>5, <2>2 DEF NothingShownUnheard, Emit
  <2>3. CASE destroyed
    BY <1>5, <2>3 DEF ShownIsCurrent, CleanWhenDestroyed
  <2> QED
    BY <2>1, <2>2, <2>3
<1> USE DEF managers, handler
<1>6. CASE Calls /\ ~StopDiscovery /\ ~Destroy
  <2>1. ASSUME NEW p \in Peers, DisconnectAware(p)
        PROVE  ShownIsCurrent'
    BY <1>5, <2>1 DEF DisconnectAware
  <2>2. ASSUME NEW p \in Peers, DisconnectDirect(p)
        PROVE  ShownIsCurrent'
    BY <1>3, <2>2 DEF DisconnectDirect, TypeOK, ListsOK
  <2> QED
    BY <1>3, <1>4, <1>6, <2>1, <2>2 DEF Calls, SetMode, StartDiscovery, ConnectToPeer, Launch,
       OnListen, OnCancel, GetConnectionInfo
<1>7. CASE Coroutine /\ ~RunStart
  BY <1>3, <1>5, <1>7 DEF Coroutine, RunStartDenied, RunConnectAware, RunConnectDirect, RunConnectUnknown
<1>8. CASE Answer
  BY <1>3, <1>5, <1>8 DEF Answer, PeersReply, Attached, AttachFailed, ServiceStarted,
     ConnectAccepted, RemoveDone, AddPeer, Unavailing
<1>9. CASE World
  BY <1>3, <1>9 DEF World, Grant, GroupLost, Appear, Vanish, InRange, Formed, NotFormed
<1>10. CASE UNCHANGED vars
  BY <1>3, <1>10 DEF vars
<1> QED
  BY <1>1, <1>2, <1>6, <1>7, <1>8, <1>9, <1>10 DEF Next

\* Discovery keeps its inductive invariant.
THEOREM DiscoveryCorrect == Spec => []DiscoveryInv
<1>1. Init => DiscoveryInv
  <2> SUFFICES ASSUME Init PROVE DiscoveryInv
    OBVIOUS
  <2>1. TypeOK
    BY InitTypeOK
  <2>2. OneBackend /\ FreshList /\ SessionInv /\ CleanWhenDestroyed
    BY DEF Init, OneBackend, FreshList, SessionInv, CleanWhenDestroyed, None
  <2>3. ShownIsCurrent /\ NothingListedYet /\ NothingShownUnheard
    BY DEF Init, ShownIsCurrent, NothingListedYet, NothingShownUnheard, Nothing
  <2> QED
    BY <2>1, <2>2, <2>3 DEF DiscoveryInv
<1>2. DiscoveryInv /\ [Next]_vars => DiscoveryInv'
  BY TypeStep, OneBackendStep, SessionStep, NothingListedYetStep, FreshListStep, CleanStep,
     UnheardStep, ShownIsCurrentStep DEF DiscoveryInv
<1> QED
  BY <1>1, <1>2, PTL DEF Spec

\* Type correctness: every request and every list is of a manager that was created.
THEOREM DiscoveryTypeCorrect == Spec => []TypeOK
BY DiscoveryCorrect, PTL DEF DiscoveryInv

\* However often discovery is started, stopped and switched, at most one
\* backend runs and only its receiver is registered.
THEOREM OneBackendAlways == Spec => []OneBackend
BY DiscoveryCorrect, PTL DEF DiscoveryInv

\* The Wi-Fi Direct list is what is in range, or the answer is on its way.
THEOREM FreshListAlways == Spec => []FreshList
BY DiscoveryCorrect, PTL DEF DiscoveryInv

\* Dart's list is the list of the running backend, marks included.
THEOREM ShownIsCurrentAlways == Spec => []ShownIsCurrent
BY DiscoveryCorrect, PTL DEF DiscoveryInv

LEMMA QuietStep ==
    ASSUME CleanWhenDestroyed, destroyed, [Next]_vars
    PROVE  UNCHANGED <<shown, created, direct, aware, receiving>>
<1> USE DEF CleanWhenDestroyed, handler, managers, Emit
<1>1. CASE Calls
  BY <1>1 DEF Calls, SetMode, StartDiscovery, ConnectToPeer, Launch, StopDiscovery, OnListen,
     OnCancel, Destroy, GetConnectionInfo, DisconnectAware, DisconnectDirect
<1>2. CASE Coroutine
  BY <1>2 DEF Coroutine, TakeJob, RunStart, RunStartDenied, RunConnectAware, RunConnectDirect,
     RunConnectUnknown
<1>3. CASE Answer
  BY <1>3 DEF Answer, PeersReply, Attached, AttachFailed, ServiceStarted, ConnectAccepted,
     RemoveDone, AddPeer, Unavailing
<1>4. CASE World
  BY <1>4 DEF World, Grant, GroupLost, Appear, Vanish, InRange, Formed, NotFormed
<1> QED
  BY <1>1, <1>2, <1>3, <1>4 DEF Next, vars

\* After the end of the activity late callbacks start and show nothing.
THEOREM DestroyedIsQuietAlways == Spec => DestroyedIsQuiet
<1>1. DiscoveryInv /\ [Next]_vars =>
        (destroyed => UNCHANGED <<shown, created, direct, aware, receiving>>)
  BY QuietStep DEF DiscoveryInv
<1> QED
  BY <1>1, DiscoveryCorrect, PTL DEF Spec, DestroyedIsQuiet
==============================================================================
