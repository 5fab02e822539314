----------------------------- MODULE DemoDiscovery -----------------------------
(***************************************************************************)
(* The peers of demo mode (MockDiscoveryService in mock/discovery.dart)    *)
(* and the home screen that links and unlinks them (home_screen.dart).     *)
(*                                                                         *)
(* A connect takes effect 800 ms after its call and a disconnect 300 ms    *)
(* after it.  So of two calls the later never takes effect first, except a *)
(* disconnect called within 500 ms after a connect.  A service object that *)
(* was replaced finishes the calls made on it; calls made outside demo     *)
(* mode go to the native service, which answers in its own order.          *)
(***************************************************************************)
EXTENDS MockMode, SequencesExt

CONSTANTS MaxPeers,   \* bound: the peers the ticker reveals
          MaxPending  \* bound: connects and disconnects under way at once

ASSUME DemoDiscoveryAssumption == MaxPeers \in Nat \ {0} /\ MaxPending \in Nat \ {0}

VARIABLES listed,     \* the peers 1..listed are in _activePeers
          marks,      \* those whose entry says connected
          linked,     \* _connectedPeerIds
          pending,    \* the calls under way, in the order they were made
          dialog,     \* the open dialog
          connecting, \* connectingPeerIdProvider, 0 when it is null
          severing,   \* the peers _disconnectAllPeers has yet to come to
          stuck       \* history: the screen was rebuilt under the indicator

service == <<listed, marks, linked>>
screen  == <<dialog, connecting, severing, stuck>>
demo    == <<service, pending, screen>>

Peers == 1..MaxPeers

Closed == [kind |-> "none", peers |-> {}]

HomeInit ==
    /\ listed = 0
    /\ marks = {}
    /\ linked = {}
    /\ pending = << >>
    /\ dialog = Closed
    /\ connecting = 0
    /\ severing = {}
    /\ stuck = FALSE

-----------------------------------------------------------------------------
(* The service *)

Tick_LeavesMarks ==
    /\ mock
    /\ \E grows \in {0, 1}, weak \in SUBSET (linked \cap 1..listed) :
          /\ listed + grows <= MaxPeers
          /\ listed' = listed + grows
          /\ linked' = linked \ weak
    /\ UNCHANGED <<mock, marks, pending, screen>>

Tick_PastPool ==
    /\ mock
    /\ \E grows \in {0, 1}, weak \in SUBSET (linked \cap 1..listed) :
          /\ listed' = listed + grows
          /\ linked' = linked \ weak
          /\ marks' = linked' \cap 1..listed'
    /\ UNCHANGED <<mock, pending, screen>>

(* The ticker: one more peer may appear, linked peers whose signal has become
   weak are unlinked, and every entry is marked anew. *)
Tick ==
    /\ mock
    /\ \E grows \in {0, 1}, weak \in SUBSET (linked \cap 1..listed) :
          /\ listed + grows <= MaxPeers
          /\ listed' = listed + grows
          /\ linked' = linked \ weak
          /\ marks' = linked' \cap 1..listed'
    /\ UNCHANGED <<mock, pending, screen>>

(* A call on the service of the moment, from a screen that is mounted; `all'
   when _disconnectAllPeers made it. *)
Made(op, p, all) ==
    [op |-> op, peer |-> p, all |-> all, mounted |-> TRUE,
     on |-> IF mock THEN "demo" ELSE "native"]

MayEnd(i) ==
    pending[i].on # "native" =>
        \A j \in 1..i - 1 :
            \/ pending[j].on = "native"
            \/ pending[i].op = "disconnect" /\ pending[j].op = "connect"

(* The set of links and the entry of a listed peer change together. *)
TakeEffect(c) ==
    IF c.on = "demo"
    THEN /\ linked' = IF c.op = "connect" THEN linked \cup {c.peer}
                                          ELSE linked \ {c.peer}
         /\ marks' = linked' \cap 1..listed
    ELSE UNCHANGED <<linked, marks>>

EndConnect_LeavesIndicator(i) ==
    /\ MayEnd(i)
    /\ pending[i].op = "connect"
    /\ TakeEffect(pending[i])
    /\ pending' = RemoveAt(pending, i)
    /\ UNCHANGED <<mock, listed, screen>>

EndConnect_IfLinked(i) ==
    /\ MayEnd(i)
    /\ pending[i].op = "connect"
    /\ TakeEffect(pending[i])
    /\ pending' = RemoveAt(pending, i)
    /\ IF pending[i].on = "demo" THEN connecting' = 0 /\ stuck' = FALSE
                                  ELSE UNCHANGED <<connecting, stuck>>
    /\ UNCHANGED <<mock, listed, dialog, severing>>

(* The end of _connectToPeer clears the indicator, whichever peer it shows,
   unless its screen is gone. *)
EndConnect(i) ==
    /\ MayEnd(i)
    /\ pending[i].op = "connect"
    /\ TakeEffect(pending[i])
    /\ pending' = RemoveAt(pending, i)
    /\ IF pending[i].mounted THEN connecting' = 0 /\ stuck' = FALSE
                             ELSE UNCHANGED <<connecting, stuck>>
    /\ UNCHANGED <<mock, listed, dialog, severing>>

(* _disconnectAllPeers then calls the service it finds for its next peer; on a
   screen that is gone, reading the provider throws and the rest is dropped. *)
EndDisconnect(i) ==
    /\ MayEnd(i)
    /\ pending[i].op = "disconnect"
    /\ TakeEffect(pending[i])
    /\ \/ /\ pending[i].all /\ pending[i].mounted
          /\ \E p \in severing :
                /\ severing' = severing \ {p}
                /\ pending' = Append(RemoveAt(pending, i), Made("disconnect", p, TRUE))
       \/ /\ severing = {} \/ ~pending[i].all \/ ~pending[i].mounted
          /\ pending' = RemoveAt(pending, i)
          /\ severing' = IF pending[i].all THEN {} ELSE severing
    /\ UNCHANGED <<mock, listed, dialog, connecting, stuck>>

-----------------------------------------------------------------------------
(* The home screen, one modal dialog at a time *)

Ask(kind, peers) ==
    /\ dialog = Closed
    /\ dialog' = [kind |-> kind, peers |-> peers]
    /\ UNCHANGED <<mock, service, pending, connecting, severing, stuck>>

(* A tap asks about the peer as it is drawn; what the native service lists
   is any peers with any marks. *)
Tap(p) ==
    \/ p <= listed /\ Ask(IF p \in marks THEN "disconnect" ELSE "connect", {p})
    \/ ~mock /\ \E kind \in {"connect", "disconnect"} : Ask(kind, {p})

TapAll == \E peers \in (IF mock THEN {marks} ELSE SUBSET Peers) :
              peers # {} /\ Ask("all", peers)

Dismiss ==
    /\ dialog # Closed
    /\ dialog' = Closed
    /\ UNCHANGED <<mock, service, pending, connecting, severing, stuck>>

Confirm(p) ==
    /\ p \in dialog.peers
    /\ Len(pending) < MaxPending
    /\ dialog' = Closed
    /\ CASE dialog.kind = "connect" ->
              /\ pending' = Append(pending, Made("connect", p, FALSE))
              /\ connecting' = p
              /\ stuck' = FALSE
              /\ UNCHANGED severing
         [] dialog.kind = "disconnect" ->
              /\ pending' = Append(pending, Made("disconnect", p, FALSE))
              /\ UNCHANGED <<connecting, stuck, severing>>
         [] dialog.kind = "all" ->
              (* Bound: one _disconnectAllPeers at a time. *)
              /\ \A i \in DOMAIN pending : ~pending[i].all
              /\ pending' = Append(pending, Made("disconnect", p, TRUE))
              /\ severing' = dialog.peers \ {p}
              /\ UNCHANGED <<connecting, stuck>>
    /\ UNCHANGED <<mock, service>>

(* A change of aesthetic rebuilds the widget tree: the screen under the calls
   is gone, but the providers live above the tree. *)
Restart ==
    /\ dialog = Closed
    /\ pending' = [i \in DOMAIN pending |-> [pending[i] EXCEPT !.mounted = FALSE]]
    /\ stuck' = (connecting # 0)
    /\ UNCHANGED <<mock, service, dialog, connecting, severing>>

(* What the environment switch does here.  Leaving demo mode stops discovery
   and drops the service object, entering it builds another; the calls under
   way stay with the object they were made on. *)
SwitchDemo ==
    /\ dialog = Closed
    /\ listed' = 0
    /\ marks' = {}
    /\ linked' = {}
    /\ pending' = [i \in DOMAIN pending |->
                      IF pending[i].on = "demo" THEN [pending[i] EXCEPT !.on = "dropped"]
                      ELSE pending[i]]
    /\ UNCHANGED screen

CallEnds(i) == EndConnect(i) \/ EndDisconnect(i)

EndsOldest == pending # << >> /\ CallEnds(1)

HomeNext ==
    \/ Tick \/ TapAll \/ Dismiss \/ Restart
    \/ \E i \in DOMAIN pending : CallEnds(i)
    \/ \E p \in Peers : Tap(p) \/ Confirm(p)

-----------------------------------------------------------------------------
(* Properties *)

HomeTypeOK ==
    /\ listed \in 0..MaxPeers
    /\ {marks, linked, severing} \subseteq SUBSET Peers
    /\ Len(pending) <= MaxPending
    /\ connecting \in 0..MaxPeers

(* Through ticks, delayed connects and disconnects and changes of service, a
   listed peer is marked connected exactly when it is linked. *)
MarksAgree == marks = linked \cap 1..listed

(* The home screen shows no connect that is not under way, unless it was
   rebuilt under one: overlapping connects may clear the indicator early, but
   none leaves it behind. *)
IndicatorBacked ==
    connecting # 0 /\ ~stuck =>
        \E i \in DOMAIN pending : pending[i].op = "connect" /\ pending[i].peer = connecting

(* The indicator goes out, also when the service was replaced meanwhile; only
   a rebuilt screen leaves it lit. *)
IndicatorClears == (connecting # 0) ~> (connecting = 0 \/ stuck)
=============================================================================
