---------------------------- MODULE AppShellProofs ----------------------------
(***************************************************************************)
(* Theorems about AppShell, and with it about DemoDiscovery and            *)
(* Connectivity, for every number of peers and of calls under way.         *)
(***************************************************************************)
EXTENDS AppShell, TLAPS, SequenceTheorems

-----------------------------------------------------------------------------
(* Sequences *)

(* What is left when entry i is removed, and in which order. *)
LEMMA RemoveAtProperties ==
    ASSUME NEW S, NEW s \in Seq(S), NEW i \in 1..Len(s)
    PROVE  /\ RemoveAt(s, i) \in Seq(S)
           /\ Len(RemoveAt(s, i)) = Len(s) - 1
           /\ \A j \in 1..Len(s) - 1 :
                 RemoveAt(s, i)[j] = IF j < i THEN s[j] ELSE s[j + 1]
<1> DEFINE before == SubSeq(s, 1, i - 1)
           after  == SubSeq(s, i + 1, Len(s))
<1>1. /\ before \in Seq(S) /\ Len(before) = i - 1
      /\ \A j \in 1..i - 1 : before[j] = s[j]
  BY SubSeqProperties
<1>2. /\ after \in Seq(S) /\ Len(after) = Len(s) - i
      /\ \A j \in 1..Len(s) - i : after[j] = s[i + j]
  BY SubSeqProperties
<1>3. RemoveAt(s, i) = before \o after
  BY DEF RemoveAt
<1> HIDE DEF before, after
<1>4. /\ before \o after \in Seq(S)
      /\ Len(before \o after) = Len(before) + Len(after)
      /\ \A j \in 1..Len(before) + Len(after) :
            (before \o after)[j] = IF j <= Len(before) THEN before[j]
                                   ELSE after[j - Len(before)]
  BY <1>1, <1>2, ConcatProperties
<1>5. ASSUME NEW j \in 1..Len(s) - 1
      PROVE  RemoveAt(s, i)[j] = IF j < i THEN s[j] ELSE s[j + 1]
  <2>1. CASE j < i
    BY <1>1, <1>2, <1>3, <1>4, <2>1
  <2>2. CASE j >= i
    <3>1. j - (i - 1) \in 1..Len(s) - i /\ i + (j - (i - 1)) = j + 1
      BY <2>2
    <3>2. j \in 1..Len(before) + Len(after) /\ ~(j <= Len(before))
      BY <1>1, <1>2, <2>2
    <3>3. RemoveAt(s, i)[j] = after[j - (i - 1)]
      BY <1>1, <1>3, <1>4, <3>2
    <3> QED BY <1>2, <2>2, <3>1, <3>3, SMTT(30)
  <2> QED BY <2>1, <2>2
<1> QED BY <1>1, <1>2, <1>3, <1>4, <1>5

(* Every entry but the one removed is still there. *)
LEMMA RemoveAtKeeps ==
    ASSUME NEW S, NEW s \in Seq(S), NEW i \in 1..Len(s), NEW j \in 1..Len(s), j # i
    PROVE  \E n \in 1..Len(RemoveAt(s, i)) : RemoveAt(s, i)[n] = s[j]
<1>1. CASE j < i
  <2>1. j \in 1..Len(s) - 1
    BY <1>1
  <2> QED BY <1>1, <2>1, RemoveAtProperties
<1>2. CASE j > i
  <2>1. j - 1 \in 1..Len(s) - 1 /\ ~(j - 1 < i) /\ j - 1 + 1 = j
    BY <1>2
  <2> QED BY <2>1, RemoveAtProperties
<1> QED BY <1>1, <1>2

-----------------------------------------------------------------------------
(* The home screen *)

PendingCall == [op : {"connect", "disconnect"}, peer : Peers, all : BOOLEAN,
                mounted : BOOLEAN, on : {"demo", "native", "dropped"}]

HomeTyped ==
    /\ HomeTypeOK
    /\ pending \in Seq(PendingCall)
    /\ dialog.kind \in {"none", "connect", "disconnect", "all"}
    /\ dialog.peers \subseteq Peers
    /\ dialog.kind = "none" => dialog.peers = {}
    /\ stuck \in BOOLEAN

(* An indicator that is not stuck belongs to a connect that will clear it:
   one made from the screen that is still there. *)
WillClear ==
    connecting # 0 /\ ~stuck =>
        \E i \in 1..Len(pending) :
            /\ pending[i].op = "connect"
            /\ pending[i].peer = connecting
            /\ pending[i].mounted

HomeInv == HomeTyped /\ MarksAgree /\ WillClear

LEMMA HomeInitInv == HomeInit => HomeInv
<1> SUFFICES ASSUME HomeInit PROVE HomeInv
  OBVIOUS
<1> USE DEF HomeInit
<1>1. HomeTyped
  <2>1. HomeTypeOK
    BY DemoDiscoveryAssumption DEF HomeTypeOK
  <2>2. pending \in Seq(PendingCall)
    OBVIOUS
  <2> QED BY <2>1, <2>2 DEF HomeTyped, Closed
<1>2. MarksAgree /\ WillClear
  BY DEF MarksAgree, WillClear
<1> QED BY <1>1, <1>2 DEF HomeInv

LEMMA MadeType ==
    ASSUME NEW op \in {"connect", "disconnect"}, NEW p \in Peers, NEW all \in BOOLEAN
    PROVE  /\ Made(op, p, all) \in PendingCall
           /\ Made(op, p, all).op = op
           /\ Made(op, p, all).peer = p
           /\ Made(op, p, all).mounted
BY DEF Made, PendingCall

(* A call put behind the others. *)
LEMMA AppendCall ==
    ASSUME pending \in Seq(PendingCall), NEW c \in PendingCall,
           pending' = Append(pending, c)
    PROVE  /\ pending' \in Seq(PendingCall)
           /\ Len(pending') = Len(pending) + 1
           /\ \A i \in 1..Len(pending) : i \in 1..Len(pending') /\ pending'[i] = pending[i]
           /\ Len(pending') \in 1..Len(pending') /\ pending'[Len(pending')] = c
BY AppendProperties, LenProperties

LEMMA HomeUnchanged ==
    ASSUME HomeInv, UNCHANGED demo
    PROVE  HomeInv'
<1> USE DEF HomeInv, demo, service, screen
<1>1. HomeTyped'
  BY DEF HomeTyped, HomeTypeOK
<1>2. MarksAgree' /\ WillClear'
  BY DEF MarksAgree, WillClear
<1> QED BY <1>1, <1>2

LEMMA TickInv == HomeInv /\ Tick => HomeInv'
<1> SUFFICES ASSUME HomeInv, Tick PROVE HomeInv'
  OBVIOUS
<1> USE DEF HomeInv, Tick, screen
<1>1. HomeTyped'
  BY DemoDiscoveryAssumption DEF HomeTyped, HomeTypeOK, Peers
<1>2. MarksAgree' /\ WillClear'
  BY DEF MarksAgree, WillClear
<1> QED BY <1>1, <1>2

(* Any of the steps that opens or closes a dialog. *)
LEMMA DialogInv ==
    ASSUME HomeInv, dialog'.kind \in {"none", "connect", "disconnect", "all"},
           dialog'.peers \subseteq Peers, dialog'.kind = "none" => dialog'.peers = {},
           UNCHANGED <<service, pending, connecting, severing, stuck>>
    PROVE  HomeInv'
<1> USE DEF HomeInv, service
<1>1. HomeTyped'
  BY DEF HomeTyped, HomeTypeOK
<1>2. MarksAgree' /\ WillClear'
  BY DEF MarksAgree, WillClear
<1> QED BY <1>1, <1>2

LEMMA AsksInv ==
    ASSUME HomeInv, TapAll \/ Dismiss \/ \E p \in Peers : Tap(p)
    PROVE  HomeInv'
<1> USE DEF Ask, Closed
<1>1. marks \subseteq Peers
  BY DEF HomeInv, HomeTyped, HomeTypeOK
<1>2. CASE TapAll
  BY <1>1, <1>2, DialogInv DEF TapAll
<1>3. CASE Dismiss
  BY <1>3, DialogInv DEF Dismiss
<1>4. ASSUME NEW p \in Peers, Tap(p) PROVE HomeInv'
  BY <1>4, DialogInv DEF Tap
<1> QED BY <1>2, <1>3, <1>4

LEMMA ConfirmInv ==
    ASSUME HomeInv, NEW p \in Peers, Confirm(p)
    PROVE  HomeInv'
<1> USE DEF HomeInv
<1>0. Len(pending) < MaxPending /\ p \in dialog.peers /\ UNCHANGED service /\ dialog' = Closed
  BY DEF Confirm
<1>1. PICK op \in {"connect", "disconnect"}, all \in BOOLEAN :
         /\ pending' = Append(pending, Made(op, p, all))
         /\ \/ op = "connect" /\ connecting' = p /\ stuck' = FALSE
            \/ UNCHANGED <<connecting, stuck>>
         /\ severing' \subseteq Peers
  <2>1. /\ dialog.kind \in {"connect", "disconnect", "all"}
        /\ dialog.peers \subseteq Peers
        /\ severing \subseteq Peers
    BY <1>0 DEF HomeTyped, HomeTypeOK
  <2>2. CASE dialog.kind = "connect"
    BY <2>1, <2>2 DEF Confirm
  <2>3. CASE dialog.kind = "disconnect"
    BY <2>1, <2>3 DEF Confirm
  <2>4. CASE dialog.kind = "all"
    BY <2>1, <2>4 DEF Confirm
  <2> QED BY <2>1, <2>2, <2>3, <2>4
<1> DEFINE c == Made(op, p, all)
<1>2. c \in PendingCall /\ c.op = op /\ c.peer = p /\ c.mounted
  BY MadeType
<1> HIDE DEF c
<1>3. /\ pending' \in Seq(PendingCall)
      /\ Len(pending') = Len(pending) + 1
      /\ \A i \in 1..Len(pending) : i \in 1..Len(pending') /\ pending'[i] = pending[i]
      /\ Len(pending') \in 1..Len(pending') /\ pending'[Len(pending')] = c
  BY <1>1, <1>2, AppendCall DEF c, HomeTyped
<1>4. Len(pending') <= MaxPending
  BY <1>0, <1>3, LenProperties, DemoDiscoveryAssumption DEF HomeTyped
<1>5. HomeTyped'
  <2>1. HomeTypeOK'
    <3>1. p \in 0..MaxPeers
      BY DemoDiscoveryAssumption DEF Peers
    <3>2. {marks, linked, severing}' \subseteq SUBSET Peers
      BY <1>0, <1>1 DEF HomeTyped, HomeTypeOK, service
    <3> QED BY <1>0, <1>1, <1>4, <3>1, <3>2 DEF HomeTyped, HomeTypeOK, service
  <2> QED BY <1>0, <1>1, <1>3, <2>1 DEF HomeTyped, Closed
<1>6. MarksAgree'
  BY <1>0 DEF MarksAgree, service
<1>7. WillClear'
  BY <1>1, <1>2, <1>3 DEF WillClear
<1> QED BY <1>5, <1>6, <1>7

(* The end of a call changes the links and the marks together. *)
LEMMA EffectAgrees ==
    ASSUME HomeInv, NEW c \in PendingCall, TakeEffect(c), UNCHANGED listed
    PROVE  /\ {linked, marks}' \subseteq SUBSET Peers
           /\ MarksAgree'
BY DEF HomeInv, HomeTyped, HomeTypeOK, TakeEffect, MarksAgree, PendingCall

LEMMA EndConnectInv ==
    ASSUME HomeInv, NEW i \in 1..Len(pending), EndConnect(i)
    PROVE  HomeInv'
<1> USE DEF HomeInv
<1>1. /\ pending \in Seq(PendingCall) /\ pending[i] \in PendingCall
      /\ Len(pending) \in Nat /\ Len(pending) <= MaxPending
  BY LenProperties DEF HomeTyped, HomeTypeOK
<1>2. /\ pending' = RemoveAt(pending, i)
      /\ TakeEffect(pending[i])
      /\ IF pending[i].mounted THEN connecting' = 0 /\ stuck' = FALSE
                               ELSE UNCHANGED <<connecting, stuck>>
      /\ UNCHANGED <<listed, dialog, severing>>
  BY DEF EndConnect
<1>3. pending' \in Seq(PendingCall) /\ Len(pending') = Len(pending) - 1
  BY <1>1, <1>2, RemoveAtProperties
<1>4. {linked, marks}' \subseteq SUBSET Peers /\ MarksAgree'
  BY <1>1, <1>2, EffectAgrees
<1>5. HomeTyped'
  <2>1. HomeTypeOK'
    <3>1. Len(pending') <= MaxPending
      BY <1>1, <1>3, DemoDiscoveryAssumption
    <3>2. {marks, linked, severing}' \subseteq SUBSET Peers
      BY <1>2, <1>4 DEF HomeTyped, HomeTypeOK
    <3>3. listed' \in 0..MaxPeers /\ connecting' \in 0..MaxPeers
      BY <1>2, DemoDiscoveryAssumption DEF HomeTyped, HomeTypeOK
    <3> QED BY <3>1, <3>2, <3>3 DEF HomeTypeOK
  <2> QED BY <1>2, <1>3, <2>1 DEF HomeTyped
<1>6. WillClear'
  <2> SUFFICES ASSUME connecting' # 0, ~stuck'
               PROVE  \E n \in 1..Len(pending') : /\ pending'[n].op = "connect"
                                                  /\ pending'[n].peer = connecting'
                                                  /\ pending'[n].mounted
    BY DEF WillClear
  <2>1. ~pending[i].mounted /\ UNCHANGED <<connecting, stuck>>
    BY <1>2
  <2>2. PICK j \in 1..Len(pending) : /\ pending[j].op = "connect"
                                     /\ pending[j].peer = connecting
                                     /\ pending[j].mounted
    BY <2>1 DEF WillClear
  <2>3. PICK n \in 1..Len(pending') : pending'[n] = pending[j]
    BY <1>1, <1>2, <2>1, <2>2, RemoveAtKeeps
  <2> QED BY <2>1, <2>2, <2>3
<1> QED BY <1>4, <1>5, <1>6

LEMMA EndDisconnectInv ==
    ASSUME HomeInv, NEW i \in 1..Len(pending), EndDisconnect(i)
    PROVE  HomeInv'
<1> USE DEF HomeInv
<1> DEFINE rest == RemoveAt(pending, i)
<1>1. /\ pending \in Seq(PendingCall) /\ pending[i] \in PendingCall
      /\ Len(pending) \in Nat /\ Len(pending) <= MaxPending
      /\ severing \subseteq Peers
  BY LenProperties DEF HomeTyped, HomeTypeOK
<1>2. /\ pending[i].op = "disconnect"
      /\ TakeEffect(pending[i])
      /\ UNCHANGED <<listed, dialog, connecting, stuck>>
      /\ severing' \subseteq Peers
      /\ \/ pending' = rest
         \/ \E p \in Peers : pending' = Append(rest, Made("disconnect", p, TRUE))
  BY <1>1 DEF EndDisconnect
<1>3. rest \in Seq(PendingCall) /\ Len(rest) = Len(pending) - 1
  BY <1>1, RemoveAtProperties
<1> HIDE DEF rest
<1>4. /\ pending' \in Seq(PendingCall)
      /\ Len(pending') <= Len(pending)
      /\ \A n \in 1..Len(rest) : n \in 1..Len(pending') /\ pending'[n] = rest[n]
  <2>1. CASE pending' = rest
    BY <1>1, <1>3, <2>1
  <2>2. ASSUME NEW p \in Peers, pending' = Append(rest, Made("disconnect", p, TRUE))
        PROVE  <1>4!:
    <3>1. Made("disconnect", p, TRUE) \in PendingCall
      BY MadeType
    <3>2. /\ pending' \in Seq(PendingCall)
          /\ Len(pending') = Len(rest) + 1
          /\ \A n \in 1..Len(rest) : pending'[n] = rest[n]
      <4>1. rest \in Seq(PendingCall)
        BY <1>3
      <4> HIDE DEF rest
      <4> QED BY ONLY <2>2, <3>1, <4>1, AppendProperties, ZenonT(40)
    <3> QED BY <1>1, <1>3, <3>2
  <2> QED BY <1>2, <2>1, <2>2
<1>5. {linked, marks}' \subseteq SUBSET Peers /\ MarksAgree'
  BY <1>1, <1>2, EffectAgrees
<1>6. HomeTyped'
  <2>1. Len(pending') <= MaxPending
    BY <1>1, <1>4, LenProperties, DemoDiscoveryAssumption
  <2> QED BY <1>2, <1>4, <1>5, <2>1 DEF HomeTyped, HomeTypeOK
<1>7. WillClear'
  <2> SUFFICES ASSUME connecting # 0, ~stuck
               PROVE  \E n \in 1..Len(pending') : /\ pending'[n].op = "connect"
                                                  /\ pending'[n].peer = connecting
                                                  /\ pending'[n].mounted
    BY <1>2 DEF WillClear
  <2>1. PICK j \in 1..Len(pending) : /\ pending[j].op = "connect"
                                     /\ pending[j].peer = connecting
                                     /\ pending[j].mounted
    BY DEF WillClear
  <2>2. PICK n \in 1..Len(rest) : rest[n] = pending[j]
    BY <1>1, <1>2, <2>1, RemoveAtKeeps DEF rest
  <2> QED BY <1>4, <2>1, <2>2
<1> QED BY <1>5, <1>6, <1>7

(* Relabelling the calls under way. *)
LEMMA RelabelledType ==
    ASSUME pending \in Seq(PendingCall),
           NEW f, f = [i \in DOMAIN pending |-> f[i]],
           \A i \in 1..Len(pending) : f[i] \in PendingCall
    PROVE  f \in Seq(PendingCall) /\ Len(f) = Len(pending)
<1>1. DOMAIN pending = 1..Len(pending) /\ Len(pending) \in Nat
  BY LenProperties
<1>2. f \in [1..Len(pending) -> PendingCall]
  BY <1>1
<1> QED BY <1>1, <1>2, IsASeq, LenProperties

LEMMA RestartInv == HomeInv /\ Restart => HomeInv'
<1> SUFFICES ASSUME HomeInv, Restart PROVE HomeInv'
  OBVIOUS
<1> USE DEF HomeInv, service
<1>1. pending \in Seq(PendingCall) /\ DOMAIN pending = 1..Len(pending)
  BY LenProperties DEF HomeTyped
<1>2. /\ pending' = [i \in DOMAIN pending |-> [pending[i] EXCEPT !.mounted = FALSE]]
      /\ stuck' = (connecting # 0)
      /\ UNCHANGED <<service, dialog, connecting, severing>>
  BY DEF Restart
<1>3. ASSUME NEW i \in 1..Len(pending)
      PROVE  [pending[i] EXCEPT !.mounted = FALSE] \in PendingCall
  <2>1. pending[i] \in PendingCall
    BY <1>1
  <2> QED BY <2>1 DEF PendingCall
<1>4. pending' \in Seq(PendingCall) /\ Len(pending') = Len(pending)
  BY <1>1, <1>2, <1>3, RelabelledType
<1>5. HomeTyped'
  BY <1>2, <1>4 DEF HomeTyped, HomeTypeOK
<1>6. MarksAgree' /\ WillClear'
  BY <1>2 DEF MarksAgree, WillClear
<1> QED BY <1>5, <1>6

LEMMA SwitchDemoInv == HomeInv /\ SwitchDemo => HomeInv'
<1> SUFFICES ASSUME HomeInv, SwitchDemo PROVE HomeInv'
  OBVIOUS
<1> USE DEF HomeInv, screen
<1> DEFINE moved(c) == IF c.on = "demo" THEN [c EXCEPT !.on = "dropped"] ELSE c
<1>1. pending \in Seq(PendingCall) /\ DOMAIN pending = 1..Len(pending)
  BY LenProperties DEF HomeTyped
<1>2. /\ pending' = [i \in DOMAIN pending |-> moved(pending[i])]
      /\ listed' = 0 /\ marks' = {} /\ linked' = {}
      /\ UNCHANGED screen
  BY DEF SwitchDemo
<1>3. ASSUME NEW c \in PendingCall
      PROVE  /\ moved(c) \in PendingCall
             /\ moved(c).op = c.op /\ moved(c).peer = c.peer /\ moved(c).mounted = c.mounted
  BY DEF PendingCall
<1> HIDE DEF moved
<1>4. \A i \in 1..Len(pending) : pending[i] \in PendingCall
  BY <1>1
<1>5. pending' \in Seq(PendingCall) /\ Len(pending') = Len(pending)
  BY <1>1, <1>2, <1>3, <1>4, RelabelledType
<1>6. HomeTyped'
  BY <1>2, <1>5, DemoDiscoveryAssumption DEF HomeTyped, HomeTypeOK
<1>7. MarksAgree'
  BY <1>2 DEF MarksAgree
<1>8. WillClear'
  BY <1>1, <1>2, <1>3, <1>4, <1>5 DEF WillClear
<1> QED BY <1>6, <1>7, <1>8

LEMMA HomeNextInv == HomeInv /\ HomeNext => HomeInv'
<1> SUFFICES ASSUME HomeInv, HomeNext PROVE HomeInv'
  OBVIOUS
<1>1. DOMAIN pending = 1..Len(pending)
  BY LenProperties DEF HomeInv, HomeTyped
<1>2. ASSUME NEW i \in DOMAIN pending, CallEnds(i) PROVE HomeInv'
  BY <1>1, <1>2, EndConnectInv, EndDisconnectInv DEF CallEnds
<1> QED BY <1>2, TickInv, AsksInv, RestartInv, ConfirmInv DEF HomeNext

-----------------------------------------------------------------------------
(* The connectivity mode *)

ModeCall == [kind : {"initial", "set"}, mode : Modes,
             stage : {"sent", "set", "saving"}]

(* Calls pass the channel and then the preferences in the order they were
   made: none is in an earlier stage than one made after it. *)
InOrder ==
    \A i, j \in 1..Len(calls) : i < j =>
        /\ calls[j].stage = "saving" => calls[i].stage = "saving"
        /\ calls[j].stage = "set" => calls[i].stage # "sent"

(* A setMode whose mode is not in the preferences yet. *)
Unsaved(i) == calls[i].kind = "set" /\ calls[i].stage # "saving"

Sent(i) == calls[i].stage = "sent"

(* The mode shown is the one the last unsaved setMode will save, or with none
   the one that is saved ... *)
ModeWillBeSaved ==
    /\ \A i \in 1..Len(calls) :
          Unsaved(i) /\ (\A j \in 1..Len(calls) : j > i => ~Unsaved(j))
              => calls[i].mode = mode
    /\ (\A i \in 1..Len(calls) : ~Unsaved(i)) => mode = saved

(* ... and the one the last call that is on its way will set in the handler,
   or with none, if the last change was sent there, the one it has. *)
ModeWillBeSet ==
    /\ \A i \in 1..Len(calls) :
          Sent(i) /\ (\A j \in 1..Len(calls) : j > i => ~Sent(j))
              => calls[i].mode = mode
    /\ pushed /\ (\A i \in 1..Len(calls) : ~Sent(i)) => native = mode

ModeInv ==
    /\ ModeTypeOK
    /\ ~opened => calls = << >> /\ ~disturbed
    /\ ~disturbed =>
          /\ InOrder
          /\ ModeWillBeSaved
          /\ ModeWillBeSet
          /\ mock => \A i \in 1..Len(calls) : calls[i].stage = "saving"

LEMMA ModeTypes ==
    ASSUME ModeTypeOK
    PROVE  /\ calls \in Seq(ModeCall)
           /\ Len(calls) \in Nat
           /\ DOMAIN calls = 1..Len(calls)
           /\ calls = << >> <=> Len(calls) = 0
           /\ mode \in Modes /\ saved \in Modes /\ native \in Modes
           /\ opened \in BOOLEAN /\ pushed \in BOOLEAN /\ disturbed \in BOOLEAN
           /\ \A i \in 1..Len(calls) : calls[i] \in ModeCall
<1>1. calls \in Seq(ModeCall)
  BY DEF ModeTypeOK, ModeCall
<1> QED BY <1>1, LenProperties, EmptySeq DEF ModeTypeOK

LEMMA ModeInitInv == ModeInit => ModeInv
<1> SUFFICES ASSUME ModeInit PROVE ModeInv
  OBVIOUS
<1> USE DEF ModeInit
<1>1. ModeTypeOK
  <2>1. calls \in Seq(ModeCall)
    OBVIOUS
  <2>2. {opened, pushed, disturbed} \subseteq BOOLEAN /\ {mode, saved, native} \subseteq Modes
    BY DEF Modes
  <2> QED BY <2>1, <2>2 DEF ModeTypeOK, ModeCall
<1>2. Len(calls) = 0
  OBVIOUS
<1> QED BY <1>1, <1>2 DEF ModeInv, InOrder, ModeWillBeSaved, ModeWillBeSet

LEMMA ModeUnchanged ==
    ASSUME ModeInv, UNCHANGED <<prefs, mock>>
    PROVE  ModeInv'
BY DEF ModeInv, prefs, ModeTypeOK, InOrder, ModeWillBeSaved, ModeWillBeSet,
       Unsaved, Sent

(* A call under way when the environment changes is left to its service. *)
LEMMA SwitchConnectivityInv ==
    ASSUME ModeInv, SwitchConnectivity, mock \in BOOLEAN, mock' = ~mock
    PROVE  ModeInv'
<1> USE DEF SwitchConnectivity
<1>1. ModeTypeOK'
  BY DEF ModeInv, ModeTypeOK
<1>2. ~opened => calls = << >> /\ ~disturbed'
  BY DEF ModeInv
<1>3. ASSUME ~disturbed'
      PROVE  /\ InOrder' /\ ModeWillBeSaved' /\ ModeWillBeSet'
             /\ Len(calls') = 0
  <2>1. ~disturbed /\ calls = << >>
    BY <1>3
  <2> QED BY <2>1 DEF ModeInv, InOrder, ModeWillBeSaved, ModeWillBeSet, Unsaved, Sent
<1> QED BY <1>1, <1>2, <1>3 DEF ModeInv

(* A call put behind the others. *)
LEMMA CallAppends ==
    ASSUME ModeTypeOK, NEW kind \in {"initial", "set"}, NEW m \in Modes,
           NEW stage \in {"sent", "set", "saving"}, Call(kind, m, stage)
    PROVE  /\ calls' \in Seq(ModeCall)
           /\ Len(calls') = Len(calls) + 1
           /\ \A i \in 1..Len(calls) : calls'[i] = calls[i]
           /\ calls'[Len(calls) + 1].kind = kind
           /\ calls'[Len(calls) + 1].mode = m
           /\ calls'[Len(calls) + 1].stage = stage
           /\ disturbed' = (disturbed /\ calls # << >>)
<1> DEFINE c == [kind |-> kind, mode |-> m, stage |-> stage]
<1>1. c \in ModeCall /\ c.kind = kind /\ c.mode = m /\ c.stage = stage
  BY DEF ModeCall
<1> HIDE DEF c
<1>2. calls' = Append(calls, c) /\ disturbed' = (disturbed /\ calls # << >>)
  BY DEF Call, c
<1> QED BY <1>1, <1>2, ModeTypes, AppendProperties

(* A new setMode, or the first push of the saved mode: it becomes the last
   call, and the mode shown is its mode. *)
LEMMA NewestCall ==
    ASSUME ModeInv, NEW kind \in {"initial", "set"}, NEW m \in Modes,
           Call(kind, m, "sent"), ~mock, UNCHANGED mock, opened',
           mode' = m, m # mode => kind = "set",
           kind = "initial" => ~opened /\ m = saved,
           UNCHANGED <<saved, native, pushed>>
    PROVE  ModeInv'
<1>1. /\ Len(calls) \in Nat
      /\ Len(calls') = Len(calls) + 1
      /\ calls' \in Seq(ModeCall)
      /\ \A i \in 1..Len(calls) : calls'[i] = calls[i]
      /\ calls'[Len(calls) + 1].kind = kind
      /\ calls'[Len(calls) + 1].mode = m
      /\ calls'[Len(calls) + 1].stage = "sent"
      /\ disturbed' = (disturbed /\ calls # << >>)
  BY CallAppends, ModeTypes DEF ModeInv
<1>2. ModeTypeOK'
  BY <1>1, ModeTypes DEF ModeInv, ModeTypeOK, ModeCall
<1>3. ASSUME ~disturbed'
      PROVE  InOrder' /\ ModeWillBeSaved' /\ ModeWillBeSet'
  <2>1. Len(calls) = 0 \/ (InOrder /\ ModeWillBeSaved /\ ModeWillBeSet)
    BY <1>1, <1>3, ModeTypes DEF ModeInv
  <2>2. InOrder'
    BY <1>1, <2>1 DEF InOrder
  <2>3. ModeWillBeSaved'
    <3>1. CASE kind = "set"
      BY <1>1, <3>1 DEF ModeWillBeSaved, Unsaved
    <3>2. CASE kind = "initial"
      <4>1. Len(calls) = 0 /\ Len(calls') = 1 /\ mode' = saved'
        BY <1>1, <3>2, ModeTypes DEF ModeInv
      <4> QED BY <1>1, <3>2, <4>1 DEF ModeWillBeSaved, Unsaved
    <3> QED BY <3>1, <3>2
  <2>4. ModeWillBeSet'
    BY <1>1 DEF ModeWillBeSet, Sent
  <2> QED BY <2>2, <2>3, <2>4
<1> QED BY <1>2, <1>3 DEF ModeInv

LEMMA OpenInv == ModeInv /\ Open => ModeInv'
<1> SUFFICES ASSUME ModeInv, Open PROVE ModeInv'
  OBVIOUS
<1> USE DEF Open
<1>1. saved \in Modes /\ mode = saved
  BY ModeTypes DEF ModeInv, ModeWillBeSaved
<1>2. CASE mock
  BY <1>2 DEF ModeInv, ModeTypeOK, InOrder, ModeWillBeSaved, ModeWillBeSet, Unsaved, Sent
<1>3. CASE ~mock
  BY <1>1, <1>3, NewestCall
<1> QED BY <1>2, <1>3

LEMMA SetModeInv ==
    ASSUME ModeInv, NEW m \in Modes, SetMode(m)
    PROVE  ModeInv'
<1> USE DEF SetMode
<1>1. CASE ~mock
  BY <1>1, NewestCall DEF ModeInv
<1>2. CASE mock
  <2>1. /\ Len(calls) \in Nat
        /\ Len(calls') = Len(calls) + 1
        /\ calls' \in Seq(ModeCall)
        /\ \A i \in 1..Len(calls) : calls'[i] = calls[i]
        /\ calls'[Len(calls) + 1].stage = "saving"
        /\ disturbed' = (disturbed /\ calls # << >>)
    BY <1>2, CallAppends, ModeTypes DEF ModeInv
  <2>2. saved' = m /\ mode' = m /\ ~pushed' /\ opened'
    BY <1>2 DEF ModeInv
  <2>3. ModeTypeOK'
    BY <2>1, <2>2, ModeTypes DEF ModeInv, ModeTypeOK, ModeCall
  <2>4. ASSUME ~disturbed'
        PROVE  \A i \in 1..Len(calls') : calls'[i].stage = "saving"
    <3>1. Len(calls) = 0 \/ \A i \in 1..Len(calls) : calls[i].stage = "saving"
      BY <1>2, <2>1, <2>4, ModeTypes DEF ModeInv
    <3> QED BY <2>1, <3>1
  <2>5. ASSUME ~disturbed'
        PROVE  InOrder' /\ ModeWillBeSaved' /\ ModeWillBeSet'
    BY <2>2, <2>4, <2>5 DEF InOrder, ModeWillBeSaved, ModeWillBeSet, Unsaved, Sent
  <2> QED BY <2>2, <2>3, <2>4, <2>5 DEF ModeInv
<1> QED BY <1>1, <1>2

(* A call that is answered goes on to its next stage. *)
LEMMA StageType ==
    ASSUME ModeTypeOK, NEW i \in 1..Len(calls), NEW stage \in {"set", "saving"},
           calls' = [calls EXCEPT ![i].stage = stage]
    PROVE  /\ calls' \in Seq(ModeCall)
           /\ Len(calls') = Len(calls)
           /\ calls'[i].stage = stage
           /\ \A j \in 1..Len(calls) :
                 /\ calls'[j].kind = calls[j].kind
                 /\ calls'[j].mode = calls[j].mode
                 /\ j # i => calls'[j].stage = calls[j].stage
<1> DEFINE c == [calls[i] EXCEPT !.stage = stage]
<1>1. c \in ModeCall /\ c.kind = calls[i].kind /\ c.mode = calls[i].mode /\ c.stage = stage
  BY ModeTypes DEF ModeCall
<1>2. calls' = [calls EXCEPT ![i] = c]
  OBVIOUS
<1> HIDE DEF c
<1>3. calls' \in Seq(ModeCall) /\ Len(calls') = Len(calls)
  BY <1>1, <1>2, ModeTypes, ExceptSeq
<1>4. \A j \in 1..Len(calls) : calls'[j] = IF j = i THEN c ELSE calls[j]
  BY <1>2, ModeTypes
<1> QED BY <1>1, <1>3, <1>4

(* A call that is neither unsaved nor on its way can go. *)
LEMMA RemovalKeeps ==
    ASSUME ModeInv, NEW i \in 1..Len(calls), ~Unsaved(i), ~Sent(i),
           calls' = RemoveAt(calls, i), opened',
           UNCHANGED <<mock, mode, saved, native, pushed, disturbed>>
    PROVE  ModeInv'
<1> DEFINE up(n) == IF n < i THEN n ELSE n + 1
<1>1. /\ Len(calls) \in Nat
      /\ calls' \in Seq(ModeCall)
      /\ Len(calls') = Len(calls) - 1
      /\ \A n \in 1..Len(calls') : up(n) \in 1..Len(calls) /\ calls'[n] = calls[up(n)]
  <2>1. calls \in Seq(ModeCall) /\ Len(calls) \in Nat
    BY ModeTypes DEF ModeInv
  <2>2. /\ calls' \in Seq(ModeCall)
        /\ Len(calls') = Len(calls) - 1
        /\ \A n \in 1..Len(calls) - 1 :
              calls'[n] = IF n < i THEN calls[n] ELSE calls[n + 1]
    BY <2>1, RemoveAtProperties
  <2>3. ASSUME NEW n \in 1..Len(calls')
        PROVE  up(n) \in 1..Len(calls) /\ calls'[n] = calls[up(n)]
    BY <2>1, <2>2
  <2> QED BY <2>1, <2>2, <2>3
<1>2. \A m, n \in 1..Len(calls') : m < n <=> up(m) < up(n)
  BY <1>1
<1>3. ASSUME NEW j \in 1..Len(calls), j # i
      PROVE  \E n \in 1..Len(calls') : up(n) = j
  <2>1. CASE j < i
    BY <1>1, <2>1
  <2>2. CASE j > i
    <3>1. j - 1 \in 1..Len(calls') /\ up(j - 1) = j
      BY <1>1, <2>2
    <3> QED BY <3>1
  <2> QED BY <1>3, <2>1, <2>2
<1> HIDE DEF up
<1>4. ModeTypeOK'
  BY <1>1 DEF ModeInv, ModeTypeOK, ModeCall
<1>5. \A n \in 1..Len(calls') : (Unsaved(n)' <=> Unsaved(up(n))) /\ (Sent(n)' <=> Sent(up(n)))
  <2> SUFFICES ASSUME NEW n \in 1..Len(calls')
               PROVE  (Unsaved(n)' <=> Unsaved(up(n))) /\ (Sent(n)' <=> Sent(up(n)))
    OBVIOUS
  <2>1. calls'[n] = calls[up(n)]
    BY <1>1
  <2> QED BY ONLY <2>1, Zenon DEF Unsaved, Sent
<1>6. InOrder => InOrder'
  <2> SUFFICES ASSUME InOrder, NEW m \in 1..Len(calls'), NEW n \in 1..Len(calls'), m < n
               PROVE  /\ calls'[n].stage = "saving" => calls'[m].stage = "saving"
                      /\ calls'[n].stage = "set" => calls'[m].stage # "sent"
    BY DEF InOrder
  <2>1. /\ up(m) \in 1..Len(calls) /\ up(n) \in 1..Len(calls) /\ up(m) < up(n)
        /\ calls'[m] = calls[up(m)] /\ calls'[n] = calls[up(n)]
    BY <1>1, <1>2
  <2> QED BY <2>1 DEF InOrder
<1>7. ModeWillBeSaved => ModeWillBeSaved'
  <2> SUFFICES ASSUME ModeWillBeSaved PROVE ModeWillBeSaved'
    OBVIOUS
  <2>1. ASSUME NEW n \in 1..Len(calls'), Unsaved(n)',
               \A j \in 1..Len(calls') : j > n => ~Unsaved(j)'
        PROVE  calls'[n].mode = mode'
    <3>1. Unsaved(up(n)) /\ up(n) \in 1..Len(calls)
      BY <1>1, <1>5, <2>1
    <3>2. ASSUME NEW j \in 1..Len(calls), j > up(n) PROVE ~Unsaved(j)
      <4>1. CASE j = i
        BY <4>1
      <4>2. CASE j # i
        BY <1>2, <1>3, <1>5, <2>1, <3>2, <4>2
      <4> QED BY <4>1, <4>2
    <3> QED BY <1>1, <3>1, <3>2 DEF ModeWillBeSaved
  <2>2. ASSUME \A n \in 1..Len(calls') : ~Unsaved(n)' PROVE mode' = saved'
    BY <1>3, <1>5, <2>2 DEF ModeWillBeSaved
  <2> QED BY <2>1, <2>2 DEF ModeWillBeSaved, Unsaved
<1>8. ModeWillBeSet => ModeWillBeSet'
  <2> SUFFICES ASSUME ModeWillBeSet PROVE ModeWillBeSet'
    OBVIOUS
  <2>1. ASSUME NEW n \in 1..Len(calls'), Sent(n)',
               \A j \in 1..Len(calls') : j > n => ~Sent(j)'
        PROVE  calls'[n].mode = mode'
    <3>1. Sent(up(n)) /\ up(n) \in 1..Len(calls)
      BY <1>1, <1>5, <2>1
    <3>2. ASSUME NEW j \in 1..Len(calls), j > up(n) PROVE ~Sent(j)
      <4>1. CASE j = i
        BY <4>1
      <4>2. CASE j # i
        BY <1>2, <1>3, <1>5, <2>1, <3>2, <4>2
      <4> QED BY <4>1, <4>2
    <3> QED BY <1>1, <3>1, <3>2 DEF ModeWillBeSet
  <2>2. ASSUME pushed', \A n \in 1..Len(calls') : ~Sent(n)' PROVE native' = mode'
    BY <1>3, <1>5, <2>2 DEF ModeWillBeSet
  <2> QED BY <2>1, <2>2 DEF ModeWillBeSet, Sent
<1>9. (\A j \in 1..Len(calls) : calls[j].stage = "saving") =>
         \A n \in 1..Len(calls') : calls'[n].stage = "saving"
  BY <1>1
<1> QED BY <1>4, <1>6, <1>7, <1>8, <1>9 DEF ModeInv

(* A call under way means that the notifier has been built. *)
LEMMA CallMeansOpened ==
    ASSUME ModeInv, NEW i \in 1..Len(calls)
    PROVE  opened
BY ModeTypes DEF ModeInv

LEMMA NativeSetsInv ==
    ASSUME ModeInv, NEW i \in 1..Len(calls), NativeSets(i)
    PROVE  ModeInv'
<1> USE DEF NativeSets, First
<1>0. opened /\ calls[i].mode \in Modes
  BY CallMeansOpened, ModeTypes DEF ModeInv, ModeCall
<1>1. /\ Len(calls) \in Nat
      /\ calls' \in Seq(ModeCall)
      /\ Len(calls') = Len(calls)
      /\ calls[i].stage = "sent"
      /\ calls'[i].stage = "set"
      /\ \A j \in 1..Len(calls) :
            /\ calls'[j].kind = calls[j].kind
            /\ calls'[j].mode = calls[j].mode
            /\ j # i => calls'[j].stage = calls[j].stage
      /\ \A j \in 1..i - 1 : j \in 1..Len(calls) /\ calls[j].stage # "sent"
  <2>1. ModeTypeOK /\ Len(calls) \in Nat
    BY ModeTypes DEF ModeInv
  <2>2. "set" \in {"set", "saving"}
    OBVIOUS
  <2>3. /\ calls' \in Seq(ModeCall)
        /\ Len(calls') = Len(calls)
        /\ calls'[i].stage = "set"
        /\ \A j \in 1..Len(calls) :
              /\ calls'[j].kind = calls[j].kind
              /\ calls'[j].mode = calls[j].mode
              /\ j # i => calls'[j].stage = calls[j].stage
    BY <2>1, <2>2, StageType
  <2>4. \A j \in 1..i - 1 : j \in 1..Len(calls)
    BY <2>1
  <2> HIDE DEF NativeSets
  <2>5. calls[i].stage = "sent" /\ \A j \in 1..i - 1 : calls[j].stage # "sent"
    BY DEF NativeSets
  <2> QED BY <2>1, <2>3, <2>4, <2>5
<1>2. ModeTypeOK'
  BY <1>0, <1>1, ModeTypes DEF ModeInv, ModeTypeOK, ModeCall
<1>3. ASSUME ~disturbed
      PROVE  /\ InOrder' /\ ModeWillBeSaved' /\ ModeWillBeSet'
             /\ mock' => \A j \in 1..Len(calls') : calls'[j].stage = "saving"
  <2> USE <1>3
  <2>1. InOrder /\ ModeWillBeSaved /\ ModeWillBeSet /\ ~mock
    BY <1>1 DEF ModeInv
  <2>2. \A j \in 1..Len(calls) : j < i => calls[j].stage # "sent"
    BY <1>1
  <2>3. \A j \in 1..Len(calls) : j > i => calls[j].stage = "sent"
    BY <1>1, <2>1, ModeTypes DEF InOrder, ModeInv, ModeCall
  <2>4. InOrder'
    BY <1>1, <2>1, <2>2, <2>3 DEF InOrder
  <2>5. \A j \in 1..Len(calls) : Unsaved(j)' <=> Unsaved(j)
    BY <1>1 DEF Unsaved
  <2>6. ModeWillBeSaved'
    BY <1>1, <2>1, <2>5 DEF ModeWillBeSaved, Unsaved
  <2>7. \A j \in 1..Len(calls) : Sent(j)' <=> j # i /\ Sent(j)
    BY <1>1 DEF Sent
  <2>8. ModeWillBeSet'
    BY <1>1, <2>1, <2>2, <2>7 DEF ModeWillBeSet, Sent
  <2> QED BY <2>1, <2>4, <2>6, <2>8
<1> QED BY <1>0, <1>2, <1>3 DEF ModeInv

LEMMA ReplyInv ==
    ASSUME ModeInv, NEW i \in 1..Len(calls), Reply(i)
    PROVE  ModeInv'
<1> USE DEF Reply, First
<1>0. opened /\ calls[i].mode \in Modes
  BY CallMeansOpened, ModeTypes DEF ModeInv, ModeCall
<1>1. CASE calls[i].kind # "set"
  BY <1>0, <1>1, RemovalKeeps DEF Unsaved, Sent
<1>2. CASE calls[i].kind = "set"
  <2> USE <1>2
  <2>1. /\ Len(calls) \in Nat
        /\ calls' \in Seq(ModeCall)
        /\ Len(calls') = Len(calls)
        /\ calls[i].stage = "set"
        /\ calls'[i].stage = "saving"
        /\ \A j \in 1..Len(calls) :
              /\ calls'[j].kind = calls[j].kind
              /\ calls'[j].mode = calls[j].mode
              /\ j # i => calls'[j].stage = calls[j].stage
        /\ saved' = calls[i].mode
        /\ \A j \in 1..i - 1 : j \in 1..Len(calls) /\ calls[j].stage # "set"
    BY StageType, ModeTypes DEF ModeInv
  <2>2. ModeTypeOK'
    BY <1>0, <2>1, ModeTypes DEF ModeInv, ModeTypeOK, ModeCall
  <2>3. ASSUME ~disturbed
        PROVE  /\ InOrder' /\ ModeWillBeSaved' /\ ModeWillBeSet'
               /\ mock' => \A j \in 1..Len(calls') : calls'[j].stage = "saving"
    <3> USE <2>3
    <3>1. InOrder /\ ModeWillBeSaved /\ ModeWillBeSet /\ ~mock
      BY <2>1 DEF ModeInv
    <3>2. \A j \in 1..Len(calls) : j < i => calls[j].stage = "saving"
      BY <2>1, <3>1, ModeTypes DEF InOrder, ModeInv, ModeCall
    <3>3. \A j \in 1..Len(calls) : j > i => calls[j].stage # "saving"
      BY <2>1, <3>1 DEF InOrder
    <3>4. InOrder'
      BY <2>1, <3>1, <3>2, <3>3 DEF InOrder
    <3>5. \A j \in 1..Len(calls) : Unsaved(j)' <=> j # i /\ Unsaved(j)
      BY <2>1 DEF Unsaved
    <3>6. Unsaved(i) /\ \A j \in 1..Len(calls) : j < i => ~Unsaved(j)
      BY <2>1, <3>2 DEF Unsaved
    <3>7. ModeWillBeSaved'
      BY <2>1, <3>1, <3>5, <3>6 DEF ModeWillBeSaved, Unsaved
    <3>8. \A j \in 1..Len(calls) : Sent(j)' <=> Sent(j)
      BY <2>1 DEF Sent
    <3>9. ModeWillBeSet'
      BY <2>1, <3>1, <3>8 DEF ModeWillBeSet, Sent
    <3> QED BY <3>1, <3>4, <3>7, <3>9
  <2> QED BY <1>0, <2>2, <2>3 DEF ModeInv
<1> QED BY <1>1, <1>2

(* A call that fails may leave the screen behind the handler; from then on
   nothing is promised until the calls under way have ended. *)
LEMMA SyncFailsInv ==
    ASSUME ModeInv, NEW i \in 1..Len(calls), SyncFails(i)
    PROVE  ModeInv'
<1> USE DEF SyncFails
<1>1. opened /\ calls' \in Seq(ModeCall)
  BY CallMeansOpened, ModeTypes, RemoveAtProperties DEF ModeInv
<1>2. ModeTypeOK'
  BY <1>1, ModeTypes DEF ModeInv, ModeTypeOK, ModeCall
<1> QED BY <1>1, <1>2 DEF ModeInv

LEMMA WrittenInv ==
    ASSUME ModeInv, NEW i \in 1..Len(calls), Written(i)
    PROVE  ModeInv'
BY CallMeansOpened, RemovalKeeps DEF Written, First, Unsaved, Sent

LEMMA ModeNextInv == ModeInv /\ ModeNext => ModeInv'
<1> SUFFICES ASSUME ModeInv, ModeNext PROVE ModeInv'
  OBVIOUS
<1>1. ASSUME NEW i \in DOMAIN calls, Answers(i) PROVE ModeInv'
  BY <1>1, ModeTypes, NativeSetsInv, ReplyInv, SyncFailsInv, WrittenInv
  DEF ModeInv, Answers
<1> QED BY <1>1, OpenInv, SetModeInv DEF ModeNext

-----------------------------------------------------------------------------
(* The two parts over one environment *)

ShellInv == mock \in BOOLEAN /\ HomeInv /\ ModeInv

LEMMA ShellInit == Init => ShellInv
BY HomeInitInv, ModeInitInv DEF Init, ShellInv, MockModeInit

LEMMA HomeKeepsMock == HomeNext => UNCHANGED mock
<1> SUFFICES ASSUME HomeNext PROVE UNCHANGED mock
  OBVIOUS
<1>1. CASE Tick \/ TapAll \/ Dismiss \/ Restart
  BY <1>1 DEF Tick, TapAll, Dismiss, Restart, Ask
<1>2. ASSUME NEW p \in Peers, Tap(p) \/ Confirm(p) PROVE UNCHANGED mock
  BY <1>2 DEF Tap, Confirm, Ask
<1>3. ASSUME NEW i \in DOMAIN pending, CallEnds(i) PROVE UNCHANGED mock
  BY <1>3 DEF CallEnds, EndConnect, EndDisconnect
<1> QED BY <1>1, <1>2, <1>3 DEF HomeNext

LEMMA ModeKeepsMock == ModeNext => UNCHANGED mock
<1> SUFFICES ASSUME ModeNext PROVE UNCHANGED mock
  OBVIOUS
<1>1. ASSUME NEW i \in DOMAIN calls, Answers(i) PROVE UNCHANGED mock
  BY <1>1 DEF Answers, NativeSets, Reply, SyncFails, Written
<1> QED BY <1>1 DEF ModeNext, Open, SetMode

LEMMA ShellNext == ShellInv /\ [Next]_vars => ShellInv'
<1> SUFFICES ASSUME ShellInv, [Next]_vars PROVE ShellInv'
  OBVIOUS
<1> USE DEF ShellInv
<1>1. CASE SwitchEnvironment
  BY <1>1, SwitchDemoInv, SwitchConnectivityInv DEF SwitchEnvironment, PickOtherMode
<1>2. CASE UseHome
  BY <1>2, HomeNextInv, HomeKeepsMock, ModeUnchanged DEF UseHome
<1>3. CASE UseSettings
  BY <1>3, ModeNextInv, ModeKeepsMock, HomeUnchanged DEF UseSettings
<1>4. CASE UNCHANGED vars
  BY <1>4, HomeUnchanged, ModeUnchanged DEF vars
<1> QED BY <1>1, <1>2, <1>3, <1>4 DEF Next

(* The inductive invariant of both parts, through every change of environment
   and every rebuild of the widget tree. *)
THEOREM ShellCorrect == Spec => []ShellInv
<1> QED BY ShellInit, ShellNext, PTL DEF Spec

(* Every variable has its type. *)
THEOREM ShellTypeCorrect == Spec => []TypeOK
<1>1. ShellInv => TypeOK
  BY DEF ShellInv, HomeInv, HomeTyped, ModeInv, TypeOK
<1> QED BY <1>1, ShellCorrect, PTL

(* A listed peer is marked connected exactly when it is linked, in whatever
   order delayed connects and disconnects, ticks and switches take effect. *)
THEOREM MarksAlwaysAgree == Spec => []MarksAgree
<1>1. ShellInv => MarksAgree
  BY DEF ShellInv, HomeInv
<1> QED BY <1>1, ShellCorrect, PTL

(* The indicator of the home screen stands for a connect under way, unless
   the screen was rebuilt under it. *)
THEOREM IndicatorAlwaysBacked == Spec => []IndicatorBacked
<1>1. ShellInv => IndicatorBacked
  <2>1. ShellInv => DOMAIN pending = 1..Len(pending)
    BY LenProperties DEF ShellInv, HomeInv, HomeTyped
  <2> QED BY <2>1 DEF ShellInv, HomeInv, WillClear, IndicatorBacked
<1> QED BY <1>1, ShellCorrect, PTL

(* Once no setMode is under way the mode shown is the mode saved, unless one
   of them failed or met a change of environment. *)
THEOREM QuietAlwaysAgrees == Spec => []QuietAgrees
<1>1. ShellInv => QuietAgrees
  <2> SUFFICES ASSUME ModeInv, calls = << >>, ~disturbed PROVE mode = saved
    BY DEF ShellInv, QuietAgrees
  <2>1. Len(calls) = 0
    OBVIOUS
  <2> QED BY <2>1 DEF ModeInv, ModeWillBeSaved
<1> QED BY <1>1, ShellCorrect, PTL

(* ... and the native handler runs it, if the last change was sent there. *)
THEOREM NativeAlwaysFollows == Spec => []NativeFollows
<1>1. ShellInv => NativeFollows
  <2> SUFFICES ASSUME ModeInv, calls = << >>, ~disturbed, pushed PROVE native = saved
    BY DEF ShellInv, NativeFollows
  <2>1. Len(calls) = 0
    OBVIOUS
  <2> QED BY <2>1 DEF ModeInv, ModeWillBeSaved, ModeWillBeSet
<1> QED BY <1>1, ShellCorrect, PTL
=============================================================================
