------------------------------- MODULE AppShell -------------------------------
(***************************************************************************)
(* The environment dialog of app.dart, over the two parts of the user      *)
(* interface that call the discovery service: the home screen with its     *)
(* peers, and the connectivity mode.  They share mockModeProvider, which   *)
(* both read, and nothing else; so a behaviour uses one of the two pages.  *)
(***************************************************************************)
EXTENDS DemoDiscovery, Connectivity

VARIABLE page  \* bound: the page this behaviour uses

vars == <<mock, demo, prefs, page>>

Init == MockModeInit /\ HomeInit /\ ModeInit /\ page \in {"home", "settings"}

(* mockModeProvider changes, and with it the service both parts read. *)
SwitchEnvironment ==
    /\ PickOtherMode
    /\ SwitchDemo
    /\ SwitchConnectivity
    /\ UNCHANGED page

UseHome     == page = "home" /\ HomeNext /\ UNCHANGED <<prefs, page>>
UseSettings == page = "settings" /\ ModeNext /\ UNCHANGED <<demo, page>>

Next == SwitchEnvironment \/ UseHome \/ UseSettings

Spec == Init /\ [][Next]_vars

(* Delays pass and the native side answers: the oldest call under way ends, so
   every call does. *)
FairSpec == Spec /\ WF_vars(EndsOldest /\ UNCHANGED <<prefs, page>>)

(* Every variable has its type. *)
TypeOK == mock \in BOOLEAN /\ HomeTypeOK /\ ModeTypeOK
=============================================================================
