----------------------------- MODULE Connectivity -----------------------------
(***************************************************************************)
(* The choice between performance and connected mode                       *)
(* (ConnectivityModeNotifier in connectivity_provider.dart): the state     *)
(* shown, the preference saved, and the mode of the native handler, which  *)
(* learns of it over the method channel.  In demo mode the sync reaches    *)
(* nobody and succeeds at once.                                            *)
(*                                                                         *)
(* setMode calls may overlap.  The channel and the preferences each answer *)
(* in the order they were asked; a preference reads as its new value from  *)
(* the moment its write is asked for.                                      *)
(***************************************************************************)
EXTENDS MockMode, SequencesExt

CONSTANT MaxCalls  \* bound: calls under way at once

ASSUME ConnectivityAssumption == MaxCalls \in Nat \ {0}

VARIABLES opened,    \* whether the notifier has been built
          mode,      \* its state
          saved,     \* the preference
          native,    \* currentMode of the native handler
          calls,     \* the calls under way, in the order they were made
          pushed,    \* history: whether the last change was sent to the handler
          disturbed  \* history: a call failed, or the environment changed
                     \* under one, since none was under way

prefs == <<opened, mode, saved, native, calls, pushed, disturbed>>

Modes == {"performance", "connected"}

ModeInit ==
    /\ opened = FALSE
    /\ saved \in Modes
    /\ mode = saved
    /\ native = "performance"
    /\ calls = << >>
    /\ pushed = FALSE
    /\ disturbed = FALSE

Call(kind, m, stage) ==
    /\ Len(calls) < MaxCalls
    /\ calls' = Append(calls, [kind |-> kind, mode |-> m, stage |-> stage])
    /\ disturbed' = (disturbed /\ calls # << >>)

Open_PushesDefault ==
    /\ ~opened
    /\ opened' = TRUE
    /\ IF mock THEN UNCHANGED <<calls, disturbed>> ELSE Call("initial", "performance", "sent")
    /\ UNCHANGED <<mock, mode, saved, native, pushed>>

(* The settings sheet builds the notifier, which pushes the saved mode to the
   service of the moment and waits for nothing. *)
Open ==
    /\ ~opened
    /\ opened' = TRUE
    /\ IF mock THEN UNCHANGED <<calls, disturbed>> ELSE Call("initial", saved, "sent")
    /\ UNCHANGED <<mock, mode, saved, native, pushed>>

(* setMode up to its first wait: the sync, or in demo mode the write. *)
SetMode(m) ==
    /\ opened
    /\ m # mode
    /\ mode' = m
    /\ IF mock
       THEN Call("set", m, "saving") /\ saved' = m /\ pushed' = FALSE
       ELSE Call("set", m, "sent") /\ UNCHANGED <<saved, pushed>>
    /\ UNCHANGED <<mock, opened, native>>

(* Call i is the first of its stage. *)
First(i, stage) ==
    /\ calls[i].stage = stage
    /\ \A j \in 1..i - 1 : calls[j].stage # stage

NativeSets(i) ==
    /\ First(i, "sent")
    /\ native' = calls[i].mode
    /\ calls' = [calls EXCEPT ![i].stage = "set"]
    /\ pushed' = TRUE
    /\ UNCHANGED <<mock, opened, mode, saved, disturbed>>

Reply_BeforeSaving(i) ==
    /\ First(i, "set")
    /\ calls' = RemoveAt(calls, i)
    /\ UNCHANGED <<mock, opened, mode, saved, native, pushed, disturbed>>

Reply(i) ==
    /\ First(i, "set")
    /\ IF calls[i].kind = "set"
       THEN /\ saved' = calls[i].mode
            /\ calls' = [calls EXCEPT ![i].stage = "saving"]
       ELSE calls' = RemoveAt(calls, i) /\ UNCHANGED saved
    /\ UNCHANGED <<mock, opened, mode, native, pushed, disturbed>>

(* An error on the channel: the state goes back to what is saved. *)
SyncFails(i) ==
    /\ First(i, "sent")
    /\ calls' = RemoveAt(calls, i)
    /\ IF calls[i].kind = "set"
       THEN mode' = saved
       ELSE UNCHANGED mode
    /\ disturbed' = TRUE
    /\ UNCHANGED <<mock, opened, saved, native, pushed>>

Written(i) ==
    /\ First(i, "saving")
    /\ calls' = RemoveAt(calls, i)
    /\ UNCHANGED <<mock, opened, mode, saved, native, pushed, disturbed>>

Answers(i) == NativeSets(i) \/ Reply(i) \/ SyncFails(i) \/ Written(i)

(* What the environment switch does here: a call under way is left with the
   service it was made on. *)
SwitchConnectivity ==
    /\ disturbed' = (disturbed \/ calls # << >>)
    /\ UNCHANGED <<opened, mode, saved, native, calls, pushed>>

ModeNext ==
    \/ Open
    \/ \E m \in Modes : SetMode(m)
    \/ \E i \in DOMAIN calls : Answers(i)

-----------------------------------------------------------------------------
(* Properties *)

ModeTypeOK ==
    /\ {opened, pushed, disturbed} \subseteq BOOLEAN
    /\ {mode, saved, native} \subseteq Modes
    /\ calls \in Seq([kind : {"initial", "set"}, mode : Modes,
                      stage : {"sent", "set", "saving"}])

(* However setMode calls overlap, once none is under way the mode shown is
   the mode saved, unless one of them failed or met a change of environment. *)
QuietAgrees == calls = << >> /\ ~disturbed => mode = saved

(* ... and if the last change went to the native handler, it runs that mode:
   a later choice is never overtaken by an earlier one. *)
NativeFollows == calls = << >> /\ ~disturbed /\ pushed => native = saved
=============================================================================
