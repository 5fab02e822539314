---- MODULE MockMode ----
(* The choice between demo and release, mockModeProvider, which the provider of
   every service watches.  Both parts of the user interface extend this module,
   so that they read the same choice. *)

VARIABLE mock

MockModeInit == mock = TRUE

(* Picking the other entry of the dialog in app.dart. *)
PickOtherMode == mock' = ~mock
====
