------------------------------ MODULE MCBroker ------------------------------
(* Small instances of Broker. *)
EXTENDS Broker, TLC

CONSTANTS App, Extra, Terminate, Pause, Published, Chat

\* main: what each component subscribes to, which is what it has callbacks for
\* (the app also has callbacks for what the TCP sessions push to it).  A third
\* component competes for the two ids and stands for one that main does not
\* attach.
MainSubscriptions ==
    Discovery :> {Terminate, Pause} @@ App :> {Terminate, Published} @@ Extra :> {Terminate}
MainCallbacks ==
    Discovery :> {Terminate, Pause} @@ App :> {Terminate, Published, Chat} @@ Extra :> {Terminate}

ASSUME MainIsUnshared == Unshared
=============================================================================
