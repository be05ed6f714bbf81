------------------------------ MODULE MCClients ------------------------------
(* An instance of Clients for TLC. *)
EXTENDS Clients

CONSTANTS alice, bob

(* One text that fits into a frame and one that does not. *)
TwoLengths == {100, 200}

Budget(c, r, s, m, t, o) ==
    [client |-> c, reports |-> r, sessions |-> s, messages |-> m, texts |-> t, offers |-> o]

(* The console: sessions that come and go; messages and a prompt; a text   *)
(* and a message beside a session that may go; two prompts.  The window:   *)
(* the same without prompts.                                               *)
SevenBudgets ==
    {Budget("console", 3, 3, 0, 0, 0),
     Budget("console", 0, 2, 2, 0, 1),
     Budget("console", 2, 1, 1, 1, 0),
     Budget("console", 1, 1, 1, 0, 2),
     Budget("gui", 3, 3, 0, 0, 0),
     Budget("gui", 2, 2, 1, 0, 0),
     Budget("gui", 2, 1, 1, 1, 0)}
=============================================================================
