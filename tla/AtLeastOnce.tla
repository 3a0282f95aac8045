---------------------------- MODULE AtLeastOnce ----------------------------
(***************************************************************************)
(* What the hub and the daemons that serve an agent promise together, with *)
(* neither leases nor polls nor acks: a message the hub accepted is        *)
(* recorded as delivered only when a daemon has dealt with it or dropped   *)
(* it after an error of its own, and once its fate is recorded it is not   *)
(* delivered anew.  Module Delivery implements this (Delivery!Promise).    *)
(***************************************************************************)
CONSTANTS
    Msgs,      \* messages to the agent
    Skipped    \* messages a daemon acknowledges without dealing with them

VARIABLES
    fate,      \* what the hub knows of a message
    handled,   \* the messages a daemon has dealt with
    dropped    \* the messages a daemon gave up after an error

avars == <<fate, handled, dropped>>

(***************************************************************************)
(* "open": accepted, and some daemon still has to see to it; "withdrawn":  *)
(* recalled while open.  The last three are what the sender may be told.   *)
(***************************************************************************)
Reported == {"delivered", "answered", "failed"}
Fates == {"none", "open", "withdrawn"} \cup Reported

Init ==
    /\ fate = [m \in Msgs |-> "none"]
    /\ handled = {}
    /\ dropped = {}

Accept(m) ==
    /\ fate[m] = "none"
    /\ fate' = [fate EXCEPT ![m] = "open"]
    /\ UNCHANGED <<handled, dropped>>

Withdraw(m) ==
    /\ fate[m] = "open"
    /\ fate' = [fate EXCEPT ![m] = "withdrawn"]
    /\ UNCHANGED <<handled, dropped>>

\* Once or more often, and possibly late: after the message failed or was
\* withdrawn.
Handle(m) ==
    /\ fate[m] # "none"
    /\ handled' = handled \cup {m}
    /\ UNCHANGED <<fate, dropped>>

\* The daemon's handler fails, and nothing tries the message again.
Drop(m) ==
    /\ fate[m] # "none"
    /\ dropped' = dropped \cup {m}
    /\ UNCHANGED <<fate, handled>>

Deliver(m) ==
    /\ fate[m] # "none"
    /\ m \in handled \cup dropped \cup Skipped
    /\ fate' = [fate EXCEPT ![m] = "delivered"]
    /\ UNCHANGED <<handled, dropped>>

\* The receiver's own word on the message, or the end of its time to live.
Answer(m) ==
    /\ fate[m] # "none"
    /\ fate' = [fate EXCEPT ![m] = "answered"]
    /\ UNCHANGED <<handled, dropped>>

Fail(m) ==
    /\ fate[m] # "none"
    /\ fate' = [fate EXCEPT ![m] = "failed"]
    /\ UNCHANGED <<handled, dropped>>

Next == \E m \in Msgs :
    \/ Accept(m) \/ Withdraw(m) \/ Handle(m) \/ Drop(m)
    \/ Deliver(m) \/ Answer(m) \/ Fail(m)

Spec == Init /\ [][Next]_avars
=============================================================================
