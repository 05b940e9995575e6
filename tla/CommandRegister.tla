---------------------------- MODULE CommandRegister ----------------------------
(***************************************************************************)
(* What the command path of the server promises for one tracker.           *)
(*                                                                         *)
(* App users issue commands.  Every command is a new revision, numbered by *)
(* its position; revision 0 is the state the device row was created with.  *)
(* The tracker actuates revisions, in whatever order the network brings    *)
(* them.  A revision is confirmed only after the tracker actuated it, and  *)
(* the confirmed revision never goes back.                                 *)
(***************************************************************************)
EXTENDS Integers, Sequences

CONSTANT Controls        \* the settings a command can ask for

VARIABLES
    commands,            \* commands[v + 1]: what revision v asks for
    actuated,            \* the revisions the tracker has actuated
    confirmed            \* the newest revision known to be actuated

vars == <<commands, actuated, confirmed>>

Latest == Len(commands) - 1

Init ==
    /\ \E c \in Controls : commands = <<c>>
    /\ actuated = {0}
    /\ confirmed = 0

\* An app user asks for new settings.
Issue(c) ==
    /\ commands' = Append(commands, c)
    /\ UNCHANGED <<actuated, confirmed>>

\* The tracker actuates a revision it was told of: never one not yet issued.
Actuate(v) ==
    /\ actuated' = actuated \union {v}
    /\ UNCHANGED <<commands, confirmed>>

\* The server learns that the tracker actuated v; older news changes nothing.
Confirm(v) ==
    /\ v >= confirmed
    /\ confirmed' = v
    /\ UNCHANGED <<commands, actuated>>

Next ==
    \/ \E c \in Controls : Issue(c)
    \/ \E v \in 0..Latest : Actuate(v)
    \/ \E v \in actuated : Confirm(v)

Spec == Init /\ [][Next]_vars
=============================================================================
