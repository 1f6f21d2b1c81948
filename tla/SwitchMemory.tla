---------------------------- MODULE SwitchMemory ----------------------------
(***************************************************************************)
(* What switches with their preferences promise: after a restart of the    *)
(* same firmware each switch begins as its restore mode has it for the     *)
(* state that was last kept, or for none; never for another switch's, nor  *)
(* for one it has never had.                                               *)
(***************************************************************************)
EXTENDS Integers

CONSTANTS
    Switch, Image,
    Begin   \* the position a switch begins with, by what was kept

Absent == "absent"
Position == {"on", "off"}

VARIABLES
    now,    \* a switch's position, or that it is not there
    kept,   \* what the next start of this firmware would restore
    once,   \* everything that was ever kept
    image   \* the firmware

vars == <<now, kept, once, image>>
Gone == [s \in Switch |-> Absent]

Init == now = Gone /\ kept = Gone /\ once = [s \in Switch |-> {}] /\ image \in Image

Start(s) ==
    /\ now[s] = Absent
    /\ now' = [now EXCEPT ![s] = Begin[s][kept[s]]]
    /\ UNCHANGED <<kept, once, image>>

Turn(s) ==
    /\ now[s] # Absent
    /\ \E p \in Position : now' = [now EXCEPT ![s] = p]
    /\ UNCHANGED <<kept, once, image>>

Keep(s) ==
    /\ now[s] # Absent
    /\ kept' = [kept EXCEPT ![s] = now[s]]
    /\ once' = [once EXCEPT ![s] = @ \cup {now[s]}]
    /\ UNCHANGED <<now, image>>

\* What was kept may be lost, but does not change.
Forget ==
    /\ kept' \in [Switch -> Position \cup {Absent}]
    /\ \A s \in Switch : kept'[s] \in {kept[s], Absent}
    /\ UNCHANGED <<now, once, image>>

\* Another firmware may find what the switch has kept earlier, or nothing.
Restart ==
    /\ now' = Gone /\ image' \in Image
    /\ kept' \in [Switch -> Position \cup {Absent}]
    /\ \A s \in Switch : kept'[s] \in IF image' = image THEN {kept[s]}
                                      ELSE once[s] \cup {Absent}
    /\ UNCHANGED once

Next == Forget \/ Restart \/ \E s \in Switch : Start(s) \/ Turn(s) \/ Keep(s)
Spec == Init /\ [][Next]_vars
=============================================================================
