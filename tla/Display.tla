------------------------------ MODULE Display ------------------------------
(***************************************************************************)
(* What the X server's display promises, whatever way the pixels take to   *)
(* it.  Pixels are abstracted to cells, and what a cell shows to the       *)
(* number of the drawing it comes from: a later drawing has a greater      *)
(* number.                                                                 *)
(*                                                                         *)
(* The screen never goes back to older pixels, it shows nothing that was   *)
(* not drawn, and it does not forget what it was told about unless the     *)
(* device refused it.                                                      *)
(***************************************************************************)
EXTENDS Naturals

CONSTANT Cells

VARIABLES
    content,  \* what X has drawn
    shown,    \* what the screen shows
    owed,     \* the cells that damage was reported for and that have not been dealt with
    refused   \* the cells whose pixels the device did not take

vars == <<content, shown, owed, refused>>

Init ==
    /\ \A c \in Cells : shown[c] <= content[c]
    /\ owed = {}
    /\ refused = {}

\* X draws, and tells the display about it or does not.
Draw ==
    /\ \A c \in Cells : content[c] <= content'[c]
    /\ owed \subseteq owed'
    /\ UNCHANGED <<shown, refused>>

\* Pixels reach the screen.
Refresh ==
    /\ \A c \in Cells : shown[c] <= shown'[c] /\ shown'[c] <= content[c]
    /\ owed' \subseteq owed
    /\ \A c \in owed \ owed' : shown'[c] = content[c] \/ c \in refused'
    /\ UNCHANGED content

Next == Draw \/ Refresh

Safety == Init /\ [][Next]_vars

Liveness == \A c \in Cells : c \in owed ~> (shown[c] = content[c] \/ c \in refused)

Spec == Safety /\ Liveness
=============================================================================
