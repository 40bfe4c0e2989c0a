--------------------------------- MODULE Link ---------------------------------
(***************************************************************************)
(* A TCP link as the controllers above BaseTcpClient see it: it is wanted   *)
(* or not, up or down, and they have been told so.  It comes up only while  *)
(* it is wanted, and nobody is left with news that is out of date.          *)
(***************************************************************************)
VARIABLES wanted,   \* connectToHost was asked for and not taken back
          up,       \* isConnected()
          told      \* last signalConnectedToHost: "none" before the first

vars == <<wanted, up, told>>

Init == ~wanted /\ ~up /\ told = "none"

Want == wanted' = TRUE /\ UNCHANGED <<up, told>>

Establish == /\ wanted /\ ~up
             /\ up' = TRUE /\ told' = "Connected"
             /\ UNCHANGED wanted

Fail == /\ wanted /\ ~up
        /\ told' = "Disconnected"
        /\ UNCHANGED <<wanted, up>>

Lose == /\ up
        /\ up' = FALSE /\ told' = "Disconnected"
        /\ UNCHANGED wanted

Unwant == /\ wanted' = FALSE /\ up' = FALSE
          /\ told' = IF up THEN "Disconnected" ELSE told

Next == Want \/ Establish \/ Fail \/ Lose \/ Unwant

Spec == Init /\ [][Next]_vars
==============================================================================
