------------------------------- MODULE Switches -------------------------------
(***************************************************************************)
(* The two switches that everything unattended looks at before it works:   *)
(* whether Alex has paused the company, and whether the day's AI spending  *)
(* is below its ceiling.                                                   *)
(***************************************************************************)

None == "none"

VARIABLES
  paused,    \* operating_state.paused
  spending   \* SpendGate.allowed()

switches == <<paused, spending>>

SwitchesInit == paused = FALSE /\ spending = TRUE

\* Alex's mail (module Operating says how), and the day's calls and its turn.
Flip ==
  \/ paused' = ~paused /\ UNCHANGED spending
  \/ spending' = ~spending /\ UNCHANGED paused

\* From some moment on nothing keeps the unattended work from going on.
OpenForGood == <>[](~paused /\ spending)
=============================================================================
