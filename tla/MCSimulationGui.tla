--------------------------- MODULE MCSimulationGui ---------------------------
(* SimulationGui with a move of the box or a throw, and an order after it. *)
EXTENDS SimulationGui
MCCommands == {<< "set_obstacle", 1 >>, << "throw_food", 1 >>, << "request_food", 2 >>}
=============================================================================
