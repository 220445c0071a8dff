--------------------------- MODULE CommandService ---------------------------
(***************************************************************************)
(* What an operator is promised about a command given once: it takes effect*)
(* at most once, success is reported only after the effect, and a command  *)
(* reported as failed has had no effect and will never have one.  A command*)
(* may stay without a report.                                              *)
(*                                                                         *)
(* SimulationGui implements this specification.                            *)
(***************************************************************************)
CONSTANT Commands

VARIABLES
  given,      \* the commands given
  performed,  \* those that took effect
  told        \* per command: what the operator was told

vars == << given, performed, told >>

Init ==
  /\ given = {}
  /\ performed = {}
  /\ told = [c \in Commands |-> "nothing"]

Give(c) ==
  /\ c \notin given
  /\ given' = given \cup {c}
  /\ UNCHANGED << performed, told >>

Perform(c) ==
  /\ c \in given \ performed
  /\ told[c] = "nothing"
  /\ performed' = performed \cup {c}
  /\ UNCHANGED << given, told >>

Tell(c, what) ==
  /\ c \in given
  /\ told[c] = "nothing"
  /\ what = IF c \in performed THEN "success" ELSE "failure"
  /\ told' = [told EXCEPT ![c] = what]
  /\ UNCHANGED << given, performed >>

Refuse(c) ==
  /\ c \notin given
  /\ given' = given \cup {c}
  /\ told' = [told EXCEPT ![c] = "failure"]
  /\ UNCHANGED performed

Next == \E c \in Commands :
  Give(c) \/ Perform(c) \/ Refuse(c) \/ \E w \in {"success", "failure"} : Tell(c, w)

Spec == Init /\ [][Next]_vars
=============================================================================
