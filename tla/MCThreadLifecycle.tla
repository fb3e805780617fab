------------------------- MODULE MCThreadLifecycle -------------------------
(* ThreadLifecycle for TLC: the kinds of task.                             *)
EXTENDS ThreadLifecycle

AllKinds == [looping : BOOLEAN, blocks : BOOLEAN]
SpinningLoop == {[looping |-> TRUE, blocks |-> FALSE]}
=============================================================================
