---------------------------- MODULE MCRequestLocks ----------------------------
(* Instances of RequestLocks for TLC. *)
EXTENDS RequestLocks, TLC

CONSTANTS c1, c2

\* The machines agree; what sets the clocks apart is the test that moves one.
SomeSkews == {0}

\* A test moves its clock a step back or forth.
SomeAdvances == {-1, 1}

\* A duration of NaN seconds arrives as 0.
SomeWindows == {0, 2}

SomeExtensions == {0, 1}

=============================================================================
