---------------------------- MODULE MCEventLoop ----------------------------
(* Instances of EventLoop. *)
EXTENDS EventLoop

Mode(mutex, c, f) == [mutex |-> mutex, multi |-> ~mutex, connects |-> c, faults |-> f]

MCModes == {Mode(TRUE, 1, 1), Mode(FALSE, 1, 0), Mode(FALSE, 0, 1)}
=============================================================================
