--------------------------- MODULE MCProcessCycle ---------------------------
(***************************************************************************)
(* Instances of ProcessCycle: one worker under many signals, the cache     *)
(* processes and a second worker under fewer; and a crash whose respawn    *)
(* fails, with a reload or another crash after it.                         *)
(***************************************************************************)
EXTENDS ProcessCycle

AllFaults == {"crash", "hang", "fork", "fatal"}

MCConfigurations ==
    {[workers |-> 1, helpers |-> {}, signals |-> 3, maxFaults |-> 1, faults |-> AllFaults],
     [workers |-> 1, helpers |-> {"manager", "loader"}, signals |-> 1, maxFaults |-> 1,
      faults |-> AllFaults],
     [workers |-> 2, helpers |-> {}, signals |-> 1, maxFaults |-> 1, faults |-> AllFaults],
     [workers |-> 1, helpers |-> {}, signals |-> 2, maxFaults |-> 2, faults |-> {"crash", "fork"}],
     [workers |-> 2, helpers |-> {}, signals |-> 1, maxFaults |-> 3, faults |-> {"crash", "fork"}]}
=============================================================================
