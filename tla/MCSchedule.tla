----------------------------- MODULE MCSchedule -----------------------------
(* TLC instance of Schedule. *)
EXTENDS Schedule, TLC

Every(target, opts) ==
    [subject |-> "sched", pattern |-> "@every", target |-> target, opts |-> opts]

MCRequests ==
    { Every("t", << >>),
      Every("t", << <<"ttl", 0>>, <<"ttl", 2>> >>),
      Every("t", << <<"rollup", 0>> >>),
      Every("t", << <<"ttl", 0>> >>),
      [subject |-> "sched", pattern |-> "@at", target |-> "t", opts |-> << >>],
      [subject |-> "sched", pattern |-> "nonsense", target |-> "t", opts |-> << >>],
      [subject |-> "sched", pattern |-> "", target |-> "t", opts |-> << >>] }
MCRemovals ==
    { [stream |-> "S", subject |-> "sched"], [stream |-> "other", subject |-> "sched"],
      [stream |-> "missing", subject |-> "sched"], [stream |-> "S", subject |-> ""],
      [stream |-> "S", subject |-> "t"] }
MCStreams == {"S", "other"}
MCParsed == {"@every", "@at"}
MCOneShots == {"@at"}
Symmetry == Permutations(Callers)
=============================================================================
