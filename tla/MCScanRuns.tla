----------------------------- MODULE MCScanRuns -----------------------------
(* Small instances of ScanRuns for TLC.                                    *)
EXTENDS ScanRuns, TLC

CONSTANTS r1, r2

OneRun  == {r1}
TwoRuns == {r1, r2}

(* Every fault; those that leave at most one execution of a run; the loss  *)
(* of Redis alone.                                                         *)
AllFaults      == FaultKinds
AtMostOnce     == {"raise", "redis", "db", "api", "timeout"}
RedisOnly      == {"redis"}
=============================================================================
