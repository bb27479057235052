-------------------------------- MODULE MCJobs --------------------------------
(***************************************************************************)
(* Three requests: two that write what the other may be writing, and one   *)
(* that changes or deletes the job meanwhile.                              *)
(***************************************************************************)
EXTENDS Jobs

MCMay ==
    << {"patch", "findings", "run_status"},
       {"findings", "create_run", "run_status", "delete"},
       {"patch", "delete"} >>

MCPatches == << {"patch"}, {"patch"} >>
=============================================================================
