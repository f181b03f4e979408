---------------------------- MODULE MCTaskRunner ----------------------------
(* TaskRunner for TLC. *)
EXTENDS TaskRunner

\* One failure type per rule of the policy that a build can reach: retry,
\* stop, and the repair that is chosen but never made.
AllRules == {"kpatch_constraint", "compile_failed", "build_env_missing"}

RetryOnly == {"kpatch_constraint"}

=============================================================================
