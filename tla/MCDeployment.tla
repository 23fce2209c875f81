----------------------------- MODULE MCDeployment -----------------------------
(* One request is enough: requests do not meet, except that the process waits *)
(* for all of them.  Two faults make every pair of failures and signals.      *)
EXTENDS Deployment

OneRequest == {"request"}
=============================================================================
