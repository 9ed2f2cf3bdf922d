---------------------------- MODULE MCExecTarget ----------------------------
(* Instances of ExecTarget for TLC: web is in known_hosts and has a key     *)
(* configured, db is neither.                                               *)
EXTENDS ExecTarget

CONSTANTS web, db

Both == {web, db}
OnlyWeb == {web}
=============================================================================
