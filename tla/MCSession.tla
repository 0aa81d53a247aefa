------------------------------ MODULE MCSession ------------------------------
(***************************************************************************)
(* The hosts for the model checking of module Session.                     *)
(***************************************************************************)
EXTENDS Session

\* Windows, where TerminateProcess does its work, and Linux or macOS, where a
\* game may survive it.
MCHosts == {[platform |-> "windows", survives |-> FALSE],
            [platform |-> "posix", survives |-> TRUE]}
=============================================================================
