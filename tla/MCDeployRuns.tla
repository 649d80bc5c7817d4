---------------------------- MODULE MCDeployRuns ----------------------------
(***************************************************************************)
(* Small instances of DeployRuns for TLC.                                  *)
(***************************************************************************)
EXTENDS DeployRuns, TLC

\* The phases that change something, one of each kind.
ShortOrder == <<"create_droplet", "create_dns", "install_espocrm", "check_dns",
                "certificate", "verify", "create_instance">>

InstallOnly == <<"install_espocrm", "post_install">>

\* Workers and addresses are interchangeable; used for safety only.
Symm == Permutations(Worker) \cup Permutations(Address)

\* A phase on the server whose completion a later worker honours.
OneStep == <<"server_prep">>
=============================================================================
