----------------------------- MODULE MCStartup ------------------------------
(* Values for model checking Startup.                                      *)
EXTENDS Startup

Kind(os, ffi, says, clones) == [os |-> os, ffi |-> ffi, says |-> says, clones |-> clones]

(* Cloning that works, where a copy has the time it was made; and cloning  *)
(* that does not work although it is promised, where it has an old time.   *)
SomeVolumes == {Kind("linux", TRUE, TRUE, TRUE), Kind("windows", TRUE, TRUE, FALSE)}
OneVolume == {Kind("linux", TRUE, TRUE, TRUE)}
=============================================================================
