------------------------------ MODULE Settings ------------------------------
(***************************************************************************)
(* What README.md promises of the configuration: settings can be changed   *)
(* one by one, what is saved is what is set, and when the system starts    *)
(* the settings are those of the file; nothing else changes either.  It    *)
(* knows no lines, no commands and no script.  Cli implements it.          *)
(***************************************************************************)
EXTENDS Naturals

VARIABLES
  set,           (* set[name]: the value in use                            *)
  saved,         (* saved[name]: the one the file stands for               *)
  asked          (* number of commands and starts                          *)

gvars == <<set, saved, asked>>

Change == /\ \E name \in DOMAIN set : \A other \in DOMAIN set \ {name} : set'[other] = set[other]
          /\ UNCHANGED saved
Save   == saved' = set /\ UNCHANGED set
Start  == set' = saved /\ UNCHANGED saved

Init == set = saved /\ asked = 0
Next == asked' = asked + 1 /\ (Change \/ Save \/ Start)
Spec == Init /\ [][Next]_gvars
=============================================================================
