---------------------------- MODULE AtomicSecrets ----------------------------
(***************************************************************************)
(* What edge_agent/persist.py promises: the device token and the MQTT      *)
(* files of one enrollment "commit together".  The files of a generation   *)
(* become the agent's secrets in one step, or not at all, and a generation *)
(* never gives way to an older one.                                        *)
(***************************************************************************)
EXTENDS Naturals

CONSTANTS
    FileSets,   \* the sets of files an enrollment may write
    MaxGen      \* bound: number of enrollments

VARIABLE saved  \* the generation of each file the agent will read; 0: none

File == {"token", "ca", "mqtt"}

Init == saved = [f \in File |-> 0]

Save(gen, files) ==
    /\ gen > saved["token"]
    /\ saved' = [f \in File |-> IF f \in files THEN gen ELSE saved[f]]

Next == \E gen \in 1 .. MaxGen, files \in FileSets : Save(gen, files)

Spec == Init /\ [][Next]_saved
=============================================================================
