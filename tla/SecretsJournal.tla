--------------------------- MODULE SecretsJournal ---------------------------
(***************************************************************************)
(* The journal with which the agent stores the secrets of an enrollment    *)
(* (edge_agent/persist.py): the files are written to a staging directory,  *)
(* a DONE file marks them complete, then each is renamed into place.       *)
(* Every process that reads the secrets, or writes new ones, first         *)
(* recovers: it completes a staging directory with DONE, and removes one   *)
(* without.  A process can be killed between any two file operations; each *)
(* operation on a file (write to a temporary and rename) is atomic.        *)
(***************************************************************************)
EXTENDS Naturals, FiniteSets

CONSTANTS
    Processes,  \* processes on the device that touch the secrets
    Readers,    \* those of them that only read (status, run)
    FileSets,   \* the sets of files an enrollment may write
    MaxGen,     \* bound: number of enrollments
    MaxCrashes  \* bound: number of processes killed

ASSUME JournalAssumption ==
    /\ Readers \subseteq Processes
    /\ FileSets \subseteq SUBSET {"token", "ca", "mqtt"}
    /\ \A files \in FileSets : "token" \in files
    /\ MaxGen \in Nat
    /\ MaxCrashes \in Nat

VARIABLES
    config,     \* the files in place: generation of each, 0 if absent
    staging,    \* the files in the staging directory, likewise
    dir,        \* the staging directory exists
    done,       \* the DONE file exists in it
    proc,       \* the processes
    issued,     \* enrollments so far; the n-th has generation n
    crashes

vars == <<config, staging, dir, done, proc, issued, crashes>>

-----------------------------------------------------------------------------

File == {"token", "ca", "mqtt"}

\* The order in which files are written, and renamed into place.
Order == <<"token", "ca", "mqtt">>

\* pc: what the process does next; step: at which file of Order; todo: what
\* is left to unlink; gen and files: what it saves, gen = 0 for a reader;
\* saving: it is past its recovery.
Process == [pc     : {"idle", "recover", "mkdir", "write", "mark", "commit",
                      "list", "unlink"},
            step   : 1 .. 3,
            todo   : SUBSET (File \cup {"DONE"}),
            gen    : 0 .. MaxGen,
            files  : SUBSET File,
            saving : BOOLEAN]

Idle == [pc |-> "idle", step |-> 1, todo |-> {}, gen |-> 0, files |-> {},
         saving |-> FALSE]

Init ==
    /\ config = [f \in File |-> 0]
    /\ staging = [f \in File |-> 0]
    /\ dir = FALSE
    /\ done = FALSE
    /\ proc = [p \in Processes |-> Idle]
    /\ issued = 0
    /\ crashes = 0

Staged == {f \in File : staging[f] # 0} \cup (IF done THEN {"DONE"} ELSE {})

Goto(p, pc) == proc' = [proc EXCEPT ![p].pc = pc, ![p].step = 1]

-----------------------------------------------------------------------------

BeginRead(p) ==
    /\ proc[p].pc = "idle"
    /\ proc' = [proc EXCEPT ![p] = [Idle EXCEPT !.pc = "recover"]]
    /\ UNCHANGED <<config, staging, dir, done, issued, crashes>>

BeginSave(p, files) ==
    /\ proc[p].pc = "idle"
    /\ p \notin Readers
    /\ issued < MaxGen
    /\ issued' = issued + 1
    /\ proc' = [proc EXCEPT ![p] = [Idle EXCEPT !.pc = "recover",
                                                !.gen = issued',
                                                !.files = files]]
    /\ UNCHANGED <<config, staging, dir, done, crashes>>

\* The recovery, or the save, is over: go on to save, or return.
Finish(p) ==
    IF proc[p].gen # 0 /\ ~proc[p].saving THEN Goto(p, "mkdir")
    ELSE proc' = [proc EXCEPT ![p] = Idle]

\* Fault: an interrupted save is thrown away, complete or not.
RecoverDiscards(p) ==
    /\ proc[p].pc = "recover"
    /\ IF dir THEN Goto(p, "list") ELSE Finish(p)
    /\ UNCHANGED <<config, staging, dir, done, issued, crashes>>

\* recover_device_secrets: what it decides from the staging directory.
Recover(p) ==
    /\ proc[p].pc = "recover"
    /\ IF ~dir THEN Finish(p)
       ELSE IF done THEN Goto(p, "commit")
       ELSE Goto(p, "list")
    /\ UNCHANGED <<config, staging, dir, done, issued, crashes>>

\* A staging directory that is still there is removed first.
Mkdir(p) ==
    /\ proc[p].pc = "mkdir"
    /\ IF dir THEN Goto(p, "list") /\ UNCHANGED dir
       ELSE /\ dir' = TRUE
            /\ proc' = [proc EXCEPT ![p].pc = "write", ![p].saving = TRUE]
    /\ UNCHANGED <<config, staging, done, issued, crashes>>

\* The loop over Order, and where it goes after the last file.
Advance(p, pc) ==
    IF proc[p].step = 3 THEN Goto(p, pc)
    ELSE proc' = [proc EXCEPT ![p].step = @ + 1]

\* write_secret_file creates the directory if it has to.  The rewriting of
\* mqtt.json with the final path of the CA file is part of its write.
Write(p) ==
    LET f == Order[proc[p].step]
    IN  /\ proc[p].pc = "write"
        /\ IF f \in proc[p].files
           THEN staging' = [staging EXCEPT ![f] = proc[p].gen] /\ dir' = TRUE
           ELSE UNCHANGED <<staging, dir>>
        /\ Advance(p, "mark")
        /\ UNCHANGED <<config, done, issued, crashes>>

WriteDone(p) ==
    /\ proc[p].pc = "mark"
    /\ done' = TRUE
    /\ dir' = TRUE
    /\ Goto(p, "commit")
    /\ UNCHANGED <<config, staging, issued, crashes>>

\* _commit_staging: rename the next file into place, if it is there.
CommitFile(p) ==
    LET f == Order[proc[p].step]
    IN  /\ proc[p].pc = "commit"
        /\ IF staging[f] # 0
           THEN /\ config' = [config EXCEPT ![f] = staging[f]]
                /\ staging' = [staging EXCEPT ![f] = 0]
           ELSE UNCHANGED <<config, staging>>
        /\ Advance(p, "list")
        /\ UNCHANGED <<dir, done, issued, crashes>>

\* shutil.rmtree: list the directory, unlink what was listed in any order,
\* remove the directory if that left it empty.
List(p) ==
    /\ proc[p].pc = "list"
    /\ proc' = [proc EXCEPT ![p].pc = "unlink", ![p].todo = Staged]
    /\ UNCHANGED <<config, staging, dir, done, issued, crashes>>

Unlink(p) ==
    /\ proc[p].pc = "unlink"
    /\ \E f \in proc[p].todo :
          /\ proc' = [proc EXCEPT ![p].todo = @ \ {f}]
          /\ IF f = "DONE" THEN done' = FALSE /\ UNCHANGED staging
             ELSE staging' = [staging EXCEPT ![f] = 0] /\ UNCHANGED done
    /\ UNCHANGED <<config, dir, issued, crashes>>

Rmdir(p) ==
    /\ proc[p].pc = "unlink"
    /\ proc[p].todo = {}
    /\ dir' = (dir /\ Staged # {})
    /\ Finish(p)
    /\ UNCHANGED <<config, staging, done, issued, crashes>>

Crash(p) ==
    /\ proc[p].pc # "idle"
    /\ crashes < MaxCrashes
    /\ crashes' = crashes + 1
    /\ proc' = [proc EXCEPT ![p] = Idle]
    /\ UNCHANGED <<config, staging, dir, done, issued>>

Next ==
    \E p \in Processes :
       \/ BeginRead(p)
       \/ \E files \in FileSets : BeginSave(p, files)
       \/ Recover(p)
       \/ Mkdir(p)
       \/ Write(p)
       \/ WriteDone(p)
       \/ CommitFile(p)
       \/ List(p)
       \/ Unlink(p)
       \/ Rmdir(p)
       \/ Crash(p)

Spec == Init /\ [][Next]_vars

-----------------------------------------------------------------------------

\* What a process that reads the secrets gets after its recovery.
Effective ==
    [f \in File |-> IF done /\ staging[f] # 0 THEN staging[f] ELSE config[f]]

Secrets == INSTANCE AtomicSecrets WITH saved <- Effective

\* With one process at a time, killed wherever it may be, the files of an
\* enrollment become effective together, and are never taken back.
FilesCommitTogether == Secrets!Spec
=============================================================================
