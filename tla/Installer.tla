----------------------------- MODULE Installer -----------------------------
(***************************************************************************)
(* The installer (installer/edge_installer): apply, upgrade, destroy and   *)
(* plan of one installation, each a process that may be killed anywhere.   *)
(* They share the lock file, the state file with its temporary, the        *)
(* variables terraform reads, and the infrastructure, of which terraform   *)
(* keeps an account of its own (terraform.tfstate, with its own lock) that *)
(* is taken to be right.                                                   *)
(***************************************************************************)
EXTENDS Naturals

CONSTANTS
    Processes,   \* process ids; each runs one command
    NoProcess,
    MaxInstance  \* bound: instances created

ASSUME InstallerAssumption ==
    /\ NoProcess \notin Processes
    /\ {"absent", "empty"} \cap Processes = {}
    /\ MaxInstance \in Nat

VARIABLES
    lockFile,   \* install.lock: absent, empty, or the process id in it
    stateFile,  \* installation.json: the instance recorded in it
    temp,       \* installation.json.tmp
    tfvars,     \* whose configuration terraform.tfvars.json holds
    infra,      \* the instance that runs, and whose configuration it has
    created,    \* instances created so far
    proc,       \* the commands
    raced       \* history: two commands took the lock at the same time

vars == <<lockFile, stateFile, temp, tfvars, infra, created, proc, raced>>

-----------------------------------------------------------------------------

Operations == {"apply", "upgrade", "destroy", "plan"}

\* What a state file holds: an instance, 0 for an absent file, or "torn" for
\* one that was opened for writing and not written.
Torn == MaxInstance + 1

File == 0 .. Torn

Infra == [instance : 0 .. MaxInstance, config : Processes \cup {NoProcess}]

NoInfra == [instance |-> 0, config |-> NoProcess]

Acquiring == {"remove", "create", "stamp"}

Holding == {"tfvars", "terraform", "deploy", "upgrade", "teardown", "open",
            "write", "replace", "forget", "release"}

\* orphan: the command was killed, and the terraform it started runs on.
\* saving: the instance of the state it is to save.
Command == [pc     : {"new", "locate", "plan", "orphan", "over"}
                         \cup Acquiring \cup Holding,
            op     : Operations,
            saving : 0 .. MaxInstance,
            result : {"none", "done", "failed", "refused"}]

Fresh == [pc |-> "new", op |-> "plan", saving |-> 0, result |-> "none"]

Init ==
    /\ lockFile = "absent"
    /\ stateFile = 0
    /\ temp = 0
    /\ tfvars = NoProcess
    /\ infra = NoInfra
    /\ created = 0
    /\ proc = [p \in Processes |-> Fresh]
    /\ raced = FALSE

Goto(p, pc) == proc' = [proc EXCEPT ![p].pc = pc]

Ends(p, pc, result) ==
    proc' = [proc EXCEPT ![p] = [@ EXCEPT !.pc = pc, !.result = result]]

-----------------------------------------------------------------------------

\* load_state: no file, or StateError.
Unreadable == {0, Torn}

\* The constructor copies the terraform modules into the working directory,
\* also for a command that is refused later.  upgrade reads the state before
\* it takes the lock, and gives up without one.
Begin(p, op) ==
    /\ proc[p].pc = "new"
    /\ \/ /\ op = "upgrade"
          /\ stateFile \in Unreadable
          /\ proc' = [proc EXCEPT ![p] = [Fresh EXCEPT !.pc = "over", !.op = op,
                                                       !.result = "failed"]]
       \/ /\ op = "upgrade" => stateFile \notin Unreadable
          /\ proc' = [proc EXCEPT ![p] =
                         [Fresh EXCEPT !.pc = IF op = "plan" THEN "plan"
                                              ELSE "locate",
                                       !.op = op,
                                       !.saving = IF op = "upgrade" THEN stateFile
                                                  ELSE 0]]
    /\ UNCHANGED <<lockFile, stateFile, temp, tfvars, infra, created, raced>>

\* plan writes the variables without the lock.
Plan(p) ==
    /\ proc[p].pc = "plan"
    /\ tfvars' = p
    /\ Ends(p, "over", "done")
    /\ UNCHANGED <<lockFile, stateFile, temp, infra, created, raced>>

-----------------------------------------------------------------------------
(* InstallationLock                                                        *)

\* Fault: the lock of a process that died is honoured.
AliveEver(p) == p \in Processes

\* os.kill(pid, 0).
Alive(p) == p \in Processes /\ proc[p].pc \notin {"orphan", "over"}

\* Fault: a lock that exists is taken over.
BusyNever(file) == FALSE

Busy(file) == Alive(file)

\* The file is looked at; an empty one is overwritten, a stale one removed.
Locate(p) ==
    /\ proc[p].pc = "locate"
    /\ \/ Busy(lockFile) /\ Ends(p, "over", "refused")
       \/ ~Busy(lockFile) /\ lockFile \in Processes /\ Goto(p, "remove")
       \/ lockFile \notin Processes /\ Goto(p, "create")
    /\ raced' = (raced \/ \E q \in Processes : proc[q].pc \in Acquiring)
    /\ UNCHANGED <<lockFile, stateFile, temp, tfvars, infra, created>>

Remove(p) ==
    /\ proc[p].pc = "remove"
    /\ lockFile' = "absent"
    /\ Goto(p, "create")
    /\ UNCHANGED <<stateFile, temp, tfvars, infra, created, raced>>

\* write_text opens the file, then writes into it.
Create(p) ==
    /\ proc[p].pc = "create"
    /\ lockFile' = "empty"
    /\ Goto(p, "stamp")
    /\ UNCHANGED <<stateFile, temp, tfvars, infra, created, raced>>

FirstStep == [apply |-> "tfvars", upgrade |-> "upgrade", destroy |-> "teardown"]

Stamp(p) ==
    /\ proc[p].pc = "stamp"
    /\ lockFile' = p
    /\ Goto(p, FirstStep[proc[p].op])
    /\ UNCHANGED <<stateFile, temp, tfvars, infra, created, raced>>

\* Whoever's lock it is.
Release(p) ==
    /\ proc[p].pc = "release"
    /\ lockFile' = "absent"
    /\ Goto(p, "over")
    /\ UNCHANGED <<stateFile, temp, tfvars, infra, created, raced>>

-----------------------------------------------------------------------------
(* apply                                                                   *)

WriteTfvars(p) ==
    /\ proc[p].pc = "tfvars"
    /\ tfvars' = p
    /\ Goto(p, "terraform")
    /\ UNCHANGED <<lockFile, stateFile, temp, infra, created, raced>>

\* terraform apply creates an instance, changes the one there is, or replaces
\* it, and may fail before or after that.
Applied(config) ==
    \/ /\ created < MaxInstance
       /\ infra' = [instance |-> created + 1, config |-> config]
       /\ created' = created + 1
    \/ /\ infra.instance # 0
       /\ infra' = [infra EXCEPT !.config = config]
       /\ UNCHANGED created

\* terraform refuses to start while another one holds its state lock.
TerraformBusy == \E q \in Processes : proc[q].pc = "orphan"

TerraformApply(p) ==
    /\ proc[p].pc = "terraform"
    /\ \/ /\ ~TerraformBusy
          /\ Applied(tfvars)
          /\ \/ proc' = [proc EXCEPT ![p] = [@ EXCEPT !.pc = "deploy",
                                                     !.saving = infra'.instance]]
             \/ Ends(p, "release", "failed")
       \/ UNCHANGED <<infra, created>> /\ Ends(p, "release", "failed")
    /\ UNCHANGED <<lockFile, stateFile, temp, tfvars, raced>>

\* SSH, the playbook, the health check, and the load of the state there is.
Deploy(p) ==
    /\ proc[p].pc = "deploy"
    /\ \/ stateFile # Torn /\ Goto(p, "open")
       \/ Ends(p, "release", "failed")
    /\ UNCHANGED <<lockFile, stateFile, temp, tfvars, infra, created, raced>>

\* upgrade: terraform's outputs must be there.
Upgrade(p) ==
    /\ proc[p].pc = "upgrade"
    /\ \/ infra.instance # 0 /\ Goto(p, "open")
       \/ Ends(p, "release", "failed")
    /\ UNCHANGED <<lockFile, stateFile, temp, tfvars, infra, created, raced>>

-----------------------------------------------------------------------------
(* save_state: a temporary, which all commands share, renamed into place.  *)

\* Fault: the state is written in place.
OpenInPlace(p) ==
    /\ proc[p].pc = "open"
    /\ stateFile' = Torn
    /\ Goto(p, "write")
    /\ UNCHANGED <<lockFile, temp, tfvars, infra, created, raced>>

OpenTemp(p) ==
    /\ proc[p].pc = "open"
    /\ temp' = Torn
    /\ Goto(p, "write")
    /\ UNCHANGED <<lockFile, stateFile, tfvars, infra, created, raced>>

WriteTemp(p) ==
    /\ proc[p].pc = "write"
    /\ temp' = proc[p].saving
    /\ Goto(p, "replace")
    /\ UNCHANGED <<lockFile, stateFile, tfvars, infra, created, raced>>

ReplaceState(p) ==
    /\ proc[p].pc = "replace"
    /\ IF temp = 0
       THEN Ends(p, "release", "failed") /\ UNCHANGED <<stateFile, temp>>
       ELSE stateFile' = temp /\ temp' = 0 /\ Ends(p, "release", "done")
    /\ UNCHANGED <<lockFile, tfvars, infra, created, raced>>

-----------------------------------------------------------------------------
(* destroy                                                                 *)

\* Fault: a failed destruction is passed over, as a failed playbook is.
AfterFailureForget == {"release", "forget"}

AfterFailure == {"release"}

\* Its playbook may fail and is passed over; terraform destroy may not.
TerraformDestroy(p) ==
    /\ proc[p].pc = "teardown"
    /\ \/ ~TerraformBusy /\ infra' = NoInfra /\ tfvars' = p /\ Goto(p, "forget")
       \/ /\ UNCHANGED infra
          /\ tfvars' = p
          /\ \E pc \in AfterFailure : Ends(p, pc, "failed")
    /\ UNCHANGED <<lockFile, stateFile, temp, created, raced>>

Forget(p) ==
    /\ proc[p].pc = "forget"
    /\ stateFile' = 0
    /\ Ends(p, "release", "done")
    /\ UNCHANGED <<lockFile, temp, tfvars, infra, created, raced>>

-----------------------------------------------------------------------------

Kill(p) ==
    /\ proc[p].pc \notin {"new", "orphan", "over"}
    /\ \/ Ends(p, "over", "failed")
       \/ /\ proc[p].pc \in {"terraform", "teardown"}
          /\ ~TerraformBusy
          /\ Ends(p, "orphan", "failed")
    /\ UNCHANGED <<lockFile, stateFile, temp, tfvars, infra, created, raced>>

\* The processes whose plan wrote the variables.
Planned == {q \in Processes : proc[q].op = "plan" /\ proc[q].result = "done"}

\* The terraform of a killed command ends.  It read the variables when it
\* started: its own, or those a plan had written over them.
OrphanEnds(p) ==
    /\ proc[p].pc = "orphan"
    /\ \/ /\ proc[p].op = "apply"
          /\ \E q \in {p} \cup Planned : Applied(q)
       \/ proc[p].op = "destroy" /\ infra' = NoInfra /\ UNCHANGED created
       \/ UNCHANGED <<infra, created>>
    /\ Goto(p, "over")
    /\ UNCHANGED <<lockFile, stateFile, temp, tfvars, raced>>

Next ==
    \E p \in Processes :
        \/ \E op \in Operations : Begin(p, op)
        \/ Plan(p)
        \/ Locate(p) \/ Remove(p) \/ Create(p) \/ Stamp(p) \/ Release(p)
        \/ WriteTfvars(p) \/ TerraformApply(p) \/ Deploy(p) \/ Upgrade(p)
        \/ OpenTemp(p) \/ WriteTemp(p) \/ ReplaceState(p)
        \/ TerraformDestroy(p) \/ Forget(p)
        \/ Kill(p) \/ OrphanEnds(p)

Spec == Init /\ [][Next]_vars

-----------------------------------------------------------------------------

TypeOK ==
    /\ lockFile \in {"absent", "empty"} \cup Processes
    /\ stateFile \in File
    /\ temp \in File
    /\ tfvars \in Processes \cup {NoProcess}
    /\ infra \in Infra
    /\ created \in 0 .. MaxInstance
    /\ infra.instance <= created
    /\ proc \in [Processes -> Command]
    /\ raced \in BOOLEAN

Holders == {p \in Processes : proc[p].pc \in Holding}

\* As long as no two commands take the lock at the same moment, one command at
\* a time is past it, also after others were killed with the lock in their
\* hands (InstallationLock).
OneHolder ==
    ~raced => \A p, q \in Holders : p = q

\* A command is only refused while another one is at work ("Another installer
\* operation is in progress", InstallationLockedError): no killed command locks
\* the installation for good.
RefusedOnlyWhenBusy ==
    [][\A p \in Processes :
           proc'[p].result = "refused" /\ proc[p].result # "refused"
               => Holders # {}]_vars

\* The state file is whole, wherever a save was cut off (store.py, "Atomic
\* installer state persistence").
StateFileWhole == ~raced => stateFile # Torn

\* What a command reports when it is done is so: apply has recorded the
\* instance that runs, with its own configuration or one that a plan wrote
\* meanwhile, and destroy has left neither instance nor record.
ReportsAreTrue ==
    ~raced =>
        \A p \in Holders :
            proc[p].pc = "release" /\ proc[p].result = "done" =>
                /\ proc[p].op = "apply" =>
                       /\ infra.instance # 0
                       /\ stateFile = infra.instance
                       /\ infra.config \in {p} \cup Planned
                /\ proc[p].op = "destroy" => infra = NoInfra /\ stateFile = 0
=============================================================================
