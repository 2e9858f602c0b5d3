-------------------------- MODULE InstallerProofs --------------------------
(***************************************************************************)
(* Proofs about Installer: its type invariant, that one command holds the  *)
(* lock, that a refusal means another command is at work, that the state   *)
(* file is whole, and that what a command reports is so.                   *)
(***************************************************************************)
EXTENDS Installer, TLAPS

Involved == Acquiring \cup Holding

\* Which command is where, and whose lock a process id in the lock file is:
\* that of a command past the lock, or of one that was killed there.
Placed(p) ==
    /\ proc[p].pc \in {"locate", "orphan"} \cup Involved => proc[p].op # "plan"
    /\ proc[p].pc \in {"tfvars", "terraform", "deploy"} => proc[p].op = "apply"
    /\ proc[p].pc = "plan" => proc[p].op = "plan"
    /\ proc[p].pc = "upgrade" => proc[p].op = "upgrade"
    /\ proc[p].pc \in {"teardown", "forget"} => proc[p].op = "destroy"
    /\ proc[p].pc \in {"open", "write", "replace"} => proc[p].op # "destroy"
    /\ proc[p].result = "done" => proc[p].pc \in {"release", "over"}
    /\ lockFile = p => proc[p].pc \in Holding \cup {"orphan", "over"}

PlacedInv == \A p \in Processes : Placed(p)

\* One command at a time is past the look at the lock file, and the lock it
\* then holds is its own.
SoloInv ==
    ~raced =>
        /\ \A p, q \in Processes :
               proc[p].pc \in Involved /\ proc[q].pc \in Involved => p = q
        /\ \A p \in Processes : proc[p].pc \in Holding => lockFile = p

\* A temporary that is about to be renamed is the one its command wrote.
SaveInv ==
    ~raced =>
        /\ stateFile # Torn
        /\ \A p \in Processes : proc[p].pc = "replace" => temp = proc[p].saving

\* An apply whose terraform is done: the instance to save is the one that
\* runs.
Standing(p) ==
    /\ ~TerraformBusy
    /\ proc[p].saving # 0
    /\ infra.instance = proc[p].saving
    /\ infra.config \in {p} \cup Planned

Reports(p) ==
    /\ proc[p].pc = "terraform" => tfvars \in {p} \cup Planned
    /\ proc[p].op = "apply" =>
           /\ proc[p].pc \in {"deploy", "open", "write", "replace"} => Standing(p)
           /\ proc[p].pc = "release" /\ proc[p].result = "done"
                  => Standing(p) /\ stateFile = proc[p].saving
    /\ proc[p].op = "destroy" =>
           /\ proc[p].pc = "forget" => ~TerraformBusy /\ infra = NoInfra
           /\ proc[p].pc = "release" /\ proc[p].result = "done"
                  => ~TerraformBusy /\ infra = NoInfra /\ stateFile = 0

ReportInv == ~raced => \A p \in Processes : Reports(p)

LockInv == TypeOK /\ PlacedInv /\ SoloInv

InstallInv == LockInv /\ SaveInv /\ ReportInv

-----------------------------------------------------------------------------
(* How a command moves                                                     *)

ControlPoints == {"new", "locate", "plan", "orphan", "over"} \cup Involved

Results == {"none", "done", "failed", "refused"}

\* Everyone but p stays where it is.
OthersStay(p) == \A q \in Processes : q # p => proc'[q] = proc[q]

\* What Goto and Ends do to the command that moves, and that they touch no
\* other.
LEMMA GotoMoves ==
    ASSUME NEW p \in Processes, NEW pc \in ControlPoints,
           proc \in [Processes -> Command], Goto(p, pc)
    PROVE  /\ proc' \in [Processes -> Command]
           /\ proc'[p].pc = pc
           /\ proc'[p].op = proc[p].op
           /\ proc'[p].saving = proc[p].saving
           /\ proc'[p].result = proc[p].result
           /\ OthersStay(p)
<1> DEFINE moved == [proc[p] EXCEPT !.pc = pc]
<1>1. proc[p] \in Command
    OBVIOUS
<1>2. /\ moved \in Command
      /\ moved.pc = pc /\ moved.op = proc[p].op
      /\ moved.saving = proc[p].saving /\ moved.result = proc[p].result
    BY <1>1 DEF Command, ControlPoints, Involved
<1>3. proc' = [proc EXCEPT ![p] = moved]
    BY DEF Goto
<1> HIDE DEF moved
<1>4. /\ proc' \in [Processes -> Command]
      /\ proc'[p] = moved
      /\ OthersStay(p)
    BY <1>2, <1>3 DEF OthersStay
<1> QED
    BY <1>2, <1>4

\* Ends moves one command to its end, with a result.
LEMMA EndsMoves ==
    ASSUME NEW p \in Processes, NEW pc \in ControlPoints, NEW result \in Results,
           proc \in [Processes -> Command], Ends(p, pc, result)
    PROVE  /\ proc' \in [Processes -> Command]
           /\ proc'[p].pc = pc
           /\ proc'[p].op = proc[p].op
           /\ proc'[p].saving = proc[p].saving
           /\ proc'[p].result = result
           /\ OthersStay(p)
<1> DEFINE moved == [proc[p] EXCEPT !.pc = pc, !.result = result]
<1>1. proc[p] \in Command
    OBVIOUS
<1>2. /\ moved \in Command
      /\ moved.pc = pc /\ moved.op = proc[p].op
      /\ moved.saving = proc[p].saving /\ moved.result = result
    BY <1>1 DEF Command, ControlPoints, Involved, Results
<1>3. proc' = [proc EXCEPT ![p] = moved]
    BY DEF Ends
<1> HIDE DEF moved
<1>4. /\ proc' \in [Processes -> Command]
      /\ proc'[p] = moved
      /\ OthersStay(p)
    BY <1>2, <1>3 DEF OthersStay
<1> QED
    BY <1>2, <1>4

\* The types at the start.
LEMMA TypeInit == Init => TypeOK
<1> SUFFICES ASSUME Init PROVE TypeOK
    OBVIOUS
<1>1. Fresh \in Command
    BY InstallerAssumption DEF Fresh, Command, Operations
<1>2. stateFile \in File /\ temp \in File
    BY InstallerAssumption DEF Init, File, Torn
<1>3. infra \in Infra /\ infra.instance <= created /\ created \in 0 .. MaxInstance
    BY InstallerAssumption DEF Init, Infra, NoInfra
<1>4. proc \in [Processes -> Command]
    BY <1>1 DEF Init
<1> QED
    BY <1>2, <1>3, <1>4 DEF Init, TypeOK

\* What terraform makes is a new instance with the variables it read.
LEMMA AppliedType ==
    ASSUME TypeOK, NEW config \in Processes \cup {NoProcess}, Applied(config)
    PROVE  /\ infra' \in Infra
           /\ created' \in 0 .. MaxInstance
           /\ infra'.instance <= created'
           /\ infra'.instance \in 1 .. MaxInstance
           /\ infra'.config = config
    BY InstallerAssumption DEF TypeOK, Applied, Infra

\* A command begins with the look at the lock, or with its plan.
LEMMA BeginMoves ==
    ASSUME TypeOK, NEW p \in Processes, NEW op \in Operations, Begin(p, op)
    PROVE  /\ proc' \in [Processes -> Command]
           /\ proc'[p].pc \in {"locate", "plan", "over"}
           /\ proc'[p].pc = "locate" => proc'[p].op # "plan"
           /\ proc'[p].pc = "plan" => proc'[p].op = "plan"
           /\ proc'[p].result \in {"none", "failed"}
           /\ OthersStay(p)
<1>0. Fresh \in Command /\ Fresh.result = "none"
    BY InstallerAssumption DEF Fresh, Command, Operations
<1>1. CASE /\ op = "upgrade"
           /\ proc' = [proc EXCEPT ![p] = [Fresh EXCEPT !.pc = "over", !.op = op,
                                                        !.result = "failed"]]
    <2> DEFINE command == [Fresh EXCEPT !.pc = "over", !.op = op,
                                        !.result = "failed"]
    <2>1. /\ command \in Command
          /\ command.pc = "over" /\ command.result = "failed"
        BY <1>0 DEF Command
    <2>2. proc' = [proc EXCEPT ![p] = command]
        BY <1>1
    <2> HIDE DEF command
    <2>3. proc'[p] = command /\ proc' \in [Processes -> Command] /\ OthersStay(p)
        BY <2>1, <2>2 DEF TypeOK, OthersStay
    <2> QED
        BY <2>1, <2>3
<1>2. CASE /\ op = "upgrade" => stateFile \notin Unreadable
           /\ proc' = [proc EXCEPT ![p] =
                          [Fresh EXCEPT !.pc = IF op = "plan" THEN "plan"
                                               ELSE "locate",
                                        !.op = op,
                                        !.saving = IF op = "upgrade" THEN stateFile
                                                   ELSE 0]]
    <2> DEFINE pc == IF op = "plan" THEN "plan" ELSE "locate"
               saving == IF op = "upgrade" THEN stateFile ELSE 0
               command == [Fresh EXCEPT !.pc = pc, !.op = op, !.saving = saving]
    <2>1. proc' = [proc EXCEPT ![p] = command]
        BY <1>2
    <2>2. saving \in 0 .. MaxInstance
        BY <1>2, InstallerAssumption DEF TypeOK, File, Torn, Unreadable
    <2>3. /\ pc \in {"locate", "plan"}
          /\ pc = "locate" => op # "plan"
          /\ pc = "plan" => op = "plan"
        OBVIOUS
    <2> HIDE DEF saving, pc
    <2>4. /\ command \in Command
          /\ command.pc = pc /\ command.op = op /\ command.result = "none"
        BY <1>0, <2>2, <2>3 DEF Command
    <2> HIDE DEF command
    <2>5. proc'[p] = command /\ proc' \in [Processes -> Command] /\ OthersStay(p)
        BY <2>1, <2>4 DEF TypeOK, OthersStay
    <2> QED
        BY <2>3, <2>4, <2>5
<1> QED
    BY <1>1, <1>2 DEF Begin

\* What the steps that need more than that do to the commands.
LEMMA LocateMoves ==
    ASSUME TypeOK, NEW p \in Processes, Locate(p)
    PROVE  /\ proc' \in [Processes -> Command]
           /\ proc'[p].op = proc[p].op
           /\ OthersStay(p)
           /\ \/ /\ Busy(lockFile)
                 /\ proc'[p].pc = "over" /\ proc'[p].result = "refused"
              \/ /\ ~Busy(lockFile)
                 /\ proc'[p].pc \in {"remove", "create"}
                 /\ proc'[p].result = proc[p].result
<1>1. CASE Busy(lockFile) /\ Ends(p, "over", "refused")
    BY <1>1, EndsMoves DEF TypeOK, ControlPoints, Results
<1>2. CASE ~Busy(lockFile) /\ Goto(p, "remove")
    BY <1>2, GotoMoves DEF TypeOK, ControlPoints, Involved, Acquiring
<1>3. CASE lockFile \notin Processes /\ Goto(p, "create")
    BY <1>3, GotoMoves
       DEF TypeOK, ControlPoints, Involved, Acquiring, Busy, Alive
<1> QED
    BY <1>1, <1>2, <1>3 DEF Locate

\* Who has written its process id goes on to the work of its command.
LEMMA StampMoves ==
    ASSUME TypeOK, PlacedInv, NEW p \in Processes, Stamp(p)
    PROVE  /\ proc' \in [Processes -> Command]
           /\ proc'[p].op = proc[p].op
           /\ proc'[p].result = proc[p].result
           /\ OthersStay(p)
           /\ \/ proc[p].op = "apply" /\ proc'[p].pc = "tfvars"
              \/ proc[p].op = "upgrade" /\ proc'[p].pc = "upgrade"
              \/ proc[p].op = "destroy" /\ proc'[p].pc = "teardown"
<1>1. proc[p].op \in {"apply", "upgrade", "destroy"}
    BY DEF TypeOK, Command, Operations, Stamp, PlacedInv, Placed, Involved,
           Acquiring
<1>2. FirstStep[proc[p].op] \in ControlPoints
    BY <1>1 DEF FirstStep, ControlPoints, Involved, Holding
<1>3. \/ proc[p].op = "apply" /\ FirstStep[proc[p].op] = "tfvars"
      \/ proc[p].op = "upgrade" /\ FirstStep[proc[p].op] = "upgrade"
      \/ proc[p].op = "destroy" /\ FirstStep[proc[p].op] = "teardown"
    BY <1>1 DEF FirstStep
<1> QED
    BY <1>2, <1>3, GotoMoves DEF TypeOK, Stamp

\* Terraform's apply ends well or badly, and may have had its effect either
\* way.
LEMMA TerraformMoves ==
    ASSUME TypeOK, NEW p \in Processes, TerraformApply(p)
    PROVE  /\ proc' \in [Processes -> Command]
           /\ proc'[p].op = proc[p].op
           /\ OthersStay(p)
           /\ infra' \in Infra /\ created' \in 0 .. MaxInstance
           /\ infra'.instance <= created'
           /\ \/ /\ proc'[p].pc = "deploy" /\ proc'[p].result = proc[p].result
                 /\ ~TerraformBusy
                 /\ infra'.config = tfvars
                 /\ infra'.instance = proc'[p].saving
                 /\ infra'.instance # 0
              \/ proc'[p].pc = "release" /\ proc'[p].result = "failed"
<1>1. CASE /\ ~TerraformBusy
           /\ Applied(tfvars)
           /\ proc' = [proc EXCEPT ![p] = [proc[p] EXCEPT !.pc = "deploy",
                                                     !.saving = infra'.instance]]
    <2> DEFINE running == infra'.instance
               moved == [proc[p] EXCEPT !.pc = "deploy", !.saving = running]
    <2>1. /\ infra' \in Infra /\ created' \in 0 .. MaxInstance
          /\ running <= created' /\ running \in 1 .. MaxInstance
          /\ infra'.config = tfvars
        BY <1>1, AppliedType DEF TypeOK
    <2>2. proc' = [proc EXCEPT ![p] = moved]
        BY <1>1
    <2>3. proc[p] \in Command
        BY DEF TypeOK
    <2> HIDE DEF running
    <2>4. running \in 0 .. MaxInstance /\ running # 0
        BY <2>1, InstallerAssumption
    <2>5. /\ moved \in Command
          /\ moved.pc = "deploy" /\ moved.op = proc[p].op
          /\ moved.saving = running /\ moved.result = proc[p].result
        BY <2>3, <2>4 DEF Command, Holding
    <2> HIDE DEF moved
    <2>6. proc'[p] = moved /\ proc' \in [Processes -> Command] /\ OthersStay(p)
        BY <2>2, <2>5 DEF TypeOK, OthersStay
    <2> QED
        BY <1>1, <2>1, <2>4, <2>5, <2>6 DEF running
<1>2. CASE Applied(tfvars) /\ Ends(p, "release", "failed")
    <2>1. tfvars \in Processes \cup {NoProcess}
        BY DEF TypeOK
    <2>2. /\ infra' \in Infra /\ created' \in 0 .. MaxInstance
          /\ infra'.instance <= created'
        BY <1>2, <2>1, AppliedType
    <2> QED
        BY <1>2, <2>2, EndsMoves
           DEF TypeOK, ControlPoints, Involved, Holding, Results
<1>3. CASE UNCHANGED <<infra, created>> /\ Ends(p, "release", "failed")
    BY <1>3, EndsMoves DEF TypeOK, ControlPoints, Involved, Holding, Results
<1> QED
    BY <1>1, <1>2, <1>3 DEF TerraformApply

-----------------------------------------------------------------------------
(* The lock                                                                *)

Step(p) ==
    \/ \E op \in Operations : Begin(p, op)
    \/ Plan(p)
    \/ Locate(p) \/ Remove(p) \/ Create(p) \/ Stamp(p) \/ Release(p)
    \/ WriteTfvars(p) \/ TerraformApply(p) \/ Deploy(p) \/ Upgrade(p)
    \/ OpenTemp(p) \/ WriteTemp(p) \/ ReplaceState(p)
    \/ TerraformDestroy(p) \/ Forget(p)
    \/ Kill(p) \/ OrphanEnds(p)

\* Nobody is past the look at the lock file.
Free == \A q \in Processes : proc[q].pc \notin Involved

\* What a step means for the lock.
LockStep(p) ==
    /\ OthersStay(p)
    /\ Placed(p)'
    /\ lockFile' \in {lockFile, "absent", "empty", p}
    /\ proc'[p].result = "refused" => proc[p].result = "refused" \/ Busy(lockFile)
    /\ raced => raced'
    /\ ~raced' =>
           /\ proc'[p].pc \in Involved => proc[p].pc \in Involved \/ Free
           /\ proc'[p].pc \in Holding => lockFile' = p
           /\ lockFile' # lockFile => proc[p].pc \in Involved

\* Which step leads where.
Arrival(p) ==
    /\ proc'[p].pc = "terraform" => WriteTfvars(p)
    /\ proc'[p].pc = "deploy" => TerraformApply(p)
    /\ proc'[p].pc = "open" => Deploy(p) \/ Upgrade(p)
    /\ proc'[p].pc = "write" => OpenTemp(p)
    /\ proc'[p].pc = "replace" => WriteTemp(p)
    /\ proc'[p].pc = "forget" => TerraformDestroy(p)
    /\ proc'[p].pc = "orphan" => proc[p].pc \in {"terraform", "teardown"}
    /\ proc'[p].pc = "release" /\ proc'[p].result = "done"
           => ReplaceState(p) \/ Forget(p)

\* With nobody at the lock file, a lock that is not honoured means that nobody
\* is past it.
LEMMA FreeLock ==
    ASSUME LockInv, ~raced, ~Busy(lockFile),
           \A q \in Processes : proc[q].pc \notin Acquiring
    PROVE  Free
<1> SUFFICES ASSUME NEW q \in Processes, proc[q].pc \in Holding PROVE FALSE
    BY DEF Free, Involved
<1>1. lockFile = q
    BY DEF LockInv, SoloInv
<1> QED
    BY <1>1 DEF Busy, Alive, Holding

\* What every step of a command does to the lock, and where it leaves the
\* command.
LEMMA LockSteps ==
    ASSUME LockInv, NEW p \in Processes, Step(p)
    PROVE  TypeOK' /\ LockStep(p) /\ Arrival(p)
<1> USE DEF LockInv
<1>0. /\ proc \in [Processes -> Command]
      /\ Placed(p)
      /\ ~raced /\ proc[p].pc \in Holding => lockFile = p
      /\ "absent" \notin Processes /\ "empty" \notin Processes
      /\ raced \in BOOLEAN
    BY InstallerAssumption DEF TypeOK, PlacedInv, SoloInv
<1>1. CASE \E op \in Operations : Begin(p, op)
    <2>1. PICK op \in Operations : Begin(p, op)
        BY <1>1
    <2>2. /\ proc' \in [Processes -> Command] /\ OthersStay(p)
          /\ proc'[p].pc \in {"locate", "plan", "over"}
          /\ proc'[p].pc = "locate" => proc'[p].op # "plan"
          /\ proc'[p].pc = "plan" => proc'[p].op = "plan"
          /\ proc'[p].result \in {"none", "failed"}
        BY <2>1, BeginMoves
    <2>3. UNCHANGED <<lockFile, stateFile, temp, tfvars, infra, created, raced>>
        BY <2>1 DEF Begin
    <2>4. proc[p].pc = "new"
        BY <2>1 DEF Begin
    <2>5. TypeOK'
        BY <2>2, <2>3 DEF TypeOK
    <2>6. Arrival(p)
        BY <1>1, <2>2 DEF Arrival
    <2> QED
        BY <2>6, <1>0, <2>2, <2>3, <2>4, <2>5
           DEF LockStep, Placed, ControlPoints, Involved, Acquiring, Holding
<1>2. CASE Plan(p)
    <2>1. /\ proc' \in [Processes -> Command] /\ OthersStay(p)
          /\ proc'[p].pc = "over" /\ proc'[p].op = proc[p].op
          /\ proc'[p].result = "done"
        BY <1>2, <1>0, EndsMoves
           DEF Plan, ControlPoints, Involved, Acquiring, Holding, Results
    <2>2. TypeOK'
        BY <1>2, <2>1 DEF Plan, TypeOK
    <2>3. Arrival(p)
        BY <1>2, <2>1 DEF Arrival
    <2> QED
        BY <2>3, <1>2, <1>0, <2>1, <2>2
           DEF Plan, LockStep, Placed, ControlPoints, Involved, Acquiring,
               Holding
<1>3. CASE Locate(p)
    <2>1. /\ proc' \in [Processes -> Command] /\ OthersStay(p)
          /\ proc'[p].op = proc[p].op
          /\ \/ /\ Busy(lockFile)
                /\ proc'[p].pc = "over" /\ proc'[p].result = "refused"
             \/ /\ ~Busy(lockFile) /\ proc'[p].pc \in {"remove", "create"}
                /\ proc'[p].result = proc[p].result
        BY <1>3, LocateMoves
    <2>2. TypeOK'
        BY <1>3, <2>1 DEF Locate, TypeOK
    <2>3. ~raced' => ~raced /\ \A q \in Processes : proc[q].pc \notin Acquiring
        BY <1>3 DEF Locate
    <2>4. ~raced' /\ proc'[p].pc \in Involved => Free
        BY <2>1, <2>3, FreeLock DEF ControlPoints, Involved, Acquiring, Holding
    <2>5. UNCHANGED lockFile /\ (raced => raced') /\ proc[p].pc = "locate"
        BY <1>3 DEF Locate
    <2>6. Arrival(p)
        BY <1>3, <2>1 DEF Arrival
    <2> QED
        BY <2>6, <1>0, <2>1, <2>2, <2>4, <2>5
           DEF LockStep, Placed, ControlPoints, Involved, Acquiring, Holding
<1>4. CASE Remove(p)
    <2>1. /\ proc' \in [Processes -> Command] /\ OthersStay(p)
          /\ proc'[p].pc = "create" /\ proc'[p].op = proc[p].op
          /\ proc'[p].result = proc[p].result
        BY <1>4, <1>0, GotoMoves
           DEF Remove, ControlPoints, Involved, Acquiring, Holding, Results
    <2>2. TypeOK'
        BY <1>4, <2>1 DEF Remove, TypeOK
    <2>3. Arrival(p)
        BY <1>4, <2>1 DEF Arrival
    <2> QED
        BY <2>3, <1>4, <1>0, <2>1, <2>2
           DEF Remove, LockStep, Placed, ControlPoints, Involved, Acquiring,
               Holding
<1>5. CASE Create(p)
    <2>1. /\ proc' \in [Processes -> Command] /\ OthersStay(p)
          /\ proc'[p].pc = "stamp" /\ proc'[p].op = proc[p].op
          /\ proc'[p].result = proc[p].result
        BY <1>5, <1>0, GotoMoves
           DEF Create, ControlPoints, Involved, Acquiring, Holding, Results
    <2>2. TypeOK'
        BY <1>5, <2>1 DEF Create, TypeOK
    <2>3. Arrival(p)
        BY <1>5, <2>1 DEF Arrival
    <2> QED
        BY <2>3, <1>5, <1>0, <2>1, <2>2
           DEF Create, LockStep, Placed, ControlPoints, Involved, Acquiring,
               Holding
<1>6. CASE Stamp(p)
    <2>1. /\ proc' \in [Processes -> Command] /\ OthersStay(p)
          /\ proc'[p].op = proc[p].op
          /\ proc'[p].result = proc[p].result
          /\ \/ proc[p].op = "apply" /\ proc'[p].pc = "tfvars"
             \/ proc[p].op = "upgrade" /\ proc'[p].pc = "upgrade"
             \/ proc[p].op = "destroy" /\ proc'[p].pc = "teardown"
        BY <1>6, StampMoves
    <2>2. TypeOK'
        BY <1>6, <2>1 DEF Stamp, TypeOK
    <2>3. Arrival(p)
        BY <1>6, <2>1 DEF Arrival
    <2> QED
        BY <2>3, <1>6, <1>0, <2>1, <2>2
           DEF Stamp, LockStep, Placed, ControlPoints, Involved, Acquiring,
               Holding
<1>7. CASE Release(p)
    <2>1. /\ proc' \in [Processes -> Command] /\ OthersStay(p)
          /\ proc'[p].pc = "over" /\ proc'[p].op = proc[p].op
          /\ proc'[p].result = proc[p].result
        BY <1>7, <1>0, GotoMoves
           DEF Release, ControlPoints, Involved, Acquiring, Holding, Results
    <2>2. TypeOK'
        BY <1>7, <2>1 DEF Release, TypeOK
    <2>3. Arrival(p)
        BY <1>7, <2>1 DEF Arrival
    <2> QED
        BY <2>3, <1>7, <1>0, <2>1, <2>2
           DEF Release, LockStep, Placed, ControlPoints, Involved, Acquiring,
               Holding
<1>8. CASE WriteTfvars(p)
    <2>1. /\ proc' \in [Processes -> Command] /\ OthersStay(p)
          /\ proc'[p].pc = "terraform" /\ proc'[p].op = proc[p].op
          /\ proc'[p].result = proc[p].result
        BY <1>8, <1>0, GotoMoves
           DEF WriteTfvars, ControlPoints, Involved, Acquiring, Holding,
               Results
    <2>2. TypeOK'
        BY <1>8, <2>1 DEF WriteTfvars, TypeOK
    <2>3. Arrival(p)
        BY <1>8, <2>1 DEF Arrival
    <2> QED
        BY <2>3, <1>8, <1>0, <2>1, <2>2
           DEF WriteTfvars, LockStep, Placed, ControlPoints, Involved,
               Acquiring, Holding
<1>9. CASE TerraformApply(p)
    <2>1. /\ proc' \in [Processes -> Command] /\ OthersStay(p)
          /\ proc'[p].op = proc[p].op
          /\ infra' \in Infra /\ created' \in 0 .. MaxInstance
          /\ infra'.instance <= created'
          /\ \/ proc'[p].pc = "deploy" /\ proc'[p].result = proc[p].result
             \/ proc'[p].pc = "release" /\ proc'[p].result = "failed"
        BY <1>9, TerraformMoves
    <2>2. TypeOK'
        BY <1>9, <2>1 DEF TerraformApply, TypeOK
    <2>3. UNCHANGED <<lockFile, raced>> /\ proc[p].pc = "terraform"
        BY <1>9 DEF TerraformApply
    <2>4. Arrival(p)
        BY <1>9, <2>1 DEF Arrival
    <2> QED
        BY <2>4, <1>0, <2>1, <2>2, <2>3
           DEF LockStep, Placed, ControlPoints, Involved, Acquiring, Holding
<1>10. CASE Deploy(p)
    <2>1. /\ proc' \in [Processes -> Command] /\ OthersStay(p)
          /\ proc'[p].op = proc[p].op
          /\ \/ proc'[p].pc = "open" /\ proc'[p].result = proc[p].result
             \/ proc'[p].pc = "release" /\ proc'[p].result = "failed"
        BY <1>10, <1>0, GotoMoves, EndsMoves
           DEF Deploy, ControlPoints, Involved, Acquiring, Holding, Results
    <2>2. TypeOK'
        BY <1>10, <2>1 DEF Deploy, TypeOK
    <2>3. Arrival(p)
        BY <1>10, <2>1 DEF Arrival
    <2> QED
        BY <2>3, <1>10, <1>0, <2>1, <2>2
           DEF Deploy, LockStep, Placed, ControlPoints, Involved, Acquiring,
               Holding
<1>11. CASE Upgrade(p)
    <2>1. /\ proc' \in [Processes -> Command] /\ OthersStay(p)
          /\ proc'[p].op = proc[p].op
          /\ \/ proc'[p].pc = "open" /\ proc'[p].result = proc[p].result
             \/ proc'[p].pc = "release" /\ proc'[p].result = "failed"
        BY <1>11, <1>0, GotoMoves, EndsMoves
           DEF Upgrade, ControlPoints, Involved, Acquiring, Holding, Results
    <2>2. TypeOK'
        BY <1>11, <2>1 DEF Upgrade, TypeOK
    <2>4. Arrival(p)
        BY <1>11, <2>1 DEF Arrival
    <2>3. /\ UNCHANGED <<lockFile, raced>>
          /\ proc[p].pc = "upgrade" /\ proc[p].op = "upgrade"
        BY <1>11, <1>0 DEF Upgrade, Placed
    <2> QED
        BY <2>4, <1>0, <2>1, <2>2, <2>3
           DEF LockStep, Placed, ControlPoints, Involved, Acquiring, Holding
<1>12. CASE OpenTemp(p)
    <2>1. /\ proc' \in [Processes -> Command] /\ OthersStay(p)
          /\ proc'[p].pc = "write" /\ proc'[p].op = proc[p].op
          /\ proc'[p].result = proc[p].result
        BY <1>12, <1>0, GotoMoves
           DEF OpenTemp, ControlPoints, Involved, Acquiring, Holding, Results
    <2>2. TypeOK'
        BY <1>12, <2>1, InstallerAssumption DEF OpenTemp, TypeOK, File, Torn
    <2>3. Arrival(p)
        BY <1>12, <2>1 DEF Arrival
    <2> QED
        BY <2>3, <1>12, <1>0, <2>1, <2>2
           DEF OpenTemp, LockStep, Placed, ControlPoints, Involved, Acquiring,
               Holding
<1>13. CASE WriteTemp(p)
    <2>1. /\ proc' \in [Processes -> Command] /\ OthersStay(p)
          /\ proc'[p].pc = "replace" /\ proc'[p].op = proc[p].op
          /\ proc'[p].result = proc[p].result
        BY <1>13, <1>0, GotoMoves
           DEF WriteTemp, ControlPoints, Involved, Acquiring, Holding, Results
    <2>2. TypeOK'
        BY <1>13, <2>1, InstallerAssumption, <1>0
           DEF WriteTemp, TypeOK, File, Torn, Command
    <2>3. Arrival(p)
        BY <1>13, <2>1 DEF Arrival
    <2> QED
        BY <2>3, <1>13, <1>0, <2>1, <2>2
           DEF WriteTemp, LockStep, Placed, ControlPoints, Involved, Acquiring,
               Holding
<1>14. CASE ReplaceState(p)
    <2>1. /\ proc' \in [Processes -> Command] /\ OthersStay(p)
          /\ proc'[p].op = proc[p].op
          /\ \/ proc'[p].pc = "release" /\ proc'[p].result = "failed"
             \/ proc'[p].pc = "release" /\ proc'[p].result = "done"
        BY <1>14, <1>0, EndsMoves
           DEF ReplaceState, ControlPoints, Involved, Acquiring, Holding,
               Results
    <2>2. TypeOK'
        BY <1>14, <2>1, InstallerAssumption
           DEF ReplaceState, TypeOK, File, Torn
    <2>3. Arrival(p)
        BY <1>14, <2>1 DEF Arrival
    <2> QED
        BY <2>3, <1>14, <1>0, <2>1, <2>2
           DEF ReplaceState, LockStep, Placed, ControlPoints, Involved,
               Acquiring, Holding
<1>15. CASE TerraformDestroy(p)
    <2>1. /\ proc' \in [Processes -> Command] /\ OthersStay(p)
          /\ proc'[p].op = proc[p].op
          /\ \/ proc'[p].pc = "forget" /\ proc'[p].result = proc[p].result
             \/ proc'[p].pc = "release" /\ proc'[p].result = "failed"
        BY <1>15, <1>0, GotoMoves, EndsMoves
           DEF TerraformDestroy, AfterFailure, ControlPoints, Involved,
               Acquiring, Holding, Results
    <2>2. TypeOK'
        BY <1>15, <2>1, InstallerAssumption
           DEF TerraformDestroy, TypeOK, Infra, NoInfra
    <2>3. Arrival(p)
        BY <1>15, <2>1 DEF Arrival
    <2> QED
        BY <2>3, <1>15, <1>0, <2>1, <2>2
           DEF TerraformDestroy, LockStep, Placed, ControlPoints, Involved,
               Acquiring, Holding, AfterFailure
<1>16. CASE Forget(p)
    <2>1. /\ proc' \in [Processes -> Command] /\ OthersStay(p)
          /\ proc'[p].pc = "release" /\ proc'[p].op = proc[p].op
          /\ proc'[p].result = "done"
        BY <1>16, <1>0, EndsMoves
           DEF Forget, ControlPoints, Involved, Acquiring, Holding, Results
    <2>2. TypeOK'
        BY <1>16, <2>1, InstallerAssumption DEF Forget, TypeOK, File, Torn
    <2>3. Arrival(p)
        BY <1>16, <2>1 DEF Arrival
    <2> QED
        BY <2>3, <1>16, <1>0, <2>1, <2>2
           DEF Forget, LockStep, Placed, ControlPoints, Involved, Acquiring,
               Holding
<1>17. CASE Kill(p)
    <2>1. /\ proc' \in [Processes -> Command] /\ OthersStay(p)
          /\ proc'[p].op = proc[p].op
          /\ \/ proc'[p].pc = "over" /\ proc'[p].result = "failed"
             \/ proc'[p].pc = "orphan" /\ proc'[p].result = "failed"
                /\ proc[p].pc \in {"terraform", "teardown"}
        BY <1>17, <1>0, EndsMoves
           DEF Kill, ControlPoints, Involved, Acquiring, Holding, Results
    <2>2. TypeOK'
        BY <1>17, <2>1 DEF Kill, TypeOK
    <2>3. Arrival(p)
        BY <1>17, <2>1 DEF Arrival
    <2> QED
        BY <2>3, <1>17, <1>0, <2>1, <2>2
           DEF Kill, LockStep, Placed, ControlPoints, Involved, Acquiring,
               Holding
<1>18. CASE OrphanEnds(p)
    <2>1. /\ proc' \in [Processes -> Command] /\ OthersStay(p)
          /\ proc'[p].pc = "over" /\ proc'[p].op = proc[p].op
          /\ proc'[p].result = proc[p].result
        BY <1>18, <1>0, GotoMoves DEF OrphanEnds, ControlPoints
    <2>2. /\ infra' \in Infra /\ created' \in 0 .. MaxInstance
          /\ infra'.instance <= created'
        <3>1. CASE \E q \in {p} \cup Planned : Applied(q)
            BY <3>1, AppliedType DEF Planned
        <3>2. CASE infra' = NoInfra /\ UNCHANGED created
            BY <3>2, InstallerAssumption DEF TypeOK, Infra, NoInfra
        <3>3. CASE UNCHANGED <<infra, created>>
            BY <3>3 DEF TypeOK
        <3> QED
            BY <1>18, <3>1, <3>2, <3>3 DEF OrphanEnds
    <2>3. UNCHANGED <<lockFile, stateFile, temp, tfvars, raced>>
          /\ proc[p].pc = "orphan"
        BY <1>18 DEF OrphanEnds
    <2>4. TypeOK'
        BY <2>1, <2>2, <2>3 DEF TypeOK
    <2>5. Arrival(p)
        BY <1>18, <2>1 DEF Arrival
    <2> QED
        BY <2>5, <1>0, <2>1, <2>3, <2>4
           DEF LockStep, Placed, ControlPoints, Involved, Acquiring, Holding
<1> QED
    BY <1>1, <1>2, <1>3, <1>4, <1>5, <1>6, <1>7, <1>8, <1>9, <1>10, <1>11,
       <1>12, <1>13, <1>14, <1>15, <1>16, <1>17, <1>18
       DEF Step

\* The invariant of the lock holds at the start.
LEMMA LockInvInit == Init => LockInv
<1> SUFFICES ASSUME Init PROVE LockInv
    OBVIOUS
<1>1. TypeOK
    BY TypeInit
<1>2. \A p \in Processes : /\ proc[p].pc = "new" /\ proc[p].result = "none"
                           /\ lockFile # p
    BY InstallerAssumption DEF Init, Fresh
<1> QED
    BY <1>1, <1>2 DEF LockInv, PlacedInv, Placed, SoloInv, Involved, Acquiring,
                      Holding

\* Every step keeps it.
LEMMA LockInvStep ==
    ASSUME LockInv, NEW p \in Processes, Step(p)
    PROVE  LockInv'
<1>1. TypeOK' /\ LockStep(p)
    BY LockSteps
<1>2. PlacedInv'
    <2> SUFFICES ASSUME NEW q \in Processes PROVE Placed(q)'
        BY DEF PlacedInv
    <2>1. CASE q = p
        BY <1>1, <2>1 DEF LockStep
    <2>2. CASE q # p
        <3>1. proc'[q] = proc[q] /\ (lockFile' = q => lockFile = q)
            BY <1>1, <2>2, InstallerAssumption DEF LockStep, OthersStay
        <3> QED
            BY <3>1 DEF LockInv, PlacedInv, Placed
    <2> QED
        BY <2>1, <2>2
<1>3. SoloInv'
    <2> SUFFICES ASSUME ~raced'
                 PROVE  /\ \A q, r \in Processes :
                               proc'[q].pc \in Involved /\ proc'[r].pc \in Involved
                                   => q = r
                        /\ \A q \in Processes :
                               proc'[q].pc \in Holding => lockFile' = q
        BY DEF SoloInv
    <2>1. /\ \A q, r \in Processes :
                 proc[q].pc \in Involved /\ proc[r].pc \in Involved => q = r
          /\ \A q \in Processes : proc[q].pc \in Holding => lockFile = q
        BY <1>1 DEF LockStep, LockInv, SoloInv
    <2>2. /\ proc'[p].pc \in Involved =>
                 \A q \in Processes : proc[q].pc \in Involved => q = p
          /\ \A q \in Processes : q # p => proc'[q] = proc[q]
          /\ proc'[p].pc \in Holding => lockFile' = p
          /\ lockFile' # lockFile => proc[p].pc \in Involved
        BY <1>1, <2>1 DEF LockStep, OthersStay, Free
    <2>3. ASSUME NEW q \in Processes, q # p, proc'[q].pc \in Holding
          PROVE  lockFile' = q
        BY <2>1, <2>2, <2>3 DEF Involved
    <2>4. ASSUME NEW q \in Processes, NEW r \in Processes,
                 proc'[q].pc \in Involved, proc'[r].pc \in Involved
          PROVE  q = r
        BY <2>1, <2>2, <2>4
    <2> QED
        BY <2>2, <2>3, <2>4
<1> QED
    BY <1>1, <1>2, <1>3 DEF LockInv

\* A step of the system is one of a command.
LEMMA NextIsStep == [Next]_vars => UNCHANGED vars \/ \E p \in Processes : Step(p)
    BY DEF Next, Step

\* A step that changes nothing keeps it.
LEMMA LockInvStays == LockInv /\ UNCHANGED vars => LockInv'
    BY DEF vars, LockInv, TypeOK, PlacedInv, Placed, SoloInv

\* It holds in every reachable state.
LEMMA LockIsTaken == Spec => []LockInv
<1>1. LockInv /\ [Next]_vars => LockInv'
    BY LockInvStep, LockInvStays, NextIsStep
<1> QED
    BY <1>1, LockInvInit, PTL DEF Spec

\* The types of the installation and of its commands (store.py, terraform.py).
THEOREM InstallerTypes == Spec => []TypeOK
<1>1. LockInv => TypeOK
    BY DEF LockInv
<1> QED
    BY <1>1, LockIsTaken, PTL

\* As long as no two commands look at the lock file while another one takes the
\* lock, one command at a time is past it (InstallationLock).
THEOREM OneCommandHolds == Spec => []OneHolder
<1>1. LockInv => OneHolder
    BY DEF LockInv, SoloInv, OneHolder, Holders, Involved
<1> QED
    BY <1>1, LockIsTaken, PTL

\* A refusal means that another command is at work, also when commands race for
\* the lock: a killed one locks nothing for good (_process_is_alive).
THEOREM RefusalsAreRight == Spec => RefusedOnlyWhenBusy
<1> DEFINE Refused == \A p \in Processes :
                          proc'[p].result = "refused" /\ proc[p].result # "refused"
                              => Holders # {}
<1>1. ASSUME LockInv, LockInv', [Next]_vars
      PROVE  [Refused]_vars
    <2> SUFFICES ASSUME NEW q \in Processes, proc'[q].result = "refused",
                        proc[q].result # "refused"
                 PROVE  Holders # {}
        OBVIOUS
    <2>1. PICK p \in Processes : Step(p)
        BY <1>1, NextIsStep DEF vars
    <2>2. q = p
        BY <1>1, <2>1, LockSteps DEF LockStep, OthersStay
    <2>3. Busy(lockFile)
        BY <1>1, <2>1, <2>2, LockSteps DEF LockStep
    <2>4. proc[lockFile].pc \in Holding /\ lockFile \in Processes
        BY <1>1, <2>3 DEF Busy, Alive, LockInv, PlacedInv, Placed
    <2> QED
        BY <2>4 DEF Holders
<1> HIDE DEF Refused
<1>2. Spec => [][Refused]_vars
    BY <1>1, LockIsTaken, PTL DEF Spec
<1> QED
    BY <1>2 DEF RefusedOnlyWhenBusy, Refused

-----------------------------------------------------------------------------
(* The state file                                                          *)

\* What a step does, with that it leaves the other commands alone.
LEMMA StepFacts ==
    ASSUME LockInv, NEW p \in Processes, Step(p)
    PROVE  TypeOK' /\ LockStep(p) /\ Arrival(p) /\ OthersStay(p)
    BY LockSteps DEF LockStep

\* What a command that is not past the look at the lock file leaves alone.
LEMMA Outside ==
    ASSUME NEW p \in Processes, Step(p), proc[p].pc \notin Involved
    PROVE  /\ UNCHANGED <<stateFile, temp>>
           /\ UNCHANGED tfvars \/ Plan(p)
           /\ UNCHANGED infra \/ TerraformBusy
<1>1. CASE \E op \in Operations : Begin(p, op)
    BY <1>1 DEF Begin
<1>2. CASE Plan(p)
    BY <1>2 DEF Plan
<1>3. CASE Locate(p)
    BY <1>3 DEF Locate
<1>4. CASE OrphanEnds(p)
    BY <1>4 DEF OrphanEnds, TerraformBusy
<1>5. CASE Kill(p)
    BY <1>5 DEF Kill
<1>6. CASE Remove(p) \/ Create(p) \/ Stamp(p) \/ Release(p)
    BY <1>6 DEF Remove, Create, Stamp, Release, Involved, Acquiring, Holding
<1>7. CASE WriteTfvars(p) \/ TerraformApply(p) \/ Deploy(p) \/ Upgrade(p)
    BY <1>7 DEF WriteTfvars, TerraformApply, Deploy, Upgrade, Involved, Holding
<1>8. CASE \/ OpenTemp(p) \/ WriteTemp(p) \/ ReplaceState(p)
           \/ TerraformDestroy(p) \/ Forget(p)
    BY <1>8 DEF OpenTemp, WriteTemp, ReplaceState, TerraformDestroy, Forget,
                Involved, Holding
<1> QED
    BY <1>1, <1>2, <1>3, <1>4, <1>5, <1>6, <1>7, <1>8 DEF Step

\* Who writes the state file, and what.
LEMMA StateWritten ==
    ASSUME LockInv, NEW p \in Processes, Step(p)
    PROVE  \/ UNCHANGED stateFile
           \/ proc[p].pc = "replace" /\ stateFile' = temp
           \/ stateFile' = 0
<1>1. CASE \E op \in Operations : Begin(p, op)
    BY <1>1 DEF Begin
<1>2. CASE Plan(p) \/ Locate(p) \/ OrphanEnds(p) \/ Kill(p)
    BY <1>2 DEF Plan, Locate, OrphanEnds, Kill
<1>3. CASE Remove(p) \/ Create(p) \/ Stamp(p) \/ Release(p)
    BY <1>3 DEF Remove, Create, Stamp, Release
<1>4. CASE WriteTfvars(p) \/ TerraformApply(p) \/ Deploy(p) \/ Upgrade(p)
    BY <1>4 DEF WriteTfvars, TerraformApply, Deploy, Upgrade
<1>5. CASE OpenTemp(p) \/ WriteTemp(p) \/ TerraformDestroy(p)
    BY <1>5 DEF OpenTemp, WriteTemp, TerraformDestroy
<1>6. CASE ReplaceState(p) \/ Forget(p)
    BY <1>6 DEF ReplaceState, Forget
<1> QED
    BY <1>1, <1>2, <1>3, <1>4, <1>5, <1>6 DEF Step

\* What a command saves is a whole state.
LEMMA SavedIsWhole ==
    ASSUME TypeOK, NEW p \in Processes
    PROVE  proc[p].saving # Torn
    BY InstallerAssumption DEF TypeOK, Command, Torn

\* Every step keeps what is said of the state file and its temporary.
LEMMA SaveInvStep ==
    ASSUME LockInv, SaveInv, NEW p \in Processes, Step(p)
    PROVE  SaveInv'
<1> SUFFICES ASSUME ~raced'
             PROVE  /\ stateFile' # Torn
                    /\ \A q \in Processes :
                           proc'[q].pc = "replace" => temp' = proc'[q].saving
    BY DEF SaveInv, Torn
<1>1. ~raced
    BY StepFacts DEF LockStep
<1>2. TypeOK /\ TypeOK' /\ LockInv'
    BY StepFacts, LockInvStep DEF LockInv
<1>3. stateFile' # Torn
    <2>1. stateFile # Torn /\ (proc[p].pc = "replace" => temp # Torn)
        BY <1>1, <1>2, SavedIsWhole DEF SaveInv
    <2>2. 0 # Torn
        BY InstallerAssumption DEF Torn
    <2> QED
        BY <2>1, <2>2, StateWritten
<1>4. ASSUME NEW q \in Processes, proc'[q].pc = "replace"
      PROVE  temp' = proc'[q].saving
    <2>1. CASE q = p
        <3>1. WriteTemp(p)
            BY <1>4, <2>1, StepFacts DEF Arrival
        <3>2. proc'[p].saving = proc[p].saving /\ temp' = proc[p].saving
            BY <1>2, <3>1, GotoMoves
               DEF WriteTemp, TypeOK, ControlPoints, Involved, Holding
        <3> QED
            BY <2>1, <3>2
    <2>2. CASE q # p
        <3>1. proc'[q] = proc[q]
            BY <2>2, StepFacts DEF OthersStay
        <3>2. proc[q].pc \in Involved
            BY <1>4, <3>1 DEF Involved, Holding
        <3>3. proc[p].pc \notin Involved
            BY <1>1, <2>2, <3>2 DEF LockInv, SoloInv
        <3> QED
            BY <1>1, <1>4, <3>1, <3>3, Outside DEF SaveInv
    <2> QED
        BY <2>1, <2>2
<1> QED
    BY <1>3, <1>4

-----------------------------------------------------------------------------
(* The reports                                                             *)

\* A plan that was made stays made.
LEMMA PlannedGrows ==
    ASSUME LockInv, NEW p \in Processes, Step(p)
    PROVE  \A q \in Planned : q \in Planned'
<1>1. p \notin Planned
    <2> SUFFICES ASSUME proc[p].op = "plan", proc[p].result = "done" PROVE FALSE
        BY DEF Planned
    <2>1. proc[p].pc = "over"
        BY DEF LockInv, PlacedInv, Placed, Involved, Holding
    <2> QED
        BY <2>1 DEF Step, Begin, Plan, Locate, Remove, Create, Stamp, Release,
                    WriteTfvars, TerraformApply, Deploy, Upgrade, OpenTemp,
                    WriteTemp, ReplaceState, TerraformDestroy, Forget, Kill,
                    OrphanEnds
<1> QED
    BY <1>1, StepFacts DEF OthersStay, Planned

\* A plan writes its variables.
LEMMA PlansWrite ==
    ASSUME LockInv, NEW p \in Processes, Plan(p)
    PROVE  tfvars' = p /\ p \in Planned'
<1>1. /\ tfvars' = p
      /\ proc'[p].result = "done" /\ proc'[p].op = proc[p].op
    BY EndsMoves DEF Plan, LockInv, TypeOK, ControlPoints, Results
<1>2. proc[p].op = "plan"
    BY DEF Plan, LockInv, PlacedInv, Placed
<1> QED
    BY <1>1, <1>2 DEF Planned

\* The variables, as terraform will read them, stay those of the holder or of a
\* plan.
LEMMA VariablesStay ==
    ASSUME LockInv, NEW p \in Processes, Step(p), NEW q \in Processes,
           tfvars \in {q} \cup Planned, UNCHANGED tfvars \/ Plan(p)
    PROVE  tfvars' \in {q} \cup Planned'
<1>1. CASE UNCHANGED tfvars
    BY <1>1, PlannedGrows
<1>2. CASE Plan(p)
    BY <1>2, PlansWrite
<1> QED
    BY <1>1, <1>2

\* Without a killed command's terraform at work, none appears but by a kill.
LEMMA NoOrphan ==
    ASSUME LockInv, NEW p \in Processes, Step(p), ~TerraformBusy,
           proc[p].pc \notin {"terraform", "teardown"}
    PROVE  ~TerraformBusy'
<1>1. \A q \in Processes : proc[q].pc # "orphan"
    BY DEF TerraformBusy
<1>2. \A q \in Processes : proc'[q].pc # "orphan"
    BY <1>1, StepFacts DEF Arrival, OthersStay
<1> QED
    BY <1>2 DEF TerraformBusy

\* What stands stays, while neither terraform nor the command itself does
\* anything.
LEMMA StandingStays ==
    ASSUME LockInv, NEW p \in Processes, Step(p), NEW q \in Processes,
           Standing(q), UNCHANGED infra, proc'[q].saving = proc[q].saving,
           proc[p].pc \notin {"terraform", "teardown"}
    PROVE  Standing(q)'
<1>1. infra'.config \in {q} \cup Planned'
    BY PlannedGrows DEF Standing
<1> QED
    BY <1>1, NoOrphan DEF Standing

\* While a command is past the look at the lock file, no other one disturbs its
\* report.
LEMMA OthersReport ==
    ASSUME LockInv, NEW p \in Processes, Step(p),
           NEW q \in Processes, Reports(q), q # p, proc[p].pc \notin Involved
    PROVE  Reports(q)'
<1>1. /\ proc'[q] = proc[q]
      /\ UNCHANGED stateFile
      /\ UNCHANGED tfvars \/ Plan(p)
      /\ UNCHANGED infra \/ TerraformBusy
      /\ proc[p].pc \notin {"terraform", "teardown"}
    BY StepFacts, Outside DEF OthersStay, Involved, Holding
<1>2. Standing(q) => Standing(q)'
    BY <1>1, StandingStays DEF Standing
<1>3. ~TerraformBusy => ~TerraformBusy' /\ UNCHANGED infra
    BY <1>1, NoOrphan
<1>4. tfvars \in {q} \cup Planned => tfvars' \in {q} \cup Planned'
    BY <1>1, VariablesStay
<1> QED
    BY <1>1, <1>2, <1>3, <1>4 DEF Reports

\* A command's own step keeps what it will report true.
LEMMA OwnReport ==
    ASSUME LockInv, ~raced, ~raced', SaveInv, NEW p \in Processes, Step(p),
           Reports(p)
    PROVE  Reports(p)'
<1> USE DEF LockInv
<1>0. Placed(p) /\ TypeOK
    BY DEF PlacedInv
<1>1. CASE proc'[p].pc = "terraform"
    <2>1. tfvars' = p
        BY <1>1, StepFacts DEF Arrival, WriteTfvars
    <2> QED
        BY <1>1, <2>1 DEF Reports
<1>2. CASE proc'[p].pc = "deploy"
    <2>1. TerraformApply(p)
        BY <1>2, StepFacts DEF Arrival
    <2>2. /\ ~TerraformBusy
          /\ infra'.config = tfvars
          /\ infra'.instance = proc'[p].saving /\ infra'.instance # 0
        BY <1>0, <1>2, <2>1, TerraformMoves
    <2>3. tfvars \in {p} \cup Planned
        BY <2>1 DEF Reports, TerraformApply
    <2>4. infra'.config \in {p} \cup Planned'
        BY <2>2, <2>3, PlannedGrows
    <2>5. \A q \in Processes : proc'[q].pc # "orphan"
        BY <1>2, <2>2, StepFacts DEF OthersStay, TerraformBusy
    <2>6. Standing(p)'
        BY <2>2, <2>4, <2>5 DEF Standing, TerraformBusy
    <2> QED
        BY <1>2, <2>6 DEF Reports
<1>3. CASE proc'[p].pc \in {"open", "write", "replace"}
    <2>1. Deploy(p) \/ Upgrade(p) \/ OpenTemp(p) \/ WriteTemp(p)
        BY <1>3, StepFacts DEF Arrival
    <2>2. /\ UNCHANGED infra
          /\ proc[p].pc \in {"deploy", "upgrade", "open", "write"}
        BY <2>1 DEF Deploy, Upgrade, OpenTemp, WriteTemp
    <2>3. proc'[p].saving = proc[p].saving /\ proc'[p].op = proc[p].op
        BY <1>0, <2>1, GotoMoves, EndsMoves
           DEF Deploy, Upgrade, OpenTemp, WriteTemp, TypeOK, ControlPoints,
               Involved, Holding, Results
    <2>4. proc[p].op = "apply" => Standing(p)'
        <3>1. proc[p].op = "apply" => Standing(p)
            BY <1>0, <2>2 DEF Placed, Reports
        <3> QED
            BY <2>2, <2>3, <3>1, StandingStays
    <2> QED
        BY <1>3, <2>3, <2>4 DEF Reports
<1>4. CASE proc'[p].pc = "forget"
    <2>1. TerraformDestroy(p)
        BY <1>4, StepFacts DEF Arrival
    <2>2. ~TerraformBusy /\ infra' = NoInfra
        BY <1>0, <1>4, <2>1, EndsMoves
           DEF TerraformDestroy, AfterFailure, TypeOK, ControlPoints, Involved,
               Holding, Results
    <2>3. \A q \in Processes : proc'[q].pc # "orphan"
        BY <1>4, <2>2, StepFacts DEF OthersStay, TerraformBusy
    <2> QED
        BY <1>4, <2>2, <2>3 DEF Reports, TerraformBusy, NoInfra
<1>5. CASE proc'[p].pc = "release" /\ proc'[p].result = "done"
    <2>1. CASE ReplaceState(p)
        <3>1. /\ stateFile' = temp
              /\ temp = proc[p].saving
              /\ proc[p].pc = "replace"
              /\ UNCHANGED infra
            BY <1>0, <1>5, <2>1, EndsMoves
               DEF ReplaceState, SaveInv, TypeOK, ControlPoints, Involved,
                   Holding, Results
        <3>2. proc'[p].op = proc[p].op /\ proc'[p].saving = proc[p].saving
            BY <1>0, <2>1, EndsMoves
               DEF ReplaceState, TypeOK, ControlPoints, Involved, Holding,
                   Results
        <3>3. proc[p].op = "apply" => Standing(p)'
            BY <3>1, <3>2, StandingStays DEF Reports
        <3> QED
            BY <1>0, <1>5, <3>1, <3>2, <3>3 DEF Reports, Placed
    <2>2. CASE Forget(p)
        <3>1. stateFile' = 0 /\ UNCHANGED infra /\ proc[p].pc = "forget"
            BY <2>2 DEF Forget
        <3>2. proc[p].op = "destroy" /\ proc'[p].op = proc[p].op
            BY <1>0, <2>2, <3>1, EndsMoves
               DEF Forget, Placed, TypeOK, ControlPoints, Involved, Holding,
                   Results
        <3>3. ~TerraformBusy /\ infra = NoInfra
            BY <3>1, <3>2 DEF Reports
        <3>4. ~TerraformBusy' /\ infra' = NoInfra
            BY <3>1, <3>3, NoOrphan
        <3> QED
            BY <1>5, <3>1, <3>2, <3>4 DEF Reports, NoInfra
    <2> QED
        BY <1>5, <2>1, <2>2, StepFacts DEF Arrival
<1> QED
    BY <1>1, <1>2, <1>3, <1>4, <1>5 DEF Reports

\* Every step keeps what every command will report true.
LEMMA ReportInvStep ==
    ASSUME LockInv, SaveInv, ReportInv, NEW p \in Processes, Step(p)
    PROVE  ReportInv'
<1> SUFFICES ASSUME ~raced', NEW q \in Processes PROVE Reports(q)'
    BY DEF ReportInv
<1>1. ~raced /\ Reports(q) /\ Reports(p)
    BY StepFacts DEF LockStep, ReportInv
<1>2. CASE q = p
    BY <1>1, <1>2, OwnReport
<1>3. CASE q # p /\ proc[p].pc \notin Involved
    BY <1>1, <1>3, OthersReport
<1>4. CASE q # p /\ proc[p].pc \in Involved
    <2>1. proc'[q] = proc[q] /\ proc[q].pc \notin Involved
        BY <1>1, <1>4, StepFacts DEF LockInv, SoloInv, OthersStay
    <2> QED
        BY <2>1 DEF Reports, Involved, Holding
<1> QED
    BY <1>2, <1>3, <1>4

\* The three invariants hold in every reachable state.
LEMMA InstallIsSound == Spec => []InstallInv
<1>1. Init => InstallInv
    <2> SUFFICES ASSUME Init PROVE InstallInv
        OBVIOUS
    <2>1. \A p \in Processes : proc[p].pc = "new"
        BY DEF Init, Fresh
    <2>2. stateFile # Torn
        BY InstallerAssumption DEF Init, Torn
    <2> QED
        BY <2>1, <2>2, LockInvInit DEF InstallInv, SaveInv, ReportInv, Reports
<1>2. InstallInv /\ UNCHANGED vars => InstallInv'
    <2> SUFFICES ASSUME InstallInv, UNCHANGED vars PROVE InstallInv'
        OBVIOUS
    <2>1. LockInv'
        BY LockInvStays DEF InstallInv
    <2>2. SaveInv'
        BY DEF InstallInv, SaveInv, vars, Torn
    <2>3. ReportInv'
        BY
           DEF InstallInv, ReportInv, Reports, Standing, TerraformBusy,
               Planned,
               NoInfra, vars
    <2> QED
        BY <2>1, <2>2, <2>3 DEF InstallInv
<1>3. ASSUME InstallInv, NEW p \in Processes, Step(p)
      PROVE  InstallInv'
    BY <1>3, LockInvStep, SaveInvStep, ReportInvStep DEF InstallInv
<1>4. InstallInv /\ [Next]_vars => InstallInv'
    BY <1>2, <1>3, NextIsStep
<1> QED
    BY <1>1, <1>4, PTL DEF Spec

\* Wherever a save was cut off, the state file is whole (store.py, "Atomic
\* installer state persistence").
THEOREM StateIsWhole == Spec => []StateFileWhole
<1>1. InstallInv => StateFileWhole
    BY DEF InstallInv, SaveInv, StateFileWhole
<1> QED
    BY <1>1, InstallIsSound, PTL

\* What apply and destroy report when they are done is so, whatever was killed
\* before, and whatever a plan wrote meanwhile.
THEOREM ReportsHold == Spec => []ReportsAreTrue
<1>1. ASSUME InstallInv PROVE ReportsAreTrue
    <2> SUFFICES ASSUME ~raced, NEW p \in Processes, proc[p].pc = "release",
                        proc[p].result = "done"
                 PROVE  /\ proc[p].op = "apply" =>
                               /\ infra.instance # 0
                               /\ stateFile = infra.instance
                               /\ infra.config \in {p} \cup Planned
                        /\ proc[p].op = "destroy" =>
                               infra = NoInfra /\ stateFile = 0
        BY DEF ReportsAreTrue, Holders
    <2>1. Reports(p)
        BY <1>1 DEF InstallInv, ReportInv
    <2> QED
        BY <2>1 DEF Reports, Standing
<1> QED
    BY <1>1, InstallIsSound, PTL
=============================================================================
