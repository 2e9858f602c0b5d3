---------------------------- MODULE SecretsProofs ----------------------------
(***************************************************************************)
(* Proof that the journal implements AtomicSecrets when one process at a   *)
(* time touches the secrets, wherever it is killed.                        *)
(***************************************************************************)
EXTENDS SecretsJournal, TLAPS

JournalTypeOK ==
    /\ config \in [File -> Nat]
    /\ staging \in [File -> Nat]
    /\ dir \in BOOLEAN
    /\ done \in BOOLEAN
    /\ proc \in [Processes -> Process]
    /\ issued \in 0 .. MaxGen

\* Without a staging directory nothing is staged, and no file is of an
\* enrollment to come.
DiskInv ==
    /\ ~dir => ~done /\ \A f \in File : staging[f] = 0
    /\ \A f \in File : config[f] <= issued /\ staging[f] <= issued

\* A save up to its DONE file: what it is to store is newer than all there is.
NewestInv(p) ==
    proc[p].gen # 0 =>
        /\ proc[p].gen = issued
        /\ proc[p].files \in FileSets
        /\ ~proc[p].saving \/ proc[p].pc \in {"write", "mark"} =>
               \A f \in File : config[f] < proc[p].gen
        /\ ~proc[p].saving => \A f \in File : staging[f] < proc[p].gen

\* The files that a save has come to.
Reached(p) ==
    IF proc[p].pc = "mark" THEN File
    ELSE {Order[n] : n \in {m \in 1 .. 3 : m < proc[p].step}}

\* Where a process is, and what the staging directory then looks like.
PlaceInv(p) ==
    /\ proc[p].pc = "recover" => ~proc[p].saving
    /\ proc[p].pc = "mkdir" => proc[p].gen # 0 /\ ~proc[p].saving /\ ~dir
    /\ proc[p].pc \in {"write", "mark"} =>
           /\ proc[p].gen # 0 /\ proc[p].saving
           /\ ~done
           /\ \A f \in File :
                  staging[f] = IF f \in proc[p].files \cap Reached(p)
                               THEN proc[p].gen ELSE 0
    /\ proc[p].pc = "commit" =>
           /\ done
           /\ \A n \in 1 .. 3 : n < proc[p].step => staging[Order[n]] = 0
    /\ proc[p].pc \in {"list", "unlink"} => ~done \/ \A f \in File : staging[f] = 0
    /\ proc[p].pc = "unlink" => Staged \subseteq proc[p].todo

JournalInv ==
    /\ JournalTypeOK
    /\ DiskInv
    /\ \A p \in Processes : NewestInv(p) /\ PlaceInv(p)

-----------------------------------------------------------------------------
(* How a process moves                                                     *)

\* Each of the three files has a place in the order of commitment.
LEMMA OrderIsFile ==
    /\ Order[1] = "token" /\ Order[2] = "ca" /\ Order[3] = "mqtt"
    /\ \A n \in 1 .. 3 : Order[n] \in File
    /\ \A f \in File : \E n \in 1 .. 3 : Order[n] = f
BY DEF Order, File

\* A process between two operations has the type of a process.
LEMMA IdleIsAProcess == Idle \in Process
BY JournalAssumption DEF Idle, Process

Points == {"recover", "mkdir", "write", "mark", "commit", "list", "unlink"}

\* Goto begins the next part of an operation with its first file.
LEMMA GotoMoves ==
    ASSUME NEW p \in Processes, NEW pc \in Points,
           proc \in [Processes -> Process], Goto(p, pc)
    PROVE  /\ proc' \in [Processes -> Process]
           /\ proc'[p] = [proc[p] EXCEPT !.pc = pc, !.step = 1]
<1> DEFINE moved == [proc[p] EXCEPT !.pc = pc, !.step = 1]
<1>1. moved \in Process
    <2> DEFINE at == [proc[p] EXCEPT !.pc = pc]
    <2>1. at \in Process
        BY DEF Process, Points
    <2>2. [at EXCEPT !.step = 1] \in Process
        <3> HIDE DEF at
        <3> QED
            BY <2>1 DEF Process
    <2> QED
        BY <2>2
<1>2. proc' = [proc EXCEPT ![p] = moved]
    BY DEF Goto
<1> HIDE DEF moved
<1>3. proc' \in [Processes -> Process] /\ proc'[p] = moved
    BY <1>1, <1>2
<1> QED
    BY <1>3 DEF moved

\* Advance goes on to the next file, or past the last one.
LEMMA AdvanceMoves ==
    ASSUME NEW p \in Processes, NEW pc \in Points,
           proc \in [Processes -> Process], Advance(p, pc)
    PROVE  /\ proc' \in [Processes -> Process]
           /\ proc'[p] = IF proc[p].step = 3
                         THEN [proc[p] EXCEPT !.pc = pc, !.step = 1]
                         ELSE [proc[p] EXCEPT !.step = @ + 1]
<1>1. CASE proc[p].step = 3
    BY <1>1, GotoMoves DEF Advance
<1>2. CASE proc[p].step # 3
    BY <1>2 DEF Advance, Process
<1> QED
    BY <1>1, <1>2

\* A recovery that ends goes on to the save it was made for, if any.
LEMMA FinishMoves ==
    ASSUME NEW p \in Processes, proc \in [Processes -> Process], Finish(p)
    PROVE  /\ proc' \in [Processes -> Process]
           /\ proc'[p] = IF proc[p].gen # 0 /\ ~proc[p].saving
                         THEN [proc[p] EXCEPT !.pc = "mkdir", !.step = 1]
                         ELSE Idle
<1>1. CASE proc[p].gen # 0 /\ ~proc[p].saving
    BY <1>1, GotoMoves DEF Finish, Points
<1>2. CASE ~(proc[p].gen # 0 /\ ~proc[p].saving)
    BY <1>2, IdleIsAProcess DEF Finish
<1> QED
    BY <1>1, <1>2

\* What is read is the same, file by file.
LEMMA EffectiveKept ==
    ASSUME \A f \in File : (IF done /\ staging[f] # 0 THEN staging[f] ELSE config[f])'
                               = IF done /\ staging[f] # 0 THEN staging[f] ELSE config[f]
    PROVE  Effective' = Effective
BY DEF Effective

-----------------------------------------------------------------------------
(* The steps of one process                                                *)

Alone == \A p, q \in Processes : p = q

\* A read that begins changes no file.
LEMMA BeginReadKeeps ==
    ASSUME JournalInv, Alone, NEW p \in Processes, BeginRead(p)
    PROVE  JournalInv' /\ Effective' = Effective
<1> USE DEF JournalInv
<1>1. /\ proc' \in [Processes -> Process]
      /\ proc'[p] = [Idle EXCEPT !.pc = "recover"]
    BY IdleIsAProcess DEF BeginRead, JournalTypeOK, Process
<1>2. JournalTypeOK' /\ DiskInv'
    BY <1>1 DEF BeginRead, JournalTypeOK, DiskInv
<1>3. NewestInv(p)' /\ PlaceInv(p)'
    BY <1>1 DEF Idle, NewestInv, PlaceInv
<1>4. Effective' = Effective
    BY DEF BeginRead, Effective
<1> QED
    BY <1>2, <1>3, <1>4 DEF Alone

\* Nor does a save.
LEMMA BeginSaveKeeps ==
    ASSUME JournalInv, Alone, NEW p \in Processes, NEW files \in FileSets,
           BeginSave(p, files)
    PROVE  JournalInv' /\ Effective' = Effective
<1> USE DEF JournalInv
<1>1. /\ issued' = issued + 1 /\ issued \in Nat /\ issued' \in 0 .. MaxGen
      /\ files \in SUBSET File
    BY JournalAssumption DEF BeginSave, JournalTypeOK, File
<1>2. /\ proc' \in [Processes -> Process]
      /\ proc'[p] = [Idle EXCEPT !.pc = "recover", !.gen = issued', !.files = files]
    BY <1>1, IdleIsAProcess DEF BeginSave, JournalTypeOK, Process
<1>3. JournalTypeOK' /\ DiskInv'
    BY <1>1, <1>2 DEF BeginSave, JournalTypeOK, DiskInv
<1>4. NewestInv(p)' /\ PlaceInv(p)'
    BY <1>1, <1>2 DEF BeginSave, Idle, NewestInv, PlaceInv, JournalTypeOK, DiskInv
<1>5. Effective' = Effective
    BY DEF BeginSave, Effective
<1> QED
    BY <1>3, <1>4, <1>5 DEF Alone

\* What recovery decides to do changes no file yet.
LEMMA RecoverKeeps ==
    ASSUME JournalInv, Alone, NEW p \in Processes, Recover(p)
    PROVE  JournalInv' /\ Effective' = Effective
<1> USE DEF JournalInv
<1>1. /\ proc \in [Processes -> Process] /\ proc[p] \in Process
      /\ UNCHANGED <<config, staging, dir, done, issued>>
    BY DEF Recover, JournalTypeOK
<1>2. CASE ~dir
    <2>1. /\ proc' \in [Processes -> Process]
          /\ proc'[p] = IF proc[p].gen # 0 /\ ~proc[p].saving
                        THEN [proc[p] EXCEPT !.pc = "mkdir", !.step = 1]
                        ELSE Idle
        BY <1>1, <1>2, FinishMoves DEF Recover
    <2>2. NewestInv(p)' /\ PlaceInv(p)'
        BY <1>1, <1>2, <2>1 DEF Idle, NewestInv, PlaceInv, Process
    <2> QED
        BY <1>1, <2>1, <2>2 DEF Alone, JournalTypeOK, DiskInv, Effective
<1>3. CASE dir
    <2>1. /\ proc' \in [Processes -> Process]
          /\ proc'[p] = [proc[p] EXCEPT !.pc = IF done THEN "commit" ELSE "list",
                                       !.step = 1]
        BY <1>1, <1>3, GotoMoves DEF Recover, Points
    <2>2. NewestInv(p)' /\ PlaceInv(p)'
        BY <1>1, <1>3, <2>1 DEF Recover, NewestInv, PlaceInv, Process
    <2> QED
        BY <1>1, <2>1, <2>2 DEF Alone, JournalTypeOK, DiskInv, Effective
<1> QED
    BY <1>2, <1>3

\* An empty staging directory is read by nobody.
LEMMA MkdirKeeps ==
    ASSUME JournalInv, Alone, NEW p \in Processes, Mkdir(p)
    PROVE  JournalInv' /\ Effective' = Effective
<1> USE DEF JournalInv
<1>1. ~dir /\ dir' = TRUE /\ UNCHANGED <<config, staging, done, issued>>
    BY DEF Mkdir, PlaceInv
<1>2. /\ proc[p] \in Process
      /\ proc[p].step \in 1 .. 3
      /\ proc' = [proc EXCEPT ![p].pc = "write", ![p].saving = TRUE]
    BY <1>1 DEF Mkdir, JournalTypeOK, Process
<1>3. /\ proc' \in [Processes -> Process]
      /\ proc'[p] = [proc[p] EXCEPT !.pc = "write", !.saving = TRUE]
    BY <1>2 DEF JournalTypeOK, Process
<1>4. ~done /\ \A f \in File : staging[f] = 0
    BY <1>1 DEF DiskInv
<1>5. NewestInv(p)' /\ PlaceInv(p)'
    BY <1>1, <1>2, <1>3, <1>4 DEF Mkdir, NewestInv, PlaceInv, Reached, Process
<1> QED
    BY <1>1, <1>3, <1>4, <1>5 DEF Alone, JournalTypeOK, DiskInv, Effective
\* A file written to it is read by nobody before the mark.
LEMMA WriteKeeps ==
    ASSUME JournalInv, Alone, NEW p \in Processes, Write(p)
    PROVE  JournalInv' /\ Effective' = Effective
<1> USE DEF JournalInv
<1> DEFINE f == Order[proc[p].step]
<1>1. /\ proc[p] \in Process /\ proc[p].pc = "write"
      /\ proc[p].step \in 1 .. 3 /\ proc[p].gen \in Nat
      /\ f \in File
      /\ UNCHANGED <<config, done, issued>>
    BY OrderIsFile DEF Write, JournalTypeOK, Process
<1>2. /\ proc[p].gen # 0 /\ proc[p].saving /\ ~done
      /\ proc[p].gen = issued
      /\ \A g \in File : config[g] < proc[p].gen
      /\ \A g \in File :
             staging[g] = IF g \in proc[p].files \cap Reached(p) THEN proc[p].gen ELSE 0
    BY <1>1 DEF PlaceInv, NewestInv
<1>3. /\ proc' \in [Processes -> Process]
      /\ proc'[p] = IF proc[p].step = 3
                    THEN [proc[p] EXCEPT !.pc = "mark", !.step = 1]
                    ELSE [proc[p] EXCEPT !.step = @ + 1]
    BY AdvanceMoves DEF Write, JournalTypeOK, Points
<1>4. /\ staging' \in [File -> Nat] /\ dir' \in BOOLEAN
      /\ \A g \in File : staging'[g] = IF g = f /\ f \in proc[p].files
                                       THEN proc[p].gen ELSE staging[g]
      /\ ~dir' => ~dir /\ staging' = staging
    BY <1>1 DEF Write, JournalTypeOK
<1>5. JournalTypeOK' /\ DiskInv'
    BY <1>1, <1>2, <1>3, <1>4 DEF JournalTypeOK, DiskInv
<1>6. Reached(p)' = Reached(p) \cup {f}
    <2>1. Reached(p) = {Order[n] : n \in {m \in 1 .. 3 : m < proc[p].step}}
        BY <1>1 DEF Reached
    <2>2. CASE proc[p].step = 3
        <3>1. Reached(p) = {"token", "ca"} /\ f = "mqtt"
            BY <2>1, <2>2, OrderIsFile
        <3>2. Reached(p)' = File
            BY <1>1, <1>3, <2>2 DEF Reached, Process
        <3> QED
            BY <3>1, <3>2 DEF File
    <2>3. CASE proc[p].step # 3
        <3>1. Reached(p)' = {Order[n] : n \in {m \in 1 .. 3 : m < proc[p].step + 1}}
            BY <1>1, <1>3, <2>3 DEF Reached, Process
        <3>2. {m \in 1 .. 3 : m < proc[p].step + 1}
                 = {m \in 1 .. 3 : m < proc[p].step} \cup {proc[p].step}
            BY <1>1
        <3> QED
            BY <2>1, <3>1, <3>2
    <2> QED
        BY <2>2, <2>3
<1>7. NewestInv(p)' /\ PlaceInv(p)'
    <2>1. /\ proc'[p].pc \in {"write", "mark"}
          /\ proc'[p].gen = proc[p].gen /\ proc'[p].files = proc[p].files
          /\ proc'[p].saving = proc[p].saving
        BY <1>1, <1>3 DEF Process
    <2>2. \A g \in File :
              staging'[g] = IF g \in proc[p].files \cap Reached(p)' THEN proc[p].gen ELSE 0
        BY <1>2, <1>4, <1>6
    <2> QED
        BY <1>1, <1>2, <2>1, <2>2 DEF NewestInv, PlaceInv
<1> QED
    BY <1>1, <1>2, <1>5, <1>7 DEF Alone, Effective
\* DONE is what makes an enrollment's files the ones that are read: all of
\* them, and newer than what was there.
LEMMA WriteDoneSaves ==
    ASSUME JournalInv, Alone, NEW p \in Processes, WriteDone(p)
    PROVE  /\ JournalInv'
           /\ \E gen \in 1 .. MaxGen, files \in FileSets : Secrets!Save(gen, files)
<1> USE DEF JournalInv
<1>1. /\ proc[p] \in Process /\ proc[p].pc = "mark"
      /\ done' = TRUE /\ dir' = TRUE
      /\ UNCHANGED <<config, staging, issued>>
    BY DEF WriteDone, JournalTypeOK
<1>2. /\ proc' \in [Processes -> Process]
      /\ proc'[p] = [proc[p] EXCEPT !.pc = "commit", !.step = 1]
    BY GotoMoves DEF WriteDone, JournalTypeOK, Points
<1>3. /\ proc[p].gen # 0 /\ proc[p].gen \in 0 .. MaxGen /\ proc[p].saving /\ ~done
      /\ proc[p].gen = issued
      /\ proc[p].files \in FileSets /\ proc[p].files \subseteq File
      /\ "token" \in proc[p].files
      /\ \A g \in File : config[g] < proc[p].gen
      /\ \A g \in File : staging[g] = IF g \in proc[p].files THEN proc[p].gen ELSE 0
    BY <1>1, JournalAssumption DEF PlaceInv, NewestInv, Reached, Process
<1>4. JournalTypeOK' /\ DiskInv'
    BY <1>1, <1>2 DEF JournalTypeOK, DiskInv
<1>5. NewestInv(p)' /\ PlaceInv(p)'
    BY <1>1, <1>2, <1>3 DEF NewestInv, PlaceInv, Process
<1>6. Secrets!Save(proc[p].gen, proc[p].files)
    <2>1. Effective = config
        BY <1>3 DEF Effective, JournalTypeOK
    <2>2. Effective' = [g \in File |-> IF g \in proc[p].files THEN proc[p].gen
                                      ELSE config[g]]
        BY <1>1, <1>3 DEF Effective
    <2> QED
        BY <1>3, <2>1, <2>2 DEF Secrets!Save, Secrets!File, File
<1> QED
    BY <1>3, <1>4, <1>5, <1>6 DEF Alone

\* A file that is committed was effective while it was staged.
LEMMA CommitFileKeeps ==
    ASSUME JournalInv, Alone, NEW p \in Processes, CommitFile(p)
    PROVE  JournalInv' /\ Effective' = Effective
<1> USE DEF JournalInv
<1> DEFINE f == Order[proc[p].step]
<1>1. /\ proc[p] \in Process /\ proc[p].pc = "commit"
      /\ proc[p].step \in 1 .. 3
      /\ f \in File
      /\ UNCHANGED <<dir, done, issued>>
    BY OrderIsFile DEF CommitFile, JournalTypeOK, Process
<1>2. /\ done
      /\ \A n \in 1 .. 3 : n < proc[p].step => staging[Order[n]] = 0
    BY <1>1 DEF PlaceInv
<1>3. /\ proc' \in [Processes -> Process]
      /\ proc'[p] = IF proc[p].step = 3
                    THEN [proc[p] EXCEPT !.pc = "list", !.step = 1]
                    ELSE [proc[p] EXCEPT !.step = @ + 1]
    BY AdvanceMoves DEF CommitFile, JournalTypeOK, Points
<1>4. /\ staging' \in [File -> Nat] /\ config' \in [File -> Nat]
      /\ \A g \in File : staging'[g] = IF g = f THEN 0 ELSE staging[g]
      /\ \A g \in File : config'[g] = IF g = f /\ staging[f] # 0 THEN staging[f]
                                      ELSE config[g]
    BY <1>1 DEF CommitFile, JournalTypeOK
<1>5. JournalTypeOK' /\ DiskInv'
    BY <1>1, <1>3, <1>4 DEF JournalTypeOK, DiskInv
<1>6. NewestInv(p)'
    <2>1. /\ proc'[p].gen = proc[p].gen /\ proc'[p].files = proc[p].files
          /\ proc'[p].saving = proc[p].saving
          /\ proc'[p].pc \notin {"write", "mark"}
        BY <1>1, <1>3 DEF Process
    <2> QED
        BY <1>1, <1>4, <2>1 DEF NewestInv, JournalTypeOK
<1>7. PlaceInv(p)'
    <2>1. CASE proc[p].step = 3
        <3>1. \A g \in File : staging'[g] = 0
            BY <1>1, <1>2, <1>4, <2>1, OrderIsFile DEF File
        <3>2. proc'[p].pc = "list"
            BY <1>3, <2>1, <1>1 DEF Process
        <3> QED
            BY <3>1, <3>2 DEF PlaceInv
    <2>2. CASE proc[p].step # 3
        <3>1. proc'[p].pc = "commit" /\ proc'[p].step = proc[p].step + 1
            BY <1>1, <1>3, <2>2 DEF Process
        <3>2. \A n \in 1 .. 3 : n < proc[p].step + 1 => staging'[Order[n]] = 0
            BY <1>1, <1>2, <1>4, OrderIsFile
        <3> QED
            BY <1>1, <1>2, <3>1, <3>2 DEF PlaceInv
    <2> QED
        BY <2>1, <2>2
<1>8. Effective' = Effective
    BY <1>1, <1>2, <1>4, EffectiveKept
<1> QED
    BY <1>5, <1>6, <1>7, <1>8 DEF Alone

\* Listing the staging directory changes no file.
LEMMA ListKeeps ==
    ASSUME JournalInv, Alone, NEW p \in Processes, List(p)
    PROVE  JournalInv' /\ Effective' = Effective
<1> USE DEF JournalInv
<1>1. /\ proc[p] \in Process /\ proc[p].pc = "list"
      /\ UNCHANGED <<config, staging, dir, done, issued>>
    BY DEF List, JournalTypeOK
<1>2. Staged \in SUBSET (File \cup {"DONE"})
    BY DEF Staged
<1> DEFINE at == [proc[p] EXCEPT !.pc = "unlink"]
<1>3. at \in Process /\ at.pc = "unlink"
    BY <1>1 DEF Process
<1>4. /\ [at EXCEPT !.todo = Staged] \in Process
      /\ [at EXCEPT !.todo = Staged].todo = Staged
    <2> HIDE DEF at
    <2> QED
        BY <1>2, <1>3 DEF Process
<1>5. /\ proc' \in [Processes -> Process]
      /\ proc'[p] = [at EXCEPT !.todo = Staged]
    <2> DEFINE moved == [at EXCEPT !.todo = Staged]
    <2>1. proc' = [proc EXCEPT ![p] = moved]
        BY <1>1 DEF List
    <2> HIDE DEF moved
    <2>2. proc' \in [Processes -> Process] /\ proc'[p] = moved
        BY <1>4, <2>1 DEF moved, JournalTypeOK
    <2> QED
        BY <2>2 DEF moved
<1>6. JournalTypeOK' /\ DiskInv'
    BY <1>1, <1>5 DEF JournalTypeOK, DiskInv
<1>7. NewestInv(p)' /\ PlaceInv(p)'
    BY <1>1, <1>5 DEF NewestInv, PlaceInv, Staged, Process
<1> QED
    BY <1>1, <1>6, <1>7 DEF Alone, Effective

\* What is unlinked was committed, or never was to be.
LEMMA UnlinkKeeps ==
    ASSUME JournalInv, Alone, NEW p \in Processes, Unlink(p)
    PROVE  JournalInv' /\ Effective' = Effective
<1> USE DEF JournalInv
<1>1. PICK f \in proc[p].todo :
          /\ proc' = [proc EXCEPT ![p].todo = @ \ {f}]
          /\ IF f = "DONE" THEN done' = FALSE /\ UNCHANGED staging
             ELSE staging' = [staging EXCEPT ![f] = 0] /\ UNCHANGED done
    BY DEF Unlink
<1>2. /\ proc[p] \in Process /\ proc[p].pc = "unlink"
      /\ f \in File \cup {"DONE"}
      /\ UNCHANGED <<config, dir, issued>>
    BY DEF Unlink, JournalTypeOK, Process
<1>3. /\ ~done \/ \A g \in File : staging[g] = 0
      /\ Staged \subseteq proc[p].todo
    BY <1>2 DEF PlaceInv
<1>4. /\ staging' \in [File -> Nat] /\ done' \in BOOLEAN
      /\ \A g \in File : staging'[g] = IF g = f THEN 0 ELSE staging[g]
      /\ done' => done /\ f # "DONE"
      /\ done /\ f # "DONE" => done'
    <2>1. CASE f = "DONE"
        BY <1>1, <2>1 DEF JournalTypeOK, File
    <2>2. CASE f # "DONE"
        <3>1. /\ f \in File
              /\ staging' = [staging EXCEPT ![f] = 0] /\ UNCHANGED done
            BY <1>1, <1>2, <2>2
        <3> QED
            BY <2>2, <3>1 DEF JournalTypeOK
    <2> QED
        BY <2>1, <2>2
<1>5. /\ proc' \in [Processes -> Process]
      /\ proc'[p] = [proc[p] EXCEPT !.todo = @ \ {f}]
    BY <1>1, <1>2 DEF JournalTypeOK, Process
<1>6. JournalTypeOK' /\ DiskInv'
    BY <1>2, <1>4, <1>5 DEF JournalTypeOK, DiskInv
<1>7. NewestInv(p)'
    BY <1>2, <1>4, <1>5 DEF NewestInv, JournalTypeOK, Process
<1>8. PlaceInv(p)'
    <2>1. Staged' \subseteq Staged \ {f}
        BY <1>4 DEF Staged, File
    <2>2. proc'[p].pc = "unlink" /\ proc'[p].todo = proc[p].todo \ {f}
        BY <1>2, <1>5 DEF Process
    <2> QED
        BY <1>3, <1>4, <2>1, <2>2 DEF PlaceInv
<1>9. Effective' = Effective
    BY <1>2, <1>3, <1>4, EffectiveKept
<1> QED
    BY <1>6, <1>7, <1>8, <1>9 DEF Alone

\* Nothing effective is in a staging directory that is removed.
LEMMA RmdirKeeps ==
    ASSUME JournalInv, Alone, NEW p \in Processes, Rmdir(p)
    PROVE  JournalInv' /\ Effective' = Effective
<1> USE DEF JournalInv
<1>1. /\ proc[p] \in Process /\ proc[p].pc = "unlink"
      /\ UNCHANGED <<config, staging, done, issued>>
    BY DEF Rmdir, JournalTypeOK
<1>2. Staged = {} /\ dir' = FALSE
    BY <1>1 DEF Rmdir, PlaceInv, JournalTypeOK
<1>3. ~done /\ \A f \in File : staging[f] = 0
    BY <1>2 DEF Staged
<1>4. /\ proc' \in [Processes -> Process]
      /\ proc'[p] = IF proc[p].gen # 0 /\ ~proc[p].saving
                    THEN [proc[p] EXCEPT !.pc = "mkdir", !.step = 1]
                    ELSE Idle
    BY FinishMoves DEF Rmdir, JournalTypeOK
<1>5. JournalTypeOK' /\ DiskInv'
    BY <1>1, <1>2, <1>3, <1>4 DEF JournalTypeOK, DiskInv
<1>6. NewestInv(p)' /\ PlaceInv(p)'
    BY <1>1, <1>2, <1>3, <1>4 DEF NewestInv, PlaceInv, Idle, Process
<1> QED
    BY <1>1, <1>5, <1>6 DEF Alone, Effective

\* A process that is killed leaves the disk as it is.
LEMMA CrashKeeps ==
    ASSUME JournalInv, Alone, NEW p \in Processes, Crash(p)
    PROVE  JournalInv' /\ Effective' = Effective
<1> USE DEF JournalInv
<1>1. /\ proc' \in [Processes -> Process] /\ proc'[p] = Idle
      /\ UNCHANGED <<config, staging, dir, done, issued>>
    BY IdleIsAProcess DEF Crash, JournalTypeOK
<1>2. NewestInv(p)' /\ PlaceInv(p)'
    BY <1>1 DEF NewestInv, PlaceInv, Idle
<1> QED
    BY <1>1, <1>2 DEF Alone, JournalTypeOK, DiskInv, Effective

-----------------------------------------------------------------------------

\* The invariant holds at the start.
LEMMA JournalInit == Init => JournalInv
<1> SUFFICES ASSUME Init PROVE JournalInv
    OBVIOUS
<1>1. JournalTypeOK /\ DiskInv
    <2>1. issued \in 0 .. MaxGen /\ proc \in [Processes -> Process]
        BY IdleIsAProcess, JournalAssumption DEF Init
    <2>2. /\ config \in [File -> Nat] /\ staging \in [File -> Nat]
          /\ \A f \in File : config[f] = 0 /\ staging[f] = 0
        BY DEF Init
    <2>3. /\ ~done /\ issued = 0
          /\ dir \in BOOLEAN /\ done \in BOOLEAN
        BY DEF Init
    <2> QED
        BY <2>1, <2>2, <2>3 DEF JournalTypeOK, DiskInv
<1>2. ASSUME NEW p \in Processes PROVE NewestInv(p) /\ PlaceInv(p)
    BY DEF Init, Idle, NewestInv, PlaceInv
<1> QED
    BY <1>1, <1>2 DEF JournalInv

\* A step of the journal is a step of AtomicSecrets, or changes nothing that
\* is read.
LEMMA JournalStep ==
    ASSUME JournalInv, Alone, [Next]_vars
    PROVE  JournalInv' /\ [Secrets!Next]_Effective
<1>1. CASE UNCHANGED vars
    BY <1>1 DEF vars, JournalInv, JournalTypeOK, DiskInv, NewestInv, PlaceInv,
                Reached, Staged, Effective
<1>2. ASSUME NEW p \in Processes, WriteDone(p)
      PROVE  JournalInv' /\ [Secrets!Next]_Effective
    BY <1>2, WriteDoneSaves DEF Secrets!Next
<1>3. CASE Next /\ ~\E p \in Processes : WriteDone(p)
    BY <1>3, BeginReadKeeps, BeginSaveKeeps, RecoverKeeps, MkdirKeeps, WriteKeeps,
       CommitFileKeeps, ListKeeps, UnlinkKeeps, RmdirKeeps, CrashKeeps DEF Next
<1> QED
    BY <1>1, <1>2, <1>3

\* With one process at a time, killed wherever it may be, the files of an
\* enrollment commit together (persist.py): the journal implements
\* AtomicSecrets, for any number of enrollments and kills.
THEOREM JournalImplementsAtomicSecrets ==
    ASSUME \A p, q \in Processes : p = q
    PROVE  Spec => FilesCommitTogether
<1>1. Alone
    BY DEF Alone
<1>2. Init => Secrets!Init
    BY DEF Init, Effective, Secrets!Init, Secrets!File, File
<1>3. JournalInv /\ [Next]_vars => JournalInv' /\ [Secrets!Next]_Effective
    BY <1>1, JournalStep
<1> QED
    BY <1>2, <1>3, JournalInit, PTL DEF Spec, FilesCommitTogether, Secrets!Spec
=============================================================================
