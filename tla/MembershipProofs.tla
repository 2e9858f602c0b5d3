-------------------------- MODULE MembershipProofs --------------------------
(***************************************************************************)
(* Theorems about Membership, for any number of users.  Who may make       *)
(* owners and admins holds for any number of overlapping requests; that an *)
(* owner is left, and who may undo one, if requests do not overlap.        *)
(***************************************************************************)
EXTENDS Membership, TLAPS

\* A session past its permission checks holds a role its actor, as it read
\* him, may give.
GrantsAllowed ==
    \A s \in Sessions :
        session[s].pc \in {"target", "checked"}
                /\ session[s].op \in {"add", "change"} =>
            CanAssign(session[s].actorRow.role, session[s].role)

\* A session at work has an actor and a target.
SessionsHaveUsers ==
    \A s \in Sessions :
        session[s].pc # "idle" => /\ session[s].actor \in Users
                                  /\ session[s].target \in Users

MembershipIInv ==
    /\ TypeOK
    /\ SessionsHaveUsers
    /\ GrantsAllowed

-----------------------------------------------------------------------------

\* A request that has not begun has the type of a request.
LEMMA IdleIsASession == Idle \in Session
  BY MembershipAssumption
     DEF Idle, Session, NoRow, Row, Roles, Operations

\* How the steps of a request move its session.
LEMMA BeginKeeps ==
    ASSUME MembershipIInv, NEW s \in Sessions, NEW op \in Operations,
           NEW actor \in Users, NEW target \in Users, NEW role \in Roles,
           Begin(s, op, actor, target, role)
    PROVE  MembershipIInv'
<1>1. /\ UNCHANGED member
      /\ session' = [session EXCEPT ![s] =
                        [Idle EXCEPT !.pc = "actor", !.op = op,
                                     !.actor = actor, !.target = target,
                                     !.role = role,
                                     !.actorRow = member[actor]]]
  BY DEF Begin
<1>2. [Idle EXCEPT !.pc = "actor", !.op = op, !.actor = actor,
                   !.target = target, !.role = role,
                   !.actorRow = member[actor]] \in Session
  BY IdleIsASession DEF MembershipIInv, TypeOK, Session, Idle
<1>3. TypeOK'
  BY <1>1, <1>2 DEF MembershipIInv, TypeOK
<1>4. SessionsHaveUsers' /\ GrantsAllowed'
  BY <1>1
     DEF MembershipIInv, TypeOK, SessionsHaveUsers, GrantsAllowed, Idle,
         CanAssign
<1> QED
  BY <1>3, <1>4 DEF MembershipIInv

\* Reading the target's row keeps the invariant.
LEMMA ReadTargetKeeps ==
    ASSUME MembershipIInv, NEW s \in Sessions, ReadTarget(s)
    PROVE  MembershipIInv'
<1>1. /\ UNCHANGED member
      /\ session[s].pc = "actor"
      /\ session' = [session EXCEPT ![s] =
                        [@ EXCEPT !.pc = "target", !.targetRow = TargetRow(s)]]
  BY DEF ReadTarget
<1>2. session[s] \in Session /\ TargetRow(s) \in Row
  BY <1>1 DEF MembershipIInv, TypeOK, SessionsHaveUsers, TargetRow, Session
<1>3. TypeOK'
  BY <1>1, <1>2 DEF MembershipIInv, TypeOK, Session
<1>4. SessionsHaveUsers'
  BY <1>1, <1>2 DEF MembershipIInv, TypeOK, SessionsHaveUsers, Session
<1>5. session[s].op \in {"add", "change"} =>
          CanAssign(session[s].actorRow.role, session[s].role)
  BY DEF ReadTarget, Permitted
<1>6. GrantsAllowed'
  BY <1>1, <1>2, <1>5
     DEF MembershipIInv, TypeOK, GrantsAllowed, Session, CanAssign
<1> QED
  BY <1>3, <1>4, <1>6 DEF MembershipIInv

\* So does counting the owners,
LEMMA CheckOwnersKeeps ==
    ASSUME MembershipIInv, NEW s \in Sessions, CheckOwners(s)
    PROVE  MembershipIInv'
<1>1. /\ UNCHANGED member
      /\ session[s].pc = "target"
      /\ session[s] \in Session
  BY DEF CheckOwners, MembershipIInv, TypeOK
<1>2. \/ session' = [session EXCEPT ![s] = Idle]
      \/ session' = [session EXCEPT ![s] = [@ EXCEPT !.pc = "checked"]]
  BY DEF CheckOwners
<1>3. TypeOK'
  BY <1>1, <1>2, IdleIsASession DEF MembershipIInv, TypeOK, Session
<1>4. SessionsHaveUsers' /\ GrantsAllowed'
  BY <1>1, <1>2
     DEF MembershipIInv, TypeOK, SessionsHaveUsers, GrantsAllowed, Session,
         Idle, CanAssign
<1> QED
  BY <1>3, <1>4 DEF MembershipIInv

\* the write of the row, which gives a role its actor may give,
LEMMA CommitKeeps ==
    ASSUME MembershipIInv, NEW s \in Sessions, Commit(s)
    PROVE  MembershipIInv'
<1> DEFINE u == session[s].target
<1>1. /\ u \in Users
      /\ member[u] \in Row
      /\ session[s] \in Session
      /\ session' = [session EXCEPT ![s] = Idle]
  BY DEF Commit, MembershipIInv, TypeOK, SessionsHaveUsers
<1>2. \A v \in Users : member'[v].row = 0 => member'[v].role = "none"
  <2>1. CASE CommitAdd(s)
    BY <1>1, <2>1 DEF CommitAdd, Insert, MembershipIInv, TypeOK, Row
  <2>2. CASE CommitChange(s)
    BY <1>1, <2>2 DEF CommitChange, SameRow, MembershipIInv, TypeOK, Row
  <2>3. CASE CommitDelete(s)
    BY <1>1, <2>3 DEF CommitDelete, MembershipIInv, TypeOK, Row
  <2> QED
    BY <2>1, <2>2, <2>3 DEF Commit
<1>3. member' \in [Users -> Row]
  <2>1. CASE CommitAdd(s)
    <3>1. Insert(u, session[s].role) \in Row
      BY <1>1, <2>1, MembershipAssumption
         DEF CommitAdd, Insert, Row, Session
    <3> QED
      BY <1>1, <2>1, <3>1 DEF CommitAdd, MembershipIInv, TypeOK
  <2>2. CASE CommitChange(s)
    BY <1>1, <2>2 DEF CommitChange, MembershipIInv, TypeOK, Row, Session
  <2>3. CASE CommitDelete(s)
    BY <1>1, <2>3 DEF CommitDelete, MembershipIInv, TypeOK, Row
  <2> QED
    BY <2>1, <2>2, <2>3 DEF Commit
<1>4. TypeOK'
  BY <1>1, <1>2, <1>3, IdleIsASession DEF MembershipIInv, TypeOK
<1>5. SessionsHaveUsers' /\ GrantsAllowed'
  BY <1>1
     DEF MembershipIInv, TypeOK, SessionsHaveUsers, GrantsAllowed, Idle,
         CanAssign
<1> QED
  BY <1>4, <1>5 DEF MembershipIInv

\* and a request that fails.
LEMMA AbortKeeps ==
    ASSUME MembershipIInv, NEW s \in Sessions, Abort(s)
    PROVE  MembershipIInv'
  BY IdleIsASession
     DEF Abort, MembershipIInv, TypeOK, SessionsHaveUsers, GrantsAllowed, Idle,
         CanAssign

\* The invariant holds for any number of overlapping requests.
THEOREM MembershipInvariant == Spec => []MembershipIInv
<1>1. Init => MembershipIInv
  <2> SUFFICES ASSUME Init
               PROVE  MembershipIInv
    OBVIOUS
  <2>1. TypeOK
    BY IdleIsASession, MembershipAssumption
       DEF Init, TypeOK, Row, Roles, NoRow
  <2> QED
    BY <2>1
       DEF Init, MembershipIInv, SessionsHaveUsers, GrantsAllowed, Idle
<1>2. MembershipIInv /\ [Next]_vars => MembershipIInv'
  <2> SUFFICES ASSUME MembershipIInv, [Next]_vars
               PROVE  MembershipIInv'
    OBVIOUS
  <2>1. CASE Next
    BY <2>1, BeginKeeps, ReadTargetKeeps, CheckOwnersKeeps, CommitKeeps,
       AbortKeeps DEF Next
  <2>2. CASE UNCHANGED vars
    BY <2>2
       DEF vars, MembershipIInv, TypeOK, SessionsHaveUsers, GrantsAllowed
  <2> QED
    BY <2>1, <2>2
<1> QED
  BY <1>1, <1>2, PTL DEF Spec

\* The rows and the requests keep their types.
THEOREM MembershipTypeCorrect == Spec => []TypeOK
<1>1. MembershipIInv => TypeOK
  BY DEF MembershipIInv
<1> QED
  BY <1>1, MembershipInvariant, PTL

-----------------------------------------------------------------------------
(* Who makes owners and admins, for any number of overlapping requests.    *)

\* Only a commit changes a member, and only the one its request is about.
LEMMA OnlyCommitsWrite ==
    ASSUME MembershipIInv, [Next]_vars, NEW u \in Users,
           member'[u] # member[u]
    PROVE  \E s \in Sessions : Commit(s) /\ session[s].target = u
<1>1. PICK s \in Sessions : Commit(s)
  BY DEF Next, vars, Begin, ReadTarget, CheckOwners, Abort
<1>2. session[s].target \in Users
  BY <1>1 DEF Commit, MembershipIInv, SessionsHaveUsers
<1>3. session[s].target = u
  BY <1>1, <1>2
     DEF Commit, CommitAdd, CommitChange, CommitDelete, MembershipIInv, TypeOK
<1> QED
  BY <1>1, <1>3

\* The role a commit leaves: the one the request was to give, or none.
LEMMA CommitGives ==
    ASSUME MembershipIInv, NEW s \in Sessions, Commit(s),
           member'[session[s].target].role # member[session[s].target].role
    PROVE  \/ /\ session[s].op \in {"add", "change"}
              /\ member'[session[s].target].role = session[s].role
           \/ /\ session[s].op \in {"remove", "leave"}
              /\ member'[session[s].target].role = "none"
<1> DEFINE u == session[s].target
<1>1. u \in Users /\ member[u] \in Row
  BY DEF Commit, MembershipIInv, TypeOK, SessionsHaveUsers
<1>2. CASE CommitAdd(s)
  BY <1>1, <1>2 DEF CommitAdd, Insert, MembershipIInv, TypeOK
<1>3. CASE CommitChange(s)
  BY <1>1, <1>3 DEF CommitChange, MembershipIInv, TypeOK, Row
<1>4. CASE CommitDelete(s)
  BY <1>1, <1>4 DEF CommitDelete, MembershipIInv, TypeOK, Row
<1> QED
  BY <1>2, <1>3, <1>4 DEF Commit

\* After a commit its session is idle.
LEMMA CommitEnds ==
    ASSUME MembershipIInv, NEW s \in Sessions, Commit(s)
    PROVE  session[s].pc = "checked" /\ session'[s].pc = "idle"
  BY DEF Commit, Idle, MembershipIInv, TypeOK

\* No chain of additions and changes by admins makes a manager
\* (ROLE_ASSIGNABLE_BY in permissions.py, add_member, change_role), in
\* whatever order any number of requests commit.
THEOREM OwnersMakeManagers == Spec => ManagersMadeByOwners
<1>1. ASSUME MembershipIInv, [Next]_vars, NEW u \in Users,
             member'[u].role \in {"owner", "admin"},
             member'[u].role # member[u].role
      PROVE  \E s \in Sessions : /\ session[s].pc = "checked"
                                 /\ session'[s].pc = "idle"
                                 /\ session[s].target = u
                                 /\ session[s].actorRow.role = "owner"
  <2>1. PICK s \in Sessions : Commit(s) /\ session[s].target = u
    BY <1>1, OnlyCommitsWrite
  <2>2. session[s].pc = "checked" /\ session'[s].pc = "idle"
    BY <1>1, <2>1, CommitEnds
  <2>3. /\ session[s].op \in {"add", "change"}
        /\ session[s].role \in {"owner", "admin"}
    BY <1>1, <2>1, CommitGives
  <2>4. session[s].actorRow.role = "owner"
    BY <1>1, <2>2, <2>3 DEF MembershipIInv, GrantsAllowed, CanAssign
  <2> QED
    BY <2>1, <2>2, <2>4
<1> DEFINE Made ==
        \A u \in Users :
            member'[u].role \in {"owner", "admin"}
                    /\ member'[u].role # member[u].role =>
                \E s \in Sessions : /\ session[s].pc = "checked"
                                    /\ session'[s].pc = "idle"
                                    /\ session[s].target = u
                                    /\ session[s].actorRow.role = "owner"
<1>2. MembershipIInv /\ [Next]_vars => [Made]_vars
  BY <1>1
<1>3. ManagersMadeByOwners <=> [][Made]_vars
  BY DEF ManagersMadeByOwners
<1> QED
  BY <1>2, <1>3, MembershipInvariant, PTL DEF Spec

-----------------------------------------------------------------------------
(* What the documents promise of owners, if requests do not overlap.       *)

\* What a session read of its target is still so, and it has checked what its
\* operation asks for.
ReadsAreCurrent ==
    \A s \in Sessions :
        /\ session[s].pc = "actor" =>
               session[s].actorRow = member[session[s].actor]
        /\ session[s].pc \in {"target", "checked"} =>
               /\ session[s].targetRow = member[session[s].target]
               /\ session[s].op \in {"change", "remove"} =>
                      CanModify(session[s].actorRow.role,
                                session[s].targetRow.role)
        /\ session[s].pc = "checked" /\ StepsDown(s) =>
               \E u, v \in Owners : u # v

SerialInv ==
    /\ ReadsAreCurrent
    /\ AlwaysAnOwner

\* A commit by a session whose reads are current leaves an owner: it takes one
\* away only if there are two.
LEMMA CommitLeavesAnOwner ==
    ASSUME MembershipIInv, SerialInv, NEW s \in Sessions, Commit(s)
    PROVE  AlwaysAnOwner'
<1> DEFINE u == session[s].target
<1>1. /\ u \in Users
      /\ session[s].pc = "checked"
      /\ session[s].targetRow = member[u]
      /\ StepsDown(s) => \E v, w \in Owners : v # w
  BY DEF Commit, MembershipIInv, SessionsHaveUsers, SerialInv, ReadsAreCurrent
<1>2. \A v \in Users : v # u => member'[v] = member[v]
  BY <1>1
     DEF Commit, CommitAdd, CommitChange, CommitDelete, MembershipIInv, TypeOK
<1>3. CASE StepsDown(s)
  <2>1. PICK v \in Owners : v # u
    BY <1>1, <1>3
  <2> QED
    BY <1>2, <2>1 DEF Owners, AlwaysAnOwner
<1>4. CASE ~StepsDown(s)
  <2>1. PICK v \in Users : member[v].role = "owner"
    BY DEF SerialInv, AlwaysAnOwner, Owners
  <2>2. v = u => member'[v].role = member[v].role
    <3>1. ASSUME member'[u].role # member[u].role, member[u].role = "owner"
          PROVE  FALSE
      <4>1. session[s].op # "add"
        BY <3>1 DEF Commit, CommitAdd, CommitChange, CommitDelete
      <4>2. \/ session[s].op = "change" /\ session[s].role # "owner"
            \/ session[s].op \in {"remove", "leave"}
        BY <3>1, <4>1, CommitGives
      <4> QED
        BY <1>1, <1>4, <3>1, <4>2 DEF StepsDown
    <3> QED
      BY <2>1, <3>1
  <2>3. member'[v].role = "owner"
    BY <1>2, <2>1, <2>2
  <2> QED
    BY <2>1, <2>3 DEF Owners, AlwaysAnOwner
<1> QED
  BY <1>3, <1>4

\* If requests do not overlap, every step keeps what was read true.
LEMMA SerialStep ==
    ASSUME \A s, t \in Sessions : s = t,
           MembershipIInv, SerialInv, [Next]_vars
    PROVE  SerialInv'
<1>1. CASE UNCHANGED vars
  BY <1>1
     DEF vars, SerialInv, ReadsAreCurrent, AlwaysAnOwner, Owners, StepsDown
<1>2. ASSUME NEW s \in Sessions, NEW op \in Operations,
             NEW actor \in Users, NEW target \in Users, NEW role \in Roles,
             Begin(s, op, actor, target, role)
      PROVE  SerialInv'
  <2>1. /\ UNCHANGED member
        /\ session'[s].pc = "actor"
        /\ session'[s].actor = actor
        /\ session'[s].actorRow = member[actor]
    BY <1>2 DEF Begin, MembershipIInv, TypeOK, Idle
  <2> QED
    BY <2>1 DEF SerialInv, ReadsAreCurrent, AlwaysAnOwner, Owners
<1>3. ASSUME NEW s \in Sessions, ReadTarget(s)
      PROVE  SerialInv'
  <2>1. /\ UNCHANGED member
        /\ session[s].pc = "actor"
        /\ session' = [session EXCEPT ![s] =
                          [@ EXCEPT !.pc = "target",
                                    !.targetRow = TargetRow(s)]]
        /\ session[s] \in Session
    BY <1>3 DEF ReadTarget, MembershipIInv, TypeOK
  <2>2. TargetRow(s) = member[session[s].target]
    BY <2>1 DEF TargetRow, SerialInv, ReadsAreCurrent
  <2>3. session[s].op \in {"change", "remove"} =>
            CanModify(session[s].actorRow.role, TargetRow(s).role)
    BY <1>3 DEF ReadTarget, Permitted
  <2>4. /\ session'[s].pc = "target"
        /\ session'[s].op = session[s].op
        /\ session'[s].target = session[s].target
        /\ session'[s].actorRow = session[s].actorRow
        /\ session'[s].targetRow = TargetRow(s)
    BY <2>1 DEF Session, MembershipIInv, TypeOK
  <2>5. ReadsAreCurrent'
    BY <2>1, <2>2, <2>3, <2>4 DEF ReadsAreCurrent, CanModify
  <2> QED
    BY <2>1, <2>5 DEF SerialInv, AlwaysAnOwner, Owners
<1>4. ASSUME NEW s \in Sessions, CheckOwners(s)
      PROVE  SerialInv'
  <2>1. /\ UNCHANGED member
        /\ session[s].pc = "target"
        /\ StepsDown(s) => \E u, v \in Owners : u # v
        /\ session[s] \in Session
    BY <1>4 DEF CheckOwners, MembershipIInv, TypeOK
  <2>2. \/ session'[s].pc = "idle"
        \/ session'[s] = [session[s] EXCEPT !.pc = "checked"]
    BY <1>4 DEF CheckOwners, Idle, MembershipIInv, TypeOK
  <2>3. Owners' = Owners
    BY <2>1 DEF Owners
  <2>4. CASE session'[s].pc = "idle"
    BY <2>1, <2>3, <2>4 DEF SerialInv, ReadsAreCurrent, AlwaysAnOwner
  <2>5. CASE session'[s] = [session[s] EXCEPT !.pc = "checked"]
    <3>1. /\ session'[s].pc = "checked"
          /\ session'[s].op = session[s].op
          /\ session'[s].role = session[s].role
          /\ session'[s].target = session[s].target
          /\ session'[s].actorRow = session[s].actorRow
          /\ session'[s].targetRow = session[s].targetRow
      BY <2>1, <2>5 DEF Session
    <3>2. StepsDown(s)' <=> StepsDown(s)
      BY <3>1 DEF StepsDown
    <3>3. ReadsAreCurrent'
      BY <2>1, <2>3, <3>1, <3>2 DEF SerialInv, ReadsAreCurrent, CanModify
    <3> QED
      BY <2>3, <3>3 DEF SerialInv, AlwaysAnOwner
  <2> QED
    BY <2>2, <2>4, <2>5
<1>5. ASSUME NEW s \in Sessions, Commit(s)
      PROVE  SerialInv'
  <2>1. \A t \in Sessions : session'[t].pc = "idle"
    BY <1>5, CommitEnds
  <2>2. ReadsAreCurrent'
    BY <2>1 DEF ReadsAreCurrent
  <2> QED
    BY <1>5, <2>2, CommitLeavesAnOwner DEF SerialInv
<1>6. ASSUME NEW s \in Sessions, Abort(s)
      PROVE  SerialInv'
  <2>1. UNCHANGED member /\ session'[s].pc = "idle"
    BY <1>6 DEF Abort, Idle, MembershipIInv, TypeOK
  <2> QED
    BY <2>1 DEF SerialInv, ReadsAreCurrent, AlwaysAnOwner, Owners
<1> QED
  BY <1>1, <1>2, <1>3, <1>4, <1>5, <1>6 DEF Next

\* That holds at the start.
LEMMA SerialInit == Init => SerialInv
<1> SUFFICES ASSUME Init
             PROVE  SerialInv
  OBVIOUS
<1>1. PICK creator \in Users : member[creator].role = "owner"
  BY DEF Init
<1>2. AlwaysAnOwner
  BY <1>1 DEF AlwaysAnOwner, Owners
<1>3. ReadsAreCurrent
  BY DEF Init, ReadsAreCurrent, Idle
<1> QED
  BY <1>2, <1>3 DEF SerialInv

\* "The organization must always have at least one owner" (change_role,
\* remove_member, leave_organization count the owners first): true for any
\* number of users if requests do not overlap.
THEOREM SerialRequestsKeepAnOwner ==
    ASSUME \A s, t \in Sessions : s = t
    PROVE  Spec => []AlwaysAnOwner
<1>1. MembershipIInv /\ SerialInv /\ [Next]_vars => SerialInv'
  BY SerialStep
<1>2. SerialInv => AlwaysAnOwner
  BY DEF SerialInv
<1> QED
  BY <1>1, <1>2, SerialInit, MembershipInvariant, PTL DEF Spec

\* "Admins cannot modify owners or other admins" (can_modify_member in
\* permissions.py): true if requests do not overlap.
THEOREM SerialRequestsSpareManagers ==
    ASSUME \A s, t \in Sessions : s = t
    PROVE  Spec => ManagersUndoneByOwners
<1>1. ASSUME MembershipIInv, SerialInv, [Next]_vars, NEW u \in Users,
             member[u].role \in {"owner", "admin"},
             member'[u].role # member[u].role
      PROVE  \E s \in Sessions : /\ session[s].pc = "checked"
                                 /\ session'[s].pc = "idle"
                                 /\ session[s].target = u
                                 /\ \/ session[s].actorRow.role = "owner"
                                    \/ session[s].op = "leave"
  <2>1. PICK s \in Sessions : Commit(s) /\ session[s].target = u
    BY <1>1, OnlyCommitsWrite
  <2>2. session[s].pc = "checked" /\ session'[s].pc = "idle"
    BY <1>1, <2>1, CommitEnds
  <2>3. session[s].targetRow.role \in {"owner", "admin"}
    BY <1>1, <2>1, <2>2 DEF SerialInv, ReadsAreCurrent
  <2>4. session[s].op \in {"change", "remove", "leave"}
    BY <1>1, <2>1 DEF Commit, CommitAdd, CommitChange, CommitDelete
  <2>5. session[s].actorRow.role = "owner" \/ session[s].op = "leave"
    BY <1>1, <2>2, <2>3, <2>4 DEF SerialInv, ReadsAreCurrent, CanModify
  <2> QED
    BY <2>1, <2>2, <2>5
<1> DEFINE Undone ==
        \A u \in Users :
            member[u].role \in {"owner", "admin"}
                    /\ member'[u].role # member[u].role =>
                \E s \in Sessions : /\ session[s].pc = "checked"
                                    /\ session'[s].pc = "idle"
                                    /\ session[s].target = u
                                    /\ \/ session[s].actorRow.role = "owner"
                                       \/ session[s].op = "leave"
<1>2. MembershipIInv /\ SerialInv /\ [Next]_vars => SerialInv' /\ [Undone]_vars
  BY <1>1, SerialStep
<1>3. ManagersUndoneByOwners <=> [][Undone]_vars
  BY DEF ManagersUndoneByOwners
<1> QED
  BY <1>2, <1>3, SerialInit, MembershipInvariant, PTL DEF Spec
=============================================================================
