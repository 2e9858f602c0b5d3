----------------------------- MODULE Membership -----------------------------
(***************************************************************************)
(* The members of one organization and their roles                         *)
(* (organizations/service.py, organizations/permissions.py).  A request is *)
(* a session, as in Devices: it reads the actor's membership, then the     *)
(* target's, then the number of owners where the last owner is at stake,   *)
(* and then writes; other requests commit in between.                      *)
(***************************************************************************)
EXTENDS Naturals

CONSTANTS
    Users,      \* the accounts that may become members
    Sessions,   \* requests that may be in flight together
    NoUser,     \* an idle session
    MaxRow      \* bound: membership rows a user is given over time

ASSUME MembershipAssumption ==
    /\ Users # {}
    /\ NoUser \notin Users
    /\ MaxRow \in Nat \ {0}

VARIABLES
    member,     \* the membership of each user: role, and number of its row
    session     \* the requests in flight

vars == <<member, session>>

-----------------------------------------------------------------------------

Roles == {"owner", "admin", "member", "viewer"}

Operations == {"add", "change", "remove", "leave"}

\* role "none": the row number "row" is deleted, or there never was one.
Row == [role : Roles \cup {"none"}, row : 0 .. MaxRow]

NoRow == [role |-> "none", row |-> 0]

\* actorRow and targetRow are the memberships as the session read them; role
\* is the one it is to give.
Session == [pc        : {"idle", "actor", "target", "checked"},
            op        : Operations,
            actor     : Users \cup {NoUser},
            target    : Users \cup {NoUser},
            role      : Roles,
            actorRow  : Row,
            targetRow : Row]

Idle == [pc |-> "idle", op |-> "leave", actor |-> NoUser, target |-> NoUser,
         role |-> "viewer", actorRow |-> NoRow, targetRow |-> NoRow]

\* create_organization makes its creator the owner.
Init ==
    /\ \E creator \in Users :
          member = [u \in Users |->
                       IF u = creator THEN [role |-> "owner", row |-> 1]
                       ELSE NoRow]
    /\ session = [s \in Sessions |-> Idle]

CanManageMembers(role) == role \in {"owner", "admin"}

CanAssign(actorRole, role) ==
    \/ actorRole = "owner"
    \/ actorRole = "admin" /\ role \in {"member", "viewer"}

CanModify(actorRole, targetRole) ==
    \/ actorRole = "owner"
    \/ actorRole = "admin" /\ targetRole \in {"member", "viewer"}

Owners == {u \in Users : member[u].role = "owner"}

-----------------------------------------------------------------------------

\* _require_membership of the actor.  A removal and a departure give no role.
Begin(s, op, actor, target, role) ==
    /\ session[s].pc = "idle"
    /\ member[actor].role # "none"
    /\ op = "leave" => target = actor
    /\ op \in {"remove", "leave"} => role = Idle.role
    /\ session' = [session EXCEPT ![s] =
                      [Idle EXCEPT !.pc = "actor", !.op = op, !.actor = actor,
                                   !.target = target, !.role = role,
                                   !.actorRow = member[actor]]]
    /\ UNCHANGED member

\* The target's row.  A session keeps the rows it has loaded: a departure and
\* the reading of a row by its key find the actor's own row among them.  An
\* addition asks the database again, and is given the loaded row, not what it
\* has become, if that row is still there.
TargetRow(s) ==
    LET own == session[s].actorRow
        now == member[session[s].target]
        kept == now.role # "none" /\ now.row = own.row
    IN  IF session[s].target = session[s].actor /\ (session[s].op = "add" => kept)
        THEN own
        ELSE now

\* What each operation asks of the actor's and the target's role.  The last
\* test of change_role is implied by CanModify.
Permitted(s, target) ==
    LET actorRole == session[s].actorRow.role
    IN  CASE session[s].op = "add" ->
                 /\ CanManageMembers(actorRole)
                 /\ CanAssign(actorRole, session[s].role)
                 /\ target.role = "none"
          [] session[s].op = "change" ->
                 /\ target.role # "none"
                 /\ CanManageMembers(actorRole)
                 /\ CanModify(actorRole, target.role)
                 /\ CanAssign(actorRole, session[s].role)
          [] session[s].op = "remove" ->
                 /\ target.role # "none"
                 /\ CanManageMembers(actorRole)
                 /\ CanModify(actorRole, target.role)
          [] session[s].op = "leave" -> TRUE

ReadTarget(s) ==
    /\ session[s].pc = "actor"
    /\ Permitted(s, TargetRow(s))
    /\ session' = [session EXCEPT ![s] = [@ EXCEPT !.pc = "target",
                                                   !.targetRow = TargetRow(s)]]
    /\ UNCHANGED member

\* The request takes an owner away.
StepsDown(s) ==
    /\ session[s].targetRow.role = "owner"
    /\ \/ session[s].op \in {"remove", "leave"}
       \/ session[s].op = "change" /\ session[s].role # "owner"

\* Fault: the owners are not counted when a member leaves.
CheckOwnersUnlessLeaving(s) ==
    /\ session[s].pc = "target"
    /\ StepsDown(s) /\ session[s].op # "leave" =>
           \E u, v \in Owners : u # v
    /\ session' = [session EXCEPT ![s].pc = "checked"]
    /\ UNCHANGED member

\* count_owners is more than one, where an owner is taken away; a change to
\* the role the target has is over here.
CheckOwners(s) ==
    /\ session[s].pc = "target"
    /\ StepsDown(s) => \E u, v \in Owners : u # v
    /\ session' =
          [session EXCEPT ![s] =
              IF session[s].op = "change"
                     /\ session[s].role = session[s].targetRow.role
              THEN Idle
              ELSE [@ EXCEPT !.pc = "checked"]]
    /\ UNCHANGED member

Insert(u, role) == [role |-> role, row |-> member[u].row + 1]

\* The unique constraint lets one of two additions of a user through.
CommitAdd(s) ==
    LET u == session[s].target
    IN  /\ session[s].op = "add"
        /\ member[u].role = "none"
        /\ member[u].row < MaxRow
        /\ member' = [member EXCEPT ![u] = Insert(u, session[s].role)]

\* The row the session read is still there.
SameRow(s) ==
    /\ member[session[s].target].role # "none"
    /\ member[session[s].target].row = session[s].targetRow.row

\* An UPDATE of a row that is gone raises.
CommitChange(s) ==
    /\ session[s].op = "change"
    /\ SameRow(s)
    /\ member' = [member EXCEPT ![session[s].target].role = session[s].role]

\* A DELETE of a row that is gone does nothing.
CommitDelete(s) ==
    /\ session[s].op \in {"remove", "leave"}
    /\ IF SameRow(s)
       THEN member' = [member EXCEPT ![session[s].target].role = "none"]
       ELSE UNCHANGED member

Commit(s) ==
    /\ session[s].pc = "checked"
    /\ CommitAdd(s) \/ CommitChange(s) \/ CommitDelete(s)
    /\ session' = [session EXCEPT ![s] = Idle]

\* A refusal, an error or the end of the process: nothing is written.
Abort(s) ==
    /\ session[s].pc # "idle"
    /\ session' = [session EXCEPT ![s] = Idle]
    /\ UNCHANGED member

Next ==
    \E s \in Sessions :
       \/ \E op \in Operations, actor, target \in Users, role \in Roles :
             Begin(s, op, actor, target, role)
       \/ ReadTarget(s)
       \/ CheckOwners(s)
       \/ Commit(s)
       \/ Abort(s)

Spec == Init /\ [][Next]_vars

-----------------------------------------------------------------------------

\* Only a user who was given a row has a role.
TypeOK ==
    /\ member \in [Users -> Row]
    /\ session \in [Sessions -> Session]
    /\ \A u \in Users : member[u].row = 0 => member[u].role = "none"

\* "The organization must always have at least one owner."
AlwaysAnOwner == Owners # {}

\* The role of owner or admin comes from a request that read its actor as an
\* owner: no chain of additions and changes by admins creates a manager, in
\* whatever order requests commit.
ManagersMadeByOwners ==
    [][\A u \in Users :
          member'[u].role \in {"owner", "admin"}
                  /\ member'[u].role # member[u].role =>
              \E s \in Sessions : /\ session[s].pc = "checked"
                                  /\ session'[s].pc = "idle"
                                  /\ session[s].target = u
                                  /\ session[s].actorRow.role = "owner"]_vars

\* "Admins cannot modify owners or other admins": what takes an owner's or
\* admin's role away is an owner's request, or his own departure.
ManagersUndoneByOwners ==
    [][\A u \in Users :
          member[u].role \in {"owner", "admin"}
                  /\ member'[u].role # member[u].role =>
              \E s \in Sessions : /\ session[s].pc = "checked"
                                  /\ session'[s].pc = "idle"
                                  /\ session[s].target = u
                                  /\ \/ session[s].actorRow.role = "owner"
                                     \/ session[s].op = "leave"]_vars
=============================================================================
