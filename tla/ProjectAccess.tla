--------------------------- MODULE ProjectAccess ----------------------------
(***************************************************************************)
(* Who may do what: the members of one Research Group, the members of its  *)
(* Projects, and the users its Work Items are assigned to                  *)
(* (research_groups/services.py, projects/services.py,                     *)
(* projects/offboarding.py, work_items/services.py).                       *)
(*                                                                         *)
(* Each service locks the row it is about, a Project or the Research       *)
(* Group, before it reads, so it is one step.  Two go further.  The        *)
(* offboarding of a member locks the Group and then one Project after the  *)
(* other, and its writes show at its commit.  delete_work_item locks       *)
(* nothing between its checks and its delete.                              *)
(*                                                                         *)
(* An inserted membership or AuditEvent refers to the Group row: while an  *)
(* offboarding holds that row FOR UPDATE, the transaction cannot commit.   *)
(***************************************************************************)
EXTENDS Integers, FiniteSets

CONSTANTS
  User,     \* accounts
  Project,  \* primary keys of Projects
  Item,     \* primary keys of Work Items
  Nobody,   \* no user
  None      \* no Project

ASSUME UserAssumption == Nobody \notin User
ASSUME ProjectAssumption == Project \subseteq Nat /\ None \notin Project

VARIABLES
  groupRole,    \* ResearchGroupMembership.role, "none" without a row
  status,       \* Project.status, "absent" without a row
  archived,     \* the Projects with an archived_at
  role,         \* ProjectMembership.role, "none" without a row
  itemProject,  \* WorkItem.project, None without a row
  assignees,    \* the WorkItemAssignee rows of each Work Item
  deleting,     \* the Work Items whose deletion has passed its checks
  off           \* the offboarding under way

projects == <<status, archived, role>>
work == <<itemProject, assignees>>
vars == <<groupRole, projects, work, deleting, off>>

ProjectRoles == {"owner", "member", "viewer"}
Statuses == {"active", "paused", "completed"}

\* target leaves; todo: memberships not resolved yet; done: those resolved,
\* in Projects whose locks are held.
NoOffboarding == [target |-> Nobody, todo |-> {}, done |-> {}]

\* A group starts with its creator.
Init ==
  /\ \E creator \in User :
       groupRole = [u \in User |-> IF u = creator THEN "admin" ELSE "none"]
  /\ status = [p \in Project |-> "absent"]
  /\ archived = {}
  /\ role = [m \in Project \X User |-> "none"]
  /\ itemProject = [i \in Item |-> None]
  /\ assignees = [i \in Item |-> {}]
  /\ deleting = {}
  /\ off = NoOffboarding

-----------------------------------------------------------------------------
(* The authorization kernel and the checks of the services *)

InGroup(u) == groupRole[u] # "none"

\* GROUP_MANAGE, which some user must have.
Administered == \E u \in User : groupRole[u] = "admin"

OtherAdmin(u) == \E v \in User \ {u} : groupRole[v] = "admin"

OtherOwner(p, u) == \E v \in User \ {u} : role[<<p, v>>] = "owner"

\* PROJECT_MANAGE, which some user must have.
Managed(p) == \E u \in User : role[<<p, u>>] = "owner" /\ InGroup(u)

\* PROJECT_WORK
Works(p, u) == role[<<p, u>>] \in {"owner", "member"} /\ InGroup(u)

Assigned(p, u) ==
  \E i \in Item : itemProject[i] = p /\ u \in assignees[i]

GroupFree == off.target = Nobody

ProjectFree(p) == \A d \in off.done : d.project # p

\* Faulty variant: the Project is read without its lock.
ManageableUnlocked(p) == p \notin archived /\ Managed(p)

\* The locked Project exists, is not read-only, and an owner asks.
Manageable(p) == ProjectFree(p) /\ p \notin archived /\ Managed(p)

Reassigned(p, u, heir) ==
  [i \in Item |->
     IF itemProject[i] = p /\ u \in assignees[i]
     THEN (assignees[i] \ {u}) \cup ({heir} \ {Nobody})
     ELSE assignees[i]]

\* Faulty variant: whoever becomes a viewer keeps the assigned work.
ResolutionLax(p, u, heir) ==
  assignees' = assignees

\* _check_assignments_block_mutation without a resolution, else
\* _resolve_assignments_for_membership_mutation: unassign or transfer.
Resolution(p, u, heir) ==
  \/ ~Assigned(p, u) /\ assignees' = assignees
  \/ /\ GroupFree
     /\ heir # Nobody => heir # u /\ Works(p, heir)
     /\ assignees' = Reassigned(p, u, heir)

\* Faulty variant: any owner counts, the one that goes as well.
FinalOwnerCountingSelf(p, u) ==
  status[p] = "active" /\ ~\E v \in User : role[<<p, v>>] = "owner"

\* The only owner of an active Project.
FinalOwner(p, u) ==
  status[p] = "active" /\ role[<<p, u>>] = "owner" /\ ~OtherOwner(p, u)

-----------------------------------------------------------------------------
(* Projects *)

\* create_project: the creator, a member of the group, becomes the owner.
CreateProject(p, u, s) ==
  /\ status[p] = "absent"
  /\ GroupFree /\ InGroup(u)
  /\ status' = [status EXCEPT ![p] = s]
  /\ role' = [role EXCEPT ![<<p, u>>] = "owner"]
  /\ UNCHANGED <<groupRole, archived, work, deleting, off>>

AddMember(p, u, r) ==
  /\ Manageable(p)
  /\ GroupFree /\ InGroup(u)
  /\ role[<<p, u>>] = "none"
  /\ role' = [role EXCEPT ![<<p, u>>] = r]
  /\ UNCHANGED <<groupRole, status, archived, work, deleting, off>>

\* change_membership_role
ChangeRole(p, u, r, heir) ==
  /\ Manageable(p)
  /\ role[<<p, u>>] # "none"
  /\ r = "owner" \/ ~FinalOwner(p, u)
  /\ IF r = "viewer" THEN Resolution(p, u, heir) ELSE assignees' = assignees
  /\ role' = [role EXCEPT ![<<p, u>>] = r]
  /\ UNCHANGED <<groupRole, status, archived, itemProject, deleting, off>>

\* remove_membership
RemoveMember(p, u, heir) ==
  /\ Manageable(p)
  /\ role[<<p, u>>] # "none"
  /\ ~FinalOwner(p, u)
  /\ Resolution(p, u, heir)
  /\ role' = [role EXCEPT ![<<p, u>>] = "none"]
  /\ UNCHANGED <<groupRole, status, archived, itemProject, deleting, off>>

\* update_project
UpdateStatus(p, s) ==
  /\ Manageable(p)
  /\ status' = [status EXCEPT ![p] = s]
  /\ UNCHANGED <<groupRole, archived, role, work, deleting, off>>

Archive(p) ==
  /\ Manageable(p)
  /\ GroupFree
  /\ archived' = archived \cup {p}
  /\ UNCHANGED <<groupRole, status, role, work, deleting, off>>

Restore(p) ==
  /\ GroupFree
  /\ p \in archived /\ Managed(p)
  /\ archived' = archived \ {p}
  /\ UNCHANGED <<groupRole, status, role, work, deleting, off>>

\* delete_empty_project: no Work Items, archived or not; the memberships
\* CASCADE.
DeleteProject(p) ==
  /\ GroupFree
  /\ Managed(p)
  /\ \A i \in Item : itemProject[i] # p
  /\ status' = [status EXCEPT ![p] = "absent"]
  /\ archived' = archived \ {p}
  /\ role' = [m \in Project \X User |-> IF m[1] = p THEN "none" ELSE role[m]]
  /\ UNCHANGED <<groupRole, work, deleting, off>>

-----------------------------------------------------------------------------
(* Work Items *)

\* Faulty variant: what the view has seen of the archive is not checked again
\* under the lock of the Project.
WritableStale(p) ==
  ProjectFree(p) /\ \E u \in User : Works(p, u)

\* _require_project_write_access, under the lock of the Project.
Writable(p) ==
  ProjectFree(p) /\ p \notin archived /\ \E u \in User : Works(p, u)

\* create_work_item
CreateItem(i, p, S) ==
  /\ itemProject[i] = None
  /\ Writable(p)
  /\ GroupFree
  /\ \A u \in S : Works(p, u)
  /\ itemProject' = [itemProject EXCEPT ![i] = p]
  /\ assignees' = [assignees EXCEPT ![i] = S]
  /\ UNCHANGED <<groupRole, projects, deleting, off>>

\* update_work_item, as far as it replaces the assignees
Assign(i, S) ==
  /\ itemProject[i] # None
  /\ Writable(itemProject[i])
  /\ GroupFree
  /\ \A u \in S : Works(itemProject[i], u)
  /\ assignees' = [assignees EXCEPT ![i] = S]
  /\ UNCHANGED <<groupRole, projects, itemProject, deleting, off>>

\* delete_work_item: the checks, on the Project as the view has read it ...
BeginDeleteItem(i) ==
  /\ itemProject[i] # None
  /\ itemProject[i] \notin archived
  /\ \E u \in User : Works(itemProject[i], u)
  /\ deleting' = deleting \cup {i}
  /\ UNCHANGED <<groupRole, projects, work, off>>

\* ... and the delete, whatever holds by then; it waits for its assignments.
DeleteItem(i) ==
  /\ i \in deleting
  /\ off.target \in assignees[i] => ProjectFree(itemProject[i])
  /\ deleting' = deleting \ {i}
  /\ itemProject' = [itemProject EXCEPT ![i] = None]
  /\ assignees' = [assignees EXCEPT ![i] = {}]
  /\ UNCHANGED <<groupRole, projects, off>>

-----------------------------------------------------------------------------
(* The Research Group *)

AddToGroup(u, r) ==
  /\ GroupFree /\ Administered
  /\ groupRole[u] = "none"
  /\ groupRole' = [groupRole EXCEPT ![u] = r]
  /\ UNCHANGED <<projects, work, deleting, off>>

\* change_research_group_membership_role
ChangeGroupRole(u, r) ==
  /\ GroupFree /\ Administered
  /\ InGroup(u)
  /\ groupRole[u] = "admin" /\ r # "admin" => OtherAdmin(u)
  /\ groupRole' = [groupRole EXCEPT ![u] = r]
  /\ UNCHANGED <<projects, work, deleting, off>>

\* Faulty variant: the memberships are left to the offboarding.
RemovableIfOtherAdmin(u) ==
  InGroup(u) /\ (groupRole[u] = "admin" => OtherAdmin(u))

\* Faulty variant: the check for the final admin is left to role changes.
RemovableIfFree(u) ==
  InGroup(u) /\ \A p \in Project : role[<<p, u>>] = "none"

\* remove_research_group_membership: the guards of a removal.
Removable(u) ==
  /\ InGroup(u)
  /\ groupRole[u] = "admin" => OtherAdmin(u)
  /\ \A p \in Project : role[<<p, u>>] = "none"

RemoveFromGroup(u) ==
  /\ GroupFree /\ Administered
  /\ Removable(u)
  /\ groupRole' = [groupRole EXCEPT ![u] = "none"]
  /\ UNCHANGED <<projects, work, deleting, off>>

-----------------------------------------------------------------------------
(* offboard_research_group_member *)

\* The Group row and u's membership are locked, u's Projects are listed.
OffBegin(u) ==
  /\ GroupFree /\ Administered
  /\ InGroup(u)
  /\ off' = [target |-> u,
             todo |-> {p \in Project : role[<<p, u>>] # "none"},
             done |-> {}]
  /\ UNCHANGED <<groupRole, projects, work, deleting>>

NeedsOwner(p, u) == FinalOwner(p, u) /\ p \notin archived

\* Who may take over the work: eligible now, or by the ownership just given.
MayInherit(p, heir, newOwner) ==
  Works(p, heir) \/ (heir = newOwner /\ InGroup(heir))

\* resolve_project_membership_for_research_group_offboarding, of the next
\* Project in key order: transfer or archive where the ownership requires
\* it, transfer or unassign where there is work.
OffProject(p, newOwner, archive, heir) ==
  LET u == off.target IN
  /\ p \in off.todo /\ \A q \in off.todo : p <= q
  /\ role[<<p, u>>] # "none"
  /\ IF NeedsOwner(p, u)
     THEN \/ archive /\ newOwner = Nobody
          \/ /\ ~archive
             /\ newOwner \in User \ {u}
             /\ InGroup(newOwner) /\ role[<<p, newOwner>>] # "none"
     ELSE ~archive /\ newOwner = Nobody
  /\ heir # Nobody =>
       heir # u /\ Assigned(p, u) /\ MayInherit(p, heir, newOwner)
  /\ off' = [off EXCEPT !.todo = @ \ {p},
                        !.done = @ \cup {[project |-> p, newOwner |-> newOwner,
                                          archive |-> archive, heir |-> heir]}]
  /\ UNCHANGED <<groupRole, projects, work, deleting>>

RoleAfter(p, v) ==
  IF v = off.target THEN "none"
  ELSE IF \E d \in off.done : d.project = p /\ d.newOwner = v THEN "owner"
  ELSE role[<<p, v>>]

HeirsOf(p) == {d.heir : d \in {e \in off.done : e.project = p}} \ {Nobody}

\* The guards of the removal from the Group come last; one transaction.
OffCommit ==
  LET u == off.target IN
  /\ ~GroupFree
  /\ off.todo = {}
  /\ groupRole[u] = "admin" => OtherAdmin(u)
  /\ groupRole' = [groupRole EXCEPT ![u] = "none"]
  /\ role' = [m \in Project \X User |->
                IF ProjectFree(m[1]) THEN role[m] ELSE RoleAfter(m[1], m[2])]
  /\ archived' =
       archived \cup {p \in Project : \E d \in off.done : d.project = p /\ d.archive}
  /\ assignees' =
       [i \in Item |->
          IF itemProject[i] # None /\ u \in assignees[i]
             /\ ~ProjectFree(itemProject[i])
          THEN (assignees[i] \ {u}) \cup HeirsOf(itemProject[i])
          ELSE assignees[i]]
  /\ off' = NoOffboarding
  /\ UNCHANGED <<status, itemProject, deleting>>

\* A refusal or a lost connection rolls everything back.
OffAbort ==
  /\ ~GroupFree
  /\ off' = NoOffboarding
  /\ UNCHANGED <<groupRole, projects, work, deleting>>

-----------------------------------------------------------------------------
(* The specification *)

ProjectAction(p) ==
  \/ \E u \in User, s \in Statuses : CreateProject(p, u, s)
  \/ \E u \in User, r \in ProjectRoles : AddMember(p, u, r)
  \/ \E u \in User, r \in ProjectRoles, heir \in User \cup {Nobody} :
       ChangeRole(p, u, r, heir)
  \/ \E u \in User, heir \in User \cup {Nobody} : RemoveMember(p, u, heir)
  \/ \E s \in Statuses : UpdateStatus(p, s)
  \/ Archive(p) \/ Restore(p) \/ DeleteProject(p)

ItemAction(i) ==
  \/ \E p \in Project, S \in SUBSET User : CreateItem(i, p, S)
  \/ \E S \in SUBSET User : Assign(i, S)
  \/ BeginDeleteItem(i) \/ DeleteItem(i)

GroupAction(u) ==
  \/ \E r \in {"admin", "member"} : AddToGroup(u, r) \/ ChangeGroupRole(u, r)
  \/ RemoveFromGroup(u)
  \/ OffBegin(u)

Offboarding ==
  \/ \E p \in Project, newOwner, heir \in User \cup {Nobody}, archive \in BOOLEAN :
       OffProject(p, newOwner, archive, heir)
  \/ OffCommit \/ OffAbort

Next ==
  \/ \E p \in Project : ProjectAction(p)
  \/ \E i \in Item : ItemAction(i)
  \/ \E u \in User : GroupAction(u)
  \/ Offboarding

Spec == Init /\ [][Next]_vars

-----------------------------------------------------------------------------
(* Properties *)

Decisions ==
  [project : Project, newOwner : User \cup {Nobody}, archive : BOOLEAN,
   heir : User \cup {Nobody}]

\* The tables hold roles, statuses and keys of their kinds, and their rows
\* refer to Projects that exist.
TypeOK ==
  /\ groupRole \in [User -> {"admin", "member", "none"}]
  /\ status \in [Project -> Statuses \cup {"absent"}]
  /\ archived \subseteq Project
  /\ role \in [Project \X User -> ProjectRoles \cup {"none"}]
  /\ itemProject \in [Item -> Project \cup {None}]
  /\ assignees \in [Item -> SUBSET User]
  /\ deleting \subseteq Item
  /\ off \in [target : User \cup {Nobody}, todo : SUBSET Project,
              done : SUBSET Decisions]
  /\ \A p \in Project : status[p] = "absent" =>
       /\ p \notin archived
       /\ \A u \in User : role[<<p, u>>] = "none"
       /\ \A i \in Item : itemProject[i] # p

\* A Research Group is never without an admin, whoever demotes, removes or
\* offboards whom.
GroupHasAdmin == \E u \in User : groupRole[u] = "admin"

\* A member of a Project is a member of its Research Group: no Project
\* membership outlives a removal or an offboarding, none is added behind it.
MembersInGroup ==
  \A p \in Project, u \in User : role[<<p, u>>] # "none" => InGroup(u)

\* An active Project that is not archived has an owner: role changes,
\* removals, status changes, restores and offboardings never leave one
\* ownerless (docs/domain/foundation.md, Research Group removal).
ActiveOwned ==
  \A p \in Project : status[p] = "active" /\ p \notin archived => Managed(p)

\* Whoever a Work Item is assigned to may work on it, at any time.
AssigneesCanWork ==
  \A i \in Item : \A u \in assignees[i] :
    itemProject[i] # None /\ Works(itemProject[i], u)

\* What an offboarding has decided about a Project still fits it when the
\* offboarding commits: the successors are there, ownership was resolved
\* where it must be, and no membership of the target is overlooked.
DecisionsHold ==
  off.target # Nobody =>
    /\ InGroup(off.target)
    /\ \A p \in Project :
         role[<<p, off.target>>] # "none" => p \in off.todo \/ ~ProjectFree(p)
    /\ \A d \in off.done :
         /\ NeedsOwner(d.project, off.target) <=>
              d.archive \/ d.newOwner # Nobody
         /\ d.newOwner # Nobody =>
              /\ d.newOwner # off.target /\ InGroup(d.newOwner)
              /\ role[<<d.project, d.newOwner>>] # "none"
         /\ d.heir # Nobody =>
              d.heir # off.target /\ MayInherit(d.project, d.heir, d.newOwner)

\* The offboarding of u commits.
Offboarded(u) == off.target = u /\ InGroup(u) /\ ~InGroup(u)'

\* While a Project is and stays archived, it keeps its status; its memberships
\* change only by losing the member whose offboarding commits, an assignment
\* only by passing from that member to at most one successor; no Work Item
\* comes in, and none disappears but by a deletion that had passed its checks
\* before: none passes them now.
ArchivedStep ==
  \A p \in archived \cap archived' :
    /\ status'[p] = status[p]
    /\ \A u \in User : role'[<<p, u>>] # role[<<p, u>>] =>
         Offboarded(u) /\ role'[<<p, u>>] = "none"
    /\ \A i \in Item : itemProject'[i] = p => itemProject[i] = p
    /\ \A i \in Item : itemProject[i] = p =>
         /\ itemProject'[i] # p => i \in deleting /\ itemProject'[i] = None
         /\ i \in deleting' => i \in deleting
         /\ itemProject'[i] = p /\ assignees'[i] # assignees[i] =>
              \E u \in assignees[i], heir \in User \cup {Nobody} :
                /\ Offboarded(u)
                /\ assignees'[i] = (assignees[i] \ {u}) \cup ({heir} \ {Nobody})

ArchivedReadOnly == [][ArchivedStep]_vars
=============================================================================
