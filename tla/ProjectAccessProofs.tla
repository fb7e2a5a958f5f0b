------------------------ MODULE ProjectAccessProofs ------------------------
(***************************************************************************)
(* The invariants of ProjectAccess for any number of users, Projects and   *)
(* Work Items.  Their conjunction is inductive: MembersInGroup carries an  *)
(* owner to its group, DecisionsHold carries the checks an offboarding has *)
(* made, under its locks, to the commit that relies on them.               *)
(***************************************************************************)
EXTENDS ProjectAccess, TLAPS

\* The inductive invariant.
IInv ==
  /\ TypeOK /\ GroupHasAdmin /\ MembersInGroup
  /\ ActiveOwned /\ AssigneesCanWork /\ DecisionsHold

USE UserAssumption, ProjectAssumption

-----------------------------------------------------------------------------
(* What the steps have in common *)

\* Owners are members of the group, so an owner is all a Project needs.
LEMMA OwnerSuffices ==
  ASSUME MembersInGroup',
         \A p \in Project : status'[p] = "active" /\ p \notin archived' =>
           \E v \in User : role'[<<p, v>>] = "owner"
  PROVE  ActiveOwned'
<1> SUFFICES ASSUME NEW p \in Project,
                    status'[p] = "active", p \notin archived'
             PROVE  Managed(p)'
  BY DEF ActiveOwned
<1>1. PICK v \in User : role'[<<p, v>>] = "owner"
  OBVIOUS
<1>2. InGroup(v)'
  BY <1>1 DEF MembersInGroup
<1> QED BY <1>1, <1>2 DEF Managed

\* A step that respects the locks of the offboarding, and makes its target
\* a member of no further Project, leaves the decisions as good as they were.
LEMMA DecisionsKept ==
  ASSUME TypeOK, DecisionsHold,
         off' = off, groupRole' = groupRole,
         \A p \in Project : ~ProjectFree(p) =>
           /\ status'[p] = status[p]
           /\ p \in archived' <=> p \in archived
           /\ \A v \in User : role'[<<p, v>>] = role[<<p, v>>],
         \A p \in Project : ProjectFree(p) /\ off.target \in User =>
           (role'[<<p, off.target>>] # "none" => role[<<p, off.target>>] # "none")
  PROVE  DecisionsHold'
<1> SUFFICES ASSUME off.target # Nobody
             PROVE  /\ InGroup(off.target)'
                    /\ \A p \in Project :
                         role'[<<p, off.target>>] # "none" =>
                           p \in off.todo \/ ~ProjectFree(p)
                    /\ \A d \in off.done :
                         /\ NeedsOwner(d.project, off.target)' <=>
                              d.archive \/ d.newOwner # Nobody
                         /\ d.newOwner # Nobody =>
                              /\ d.newOwner # off.target /\ InGroup(d.newOwner)'
                              /\ role'[<<d.project, d.newOwner>>] # "none"
                         /\ d.heir # Nobody =>
                              /\ d.heir # off.target
                              /\ MayInherit(d.project, d.heir, d.newOwner)'
  BY DEF DecisionsHold, ProjectFree
<1>1. off.target \in User /\ off.done \subseteq Decisions
  BY DEF TypeOK
<1>2. \A u : InGroup(u)' <=> InGroup(u)
  BY DEF InGroup
<1>3. ASSUME NEW p \in Project, role'[<<p, off.target>>] # "none"
      PROVE  p \in off.todo \/ ~ProjectFree(p)
  BY <1>1, <1>3 DEF DecisionsHold
<1>4. ASSUME NEW d \in off.done
      PROVE  /\ NeedsOwner(d.project, off.target)' <=>
                  d.archive \/ d.newOwner # Nobody
             /\ d.newOwner # Nobody =>
                  /\ d.newOwner # off.target /\ InGroup(d.newOwner)'
                  /\ role'[<<d.project, d.newOwner>>] # "none"
             /\ d.heir # Nobody =>
                  /\ d.heir # off.target
                  /\ MayInherit(d.project, d.heir, d.newOwner)'
  <2>1. /\ d.project \in Project
        /\ d.newOwner \in User \cup {Nobody} /\ d.heir \in User \cup {Nobody}
    BY <1>1 DEF Decisions
  <2>2. /\ status'[d.project] = status[d.project]
        /\ d.project \in archived' <=> d.project \in archived
        /\ \A v \in User : role'[<<d.project, v>>] = role[<<d.project, v>>]
    BY <2>1 DEF ProjectFree
  <2>3. NeedsOwner(d.project, off.target)' <=> NeedsOwner(d.project, off.target)
    BY <1>1, <2>2 DEF NeedsOwner, FinalOwner, OtherOwner
  <2>4. \A v \in User : Works(d.project, v)' <=> Works(d.project, v)
    BY <1>2, <2>2 DEF Works
  <2> QED BY <1>2, <2>1, <2>2, <2>3, <2>4 DEF DecisionsHold, MayInherit
<1> QED BY <1>2, <1>3, <1>4 DEF DecisionsHold

\* A resolution touches the Project's Work Items only, takes the user off all
\* of them, and leaves them to users who may work on them.
LEMMA ResolutionResult ==
  ASSUME TypeOK, AssigneesCanWork,
         NEW p \in Project, NEW u \in User, NEW heir \in User \cup {Nobody},
         Resolution(p, u, heir), NEW i \in Item
  PROVE  /\ itemProject[i] # p => assignees'[i] = assignees[i]
         /\ itemProject[i] = p =>
              u \notin assignees'[i] /\ \A v \in assignees'[i] : Works(p, v)
<1>1. CASE ~Assigned(p, u) /\ assignees' = assignees
  BY <1>1 DEF Assigned, AssigneesCanWork
<1>2. CASE /\ heir # Nobody => heir # u /\ Works(p, heir)
           /\ assignees' = Reassigned(p, u, heir)
  <2>1. assignees'[i] = IF itemProject[i] = p /\ u \in assignees[i]
                        THEN (assignees[i] \ {u}) \cup ({heir} \ {Nobody})
                        ELSE assignees[i]
    BY <1>2 DEF Reassigned
  <2> QED BY <1>2, <2>1 DEF AssigneesCanWork
<1> QED BY <1>1, <1>2 DEF Resolution

-----------------------------------------------------------------------------
(* Projects *)

LEMMA CreateProjectStep ==
  ASSUME NEW p \in Project, NEW u \in User, NEW s \in Statuses, IInv,
         CreateProject(p, u, s)
  PROVE  IInv'
<1>1. TypeOK'
  BY DEF IInv, TypeOK, Statuses, ProjectRoles, CreateProject, work
<1>2. GroupHasAdmin'
  BY DEF IInv, GroupHasAdmin, CreateProject
<1>3. MembersInGroup'
  BY DEF IInv, MembersInGroup, InGroup, CreateProject
<1>4. ActiveOwned'
  <2> SUFFICES ASSUME NEW q \in Project,
                      status'[q] = "active", q \notin archived'
               PROVE  \E v \in User : role'[<<q, v>>] = "owner"
    BY <1>3, OwnerSuffices
  <2>1. CASE q = p
    BY <2>1 DEF IInv, TypeOK, CreateProject
  <2>2. CASE q # p
    <3>1. PICK v \in User : role[<<q, v>>] = "owner"
      BY <2>2 DEF IInv, TypeOK, ActiveOwned, Managed, CreateProject
    <3> QED BY <2>2, <3>1 DEF IInv, TypeOK, CreateProject
  <2> QED BY <2>1, <2>2
<1>5. AssigneesCanWork'
  BY DEF IInv, AssigneesCanWork, Works, InGroup, CreateProject, work
<1>6. DecisionsHold'
  BY DEF DecisionsHold, GroupFree, CreateProject
<1> QED BY <1>1, <1>2, <1>3, <1>4, <1>5, <1>6 DEF IInv

LEMMA AddMemberStep ==
  ASSUME NEW p \in Project, NEW u \in User, NEW r \in ProjectRoles, IInv,
         AddMember(p, u, r)
  PROVE  IInv'
<1>1. TypeOK'
  <2>1. status[p] # "absent"
    BY DEF IInv, TypeOK, AddMember, Manageable, Managed
  <2> QED BY <2>1 DEF IInv, TypeOK, ProjectRoles, AddMember, work
<1>2. GroupHasAdmin'
  BY DEF IInv, GroupHasAdmin, AddMember
<1>3. MembersInGroup'
  BY DEF IInv, MembersInGroup, InGroup, AddMember
<1>4. ActiveOwned'
  BY DEF IInv, ActiveOwned, Managed, InGroup, AddMember, work
<1>5. AssigneesCanWork'
  BY DEF IInv, AssigneesCanWork, Works, InGroup, AddMember, work
<1>6. DecisionsHold'
  BY DEF DecisionsHold, GroupFree, AddMember
<1> QED BY <1>1, <1>2, <1>3, <1>4, <1>5, <1>6 DEF IInv

LEMMA ChangeRoleStep ==
  ASSUME NEW p \in Project, NEW u \in User, NEW r \in ProjectRoles, NEW heir
         \in User \cup {Nobody}, IInv, ChangeRole(p, u, r, heir)
  PROVE  IInv'
<1>1. TypeOK'
  BY DEF IInv, TypeOK, Statuses, ProjectRoles, ChangeRole, Manageable,
         ProjectFree, Managed, InGroup, FinalOwner, OtherOwner, Resolution,
         Assigned, GroupFree, Works, Reassigned
<1>2. GroupHasAdmin'
  BY DEF IInv, GroupHasAdmin, ChangeRole
<1>3. MembersInGroup'
  BY DEF IInv, MembersInGroup, InGroup, ChangeRole
<1>4. ActiveOwned'
  <2> SUFFICES ASSUME NEW q \in Project, status[q] = "active", q \notin archived
               PROVE  \E v \in User : role'[<<q, v>>] = "owner"
    BY <1>3, OwnerSuffices DEF ChangeRole
  <2>1. PICK v \in User : role[<<q, v>>] = "owner"
    BY DEF IInv, ActiveOwned, Managed
  <2>2. \A m \in Project \X User : m # <<p, u>> => role'[m] = role[m]
    BY DEF IInv, TypeOK, ChangeRole
  <2>3. CASE q # p \/ v # u
    BY <2>1, <2>2, <2>3
  <2>4. CASE q = p /\ v = u
    <3>1. CASE r = "owner"
      BY <2>4, <3>1 DEF IInv, TypeOK, ChangeRole
    <3>2. CASE r # "owner"
      BY <2>1, <2>2, <2>4, <3>2 DEF ChangeRole, FinalOwner, OtherOwner
    <3> QED BY <3>1, <3>2
  <2> QED BY <2>3, <2>4
<1>5. AssigneesCanWork'
  <2> SUFFICES ASSUME NEW i \in Item, NEW v \in assignees'[i]
               PROVE  (itemProject[i] # None /\ Works(itemProject[i], v))'
    BY DEF AssigneesCanWork
  <2>1. itemProject[i] \in Project \cup {None} /\ v \in User
    BY <1>1 DEF IInv, TypeOK
  <2>2. UNCHANGED <<groupRole, itemProject>>
    BY DEF ChangeRole
  <2>3. \A m \in Project \X User : m # <<p, u>> => role'[m] = role[m]
    BY DEF IInv, TypeOK, ChangeRole
  <2>4. CASE itemProject[i] # p
    <3>1. assignees'[i] = assignees[i]
      BY <2>4, ResolutionResult DEF IInv, ChangeRole
    <3> QED BY <2>1, <2>2, <2>3, <2>4, <3>1
            DEF IInv, AssigneesCanWork, Works, InGroup
  <2>5. CASE itemProject[i] = p
    <3>1. Works(p, v)
      BY <2>5, ResolutionResult DEF IInv, ChangeRole, AssigneesCanWork
    <3>2. v = u => r # "viewer"
      BY <2>5, ResolutionResult DEF IInv, ChangeRole
    <3>3. role'[<<p, v>>] \in {"owner", "member"}
      BY <2>1, <2>3, <3>1, <3>2
         DEF IInv, TypeOK, ChangeRole, Works, ProjectRoles
    <3> QED BY <2>2, <2>5, <3>1, <3>3 DEF Works, InGroup
  <2> QED BY <2>4, <2>5
<1>6. DecisionsHold'
  <2>1. /\ off' = off /\ groupRole' = groupRole
        /\ status' = status /\ archived' = archived
    BY DEF ChangeRole
  <2>2. \A q \in Project \ {p}, v \in User : role'[<<q, v>>] = role[<<q, v>>]
    BY DEF IInv, TypeOK, ChangeRole
  <2>3. ProjectFree(p) /\ role[<<p, u>>] # "none"
    BY DEF ChangeRole, Manageable
  <2>4. \A v \in User : role[<<p, v>>] = "none" => role'[<<p, v>>] = "none"
    BY <2>3 DEF IInv, TypeOK, ChangeRole
  <2> QED BY <2>1, <2>2, <2>3, <2>4, DecisionsKept DEF IInv
<1> QED BY <1>1, <1>2, <1>3, <1>4, <1>5, <1>6 DEF IInv

LEMMA RemoveMemberStep ==
  ASSUME NEW p \in Project, NEW u \in User, NEW heir \in User \cup {Nobody},
         IInv, RemoveMember(p, u, heir)
  PROVE  IInv'
<1>1. TypeOK'
  BY DEF IInv, TypeOK, Statuses, ProjectRoles, RemoveMember, Manageable,
         ProjectFree, Managed, InGroup, FinalOwner, OtherOwner, Resolution,
         Assigned, GroupFree, Works, Reassigned
<1>2. GroupHasAdmin'
  BY DEF IInv, GroupHasAdmin, RemoveMember
<1>3. MembersInGroup'
  BY DEF IInv, MembersInGroup, InGroup, RemoveMember, TypeOK
<1>4. ActiveOwned'
  <2> SUFFICES ASSUME NEW q \in Project, status[q] = "active", q \notin archived
               PROVE  \E v \in User : role'[<<q, v>>] = "owner"
    BY <1>3, OwnerSuffices DEF RemoveMember
  <2>1. PICK v \in User : role[<<q, v>>] = "owner"
    BY DEF IInv, ActiveOwned, Managed
  <2>2. \A m \in Project \X User : m # <<p, u>> => role'[m] = role[m]
    BY DEF IInv, TypeOK, RemoveMember
  <2> QED BY <2>1, <2>2 DEF RemoveMember, FinalOwner, OtherOwner
<1>5. AssigneesCanWork'
  <2> SUFFICES ASSUME NEW i \in Item, NEW v \in assignees'[i]
               PROVE  (itemProject[i] # None /\ Works(itemProject[i], v))'
    BY DEF AssigneesCanWork
  <2>1. itemProject[i] \in Project \cup {None} /\ v \in User
    BY <1>1 DEF IInv, TypeOK
  <2>2. UNCHANGED <<groupRole, itemProject>>
    BY DEF RemoveMember
  <2>3. \A m \in Project \X User : m # <<p, u>> => role'[m] = role[m]
    BY DEF IInv, TypeOK, RemoveMember
  <2>4. itemProject[i] # None /\ Works(itemProject[i], v)
    BY ResolutionResult DEF IInv, RemoveMember, AssigneesCanWork
  <2>5. itemProject[i] # p \/ v # u
    BY ResolutionResult DEF IInv, RemoveMember
  <2> QED BY <2>1, <2>2, <2>3, <2>4, <2>5 DEF Works, InGroup
<1>6. DecisionsHold'
  <2>1. /\ off' = off /\ groupRole' = groupRole
        /\ status' = status /\ archived' = archived
    BY DEF RemoveMember
  <2>2. \A q \in Project \ {p}, v \in User : role'[<<q, v>>] = role[<<q, v>>]
    BY DEF IInv, TypeOK, RemoveMember
  <2>3. ProjectFree(p) /\ role[<<p, u>>] # "none"
    BY DEF RemoveMember, Manageable
  <2>4. \A v \in User : role[<<p, v>>] = "none" => role'[<<p, v>>] = "none"
    BY <2>3 DEF IInv, TypeOK, RemoveMember
  <2> QED BY <2>1, <2>2, <2>3, <2>4, DecisionsKept DEF IInv
<1> QED BY <1>1, <1>2, <1>3, <1>4, <1>5, <1>6 DEF IInv

LEMMA UpdateStatusStep ==
  ASSUME NEW p \in Project, NEW s \in Statuses, IInv, UpdateStatus(p, s)
  PROVE  IInv'
<1>1. TypeOK'
  BY DEF IInv, TypeOK, Statuses, ProjectRoles, UpdateStatus, work
<1>2. GroupHasAdmin'
  BY DEF IInv, GroupHasAdmin, UpdateStatus
<1>3. MembersInGroup'
  BY DEF IInv, MembersInGroup, InGroup, UpdateStatus
<1>4. ActiveOwned'
  <2> SUFFICES ASSUME NEW q \in Project,
                      status'[q] = "active", q \notin archived'
               PROVE  \E v \in User : role'[<<q, v>>] = "owner"
    BY <1>3, OwnerSuffices
  <2>1. Managed(q)
    BY DEF IInv, TypeOK, ActiveOwned, UpdateStatus, Manageable
  <2> QED BY <2>1 DEF Managed, UpdateStatus
<1>5. AssigneesCanWork'
  BY DEF IInv, AssigneesCanWork, Works, InGroup, UpdateStatus, work
<1>6. DecisionsHold'
  <2>1. /\ off' = off /\ groupRole' = groupRole
        /\ role' = role /\ archived' = archived
    BY DEF UpdateStatus
  <2>2. ProjectFree(p) /\ \A q \in Project \ {p} : status'[q] = status[q]
    BY DEF IInv, TypeOK, UpdateStatus, Manageable
  <2> QED BY <2>1, <2>2, DecisionsKept DEF IInv
<1> QED BY <1>1, <1>2, <1>3, <1>4, <1>5, <1>6 DEF IInv

LEMMA ArchiveStep ==
  ASSUME NEW p \in Project, IInv, Archive(p)
  PROVE  IInv'
<1>1. TypeOK'
  <2>1. status[p] # "absent"
    BY DEF IInv, TypeOK, Archive, Manageable, Managed
  <2> QED BY <2>1 DEF IInv, TypeOK, Archive, work
<1>2. GroupHasAdmin'
  BY DEF IInv, GroupHasAdmin, Archive
<1>3. MembersInGroup'
  BY DEF IInv, MembersInGroup, InGroup, Archive
<1>4. ActiveOwned'
  BY DEF IInv, ActiveOwned, Managed, InGroup, Archive
<1>5. AssigneesCanWork'
  BY DEF IInv, AssigneesCanWork, Works, InGroup, Archive, work
<1>6. DecisionsHold'
  BY DEF DecisionsHold, GroupFree, Archive
<1> QED BY <1>1, <1>2, <1>3, <1>4, <1>5, <1>6 DEF IInv

LEMMA RestoreStep ==
  ASSUME NEW p \in Project, IInv, Restore(p)
  PROVE  IInv'
<1>1. TypeOK'
  BY DEF IInv, TypeOK, Statuses, ProjectRoles, Restore, work
<1>2. GroupHasAdmin'
  BY DEF IInv, GroupHasAdmin, Restore
<1>3. MembersInGroup'
  BY DEF IInv, MembersInGroup, InGroup, Restore
<1>4. ActiveOwned'
  BY DEF IInv, ActiveOwned, Managed, InGroup, Restore
<1>5. AssigneesCanWork'
  BY DEF IInv, AssigneesCanWork, Works, InGroup, Restore, work
<1>6. DecisionsHold'
  BY DEF DecisionsHold, GroupFree, Restore
<1> QED BY <1>1, <1>2, <1>3, <1>4, <1>5, <1>6 DEF IInv

LEMMA DeleteProjectStep ==
  ASSUME NEW p \in Project, IInv, DeleteProject(p)
  PROVE  IInv'
<1>1. TypeOK'
  BY DEF IInv, TypeOK, Statuses, ProjectRoles, DeleteProject, work
<1>2. GroupHasAdmin'
  BY DEF IInv, GroupHasAdmin, DeleteProject
<1>3. MembersInGroup'
  BY DEF IInv, MembersInGroup, InGroup, DeleteProject
<1>4. ActiveOwned'
  <2> SUFFICES ASSUME NEW q \in Project,
                      status'[q] = "active", q \notin archived'
               PROVE  \E v \in User : role'[<<q, v>>] = "owner"
    BY <1>3, OwnerSuffices
  <2>1. q # p
    BY DEF IInv, TypeOK, DeleteProject
  <2>2. PICK v \in User : role[<<q, v>>] = "owner"
    BY <2>1 DEF IInv, TypeOK, ActiveOwned, Managed, DeleteProject
  <2> QED BY <2>1, <2>2 DEF DeleteProject
<1>5. AssigneesCanWork'
  BY DEF IInv, AssigneesCanWork, Works, InGroup, DeleteProject, work, TypeOK
<1>6. DecisionsHold'
  BY DEF DecisionsHold, GroupFree, DeleteProject
<1> QED BY <1>1, <1>2, <1>3, <1>4, <1>5, <1>6 DEF IInv

-----------------------------------------------------------------------------
(* Work Items *)

LEMMA CreateItemStep ==
  ASSUME NEW i \in Item, NEW p \in Project, NEW S \in SUBSET User, IInv,
         CreateItem(i, p, S)
  PROVE  IInv'
<1>1. TypeOK'
  <2>1. status[p] # "absent"
    BY DEF IInv, TypeOK, CreateItem, Writable, Works
  <2> QED BY <2>1 DEF IInv, TypeOK, CreateItem, projects
<1>2. GroupHasAdmin'
  BY DEF IInv, GroupHasAdmin, CreateItem
<1>3. MembersInGroup'
  BY DEF IInv, MembersInGroup, InGroup, CreateItem, projects
<1>4. ActiveOwned'
  BY DEF IInv, ActiveOwned, Managed, InGroup, CreateItem, projects
<1>5. AssigneesCanWork'
  BY DEF IInv, AssigneesCanWork, Works, InGroup, CreateItem, projects, TypeOK
<1>6. DecisionsHold'
  BY DEF DecisionsHold, GroupFree, CreateItem
<1> QED BY <1>1, <1>2, <1>3, <1>4, <1>5, <1>6 DEF IInv

LEMMA AssignStep ==
  ASSUME NEW i \in Item, NEW S \in SUBSET User, IInv, Assign(i, S)
  PROVE  IInv'
<1>1. TypeOK'
  BY DEF IInv, TypeOK, Statuses, ProjectRoles, Assign, projects
<1>2. GroupHasAdmin'
  BY DEF IInv, GroupHasAdmin, Assign
<1>3. MembersInGroup'
  BY DEF IInv, MembersInGroup, InGroup, Assign, projects
<1>4. ActiveOwned'
  BY DEF IInv, ActiveOwned, Managed, InGroup, Assign, projects
<1>5. AssigneesCanWork'
  BY DEF IInv, AssigneesCanWork, Works, InGroup, Assign, projects
<1>6. DecisionsHold'
  BY DEF DecisionsHold, GroupFree, Assign
<1> QED BY <1>1, <1>2, <1>3, <1>4, <1>5, <1>6 DEF IInv

LEMMA BeginDeleteItemStep ==
  ASSUME NEW i \in Item, IInv, BeginDeleteItem(i)
  PROVE  IInv'
<1>1. TypeOK'
  BY DEF IInv, TypeOK, Statuses, ProjectRoles, BeginDeleteItem, projects, work
<1>2. GroupHasAdmin'
  BY DEF IInv, GroupHasAdmin, BeginDeleteItem
<1>3. MembersInGroup'
  BY DEF IInv, MembersInGroup, InGroup, BeginDeleteItem, projects, work
<1>4. ActiveOwned'
  BY DEF IInv, ActiveOwned, Managed, InGroup, BeginDeleteItem, projects, work
<1>5. AssigneesCanWork'
  BY DEF IInv, AssigneesCanWork, Works, InGroup, BeginDeleteItem, projects,
         work
<1>6. DecisionsHold'
  BY DecisionsKept DEF IInv, BeginDeleteItem, projects
<1> QED BY <1>1, <1>2, <1>3, <1>4, <1>5, <1>6 DEF IInv

LEMMA DeleteItemStep ==
  ASSUME NEW i \in Item, IInv, DeleteItem(i)
  PROVE  IInv'
<1>1. TypeOK'
  BY DEF IInv, TypeOK, Statuses, ProjectRoles, DeleteItem, projects
<1>2. GroupHasAdmin'
  BY DEF IInv, GroupHasAdmin, DeleteItem
<1>3. MembersInGroup'
  BY DEF IInv, MembersInGroup, InGroup, DeleteItem, projects
<1>4. ActiveOwned'
  BY DEF IInv, ActiveOwned, Managed, InGroup, DeleteItem, projects
<1>5. AssigneesCanWork'
  BY DEF IInv, AssigneesCanWork, Works, InGroup, DeleteItem, projects, TypeOK
<1>6. DecisionsHold'
  BY DecisionsKept DEF IInv, DeleteItem, projects
<1> QED BY <1>1, <1>2, <1>3, <1>4, <1>5, <1>6 DEF IInv

-----------------------------------------------------------------------------
(* The Research Group *)

LEMMA AddToGroupStep ==
  ASSUME NEW u \in User, NEW r \in {"admin", "member"}, IInv, AddToGroup(u, r)
  PROVE  IInv'
<1>1. TypeOK'
  BY DEF IInv, TypeOK, Statuses, ProjectRoles, AddToGroup, projects, work
<1>2. GroupHasAdmin'
  BY DEF IInv, GroupHasAdmin, AddToGroup
<1>3. MembersInGroup'
  BY DEF IInv, MembersInGroup, InGroup, AddToGroup, projects, work
<1>4. ActiveOwned'
  BY DEF IInv, ActiveOwned, Managed, InGroup, AddToGroup, projects, work
<1>5. AssigneesCanWork'
  BY DEF IInv, AssigneesCanWork, Works, InGroup, AddToGroup, projects, work
<1>6. DecisionsHold'
  BY DEF DecisionsHold, GroupFree, AddToGroup
<1> QED BY <1>1, <1>2, <1>3, <1>4, <1>5, <1>6 DEF IInv

LEMMA ChangeGroupRoleStep ==
  ASSUME NEW u \in User, NEW r \in {"admin", "member"}, IInv,
         ChangeGroupRole(u, r)
  PROVE  IInv'
<1>1. TypeOK'
  BY DEF IInv, TypeOK, Statuses, ProjectRoles, ChangeGroupRole, projects, work
<1>2. GroupHasAdmin'
  BY DEF IInv, GroupHasAdmin, ChangeGroupRole, projects, work, TypeOK,
         GroupFree, InGroup, OtherAdmin
<1>3. MembersInGroup'
  BY DEF IInv, MembersInGroup, InGroup, ChangeGroupRole, projects, work
<1>4. ActiveOwned'
  BY DEF IInv, ActiveOwned, Managed, InGroup, ChangeGroupRole, projects, work
<1>5. AssigneesCanWork'
  BY DEF IInv, AssigneesCanWork, Works, InGroup, ChangeGroupRole, projects,
         work
<1>6. DecisionsHold'
  BY DEF DecisionsHold, GroupFree, ChangeGroupRole
<1> QED BY <1>1, <1>2, <1>3, <1>4, <1>5, <1>6 DEF IInv

LEMMA RemoveFromGroupStep ==
  ASSUME NEW u \in User, IInv, RemoveFromGroup(u)
  PROVE  IInv'
<1>1. TypeOK'
  BY DEF IInv, TypeOK, Statuses, ProjectRoles, RemoveFromGroup, projects, work
<1>2. GroupHasAdmin'
  BY DEF IInv, GroupHasAdmin, RemoveFromGroup, projects, work, TypeOK,
         GroupFree, Removable, InGroup, OtherAdmin
<1>3. MembersInGroup'
  BY DEF IInv, MembersInGroup, InGroup, RemoveFromGroup, projects, work,
         TypeOK, GroupFree, Removable, OtherAdmin
<1>4. ActiveOwned'
  BY DEF IInv, ActiveOwned, Managed, InGroup, RemoveFromGroup, projects, work,
         TypeOK, GroupFree, Removable, OtherAdmin
<1>5. AssigneesCanWork'
  <2>1. \A i \in Item : \A v \in assignees[i] : v \in User /\ v # u
    <3> SUFFICES ASSUME NEW i \in Item, NEW v \in assignees[i]
                 PROVE  v \in User /\ v # u
      OBVIOUS
    <3>1. itemProject[i] \in Project /\ v \in User
      BY DEF IInv, TypeOK, AssigneesCanWork
    <3>2. role[<<itemProject[i], v>>] # "none"
      BY DEF IInv, AssigneesCanWork, Works
    <3> QED BY <3>1, <3>2 DEF RemoveFromGroup, Removable
  <2> QED BY <2>1 DEF IInv, TypeOK, AssigneesCanWork, Works, InGroup,
                      RemoveFromGroup, projects, work
<1>6. DecisionsHold'
  BY DEF DecisionsHold, GroupFree, RemoveFromGroup
<1> QED BY <1>1, <1>2, <1>3, <1>4, <1>5, <1>6 DEF IInv

-----------------------------------------------------------------------------
(* Offboarding *)

LEMMA OffBeginStep ==
  ASSUME NEW u \in User, IInv, OffBegin(u)
  PROVE  IInv'
<1>1. TypeOK'
  BY DEF IInv, TypeOK, Statuses, ProjectRoles, OffBegin, projects, work
<1>2. GroupHasAdmin'
  BY DEF IInv, GroupHasAdmin, OffBegin
<1>3. MembersInGroup'
  BY DEF IInv, MembersInGroup, InGroup, OffBegin, projects, work
<1>4. ActiveOwned'
  BY DEF IInv, ActiveOwned, Managed, InGroup, OffBegin, projects, work
<1>5. AssigneesCanWork'
  BY DEF IInv, AssigneesCanWork, Works, InGroup, OffBegin, projects, work
<1>6. DecisionsHold'
  BY DEF IInv, DecisionsHold, InGroup, ProjectFree, NeedsOwner, FinalOwner,
         OtherOwner, MayInherit, Works, OffBegin, projects, work
<1> QED BY <1>1, <1>2, <1>3, <1>4, <1>5, <1>6 DEF IInv

LEMMA OffProjectStep ==
  ASSUME NEW p \in Project, NEW newOwner \in User \cup {Nobody}, NEW archive
         \in BOOLEAN, NEW heir \in User \cup {Nobody}, IInv, OffProject(p,
         newOwner, archive, heir)
  PROVE  IInv'
<1>1. TypeOK'
  <2> DEFINE d == [project |-> p, newOwner |-> newOwner,
                   archive |-> archive, heir |-> heir]
  <2>1. d \in Decisions
    BY DEF Decisions
  <2>2. off' = [off EXCEPT !.todo = @ \ {p}, !.done = @ \cup {d}]
    BY DEF OffProject
  <2>3. off' \in [target : User \cup {Nobody}, todo : SUBSET Project,
                  done : SUBSET Decisions]
    BY <2>1, <2>2 DEF IInv, TypeOK
  <2> QED BY <2>3 DEF IInv, TypeOK, OffProject, projects, work
<1>2. GroupHasAdmin'
  BY DEF IInv, GroupHasAdmin, OffProject
<1>3. MembersInGroup'
  BY DEF IInv, MembersInGroup, InGroup, OffProject, projects, work
<1>4. ActiveOwned'
  BY DEF IInv, ActiveOwned, Managed, InGroup, OffProject, projects, work
<1>5. AssigneesCanWork'
  BY DEF IInv, AssigneesCanWork, Works, InGroup, OffProject, projects, work
<1>6. DecisionsHold'
  <2> DEFINE u == off.target
             d == [project |-> p, newOwner |-> newOwner,
                   archive |-> archive, heir |-> heir]
  <2>1. /\ off'.target = u /\ off'.todo = off.todo \ {p}
        /\ off'.done = off.done \cup {d}
    BY DEF IInv, TypeOK, OffProject
  <2>2. /\ groupRole' = groupRole /\ role' = role
        /\ status' = status /\ archived' = archived
    BY DEF OffProject, projects
  <2>3. /\ \A v : InGroup(v)' <=> InGroup(v)
        /\ \A q, v : NeedsOwner(q, v)' <=> NeedsOwner(q, v)
        /\ \A q, v, w : MayInherit(q, v, w)' <=> MayInherit(q, v, w)
    BY <2>2 DEF InGroup, NeedsOwner, FinalOwner, OtherOwner, MayInherit, Works
  <2>4. \A q \in Project : ProjectFree(q)' <=> ProjectFree(q) /\ q # p
    <3>1. d.project = p
      OBVIOUS
    <3> HIDE DEF d
    <3> QED BY <2>1, <3>1 DEF ProjectFree
  <2>5. /\ NeedsOwner(d.project, u) <=> d.archive \/ d.newOwner # Nobody
        /\ d.newOwner # Nobody =>
             /\ d.newOwner # u /\ InGroup(d.newOwner)
             /\ role[<<d.project, d.newOwner>>] # "none"
        /\ d.heir # Nobody =>
             d.heir # u /\ MayInherit(d.project, d.heir, d.newOwner)
    BY DEF OffProject
  <2> HIDE DEF d
  <2> QED BY <2>1, <2>2, <2>3, <2>4, <2>5 DEF IInv, DecisionsHold
<1> QED BY <1>1, <1>2, <1>3, <1>4, <1>5, <1>6 DEF IInv

LEMMA OffCommitStep ==
  ASSUME IInv, OffCommit
  PROVE  IInv'
<1>1. TypeOK'
  <2>1. off.target \in User \cup {Nobody} /\ off.done \subseteq Decisions
    BY DEF IInv, TypeOK
  <2>2. groupRole' \in [User -> {"admin", "member", "none"}]
    BY DEF IInv, TypeOK, OffCommit
  <2>3. archived' \subseteq Project
    BY DEF IInv, TypeOK, OffCommit
  <2>4. role' \in [Project \X User -> ProjectRoles \cup {"none"}]
    BY DEF IInv, TypeOK, OffCommit, RoleAfter, ProjectRoles
  <2>5. assignees' \in [Item -> SUBSET User]
    <3>1. \A p : HeirsOf(p) \subseteq User
      BY <2>1 DEF HeirsOf, Decisions
    <3> QED BY <3>1 DEF IInv, TypeOK, OffCommit
  <2>6. off' \in [target : User \cup {Nobody}, todo : SUBSET Project,
                  done : SUBSET Decisions]
    BY DEF OffCommit, NoOffboarding, Decisions
  <2>7. ASSUME NEW p \in Project, status[p] = "absent"
        PROVE  p \notin archived' /\ \A v \in User : role'[<<p, v>>] = "none"
    <3>1. \A d \in off.done : d.project = p => ~d.archive /\ d.newOwner = Nobody
      BY <2>1, <2>7
         DEF IInv, DecisionsHold, NeedsOwner, FinalOwner, Decisions, OffCommit,
             GroupFree
    <3>2. \A v \in User : role[<<p, v>>] = "none" /\ RoleAfter(p, v) = "none"
      BY <2>7, <3>1 DEF IInv, TypeOK, RoleAfter
    <3> QED BY <2>7, <3>1, <3>2 DEF IInv, TypeOK, OffCommit
  <2> QED BY <2>2, <2>3, <2>4, <2>5, <2>6, <2>7 DEF IInv, TypeOK, OffCommit
<1>2. GroupHasAdmin'
  BY DEF IInv, GroupHasAdmin, OffCommit, TypeOK, GroupFree, OtherAdmin,
         ProjectFree, RoleAfter, HeirsOf, NoOffboarding
<1>3. MembersInGroup'
  <2> SUFFICES ASSUME NEW p \in Project, NEW v \in User,
                      role'[<<p, v>>] # "none"
               PROVE  InGroup(v)'
    BY DEF MembersInGroup
  <2>1. off.target \in User /\ off.target # Nobody /\ off.todo = {}
    BY DEF IInv, TypeOK, OffCommit, GroupFree
  <2>2. v # off.target /\ role[<<p, v>>] # "none"
    <3>1. CASE ProjectFree(p)
      BY <2>1, <3>1 DEF IInv, TypeOK, DecisionsHold, OffCommit
    <3>2. CASE ~ProjectFree(p)
      <4>1. role'[<<p, v>>] = RoleAfter(p, v)
        BY <3>2 DEF OffCommit
      <4> QED BY <2>1, <4>1 DEF IInv, DecisionsHold, RoleAfter
    <3> QED BY <3>1, <3>2
  <2> QED BY <2>2 DEF IInv, TypeOK, MembersInGroup, InGroup, OffCommit
<1>4. ActiveOwned'
  <2> SUFFICES ASSUME NEW p \in Project, status[p] = "active", p \notin archived'
               PROVE  \E v \in User : role'[<<p, v>>] = "owner"
    BY <1>3, OwnerSuffices DEF OffCommit
  <2>1. off.target \in User /\ off.target # Nobody /\ p \notin archived
    BY DEF IInv, TypeOK, OffCommit, GroupFree
  <2>2. PICK v \in User : role[<<p, v>>] = "owner"
    BY <2>1 DEF IInv, ActiveOwned, Managed
  <2>3. CASE ProjectFree(p)
    BY <2>2, <2>3 DEF OffCommit
  <2>4. CASE ~ProjectFree(p)
    <3>1. \A w \in User : role'[<<p, w>>] = RoleAfter(p, w)
      BY <2>4 DEF OffCommit
    <3>2. PICK d \in off.done : d.project = p
      BY <2>4 DEF ProjectFree
    <3>3. ~d.archive /\ d.newOwner \in User \cup {Nobody}
      BY <3>2 DEF IInv, TypeOK, Decisions, OffCommit
    <3>4. CASE NeedsOwner(p, off.target)
      <4>1. d.newOwner \in User \ {off.target}
        BY <2>1, <3>2, <3>3, <3>4 DEF IInv, DecisionsHold
      <4>2. RoleAfter(p, d.newOwner) = "owner"
        BY <3>2, <4>1 DEF RoleAfter
      <4> QED BY <3>1, <4>1, <4>2
    <3>5. CASE ~NeedsOwner(p, off.target)
      <4>1. PICK w \in User \ {off.target} : role[<<p, w>>] = "owner"
        BY <2>1, <2>2, <3>5 DEF NeedsOwner, FinalOwner, OtherOwner
      <4>2. RoleAfter(p, w) = "owner"
        BY <4>1 DEF RoleAfter
      <4> QED BY <3>1, <4>1, <4>2
    <3> QED BY <3>4, <3>5
  <2> QED BY <2>3, <2>4
<1>5. AssigneesCanWork'
  <2> SUFFICES ASSUME NEW i \in Item, NEW v \in assignees'[i]
               PROVE  (itemProject[i] # None /\ Works(itemProject[i], v))'
    BY DEF AssigneesCanWork
  <2> DEFINE p == itemProject[i]
             u == off.target
  <2>1. /\ u \in User /\ u # Nobody /\ off.done \subseteq Decisions
        /\ off.todo = {} /\ itemProject' = itemProject
        /\ \A w \in User \ {u} : groupRole'[w] = groupRole[w]
    BY DEF IInv, TypeOK, OffCommit, GroupFree
  <2>2. p \in Project /\ v \in User
    <3>1. assignees[i] # {} => p \in Project
      BY DEF IInv, TypeOK, AssigneesCanWork
    <3>2. HeirsOf(p) \subseteq User
      BY <2>1 DEF HeirsOf, Decisions
    <3> QED BY <3>1, <3>2 DEF IInv, TypeOK, OffCommit
  <2>3. CASE ProjectFree(p)
    <3>1. v \in assignees[i] /\ role'[<<p, v>>] = role[<<p, v>>]
      BY <2>2, <2>3 DEF IInv, TypeOK, OffCommit
    <3>2. Works(p, v)
      BY <3>1 DEF IInv, AssigneesCanWork
    <3>3. v # u
      BY <2>1, <2>2, <2>3, <3>2 DEF IInv, DecisionsHold, Works
    <3> QED BY <2>1, <2>2, <3>1, <3>2, <3>3 DEF Works, InGroup
  <2>4. CASE ~ProjectFree(p)
    <3>1. role'[<<p, v>>] = RoleAfter(p, v)
      BY <2>2, <2>4 DEF OffCommit
    <3>2. v # u /\ (v \in assignees[i] \/ v \in HeirsOf(p))
      <4>1. u \notin HeirsOf(p)
        BY <2>1 DEF IInv, DecisionsHold, HeirsOf
      <4> QED BY <2>1, <2>2, <2>4, <4>1 DEF IInv, TypeOK, OffCommit
    <3>3. InGroup(v) /\ RoleAfter(p, v) \in {"owner", "member"}
      <4>1. CASE v \in assignees[i]
        BY <3>2, <4>1 DEF IInv, AssigneesCanWork, Works, RoleAfter
      <4>2. CASE v \in HeirsOf(p)
        <5>1. PICK d \in off.done : d.project = p /\ d.heir = v /\ v # Nobody
          BY <4>2 DEF HeirsOf
        <5>2. MayInherit(p, v, d.newOwner)
          BY <2>1, <5>1 DEF IInv, DecisionsHold
        <5> QED BY <3>2, <5>1, <5>2 DEF MayInherit, Works, RoleAfter
      <4> QED BY <3>2, <4>1, <4>2
    <3>4. InGroup(v)'
      BY <2>1, <2>2, <3>2, <3>3 DEF InGroup
    <3> QED BY <2>1, <2>2, <3>1, <3>3, <3>4 DEF Works
  <2> QED BY <2>3, <2>4
<1>6. DecisionsHold'
  BY DEF DecisionsHold, NoOffboarding, OffCommit
<1> QED BY <1>1, <1>2, <1>3, <1>4, <1>5, <1>6 DEF IInv

LEMMA OffAbortStep ==
  ASSUME IInv, OffAbort
  PROVE  IInv'
<1>1. TypeOK'
  BY DEF IInv, TypeOK, Statuses, ProjectRoles, OffAbort, projects, work,
         GroupFree, NoOffboarding
<1>2. GroupHasAdmin'
  BY DEF IInv, GroupHasAdmin, OffAbort
<1>3. MembersInGroup'
  BY DEF IInv, MembersInGroup, InGroup, OffAbort, projects, work
<1>4. ActiveOwned'
  BY DEF IInv, ActiveOwned, Managed, InGroup, OffAbort, projects, work
<1>5. AssigneesCanWork'
  BY DEF IInv, AssigneesCanWork, Works, InGroup, OffAbort, projects, work
<1>6. DecisionsHold'
  BY DEF DecisionsHold, NoOffboarding, OffAbort
<1> QED BY <1>1, <1>2, <1>3, <1>4, <1>5, <1>6 DEF IInv

-----------------------------------------------------------------------------
(* The theorems *)

LEMMA InitIInv == Init => IInv
<1> SUFFICES ASSUME Init PROVE IInv
  OBVIOUS
<1>1. TypeOK
  BY DEF Init, TypeOK, NoOffboarding, Statuses, ProjectRoles
<1>2. GroupHasAdmin /\ MembersInGroup /\ AssigneesCanWork
  BY DEF Init, GroupHasAdmin, MembersInGroup, AssigneesCanWork
<1>3. ActiveOwned /\ DecisionsHold
  BY DEF Init, ActiveOwned, DecisionsHold, NoOffboarding
<1> QED BY <1>1, <1>2, <1>3 DEF IInv

LEMMA NextIInv == IInv /\ [Next]_vars => IInv'
<1> SUFFICES ASSUME IInv, [Next]_vars PROVE IInv'
  OBVIOUS
<1>1. CASE \E p \in Project : ProjectAction(p)
  BY <1>1, CreateProjectStep, AddMemberStep, ChangeRoleStep, RemoveMemberStep,
     UpdateStatusStep, ArchiveStep, RestoreStep, DeleteProjectStep
     DEF ProjectAction
<1>2. CASE \E i \in Item : ItemAction(i)
  BY <1>2, CreateItemStep, AssignStep, BeginDeleteItemStep, DeleteItemStep
     DEF ItemAction
<1>3. CASE \E u \in User : GroupAction(u)
  BY <1>3, AddToGroupStep, ChangeGroupRoleStep, RemoveFromGroupStep,
     OffBeginStep
     DEF GroupAction
<1>4. CASE Offboarding
  BY <1>4, OffProjectStep, OffCommitStep, OffAbortStep DEF Offboarding
<1>5. CASE UNCHANGED vars
  <2>1. UNCHANGED <<groupRole, status, archived, role, itemProject, assignees,
                    deleting, off>>
    BY <1>5 DEF vars, projects, work
  <2>2. TypeOK' /\ GroupHasAdmin'
    BY <2>1 DEF IInv, TypeOK, GroupHasAdmin
  <2>3. MembersInGroup'
    BY <2>1 DEF IInv, MembersInGroup, InGroup
  <2>4. ActiveOwned'
    BY <2>1 DEF IInv, ActiveOwned, Managed, InGroup
  <2>5. AssigneesCanWork'
    BY <2>1 DEF IInv, AssigneesCanWork, Works, InGroup
  <2>6. DecisionsHold'
    BY <2>1, DecisionsKept DEF IInv
  <2> QED BY <2>2, <2>3, <2>4, <2>5, <2>6 DEF IInv
<1> QED BY <1>1, <1>2, <1>3, <1>4, <1>5 DEF Next

THEOREM Invariance == Spec => []IInv
<1> QED BY InitIInv, NextIInv, PTL DEF Spec

\* The tables hold roles, statuses and keys of their kinds.
THEOREM TypeCorrect == Spec => []TypeOK
<1>1. IInv => TypeOK
  BY DEF IInv
<1> QED BY Invariance, <1>1, PTL

\* A Research Group never loses its last admin, however role changes,
\* removals and offboardings interleave.
THEOREM AdminStays == Spec => []GroupHasAdmin
<1>1. IInv => GroupHasAdmin
  BY DEF IInv
<1> QED BY Invariance, <1>1, PTL

\* No Project membership outlives, or is added behind, the removal of its
\* user from the Research Group.
THEOREM MembershipsScoped == Spec => []MembersInGroup
<1>1. IInv => MembersInGroup
  BY DEF IInv
<1> QED BY Invariance, <1>1, PTL

\* No role change, removal, status change, restore or offboarding leaves an
\* active Project without an owner.
THEOREM ActiveProjectsOwned == Spec => []ActiveOwned
<1>1. IInv => ActiveOwned
  BY DEF IInv
<1> QED BY Invariance, <1>1, PTL

\* Work is never assigned to a user who may not do it, whatever becomes of
\* the memberships.
THEOREM AssigneesEligible == Spec => []AssigneesCanWork
<1>1. IInv => AssigneesCanWork
  BY DEF IInv
<1> QED BY Invariance, <1>1, PTL

\* What an offboarding has checked still holds when it commits.
THEOREM DecisionsSound == Spec => []DecisionsHold
<1>1. IInv => DecisionsHold
  BY DEF IInv
<1> QED BY Invariance, <1>1, PTL

\* An offboarding decides each Project once.
Once ==
  /\ \A d, e \in off.done : d.project = e.project => d = e
  /\ \A d \in off.done : d.project \notin off.todo

LEMMA NextOnce == TypeOK /\ Once /\ [Next]_vars => Once'
<1> SUFFICES ASSUME TypeOK, Once, [Next]_vars PROVE Once'
  OBVIOUS
<1>1. ASSUME NEW p \in Project, NEW newOwner \in User \cup {Nobody},
             NEW archive \in BOOLEAN, NEW heir \in User \cup {Nobody},
             OffProject(p, newOwner, archive, heir)
      PROVE  Once'
  <2> DEFINE d == [project |-> p, newOwner |-> newOwner,
                   archive |-> archive, heir |-> heir]
  <2>1. /\ off'.todo = off.todo \ {p} /\ off'.done = off.done \cup {d}
        /\ p \in off.todo /\ d.project = p
    BY <1>1 DEF TypeOK, OffProject
  <2> HIDE DEF d
  <2> QED BY <2>1 DEF Once
<1>2. CASE off'.done = {}
  BY <1>2 DEF Once
<1>3. CASE UNCHANGED off
  BY <1>3 DEF Once
<1>4. CASE \E p \in Project : ProjectAction(p)
  BY <1>3, <1>4 DEF ProjectAction, CreateProject, AddMember, ChangeRole, RemoveMember,
     UpdateStatus, Archive, Restore, DeleteProject
<1>5. CASE \E i \in Item : ItemAction(i)
  BY <1>3, <1>5 DEF ItemAction, CreateItem, Assign, BeginDeleteItem, DeleteItem
<1>6. CASE \E u \in User : GroupAction(u)
  BY <1>2, <1>3, <1>6 DEF GroupAction, AddToGroup, ChangeGroupRole, RemoveFromGroup,
     OffBegin
<1>7. CASE Offboarding
  BY <1>1, <1>2, <1>7 DEF Offboarding, OffCommit, OffAbort, NoOffboarding
<1> QED BY <1>3, <1>4, <1>5, <1>6, <1>7 DEF Next, vars

\* No service of a Project touches the status, the members or the Work Items
\* of one that is and stays archived.
LEMMA ProjectStepKeeps ==
  ASSUME IInv, NEW q \in Project, ProjectAction(q),
         NEW p \in archived, p \in archived'
  PROVE  /\ UNCHANGED <<itemProject, deleting>>
         /\ status'[p] = status[p]
         /\ \A u \in User : role'[<<p, u>>] = role[<<p, u>>]
         /\ \A i \in Item : itemProject[i] = p => assignees'[i] = assignees[i]
<1> DEFINE Kept ==
      /\ UNCHANGED <<itemProject, deleting>>
      /\ status'[p] = status[p]
      /\ \A u \in User : role'[<<p, u>>] = role[<<p, u>>]
      /\ \A i \in Item : itemProject[i] = p => assignees'[i] = assignees[i]
<1>1. p \in Project /\ status[p] # "absent"
  BY DEF IInv, TypeOK
<1>2. ASSUME NEW u \in User, NEW s \in Statuses, CreateProject(q, u, s)
      PROVE  Kept
  BY <1>1, <1>2 DEF IInv, TypeOK, CreateProject, work
<1>3. ASSUME NEW u \in User, NEW r \in ProjectRoles, AddMember(q, u, r)
      PROVE  Kept
  BY <1>1, <1>3 DEF IInv, TypeOK, AddMember, Manageable, work
<1>4. ASSUME NEW u \in User, NEW r \in ProjectRoles,
             NEW heir \in User \cup {Nobody}, ChangeRole(q, u, r, heir)
      PROVE  Kept
  <2>1. q # p
    BY <1>4 DEF ChangeRole, Manageable
  <2>2. \A i \in Item : itemProject[i] # q => assignees'[i] = assignees[i]
    BY <1>4, ResolutionResult DEF IInv, ChangeRole
  <2> QED BY <1>1, <1>4, <2>1, <2>2 DEF IInv, TypeOK, ChangeRole
<1>5. ASSUME NEW u \in User, NEW heir \in User \cup {Nobody},
             RemoveMember(q, u, heir)
      PROVE  Kept
  <2>1. q # p
    BY <1>5 DEF RemoveMember, Manageable
  <2>2. \A i \in Item : itemProject[i] # q => assignees'[i] = assignees[i]
    BY <1>5, ResolutionResult DEF IInv, RemoveMember
  <2> QED BY <1>1, <1>5, <2>1, <2>2 DEF IInv, TypeOK, RemoveMember
<1>6. ASSUME NEW s \in Statuses, UpdateStatus(q, s)
      PROVE  Kept
  BY <1>1, <1>6 DEF IInv, TypeOK, UpdateStatus, Manageable, work
<1>7. CASE Archive(q) \/ Restore(q)
  BY <1>7 DEF Archive, Restore, work
<1>8. CASE DeleteProject(q)
  BY <1>1, <1>8 DEF IInv, TypeOK, DeleteProject, work
<1> QED BY <1>2, <1>3, <1>4, <1>5, <1>6, <1>7, <1>8 DEF ProjectAction

\* The commit of an offboarding takes the leaving user out of the archived
\* Projects, and out of the assignments there.
LEMMA CommitArchivedStep ==
  ASSUME IInv, Once, OffCommit PROVE ArchivedStep
<1>0. PICK u \in User : u = off.target /\ u # Nobody
  BY DEF IInv, TypeOK, OffCommit, GroupFree
<1>1. off.done \subseteq Decisions
  BY DEF IInv, TypeOK
<1>2. Offboarded(u)
  <2>1. InGroup(u)
    BY <1>0 DEF IInv, DecisionsHold
  <2>2. groupRole'[u] = "none"
    BY <1>0 DEF IInv, TypeOK, OffCommit
  <2> QED BY <1>0, <2>1, <2>2 DEF Offboarded, InGroup
<1>3. ASSUME NEW p \in archived, NEW v \in User,
             role'[<<p, v>>] # role[<<p, v>>]
      PROVE  v = u /\ role'[<<p, v>>] = "none"
  <2>1. \A d \in off.done : d.project = p => d.newOwner = Nobody
    BY <1>0, <1>1, <1>3 DEF IInv, DecisionsHold, NeedsOwner
  <2>2. role'[<<p, v>>] = RoleAfter(p, v)
    BY <1>3 DEF IInv, TypeOK, OffCommit
  <2> QED BY <1>0, <1>3, <2>1, <2>2 DEF RoleAfter
<1>4. ASSUME NEW i \in Item, assignees'[i] # assignees[i]
      PROVE  \E v \in assignees[i], heir \in User \cup {Nobody} :
               /\ Offboarded(v)
               /\ assignees'[i] = (assignees[i] \ {v}) \cup ({heir} \ {Nobody})
  <2>1. /\ u \in assignees[i] /\ ~ProjectFree(itemProject[i])
        /\ assignees'[i] = (assignees[i] \ {u}) \cup HeirsOf(itemProject[i])
    BY <1>0, <1>4 DEF OffCommit
  <2>2. PICK d \in off.done : d.project = itemProject[i]
    BY <2>1 DEF ProjectFree
  <2>3. {e \in off.done : e.project = itemProject[i]} = {d}
    BY <2>2 DEF Once
  <2>4. HeirsOf(itemProject[i]) = {d.heir} \ {Nobody}
    BY <2>3 DEF HeirsOf
  <2>5. d.heir \in User \cup {Nobody}
    BY <1>1, <2>2 DEF Decisions
  <2> QED BY <1>2, <2>1, <2>4, <2>5
<1>5. UNCHANGED <<status, itemProject, deleting>>
  BY DEF OffCommit
<1> QED BY <1>2, <1>3, <1>4, <1>5 DEF ArchivedStep

LEMMA NextArchivedStep == IInv /\ Once /\ [Next]_vars => ArchivedStep
<1> SUFFICES ASSUME IInv, Once, [Next]_vars PROVE ArchivedStep
  OBVIOUS
<1>1. CASE \E q \in Project : ProjectAction(q)
  BY <1>1, ProjectStepKeeps DEF ArchivedStep
<1>2. ASSUME NEW j \in Item, ItemAction(j)
      PROVE  ArchivedStep
  <2>1. ASSUME NEW q \in Project, NEW S \in SUBSET User, CreateItem(j, q, S)
        PROVE  ArchivedStep
    <3>1. /\ itemProject[j] = None /\ itemProject'[j] = q
          /\ q \notin archived /\ UNCHANGED <<groupRole, projects, deleting>>
      BY <2>1 DEF IInv, TypeOK, CreateItem, Writable
    <3>2. \A i \in Item \ {j} : /\ assignees'[i] = assignees[i]
                                /\ itemProject'[i] = itemProject[i]
      BY <2>1 DEF IInv, TypeOK, CreateItem
    <3>3. None \notin archived
      BY ProjectAssumption DEF IInv, TypeOK
    <3> QED BY <3>1, <3>2, <3>3 DEF ArchivedStep, projects
  <2>2. CASE \E S \in SUBSET User : Assign(j, S)
    BY <2>2 DEF IInv, TypeOK, ArchivedStep, Assign, Writable, projects
  <2>3. CASE BeginDeleteItem(j)
    BY <2>3 DEF ArchivedStep, BeginDeleteItem, projects, work
  <2>4. CASE DeleteItem(j)
    <3>1. /\ j \in deleting /\ itemProject'[j] = None
          /\ deleting' \subseteq deleting /\ UNCHANGED <<groupRole, projects>>
      BY <2>4 DEF IInv, TypeOK, DeleteItem
    <3>2. \A i \in Item \ {j} : /\ assignees'[i] = assignees[i]
                                /\ itemProject'[i] = itemProject[i]
      BY <2>4 DEF IInv, TypeOK, DeleteItem
    <3>3. None \notin archived
      BY ProjectAssumption DEF IInv, TypeOK
    <3> QED BY <3>1, <3>2, <3>3 DEF ArchivedStep, projects
  <2> QED BY <1>2, <2>1, <2>2, <2>3, <2>4 DEF ItemAction
<1>3. CASE \E u \in User : GroupAction(u)
  BY <1>3 DEF GroupAction, AddToGroup, ChangeGroupRole, RemoveFromGroup, OffBegin,
              ArchivedStep, projects, work
<1>4. CASE Offboarding
  <2>1. CASE UNCHANGED <<groupRole, projects, work, deleting>>
    BY <2>1 DEF ArchivedStep, projects, work
  <2>2. ASSUME NEW p \in Project, NEW newOwner \in User \cup {Nobody},
               NEW heir \in User \cup {Nobody}, NEW archive \in BOOLEAN,
               OffProject(p, newOwner, archive, heir)
        PROVE  ArchivedStep
    BY <2>1, <2>2 DEF OffProject
  <2>3. CASE OffCommit
    BY <2>3, CommitArchivedStep
  <2>4. CASE OffAbort
    BY <2>1, <2>4 DEF OffAbort
  <2> QED BY <1>4, <2>2, <2>3, <2>4 DEF Offboarding
<1>5. CASE UNCHANGED vars
  BY <1>5 DEF vars, ArchivedStep, projects, work
<1> QED BY <1>1, <1>2, <1>3, <1>4, <1>5 DEF Next

\* While a Project stays archived, it keeps its status and its Work Items,
\* assigned or not, none comes in, and its memberships and assignments lose
\* only the member whose offboarding commits; the one exception is a deletion
\* that had passed its checks before the archive.
THEOREM ArchivedProjectsKept == Spec => ArchivedReadOnly
<1>1. Init => Once
  BY DEF Init, Once, NoOffboarding
<1>2. Spec => []Once
  <2>1. IInv => TypeOK
    BY DEF IInv
  <2> QED BY Invariance, <1>1, <2>1, NextOnce, PTL DEF Spec
<1>3. IInv /\ Once /\ [Next]_vars => ArchivedStep
  BY NextArchivedStep
<1> QED BY Invariance, <1>2, <1>3, PTL DEF Spec, ArchivedReadOnly

=============================================================================
