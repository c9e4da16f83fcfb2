---------------------------- MODULE Groups_proofs ----------------------------
(***************************************************************************)
(* What holds of a group for any number of accounts, messages, failures    *)
(* and restarts.  OneOwner and CopyHasTheMembers carry each other: whether *)
(* the owner may leave is asked of the copy, and the copy is restored from *)
(* the rows.  Said account by account they are inductive (MemberInv).  The *)
(* numbering and the unread counts rest on the committed messages standing *)
(* one to one with 1..n in the order of their ids (Dense), and on the      *)
(* cursors lying between the messages they were read from (GroupInv).      *)
(***************************************************************************)
EXTENDS Groups, FiniteSetTheorems, TLAPS

Roles == {"none", "member", "admin", "owner"}

RoleTypes ==
  /\ status \in {"absent", "active", "dissolved"}
  /\ role \in [Accounts -> Roles] /\ memRole \in [Accounts -> Roles]

(* OneOwner, account by account.                                            *)
OwnerRows ==
  /\ status = "active" =>
       owner \in Accounts /\ \A a \in Accounts : role[a] = "owner" <=> a = owner
  /\ status # "active" => \A a \in Accounts : role[a] = "none"

(* CopyHasTheMembers, account by account.                                   *)
CopyRows ==
  /\ forgotten \subseteq Accounts /\ \A a \in forgotten : role[a] # "none"
  /\ \A a \in Accounts : memRole[a] # "none" <=> role[a] # "none" /\ a \notin forgotten
  /\ memIndex \subseteq Accounts /\ \A a \in Accounts : a \in memIndex <=> memRole[a] # "none"
  /\ memOwner = IF status = "active" /\ owner \notin forgotten THEN owner ELSE None

MemberInv == RoleTypes /\ OwnerRows /\ CopyRows

(* The event of a change reaches everybody who was or is a member, but for  *)
(* o and those a failed query hides.                                        *)
Heard(o) == (Members \cup Members') \ (forgotten \cup forgotten') \subseteq told' \cup {o}

-----------------------------------------------------------------------------
(* Before the group is created there are no members.                        *)
LEMMA InitMember == Init => MemberInv
BY Zenon DEF Init, MemberInv, RoleTypes, OwnerRows, CopyRows, Nobody, Roles

(* The pointwise form says what the two properties say.                     *)
LEMMA MemberImplies == MemberInv => OneOwner /\ CopyHasTheMembers
<1> SUFFICES ASSUME MemberInv PROVE OneOwner /\ CopyHasTheMembers BY Zenon
<1>1. OneOwner BY Zenon DEF MemberInv, OwnerRows, OneOwner, Members
<1>2. CopyMembers = Members \ forgotten
  BY Zenon DEF MemberInv, CopyRows, CopyMembers, Members
<1>3. memIndex = CopyMembers BY Zenon DEF MemberInv, CopyRows, CopyMembers
<1>4. forgotten \subseteq Members BY Zenon DEF MemberInv, CopyRows, Members
<1> QED BY <1>1, <1>2, <1>3, <1>4, Zenon DEF MemberInv, CopyRows, CopyHasTheMembers

(* The audience of a broadcast are the members nobody forgot.               *)
LEMMA Audience ==
  ASSUME CopyRows'
  PROVE  CopyMembers' = Members' \ forgotten'
BY Zenon DEF CopyRows, CopyMembers, Members

(* One account's role changes, in the rows and in the copy, from or to a    *)
(* role other than owner; the group and its owner stay.                     *)
LEMMA RoleChange ==
  ASSUME MemberInv, status = "active", NEW a \in Accounts, a # owner, a \notin forgotten,
         NEW r \in Roles \ {"owner"}, NEW q \in Roles, q = "none" <=> r = "none",
         UNCHANGED <<status, owner, memOwner, forgotten>>,
         role' = [role EXCEPT ![a] = r], memRole' = [memRole EXCEPT ![a] = q],
         memIndex' = IF r = "none" THEN memIndex \ {a} ELSE memIndex \cup {a}
  PROVE  MemberInv'
<1> USE DEF MemberInv
<1>1. RoleTypes' BY Zenon DEF RoleTypes
<1>2. OwnerRows' BY Zenon DEF RoleTypes, OwnerRows
<1>3. CopyRows'
  <2>1. \A b \in Accounts : /\ role'[b] = IF b = a THEN r ELSE role[b]
                            /\ memRole'[b] = IF b = a THEN q ELSE memRole[b]
    BY Zenon DEF RoleTypes
  <2>2. forgotten' \subseteq Accounts /\ \A b \in forgotten' : role'[b] # "none"
    BY <2>1, Zenon DEF CopyRows
  <2>3. \A b \in Accounts : memRole'[b] # "none" <=> role'[b] # "none" /\ b \notin forgotten'
    BY <2>1, Zenon DEF CopyRows
  <2>4. memIndex' \subseteq Accounts /\ \A b \in Accounts : b \in memIndex' <=> memRole'[b] # "none"
    BY <2>1, Zenon DEF CopyRows
  <2> QED BY <2>2, <2>3, <2>4, Zenon DEF CopyRows
<1> QED BY <1>1, <1>2, <1>3, Zenon

(* reloadGroup makes the copy one of the rows again, but for the members    *)
(* that its queries did not see; when it fails that is everybody.           *)
LEMMA ReloadCopy ==
  ASSUME MemberInv, status' = "active", OwnerRows', role' \in [Accounts -> Roles],
         NEW ok \in BOOLEAN, Reload(ok)
  PROVE  MemberInv' /\ (ok \/ forgotten' = Members')
<1>0. owner' \in Accounts /\ role'[owner'] = "owner" BY Zenon DEF OwnerRows
<1>1. CASE ~ok /\ MemRemoveGroup /\ forgotten' = Members'
  <2>1. memOwner' = None /\ memRole' = Nobody /\ memIndex' = {}
    BY <1>1, Zenon DEF MemRemoveGroup, MemberInv, CopyRows, CopyMembers
  <2>2. \A a \in Accounts : a \in forgotten' <=> role'[a] # "none" BY <1>1, Zenon DEF Members
  <2>3. forgotten' \subseteq Accounts BY <1>1, Zenon DEF Members
  <2>4. RoleTypes' BY <2>1, Zenon DEF RoleTypes, Nobody, Roles
  <2>5. owner' \in forgotten' BY <1>0, <2>2, Zenon
  <2>6. CopyRows' BY <2>1, <2>2, <2>3, <2>5, Zenon DEF CopyRows, Nobody
  <2> QED BY <1>1, <2>4, <2>6, Zenon DEF MemberInv
<1>2. ASSUME NEW r \in {role', Nobody},
             IF Restorable(owner', r) THEN ok /\ MemRestore(owner', r) ELSE ~ok /\ UNCHANGED memory
      PROVE  MemberInv' /\ ok
  <2>1. Restorable(owner', r) BY Zenon DEF Restorable, OwnerRows, Nobody
  <2>2. ok /\ MemRestore(owner', r) BY <1>2, <2>1, Zenon
  <2> DEFINE q == Restored(owner', r)
  <2>3. /\ q \in [Accounts -> Roles] /\ q[owner'] = "owner"
        /\ \A a \in Accounts : q[a] # "none" => role'[a] # "none"
    BY <1>0, Zenon DEF Restored, Nobody, Roles
  <2>4. /\ memOwner' = owner' /\ memRole' = q
        /\ memIndex' = (memIndex \ CopyMembers) \cup {a \in Accounts : q[a] # "none"}
        /\ forgotten' = {a \in Members' : q[a] = "none"}
    BY <2>2, Zenon DEF MemRestore, Hidden
  <2> HIDE DEF q
  <2>5. memIndex' = {a \in Accounts : q[a] # "none"}
    BY <2>4, Zenon DEF MemberInv, CopyRows, CopyMembers
  <2>6. \A a \in Accounts : a \in forgotten' <=> role'[a] # "none" /\ q[a] = "none"
    BY <2>4, Zenon DEF Members
  <2>7. forgotten' \subseteq Accounts BY <2>4, Zenon DEF Members
  <2>8. RoleTypes' BY <2>3, <2>4, Zenon DEF RoleTypes
  <2>9. owner' \notin forgotten' BY <1>0, <2>3, <2>6, Zenon
  <2>10. CopyRows' BY <2>3, <2>4, <2>5, <2>6, <2>7, <2>9, Zenon DEF CopyRows
  <2> QED BY <2>2, <2>8, <2>10, Zenon DEF MemberInv
<1> QED BY <1>1, <1>2, Zenon DEF Reload

(* Create: the group appears with its owner as the only member.             *)
LEMMA CreateMember ==
  ASSUME MemberInv, NEW a \in Accounts, HandleCreateGroup(a)
  PROVE  MemberInv' /\ Members = {} /\ Members' = {a}
<1>1. /\ status = "absent" /\ status' = "active" /\ owner' = a
      /\ role' = [role EXCEPT ![a] = "owner"]
      /\ memOwner' = a /\ memRole' = [Nobody EXCEPT ![a] = "owner"]
      /\ memIndex' = memIndex \cup {a} /\ forgotten' = forgotten
  BY Zenon DEF HandleCreateGroup, CreateGroup, CreateGroupWithOwner, MemCreate
<1>2. Members = {} /\ Members' = {a}
  BY <1>1, Zenon DEF MemberInv, OwnerRows, RoleTypes, Members
<1>3. RoleTypes' BY <1>1, Zenon DEF MemberInv, RoleTypes, Nobody, Roles
<1>4. OwnerRows' BY <1>1, Zenon DEF MemberInv, RoleTypes, OwnerRows
<1>5. forgotten = {} /\ memIndex = {}
  BY <1>1, Zenon DEF MemberInv, OwnerRows, CopyRows
<1>6. CopyRows' BY <1>1, <1>5, Zenon DEF MemberInv, RoleTypes, OwnerRows, CopyRows, Nobody
<1> QED BY <1>2, <1>3, <1>4, <1>6, Zenon DEF MemberInv

(* Dissolve: nobody is left, in the rows or in the copy.                    *)
LEMMA DissolveMember ==
  ASSUME MemberInv, NEW o \in Accounts, HandleDissolveGroup(o)
  PROVE  MemberInv' /\ Members' = {} /\ told' = Members
<1>1. /\ status' = "dissolved" /\ role' = Nobody /\ forgotten' = {}
      /\ memOwner' = None /\ memRole' = Nobody /\ memIndex' = memIndex \ CopyMembers
      /\ told' = Members
  BY Zenon DEF HandleDissolveGroup, DissolveGroup, DissolveRows, MemRemoveGroup
<1>2. Members' = {} BY <1>1, Zenon DEF Members, Nobody
<1>3. RoleTypes' BY <1>1, Zenon DEF RoleTypes, Nobody, Roles
<1>4. OwnerRows' BY <1>1, Zenon DEF OwnerRows, Nobody
<1>5. memIndex' = {}  BY <1>1, Zenon DEF MemberInv, CopyRows, CopyMembers
<1>6. CopyRows' BY <1>1, <1>5, Zenon DEF CopyRows, Nobody
<1> QED BY <1>1, <1>2, <1>3, <1>4, <1>6, Zenon DEF MemberInv

(* A new member, by invitation or approval, enters the copy as well.        *)
LEMMA JoinMember ==
  ASSUME MemberInv, NEW a \in Accounts, GroupExists, ~IsMember(a),
         role' = [role EXCEPT ![a] = "member"], UNCHANGED <<status, owner>>,
         NEW ok \in BOOLEAN, MemJoin(a, ok)
  PROVE  MemberInv' /\ Members' = Members \cup {a} /\ (ok \/ forgotten' = Members')
<1>1. status = "active" /\ role[a] = "none" BY Zenon DEF GroupExists, IsMember
<1>2. memRole[a] = "none" /\ a # owner /\ a \notin forgotten
  BY <1>1, Zenon DEF MemberInv, OwnerRows, CopyRows
<1>5. Members' = Members \cup {a} BY Zenon DEF MemberInv, RoleTypes, Members
<1>6. CASE memOwner # None
  <2>1. /\ ok /\ memRole' = [memRole EXCEPT ![a] = "member"]
        /\ memIndex' = memIndex \cup {a} /\ UNCHANGED <<memOwner, forgotten>>
    BY <1>2, <1>6, Zenon DEF MemJoin
  <2> QED BY <1>1, <1>2, <1>5, <2>1, RoleChange, Zenon DEF Roles
<1>7. CASE memOwner = None
  <2>1. Reload(ok) BY <1>7, Zenon DEF MemJoin
  <2>2. OwnerRows' /\ role' \in [Accounts -> Roles]
    BY <1>1, <1>2, Zenon DEF MemberInv, RoleTypes, OwnerRows, Roles
  <2> QED BY <1>1, <1>5, <2>1, <2>2, ReloadCopy, Zenon
<1> QED BY <1>6, <1>7, Zenon

(* A member other than the owner goes, by leave or kick.                    *)
LEMMA GoneMember ==
  ASSUME MemberInv, NEW a \in Accounts, status = "active", a # owner, memRole[a] # "none",
         role' = [role EXCEPT ![a] = "none"], UNCHANGED <<status, owner, memOwner, forgotten>>,
         memRole' = [memRole EXCEPT ![a] = "none"], memIndex' = memIndex \ {a}
  PROVE  MemberInv'
<1>1. a \notin forgotten BY Zenon DEF MemberInv, CopyRows
<1> QED BY <1>1, RoleChange, Zenon DEF Roles

(* Whoever leaves is not the owner: their rows are removed, or an error of  *)
(* groupExists() leaves them there and the member is forgotten.             *)
LEMMA LeaveMember ==
  ASSUME MemberInv, NEW a \in Accounts, HandleLeave(a)
  PROVE  MemberInv' /\ (RemoveRows(a) \/ UNCHANGED rows)
<1>1. /\ memRole[a] # "none" /\ a # memOwner
      /\ memRole' = [memRole EXCEPT ![a] = "none"]
      /\ memIndex' = memIndex \ {a} /\ memOwner' = memOwner
  BY Zenon DEF HandleLeave, MemLeave, Removable
<1>2. role[a] # "none" /\ status = "active" /\ a # owner /\ a \notin forgotten
  BY <1>1, Zenon DEF MemberInv, OwnerRows, CopyRows
<1>3. CASE RemoveRows(a) /\ UNCHANGED forgotten
  <2>1. role' = [role EXCEPT ![a] = "none"] /\ UNCHANGED <<status, owner>>
    BY <1>3, Zenon DEF RemoveRows
  <2> QED BY <1>1, <1>2, <1>3, <2>1, GoneMember, Zenon
<1>4. CASE UNCHANGED rows /\ forgotten' = forgotten \cup ({a} \cap Members)
  <2>1. UNCHANGED <<status, owner, role>> /\ forgotten' = forgotten \cup {a}
    BY <1>2, <1>4, Zenon DEF rows, Members
  <2>2. RoleTypes' BY <1>1, <2>1, Zenon DEF MemberInv, RoleTypes, Roles
  <2>3. OwnerRows' BY <2>1, Zenon DEF MemberInv, OwnerRows
  <2>4. \A b \in Accounts : memRole'[b] = IF b = a THEN "none" ELSE memRole[b]
    BY <1>1, Zenon DEF MemberInv, RoleTypes
  <2>5. CopyRows' BY <1>1, <1>2, <2>1, <2>4, Zenon DEF MemberInv, CopyRows
  <2> QED BY <1>4, <2>2, <2>3, <2>5, Zenon DEF MemberInv
<1> QED BY <1>3, <1>4, Zenon DEF HandleLeave

(* A leave that fails makes a plain member of an administrator's copy.      *)
LEMMA LeaveFailsMember ==
  ASSUME MemberInv, NEW a \in Accounts, LeaveFails(a)
  PROVE  MemberInv'
<1>1. /\ memRole[a] # "none" /\ memRole' = [memRole EXCEPT ![a] = "member"]
      /\ UNCHANGED <<status, owner, role, memOwner, memIndex, forgotten>>
  BY Zenon DEF LeaveFails, Removable, rows
<1>2. \A b \in Accounts : memRole'[b] # "none" <=> memRole[b] # "none"
  BY <1>1, Zenon DEF MemberInv, RoleTypes
<1>3. RoleTypes' BY <1>1, Zenon DEF MemberInv, RoleTypes, Roles
<1> QED BY <1>1, <1>2, <1>3, Zenon DEF MemberInv, OwnerRows, CopyRows

(* The kicked member is not the owner, so that the copy lets them go; one   *)
(* the copy has forgotten makes it reload.                                  *)
LEMMA KickMemberInv ==
  ASSUME MemberInv, NEW o \in Accounts, NEW a \in Accounts, HandleKickGroupMember(o, a)
  PROVE  MemberInv' /\ RemoveRows(a) /\ Heard(o)
<1>0. PICK ok \in BOOLEAN :
        KickMember(o, a, ok) /\ told' = IF ok THEN {a} \cup Broadcast(o) ELSE {}
  BY Zenon DEF HandleKickGroupMember
<1>1. /\ status = "active" /\ role[a] # "none" /\ RemoveRows(a) /\ MemRemove(a, ok)
      /\ o # a /\ (role[o] = "owner" \/ role[a] = "member")
  BY <1>0, Zenon DEF HandleKickGroupMember, KickMember, GroupExists, IsMember
<1>2. a # owner /\ a # memOwner
  BY <1>1, GroupsAssumption, Zenon DEF HandleKickGroupMember, MemberInv, OwnerRows, CopyRows
<1>3. role' = [role EXCEPT ![a] = "none"] /\ UNCHANGED <<status, owner>>
  BY <1>1, Zenon DEF RemoveRows
<1>4. Members' = Members \ {a} BY <1>3, Zenon DEF MemberInv, RoleTypes, Members
<1>5. MemberInv' /\ (ok \/ (forgotten' = Members' /\ a \in forgotten))
  <2>1. CASE memRole[a] # "none"
    <3>1. /\ ok /\ memRole' = [memRole EXCEPT ![a] = "none"]
          /\ memIndex' = memIndex \ {a} /\ UNCHANGED <<memOwner, forgotten>>
      BY <1>1, <1>2, <2>1, Zenon DEF MemRemove, Removable
    <3> QED BY <1>1, <1>2, <1>3, <2>1, <3>1, GoneMember, Zenon
  <2>2. CASE memRole[a] = "none"
    <3>1. Reload(ok) BY <1>1, <2>2, Zenon DEF MemRemove, Removable
    <3>2. OwnerRows' /\ role' \in [Accounts -> Roles]
      BY <1>1, <1>2, <1>3, Zenon DEF MemberInv, RoleTypes, OwnerRows, Roles
    <3>3. a \in forgotten BY <1>1, <2>2, Zenon DEF MemberInv, CopyRows
    <3> QED BY <1>1, <1>3, <3>1, <3>2, <3>3, ReloadCopy, Zenon
  <2> QED BY <2>1, <2>2, Zenon
<1>6. CopyMembers' = Members' \ forgotten' BY <1>5, Audience, Zenon DEF MemberInv
<1>7. Heard(o)
  <2>1. CASE ok BY <1>0, <1>4, <1>6, <2>1, Zenon DEF Heard, Broadcast
  <2>2. CASE ~ok BY <1>4, <1>5, <2>2, Zenon DEF Heard
  <2> QED BY <2>1, <2>2, Zenon
<1> QED BY <1>1, <1>5, <1>7, Zenon

(* An administrator is made or unmade in both places.                       *)
LEMMA SetAdminMember ==
  ASSUME MemberInv, NEW o \in Accounts, NEW a \in Accounts, NEW yes \in BOOLEAN,
         HandleSetGroupAdmin(o, a, yes)
  PROVE  MemberInv' /\ Heard(o)
<1> DEFINE r == IF yes THEN "admin" ELSE "member"
<1>0. r \in {"admin", "member"} BY Zenon
<1>1. PICK ok \in BOOLEAN :
        /\ o # a /\ role[o] = "owner" /\ role[a] # "none"
        /\ role' = [role EXCEPT ![a] = r] /\ UNCHANGED <<status, owner>>
        /\ MemSetRole(a, r, ok) /\ told' = IF ok THEN Broadcast(o) ELSE {}
  BY Zenon DEF HandleSetGroupAdmin, SetAdmin, UpdateMemberRole, IsMember
<1> HIDE DEF r
<1>2. status = "active" /\ a # owner BY <1>1, Zenon DEF MemberInv, OwnerRows
<1>3. a # memOwner BY <1>2, GroupsAssumption, Zenon DEF MemberInv, CopyRows
<1>4. MemberInv' /\ (ok \/ forgotten' = Members')
  <2>1. CASE memRole[a] # "none"
    <3>1. ok /\ memRole' = [memRole EXCEPT ![a] = r] /\ UNCHANGED <<memOwner, memIndex, forgotten>>
      BY <1>1, <1>3, <2>1, Zenon DEF MemSetRole
    <3>2. memIndex' = memIndex \cup {a} /\ a \notin forgotten
      BY <2>1, <3>1, Zenon DEF MemberInv, CopyRows
    <3> QED BY <1>0, <1>1, <1>2, <3>1, <3>2, RoleChange, Zenon DEF Roles
  <2>2. CASE memRole[a] = "none"
    <3>1. Reload(ok) BY <1>1, <2>2, Zenon DEF MemSetRole
    <3>2. OwnerRows' /\ role' \in [Accounts -> Roles]
      BY <1>0, <1>1, <1>2, Zenon DEF MemberInv, RoleTypes, OwnerRows, Roles
    <3> QED BY <1>1, <1>2, <3>1, <3>2, ReloadCopy, Zenon
  <2> QED BY <2>1, <2>2, Zenon
<1>5. Members' = Members BY <1>0, <1>1, Zenon DEF MemberInv, RoleTypes, Members
<1>6. CopyMembers' = Members' \ forgotten' BY <1>4, Audience, Zenon DEF MemberInv
<1>7. Heard(o)
  <2>1. CASE ok BY <1>1, <1>5, <1>6, <2>1, Zenon DEF Heard, Broadcast
  <2>2. CASE ~ok BY <1>4, <1>5, <2>2, Zenon DEF Heard
  <2> QED BY <2>1, <2>2, Zenon
<1> QED BY <1>4, <1>7, Zenon

(* The owner changes in both places.                                        *)
LEMMA TransferMember ==
  ASSUME MemberInv, NEW o \in Accounts, NEW a \in Accounts, HandleTransferGroupOwner(o, a)
  PROVE  MemberInv' /\ Heard(o)
<1>1. PICK ok \in BOOLEAN :
        /\ o # a /\ role[o] = "owner" /\ role[a] # "none" /\ owner = o /\ owner' = a
        /\ role' = [role EXCEPT ![a] = "owner", ![o] = "member"] /\ status' = status
        /\ MemTransfer(o, a, ok) /\ told' = IF ok THEN Broadcast(o) ELSE {}
  BY Zenon DEF HandleTransferGroupOwner, TransferOwner, TransferRows, IsMember
<1>2. status = "active" BY <1>1, Zenon DEF MemberInv, OwnerRows
<1>3. /\ role'[o] = "member" /\ role'[a] = "owner"
      /\ \A b \in Accounts \ {o, a} : role'[b] = role[b]
  BY <1>1, Zenon DEF MemberInv, RoleTypes
<1>4. OwnerRows'
  <2>1. \A b \in Accounts : role'[b] = "owner" <=> b = a
    <3> TAKE b \in Accounts
    <3>1. CASE b \in {o, a} BY <1>1, <1>3, <3>1, Zenon
    <3>2. CASE b \notin {o, a} BY <1>1, <1>2, <1>3, <3>2, Zenon DEF MemberInv, OwnerRows
    <3> QED BY <3>1, <3>2, Zenon
  <2> QED BY <1>1, <1>2, <2>1, Zenon DEF OwnerRows
<1>5. role' \in [Accounts -> Roles] BY <1>1, Zenon DEF MemberInv, RoleTypes, Roles
<1>6. MemberInv' /\ (ok \/ forgotten' = Members')
  <2>1. CASE memOwner = o /\ memRole[o] # "none" /\ memRole[a] # "none"
    <3>1. /\ ok /\ memOwner' = a /\ memRole' = [memRole EXCEPT ![o] = "member", ![a] = "owner"]
          /\ UNCHANGED <<memIndex, forgotten>>
      BY <1>1, <2>1, Zenon DEF MemTransfer
    <3>2. \A b \in Accounts :
            memRole'[b] = IF b = a THEN "owner" ELSE IF b = o THEN "member" ELSE memRole[b]
      BY <3>1, Zenon DEF MemberInv, RoleTypes
    <3>3. RoleTypes' BY <1>1, <1>5, <3>1, Zenon DEF MemberInv, RoleTypes, Roles
    <3>4. \A b \in Accounts : /\ memRole'[b] # "none" <=> memRole[b] # "none"
                              /\ role'[b] # "none" <=> role[b] # "none"
      BY <1>1, <1>3, <2>1, <3>2, Zenon
    <3>5. a \notin forgotten BY <2>1, Zenon DEF MemberInv, CopyRows
    <3>6. CopyRows' BY <1>1, <1>2, <3>1, <3>4, <3>5, Zenon DEF MemberInv, CopyRows
    <3> QED BY <1>4, <3>1, <3>3, <3>6, Zenon DEF MemberInv
  <2>2. CASE ~(memOwner = o /\ memRole[o] # "none" /\ memRole[a] # "none")
    <3>1. Reload(ok) BY <1>1, <2>2, Zenon DEF MemTransfer
    <3> QED BY <1>1, <1>2, <1>4, <1>5, <3>1, ReloadCopy, Zenon
  <2> QED BY <2>1, <2>2, Zenon
<1>7. Members' = Members
  <2>1. \A b \in Accounts : role'[b] # "none" <=> role[b] # "none"
    <3> TAKE b \in Accounts
    <3>1. CASE b \in {o, a} BY <1>1, <1>3, <3>1, Zenon
    <3>2. CASE b \notin {o, a} BY <1>3, <3>2, Zenon
    <3> QED BY <3>1, <3>2, Zenon
  <2> QED BY <2>1, Zenon DEF Members
<1>8. CopyMembers' = Members' \ forgotten' BY <1>6, Audience, Zenon DEF MemberInv
<1>9. Heard(o)
  <2>1. CASE ok BY <1>1, <1>7, <1>8, <2>1, Zenon DEF Heard, Broadcast
  <2>2. CASE ~ok BY <1>6, <1>7, <2>2, Zenon DEF Heard
  <2> QED BY <2>1, <2>2, Zenon
<1> QED BY <1>6, <1>9, Zenon

(* After a restart the copy is what its queries saw of the rows.            *)
LEMMA RestartMember ==
  ASSUME MemberInv, Restart
  PROVE  MemberInv'
<1>0. UNCHANGED <<status, owner, role>> BY Zenon DEF Restart, rows
<1>1. OwnerRows' BY <1>0, Zenon DEF MemberInv, OwnerRows
<1>2. Members' = Members BY <1>0, Zenon DEF Members
<1>3. CASE memOwner' = None /\ memRole' = Nobody /\ memIndex' = {} /\ forgotten' = Members
  <2>1. \A a \in Accounts : a \in forgotten' <=> role'[a] # "none" BY <1>0, <1>3, Zenon DEF Members
  <2>2. forgotten' \subseteq Accounts BY <1>3, Zenon DEF Members
  <2>3. RoleTypes' BY <1>0, <1>3, Zenon DEF MemberInv, RoleTypes, Nobody, Roles
  <2>4. status' = "active" => owner' \in forgotten' BY <1>1, <2>1, Zenon DEF OwnerRows
  <2>5. CopyRows' BY <1>3, <2>1, <2>2, <2>4, Zenon DEF CopyRows, Nobody
  <2> QED BY <1>1, <2>3, <2>5, Zenon DEF MemberInv
<1>4. ASSUME GroupExists, NEW r \in {role, Nobody},
             memOwner' = owner, memRole' = Restored(owner, r),
             memIndex' = {a \in Accounts : Restored(owner, r)[a] # "none"},
             forgotten' = Hidden(owner, r)
      PROVE  MemberInv'
  <2>0. owner \in Accounts /\ role[owner] = "owner" /\ status' = "active"
    BY <1>0, <1>4, Zenon DEF MemberInv, OwnerRows, GroupExists
  <2> DEFINE q == Restored(owner, r)
  <2>1. /\ q \in [Accounts -> Roles] /\ q[owner] = "owner"
        /\ \A a \in Accounts : q[a] # "none" => role[a] # "none"
    BY <2>0, Zenon DEF Restored, Nobody, Roles, MemberInv, RoleTypes
  <2>2. /\ memRole' = q /\ memIndex' = {a \in Accounts : q[a] # "none"}
        /\ forgotten' = {a \in Members : q[a] = "none"}
    BY <1>2, <1>4, Zenon DEF Hidden
  <2> HIDE DEF q
  <2>3. \A a \in Accounts : a \in forgotten' <=> role'[a] # "none" /\ q[a] = "none"
    BY <1>0, <2>2, Zenon DEF Members
  <2>4. forgotten' \subseteq Accounts BY <2>2, Zenon DEF Members
  <2>5. RoleTypes' BY <1>0, <2>1, <2>2, Zenon DEF MemberInv, RoleTypes
  <2>6. owner' \notin forgotten' /\ memOwner' = owner' BY <1>0, <1>4, <2>0, <2>1, <2>3, Zenon
  <2>7. CopyRows' BY <1>0, <2>0, <2>1, <2>2, <2>3, <2>4, <2>6, Zenon DEF CopyRows
  <2> QED BY <1>1, <2>5, <2>7, Zenon DEF MemberInv
<1> QED BY <1>3, <1>4, Zenon DEF Restart

(* An approval makes the applicant a member, in the rows and in the copy.   *)
LEMMA ReviewMember ==
  ASSUME MemberInv, NEW r \in Accounts, NEW a \in Accounts, NEW yes \in BOOLEAN,
         HandleReviewGroupJoin(r, a, yes)
  PROVE  /\ MemberInv'
         /\ yes  => Approve(r, a) /\ Heard(r)
         /\ ~yes => Reject(r, a) /\ role' = role
<1>0. PICK ok \in BOOLEAN :
        /\ ReviewRequest(r, a, yes, ok)
        /\ told' = IF ok THEN {a} \cup (IF yes THEN Broadcast(r) ELSE {}) ELSE {}
  BY Zenon DEF HandleReviewGroupJoin
<1>1. CASE yes
  <2>1. Approve(r, a) /\ MemJoin(a, ok) BY <1>0, <1>1, Zenon DEF ReviewRequest
  <2>2. /\ GroupExists /\ ~IsMember(a) /\ role' = [role EXCEPT ![a] = "member"]
        /\ UNCHANGED <<status, owner>>
    BY <2>1, Zenon DEF Approve
  <2>3. MemberInv' /\ Members' = Members \cup {a} /\ (ok \/ forgotten' = Members')
    BY <2>1, <2>2, JoinMember, Zenon
  <2>4. CopyMembers' = Members' \ forgotten' BY <2>3, Audience, Zenon DEF MemberInv
  <2>5. Heard(r)
    <3>1. CASE ok BY <1>0, <1>1, <2>3, <2>4, <3>1, Zenon DEF Heard, Broadcast
    <3>2. CASE ~ok BY <2>3, <3>2, Zenon DEF Heard
    <3> QED BY <3>1, <3>2, Zenon
  <2> QED BY <1>1, <2>1, <2>3, <2>5, Zenon
<1>2. CASE ~yes
  <2>1. Reject(r, a) /\ UNCHANGED memory BY <1>0, <1>2, Zenon DEF ReviewRequest
  <2>2. UNCHANGED <<status, owner, role, memOwner, memRole, memIndex, forgotten>>
    BY <2>1, Zenon DEF Reject, memory
  <2> QED BY <1>2, <2>1, <2>2, Zenon DEF MemberInv, RoleTypes, OwnerRows, CopyRows
<1> QED BY <1>1, <1>2, Zenon

(* The invited one becomes a member, in the rows and in the copy.           *)
LEMMA InviteMemberInv ==
  ASSUME MemberInv, NEW i \in Accounts, NEW a \in Accounts, HandleInviteGroupMember(i, a)
  PROVE  MemberInv' /\ Heard(i)
<1>1. PICK ok \in BOOLEAN :
        /\ GroupExists /\ ~IsMember(a) /\ MemJoin(a, ok)
        /\ role' = [role EXCEPT ![a] = "member"] /\ UNCHANGED <<status, owner>>
        /\ told' = IF ok THEN Broadcast(i) ELSE {}
  BY Zenon DEF HandleInviteGroupMember, InviteMember, AddMember
<1>2. MemberInv' /\ Members' = Members \cup {a} /\ (ok \/ forgotten' = Members')
  BY <1>1, JoinMember, Zenon
<1>3. CopyMembers' = Members' \ forgotten' BY <1>2, Audience, Zenon DEF MemberInv
<1>4. Heard(i)
  <2>1. CASE ok BY <1>1, <1>2, <1>3, <2>1, Zenon DEF Heard, Broadcast
  <2>2. CASE ~ok BY <1>2, <2>2, Zenon DEF Heard
  <2> QED BY <2>1, <2>2, Zenon
<1> QED BY <1>2, <1>4, Zenon

(* Nothing that MemberInv reads changes.                                    *)
LEMMA MemberUnchanged ==
  ASSUME MemberInv, UNCHANGED <<status, owner, role, memOwner, memRole, memIndex, forgotten>>
  PROVE  MemberInv'
BY Zenon DEF MemberInv, RoleTypes, OwnerRows, CopyRows

(* Messages leave members and copy alone.                                   *)
LEMMA MessagingMember ==
  ASSUME Messaging
  PROVE  UNCHANGED <<status, owner, role, memOwner, memRole, memIndex, forgotten>>
<1>1. CASE BeginSend \/ RefuseSend BY <1>1, Zenon DEF BeginSend, RefuseSend, rows, memory
<1>2. CASE CommitSend \/ AbortSend BY <1>2, Zenon DEF CommitSend, AbortSend, rows, memory
<1>3. ASSUME NEW a \in Accounts, Submit(a) \/ CommitRead(a) \/ AbortRead(a)
      PROVE  UNCHANGED <<status, owner, role, memOwner, memRole, memIndex, forgotten>>
  BY <1>3, Zenon DEF Submit, CommitRead, AbortRead, rows, memory
<1>4. ASSUME NEW a \in Accounts, NEW m \in messages, BeginRead(a, m)
      PROVE  UNCHANGED <<status, owner, role, memOwner, memRole, memIndex, forgotten>>
  BY <1>4, Zenon DEF BeginRead, rows, memory
<1> QED BY <1>1, <1>2, <1>3, <1>4, Zenon DEF Messaging

(* An application changes the requests only.                                *)
LEMMA ApplyMember ==
  ASSUME NEW a \in Accounts, HandleApplyGroupJoin(a)
  PROVE  /\ UNCHANGED <<status, owner, role, memOwner, memRole, memIndex, forgotten>>
         /\ UNCHANGED <<head, cursor, messages, queue, nextId, sending, reading>>
BY Zenon DEF HandleApplyGroupJoin, ApplyToJoin, SubmitRequest, memory, work

(* MemberInv is inductive.                                                  *)
LEMMA MemberStep == MemberInv /\ [Next]_vars => MemberInv'
<1> SUFFICES ASSUME MemberInv, [Next]_vars PROVE MemberInv' BY Zenon
<1>1. CASE UNCHANGED vars BY <1>1, MemberUnchanged, Zenon DEF vars, rows, memory
<1>2. CASE Messaging BY <1>2, MessagingMember, MemberUnchanged, Zenon
<1>3. CASE Restart BY <1>3, RestartMember, Zenon
<1>4. ASSUME NEW a \in Accounts, HandleCreateGroup(a) \/ HandleDissolveGroup(a)
      PROVE  MemberInv'
  BY <1>4, CreateMember, DissolveMember, Zenon
<1>5. ASSUME NEW a \in Accounts, HandleApplyGroupJoin(a) PROVE MemberInv'
  BY <1>5, ApplyMember, MemberUnchanged, Zenon
<1>6. ASSUME NEW a \in Accounts, HandleLeave(a) \/ LeaveFails(a) PROVE MemberInv'
  BY <1>6, LeaveMember, LeaveFailsMember, Zenon
<1>7. ASSUME NEW a \in Accounts, NEW o \in Accounts,
             HandleInviteGroupMember(o, a) \/ HandleKickGroupMember(o, a) \/ HandleTransferGroupOwner(o, a)
      PROVE  MemberInv'
  BY <1>7, InviteMemberInv, KickMemberInv, TransferMember, Zenon
<1>8. ASSUME NEW a \in Accounts, NEW o \in Accounts, NEW yes \in BOOLEAN,
             HandleReviewGroupJoin(o, a, yes) \/ HandleSetGroupAdmin(o, a, yes)
      PROVE  MemberInv'
  BY <1>8, ReviewMember, SetAdminMember, Zenon
<1> QED BY <1>1, <1>2, <1>3, <1>4, <1>5, <1>6, <1>7, <1>8, Zenon DEF Next, Membership

LEMMA MemberInvariant == Spec => []MemberInv
BY InitMember, MemberStep, PTL DEF Spec

(* OneOwner is an invariant: an active group has exactly one owner, who is  *)
(* a member, and a group that is not active has no members, whatever the    *)
(* handlers, failures and restarts do, for any number of accounts.          *)
THEOREM OwnerIsOne == Spec => []OneOwner
BY MemberInvariant, MemberImplies, PTL

(* CopyHasTheMembers is an invariant: GroupManager's copy and index have    *)
(* the members and the owner of the database, but for those a failed query  *)
(* hid when the copy was last changed.                                      *)
THEOREM CopyIsKept == Spec => []CopyHasTheMembers
BY MemberInvariant, MemberImplies, PTL

(* MembersHearOfChanges for one step.                                       *)
LEMMA HeardStep ==
  MemberInv /\ [Next]_vars =>
    [role' # role => \/ \E a \in Accounts : HandleLeave(a)
                     \/ \E o \in Accounts :
                          (Members \cup Members') \ (forgotten \cup forgotten')
                             \subseteq told' \cup {o}]_vars
<1> DEFINE Told == \/ \E a \in Accounts : HandleLeave(a)
                   \/ \E o \in Accounts : Heard(o)
<1> SUFFICES ASSUME MemberInv, Next, role' # role PROVE Told BY Zenon DEF Heard
<1>2. CASE Messaging BY <1>2, MessagingMember, Zenon
<1>3. CASE Restart BY <1>3, Zenon DEF Restart, rows
<1>4. ASSUME NEW a \in Accounts, HandleCreateGroup(a) PROVE Told BY <1>4, CreateMember, Zenon DEF Heard
<1>5. ASSUME NEW a \in Accounts, HandleDissolveGroup(a) PROVE Told BY <1>5, DissolveMember, Zenon DEF Heard
<1>6. ASSUME NEW a \in Accounts, HandleApplyGroupJoin(a) PROVE Told BY <1>6, ApplyMember, Zenon
<1>7. ASSUME NEW a \in Accounts, HandleLeave(a) PROVE Told BY <1>7, Zenon
<1>8. ASSUME NEW a \in Accounts, LeaveFails(a) PROVE Told BY <1>8, Zenon DEF LeaveFails, rows
<1>9. ASSUME NEW a \in Accounts, NEW o \in Accounts, HandleInviteGroupMember(o, a) PROVE Told
  BY <1>9, InviteMemberInv, Zenon
<1>10. ASSUME NEW a \in Accounts, NEW o \in Accounts, HandleKickGroupMember(o, a) PROVE Told
  BY <1>10, KickMemberInv, Zenon
<1>11. ASSUME NEW a \in Accounts, NEW o \in Accounts, HandleTransferGroupOwner(o, a) PROVE Told
  BY <1>11, TransferMember, Zenon
<1>12. ASSUME NEW a \in Accounts, NEW o \in Accounts, NEW yes \in BOOLEAN,
              HandleReviewGroupJoin(o, a, yes) PROVE Told
  BY <1>12, ReviewMember, SMTT(30)
<1>13. ASSUME NEW a \in Accounts, NEW o \in Accounts, NEW yes \in BOOLEAN,
              HandleSetGroupAdmin(o, a, yes) PROVE Told
  BY <1>13, SetAdminMember
<1> HIDE DEF Told
<1> QED
  BY <1>2, <1>3, <1>4, <1>5, <1>6, <1>7, <1>8, <1>9, <1>10, <1>11, <1>12, <1>13, Zenon
  DEF Next, Membership

(* MembersHearOfChanges holds: the audience of an event comes from the      *)
(* copy after the change, which has the members of the rows but for those a *)
(* failed query hides, so that nobody else who was or is a member misses a  *)
(* change but the one who asked for it.                                     *)
THEOREM ChangesAreHeard == Spec => MembersHearOfChanges
<1> QED BY MemberInvariant, HeardStep, PTL DEF Spec, MembersHearOfChanges
-----------------------------------------------------------------------------
(* Messages.  The two counting properties rest on one fact: the committed   *)
(* messages and the numbers 1..n stand one to one, in the order of the ids. *)

Message == [from : Accounts, id : Nat, seq : Nat]
Task == [from : Accounts, id : Nat]

Dense(S, n) ==
  /\ S \subseteq Message /\ IsFiniteSet(S) /\ n \in Nat /\ Cardinality(S) = n
  /\ \A m \in S : m.seq \in 1..n /\ m.id > 0
  /\ \A k \in 1..n : \E m \in S : m.seq = k
  /\ \A m1, m2 \in S : m1.seq = m2.seq => m1 = m2
  /\ \A m1, m2 \in S : m1.id < m2.id <=> m1.seq < m2.seq

(* A row names a message by its number and its id; 0 and 0 stand for none.  *)
Names(S, r, i) == (r = 0 /\ i = 0) \/ \E m \in S : m.seq = r /\ m.id = i

(* The waiting tasks have growing ids, all between lo and hi.               *)
Queued(q, lo, hi) ==
  /\ q \in Seq(Task)
  /\ \A k \in 1..Len(q) : lo < q[k].id /\ q[k].id < hi
  /\ \A j, k \in 1..Len(q) : j < k => q[j].id < q[k].id

(* The head names the last message while the group is active; the send      *)
(* transaction that holds it has the next number and a newer id.            *)
Numbers ==
  /\ Dense(messages, Cardinality(messages))
  /\ status = "absent" => messages = {}
  /\ head # None =>
       /\ status = "active" /\ head \in [seq : Nat, msg : Nat]
       /\ head.seq = Cardinality(messages) /\ Names(messages, head.seq, head.msg)
  /\ sending # None =>
       /\ head # None /\ sending \in Message
       /\ sending.seq = head.seq + 1 /\ sending.id > 0
       /\ \A m \in messages : m.id < sending.id

(* The group's tasks run in the order of their ids.                         *)
Order ==
  /\ nextId \in Nat \ {0}
  /\ \E lo \in 0..(nextId - 1) :
       /\ \A m \in messages : m.id <= lo
       /\ sending # None => sending.id <= lo
       /\ Queued(queue, lo, nextId)

(* A cursor belongs to a member and names the message it stands at.         *)
Cursors ==
  /\ cursor \in [Accounts -> [read : Nat, msg : Nat, joined : Nat] \cup {None}]
  /\ \A a \in Accounts : cursor[a] # None =>
       /\ head # None /\ role[a] # "none"
       /\ cursor[a] \in [read : Nat, msg : Nat, joined : Nat]
       /\ cursor[a].joined <= cursor[a].read /\ cursor[a].read <= head.seq
       /\ Names(messages, cursor[a].read, cursor[a].msg)

(* A read transaction keeps the cursor as it read it.                       *)
Readings ==
  /\ DOMAIN reading = Accounts
  /\ \A a \in Accounts : reading[a] # None =>
       /\ cursor[a] # None /\ reading[a].old = cursor[a].read
       /\ reading[a].to \in messages

MessageInv == Numbers /\ Order /\ Cursors /\ Readings
GroupInv == MemberInv /\ MessageInv

(* One more message, newer than the others, gets the next number.           *)
LEMMA DenseAdd ==
  ASSUME NEW S, NEW n, Dense(S, n), NEW m \in Message, m.seq = n + 1, m.id > 0,
         \A x \in S : x.id < m.id
  PROVE  Dense(S \cup {m}, n + 1)
<1> DEFINE T == S \cup {m}
<1>0. n \in Nat /\ S \subseteq Message /\ IsFiniteSet(S) /\ Cardinality(S) = n BY Zenon DEF Dense
<1>1. \A x \in S : x.seq \in 1..n /\ x.id > 0 BY Zenon DEF Dense
<1>2. m \notin S BY <1>0, <1>1, SMTT(30)
<1>3. IsFiniteSet(T) /\ Cardinality(T) = n + 1 BY <1>0, <1>2, FS_AddElement, Zenon
<1>4. \A x \in T : x.seq \in 1..(n + 1) /\ x.id > 0 BY <1>0, <1>1, SMTT(30) DEF Message
<1>5. \A k \in 1..(n + 1) : \E x \in T : x.seq = k
  <2> SUFFICES ASSUME NEW k \in 1..(n + 1) PROVE \E x \in T : x.seq = k BY Zenon
  <2>1. CASE k = n + 1 BY <2>1, Zenon
  <2>2. CASE k # n + 1
    <3>1. k \in 1..n BY <1>0, <2>2, SMTT(30)
    <3> QED BY <3>1, Zenon DEF Dense
  <2> QED BY <2>1, <2>2, Zenon
<1>6. \A x, y \in T : x.seq = y.seq => x = y
  <2> SUFFICES ASSUME NEW x \in T, NEW y \in T, x.seq = y.seq PROVE x = y BY Zenon
  <2>1. CASE x \in S /\ y \in S BY <2>1, Zenon DEF Dense
  <2>2. CASE x = m \/ y = m BY <1>0, <1>1, <2>2, SMTT(30)
  <2> QED BY <2>1, <2>2, Zenon
<1>7. \A x, y \in T : x.id < y.id <=> x.seq < y.seq
  <2> SUFFICES ASSUME NEW x \in T, NEW y \in T PROVE x.id < y.id <=> x.seq < y.seq BY Zenon
  <2>0. x \in Message /\ y \in Message BY <1>0, Zenon
  <2>1. CASE x \in S /\ y \in S BY <2>1, Zenon DEF Dense
  <2>2. CASE x = m /\ y = m BY <2>0, <2>2, SMTT(30) DEF Message
  <2>3. CASE x = m /\ y \in S
    <3>1. y.id < m.id /\ y.seq <= n /\ y.seq \in Nat /\ y.id \in Nat /\ m.id \in Nat
      BY <1>0, <1>1, <2>0, <2>3, SMTT(30) DEF Message
    <3> QED BY <1>0, <2>3, <3>1, SMTT(30)
  <2>4. CASE x \in S /\ y = m
    <3>1. x.id < m.id /\ x.seq <= n /\ x.seq \in Nat /\ x.id \in Nat /\ m.id \in Nat
      BY <1>0, <1>1, <2>0, <2>4, SMTT(30) DEF Message
    <3> QED BY <1>0, <2>4, <3>1, SMTT(30)
  <2> QED BY <2>1, <2>2, <2>3, <2>4, Zenon
<1>8. T \subseteq Message BY <1>0, Zenon
<1>9. n + 1 \in Nat BY <1>0, SMTT(30)
<1> HIDE DEF T
<1>10. Dense(T, n + 1) BY <1>3, <1>4, <1>5, <1>6, <1>7, <1>8, <1>9, Zenon DEF Dense
<1> QED BY <1>10, Zenon DEF T

(* There are n - r messages with a number above r.                          *)
LEMMA NumberAbove ==
  ASSUME NEW S, NEW n, Dense(S, n), NEW r \in 0..n
  PROVE  Cardinality({m \in S : m.seq > r}) = n - r
<1> DEFINE T == {m \in S : m.seq > r}
           f == [m \in T |-> m.seq]
<1>0. n \in Nat /\ r \in Nat /\ r <= n BY SMTT(30) DEF Dense
<1>1. \A m \in S : m.seq \in 1..n BY Zenon DEF Dense
<1>2. \A m \in T : m.seq \in (r + 1)..n BY <1>0, <1>1, SMTT(30)
<1>3. f \in [T -> (r + 1)..n] BY <1>2, Zenon
<1>4. \A x, y \in T : f[x] = f[y] => x = y BY Zenon DEF Dense
<1>5. \A k \in (r + 1)..n : \E m \in T : f[m] = k
  <2> SUFFICES ASSUME NEW k \in (r + 1)..n PROVE \E m \in T : f[m] = k BY Zenon
  <2>1. k \in 1..n /\ k > r BY <1>0, SMTT(30)
  <2>2. PICK m \in S : m.seq = k BY <2>1, Zenon DEF Dense
  <2> QED BY <2>1, <2>2, Zenon
<1>6. f \in Bijection(T, (r + 1)..n)
  BY <1>3, <1>4, <1>5, Zenon DEF Bijection, Injection, Surjection, IsInjective
<1>7. IsFiniteSet((r + 1)..n) /\ Cardinality((r + 1)..n) = n - r
  <2>1. r + 1 \in Int /\ n \in Int BY <1>0, SMTT(30)
  <2>2. /\ IsFiniteSet((r + 1)..n)
        /\ Cardinality((r + 1)..n) = IF (r + 1) > n THEN 0 ELSE n - (r + 1) + 1
    BY <2>1, FS_Interval, Zenon
  <2> QED BY <1>0, <2>2, SMTT(30)
<1>8. IsFiniteSet(T)
  <2>1. IsFiniteSet(S) /\ T \in SUBSET S BY Zenon DEF Dense
  <2> QED BY <2>1, FS_Subset, Zenon
<1> HIDE DEF T, f
<1>9. Cardinality(T) = Cardinality((r + 1)..n) BY <1>6, <1>7, <1>8, FS_Bijection, Zenon DEF ExistsBijection
<1> QED BY <1>7, <1>9, Zenon DEF T

(* Whoever stands at a message has those with a greater number unread, and  *)
(* these are the ones with a greater id.                                    *)
LEMMA NamedAbove ==
  ASSUME NEW S, NEW n, Dense(S, n), NEW r, NEW i, Names(S, r, i)
  PROVE  {m \in S : m.id > i} = {m \in S : m.seq > r}
<1> SUFFICES ASSUME NEW m \in S PROVE m.id > i <=> m.seq > r BY Zenon
<1>0. m \in Message /\ m.seq \in 1..n /\ m.id > 0 /\ n \in Nat BY Zenon DEF Dense
<1>1. CASE r = 0 /\ i = 0 BY <1>0, <1>1, SMTT(30) DEF Message
<1>2. CASE \E x \in S : x.seq = r /\ x.id = i
  <2>1. PICK x \in S : x.seq = r /\ x.id = i BY <1>2, Zenon
  <2>2. x.id < m.id <=> x.seq < m.seq BY Zenon DEF Dense
  <2>3. x \in Message BY Zenon DEF Dense
  <2> QED BY <1>0, <2>1, <2>2, <2>3, Zenon DEF Message
<1> QED BY <1>1, <1>2, Zenon DEF Names

(* The first waiting task leaves the queue.                                 *)
LEMMA QueuedTail ==
  ASSUME NEW q, NEW lo \in Nat, NEW hi \in Nat, Queued(q, lo, hi), q # <<>>
  PROVE  /\ Head(q) \in Task /\ lo < Head(q).id /\ Head(q).id < hi
         /\ Queued(Tail(q), Head(q).id, hi)
<1>1. q \in Seq(Task) BY Zenon DEF Queued
<1>2. Len(q) \in Nat /\ Len(q) >= 1 /\ Head(q) = q[1] /\ q[1] \in Task BY <1>1, SMTT(30)
<1>3. lo < Head(q).id /\ Head(q).id < hi BY <1>2, SMTT(30) DEF Queued
<1>4. /\ Tail(q) \in Seq(Task) /\ Len(Tail(q)) = Len(q) - 1
      /\ \A k \in 1..Len(Tail(q)) : k + 1 \in 1..Len(q) /\ Tail(q)[k] = q[k + 1]
  BY <1>1, <1>2, SMTT(30)
<1>5. \A k \in 1..Len(Tail(q)) : Head(q).id < Tail(q)[k].id /\ Tail(q)[k].id < hi
  BY <1>2, <1>4, SMTT(30) DEF Queued
<1>6. \A j, k \in 1..Len(Tail(q)) : j < k => Tail(q)[j].id < Tail(q)[k].id
  BY <1>4, SMTT(30) DEF Queued
<1> QED BY <1>2, <1>3, <1>4, <1>5, <1>6, Zenon DEF Queued

(* A new task takes the next id.                                            *)
LEMMA QueuedAppend ==
  ASSUME NEW q, NEW lo \in Nat, NEW hi \in Nat, Queued(q, lo, hi), lo < hi,
         NEW t \in Task, t.id = hi
  PROVE  Queued(Append(q, t), lo, hi + 1)
<1> DEFINE p == Append(q, t)
<1>1. q \in Seq(Task) BY Zenon DEF Queued
<1>2. /\ p \in Seq(Task) /\ Len(p) = Len(q) + 1 /\ Len(q) \in Nat
      /\ p[Len(q) + 1] = t /\ \A k \in 1..Len(q) : p[k] = q[k] /\ q[k] \in Task
  BY <1>1, SMTT(30)
<1> HIDE DEF p
<1>3. \A k \in 1..Len(p) : k \in 1..Len(q) \/ k = Len(q) + 1 BY <1>2, SMTT(30)
<1>4. \A k \in 1..Len(q) : lo < q[k].id /\ q[k].id < hi /\ q[k].id \in Nat BY <1>2, Zenon DEF Queued, Task
<1>5. \A k \in 1..Len(p) : lo < p[k].id /\ p[k].id < hi + 1
  BY <1>2, <1>3, <1>4, SMTT(30)
<1>6. \A j, k \in 1..Len(p) : j < k => p[j].id < p[k].id
  <2> SUFFICES ASSUME NEW j \in 1..Len(p), NEW k \in 1..Len(p), j < k PROVE p[j].id < p[k].id
    BY Zenon
  <2>1. j \in 1..Len(q) BY <1>2, SMTT(30)
  <2>2. CASE k \in 1..Len(q) BY <1>2, <2>1, <2>2, Zenon DEF Queued
  <2>3. CASE k = Len(q) + 1 BY <1>2, <1>4, <2>1, <2>3, Zenon
  <2> QED BY <1>3, <2>2, <2>3, Zenon
<1>7. Queued(p, lo, hi + 1) BY <1>2, <1>5, <1>6, Zenon DEF Queued
<1> QED BY <1>7, Zenon DEF p

-----------------------------------------------------------------------------
(* Initially nothing is numbered.                                           *)
LEMMA InitMessage == Init => MessageInv
<1> SUFFICES ASSUME Init PROVE MessageInv BY Zenon
<1> USE DEF Init
<1>1. Dense({}, 0) BY FS_EmptySet, SMTT(30) DEF Dense
<1>2. Numbers BY <1>1, FS_EmptySet, Zenon DEF Numbers
<1>3. Queued(<<>>, 0, 1) BY SMTT(30) DEF Queued
<1>4. Order
  <2>1. nextId \in Nat \ {0} /\ 0 \in 0..(nextId - 1) BY SMTT(30)
  <2>2. (\A m \in messages : m.id <= 0) /\ (sending # None => sending.id <= 0)
        /\ Queued(queue, 0, nextId)
    BY <1>3, Zenon
  <2> QED BY <2>1, <2>2, Zenon DEF Order
<1>5. Cursors BY Zenon DEF Cursors
<1>6. Readings BY Zenon DEF Readings
<1> QED BY <1>2, <1>4, <1>5, <1>6, Zenon DEF MessageInv

(* The numbering is dense and the head names the last message.              *)
LEMMA NumbersImply == MessageInv => NumbersAreDense
<1> SUFFICES ASSUME Numbers PROVE NumbersAreDense BY Zenon DEF MessageInv
<1> DEFINE n == Cardinality(messages)
<1>1. Dense(messages, n) BY Zenon DEF Numbers
<1>2. head # None => head.seq = n /\ Names(messages, n, head.msg) BY Zenon DEF Numbers
<1> HIDE DEF n
<1>3. n \in Nat /\ \A m \in messages : m.seq \in 1..n BY <1>1, Zenon DEF Dense
<1>4. \A m1, m2 \in messages : m1.id < m2.id <=> m1.seq < m2.seq BY <1>1, Zenon DEF Dense
<1>5. Names(messages, n, head.msg) =>
        IF n = 0 THEN head.msg = 0 ELSE \E m \in messages : m.seq = n /\ m.id = head.msg
  BY <1>3, SMTT(30) DEF Names
<1> QED BY <1>2, <1>3, <1>4, <1>5, Zenon DEF NumbersAreDense, n

(* The unread number of the conversation list is exact.                     *)
LEMMA CursorsImply == MessageInv => GroupUnreadExact
<1> SUFFICES ASSUME Numbers, Cursors, NEW a \in Accounts, cursor[a] # None
             PROVE  /\ IsMember(a) /\ head # None
                    /\ Unread(a) = Cardinality({m \in messages : m.id > cursor[a].msg})
  BY Zenon DEF MessageInv, GroupUnreadExact
<1> DEFINE n == Cardinality(messages)
           r == cursor[a].read
           i == cursor[a].msg
<1>1. Dense(messages, n) /\ (head # None => head.seq = n) BY Zenon DEF Numbers
<1>2. /\ head # None /\ IsMember(a) /\ cursor[a] \in [read : Nat, msg : Nat, joined : Nat]
      /\ cursor[a].joined <= r /\ r <= head.seq /\ Names(messages, r, i)
  BY Zenon DEF Cursors, IsMember
<1>3. n \in Nat BY <1>1, Zenon DEF Dense
<1>4. head.seq = n /\ r \in 0..n /\ cursor[a].joined \in Nat BY <1>1, <1>2, <1>3, SMTT(30)
<1> HIDE DEF n
<1>5. Cardinality({m \in messages : m.seq > r}) = n - r BY <1>1, <1>4, NumberAbove, Zenon
<1>6. {m \in messages : m.id > i} = {m \in messages : m.seq > r} BY <1>1, <1>2, NamedAbove, SMTT(30)
<1>7. Unread(a) = n - r BY <1>2, <1>3, <1>4, SMTT(30) DEF Unread
<1> QED BY <1>2, <1>5, <1>6, <1>7, Zenon

(* A step that changes neither head, cursors nor messages, and takes no     *)
(* role from the owner of a cursor.                                         *)
LEMMA MessageFrame ==
  ASSUME MessageInv,
         UNCHANGED <<status, head, cursor, messages, queue, nextId, sending, reading>>,
         \A a \in Accounts : role[a] # "none" => role'[a] # "none"
  PROVE  MessageInv'
<1>1. Numbers' BY Zenon DEF MessageInv, Numbers
<1>2. Order' BY Zenon DEF MessageInv, Order
<1>3. Cursors' BY Zenon DEF MessageInv, Cursors
<1>4. Readings' BY Zenon DEF MessageInv, Readings
<1> QED BY <1>1, <1>2, <1>3, <1>4, Zenon DEF MessageInv

(* A member goes, with the cursor.                                          *)
LEMMA RemoveMessage ==
  ASSUME MessageInv, NEW a \in Accounts, RemoveRows(a), MemberInv, UNCHANGED work
  PROVE  MessageInv'
<1>0. /\ reading[a] = None /\ role' = [role EXCEPT ![a] = "none"]
      /\ cursor' = [cursor EXCEPT ![a] = None]
      /\ UNCHANGED <<status, head, messages, queue, nextId, sending, reading>>
  BY Zenon DEF RemoveRows, CursorFree, work
<1>1. Numbers' BY <1>0, Zenon DEF MessageInv, Numbers
<1>2. Order' BY <1>0, Zenon DEF MessageInv, Order
<1>3. Cursors' BY <1>0, Zenon DEF MessageInv, Cursors, MemberInv, RoleTypes
<1>4. Readings' BY <1>0, Zenon DEF MessageInv, Cursors, Readings
<1> QED BY <1>1, <1>2, <1>3, <1>4, Zenon DEF MessageInv

(* The group appears with an empty numbering and the owner's cursor.        *)
LEMMA CreateMessage ==
  ASSUME MessageInv, NEW a \in Accounts, HandleCreateGroup(a), MemberInv
  PROVE  MessageInv'
<1>0. /\ status = "absent" /\ status' = "active" /\ role' = [role EXCEPT ![a] = "owner"]
      /\ head' = [seq |-> 0, msg |-> 0]
      /\ cursor' = [cursor EXCEPT ![a] = [read |-> 0, msg |-> 0, joined |-> 0]]
      /\ UNCHANGED <<messages, queue, nextId, sending, reading>>
  BY Zenon DEF HandleCreateGroup, CreateGroup, CreateGroupWithOwner, work
<1>1. /\ head = None /\ sending = None /\ messages = {} /\ Dense(messages, Cardinality(messages))
  BY <1>0, Zenon DEF MessageInv, Numbers
<1>2. \A b \in Accounts : cursor[b] = None /\ reading[b] = None
  BY <1>1, Zenon DEF MessageInv, Cursors, Readings
<1>3. head' # None /\ head' \in [seq : Nat, msg : Nat] /\ head'.seq = 0 /\ head'.msg = 0
  BY <1>0, GroupsAssumption, SMTT(30)
<1>4. Numbers' BY <1>0, <1>1, <1>3, FS_EmptySet, Zenon DEF Numbers, Names
<1>5. Order' BY <1>0, Zenon DEF MessageInv, Order
<1>6. Cursors'
  <2>1. cursor' \in [Accounts -> [read : Nat, msg : Nat, joined : Nat] \cup {None}]
    BY <1>0, Zenon DEF MessageInv, Cursors
  <2>2. \A b \in Accounts : cursor'[b] # None =>
          /\ b = a /\ cursor'[b] = [read |-> 0, msg |-> 0, joined |-> 0]
    BY <1>0, <1>2, Zenon DEF MessageInv, Cursors
  <2>3. role'[a] = "owner" BY <1>0, Zenon DEF MemberInv, RoleTypes
  <2> QED BY <1>3, <2>1, <2>2, <2>3, SMTT(30) DEF Cursors, Names
<1>7. Readings' BY <1>0, <1>2, Zenon DEF MessageInv, Readings
<1> QED BY <1>4, <1>5, <1>6, <1>7, Zenon DEF MessageInv

(* The group goes, with head and cursors; the messages stay.                *)
LEMMA DissolveMessage ==
  ASSUME MessageInv, NEW o \in Accounts, HandleDissolveGroup(o)
  PROVE  MessageInv'
<1>0. /\ status' = "dissolved" /\ head' = None /\ cursor' = [a \in Accounts |-> None]
      /\ sending = None /\ (\A a \in Accounts : reading[a] = None)
      /\ UNCHANGED <<messages, queue, nextId, sending, reading>>
  BY Zenon DEF HandleDissolveGroup, DissolveGroup, DissolveRows, HeadFree, CursorFree, work
<1>1. Numbers' BY <1>0, Zenon DEF MessageInv, Numbers
<1>2. Order' BY <1>0, Zenon DEF MessageInv, Order
<1>3. Cursors' BY <1>0, Zenon DEF Cursors
<1>4. Readings' BY <1>0, Zenon DEF MessageInv, Readings
<1> QED BY <1>1, <1>2, <1>3, <1>4, Zenon DEF MessageInv

(* An approved applicant gets a cursor at the head.                         *)
LEMMA ApproveMessage ==
  ASSUME MessageInv, NEW r \in Accounts, NEW a \in Accounts, Approve(r, a), MemberInv, UNCHANGED work
  PROVE  MessageInv'
<1> DEFINE new == [read |-> head.seq, msg |-> head.msg, joined |-> head.seq]
<1>0. /\ role[a] = "none" /\ head # None /\ role' = [role EXCEPT ![a] = "member"]
      /\ cursor' = [cursor EXCEPT ![a] = new]
      /\ UNCHANGED <<status, head, messages, queue, nextId, sending, reading>>
  BY Zenon DEF Approve, IsMember, work
<1>1. /\ head \in [seq : Nat, msg : Nat] /\ Names(messages, head.seq, head.msg)
  BY <1>0, Zenon DEF MessageInv, Numbers
<1>2. /\ new \in [read : Nat, msg : Nat, joined : Nat] /\ new.read = head.seq
      /\ new.msg = head.msg /\ new.joined = head.seq /\ head.seq <= head.seq
  BY <1>1, SMTT(30)
<1> HIDE DEF new
<1>3. cursor[a] = None /\ reading[a] = None BY <1>0, Zenon DEF MessageInv, Cursors, Readings
<1>4. Numbers' BY <1>0, Zenon DEF MessageInv, Numbers
<1>5. Order' BY <1>0, Zenon DEF MessageInv, Order
<1>6. Cursors'
  <2>1. cursor' \in [Accounts -> [read : Nat, msg : Nat, joined : Nat] \cup {None}]
    BY <1>0, <1>2, Zenon DEF MessageInv, Cursors
  <2> SUFFICES ASSUME NEW b \in Accounts, cursor'[b] # None
               PROVE  /\ head' # None /\ role'[b] # "none"
                      /\ cursor'[b] \in [read : Nat, msg : Nat, joined : Nat]
                      /\ cursor'[b].joined <= cursor'[b].read /\ cursor'[b].read <= head'.seq
                      /\ Names(messages', cursor'[b].read, cursor'[b].msg)
    BY <2>1, Zenon DEF Cursors
  <2>2. CASE b = a
    <3>1. cursor'[b] = new BY <1>0, <2>2, Zenon DEF MessageInv, Cursors
    <3>2. role'[b] # "none" BY <1>0, <2>2, Zenon DEF MemberInv, RoleTypes
    <3> QED BY <1>0, <1>1, <1>2, <3>1, <3>2, Zenon
  <2>3. CASE b # a
    <3>1. cursor'[b] = cursor[b] /\ role'[b] = role[b]
      BY <1>0, <2>3, Zenon DEF MessageInv, Cursors, MemberInv, RoleTypes
    <3> QED BY <1>0, <3>1, Zenon DEF MessageInv, Cursors
  <2> QED BY <2>2, <2>3, Zenon
<1>7. Readings' BY <1>0, <1>3, Zenon DEF MessageInv, Cursors, Readings
<1> QED BY <1>4, <1>5, <1>6, <1>7, Zenon DEF MessageInv

(* A task is queued under the next id.                                      *)
LEMMA SubmitMessage ==
  ASSUME MessageInv, NEW a \in Accounts, Submit(a)
  PROVE  MessageInv'
<1> DEFINE t == [from |-> a, id |-> nextId]
<1>0. /\ queue' = Append(queue, t) /\ nextId' = nextId + 1
      /\ UNCHANGED <<status, role, head, cursor, messages, sending, reading>>
  BY Zenon DEF Submit, rows
<1>1. Numbers' BY <1>0, Zenon DEF MessageInv, Numbers
<1>2. Order'
  <2>1. nextId \in Nat \ {0} BY Zenon DEF MessageInv, Order
  <2>2. PICK lo \in 0..(nextId - 1) :
          /\ \A m \in messages : m.id <= lo
          /\ sending # None => sending.id <= lo
          /\ Queued(queue, lo, nextId)
    BY Zenon DEF MessageInv, Order
  <2>3. t \in Task /\ t.id = nextId BY <2>1, Zenon DEF Task
  <2>4. lo \in Nat /\ nextId \in Nat /\ lo < nextId BY <2>1, SMTT(30)
  <2> HIDE DEF t
  <2>5. Queued(queue', lo, nextId') BY <1>0, <2>2, <2>3, <2>4, QueuedAppend, Zenon
  <2>6. nextId' \in Nat \ {0} /\ lo \in 0..(nextId' - 1) BY <1>0, <2>1, SMTT(30)
  <2>7. (\A m \in messages' : m.id <= lo) /\ (sending' # None => sending'.id <= lo) BY <1>0, <2>2, Zenon
  <2> QED BY <2>5, <2>6, <2>7, Zenon DEF Order
<1>3. Cursors' BY <1>0, Zenon DEF MessageInv, Cursors
<1>4. Readings' BY <1>0, Zenon DEF MessageInv, Readings
<1> QED BY <1>1, <1>2, <1>3, <1>4, Zenon DEF MessageInv

(* The oldest task gets the number after the head's.                        *)
LEMMA BeginSendMessage ==
  ASSUME MessageInv, BeginSend
  PROVE  MessageInv'
<1> DEFINE h == Head(queue)
           s == [from |-> h.from, id |-> h.id, seq |-> head.seq + 1]
<1>0. /\ queue # <<>> /\ head # None /\ sending' = s /\ queue' = Tail(queue)
      /\ UNCHANGED <<status, role, head, cursor, messages, nextId, reading>>
  BY Zenon DEF BeginSend, rows
<1>1. nextId \in Nat \ {0} BY Zenon DEF MessageInv, Order
<1>2. PICK lo \in 0..(nextId - 1) :
          /\ \A m \in messages : m.id <= lo
          /\ sending # None => sending.id <= lo
          /\ Queued(queue, lo, nextId)
  BY Zenon DEF MessageInv, Order
<1>3. lo \in Nat /\ nextId \in Nat BY <1>1, SMTT(30)
<1>4. h \in Task /\ lo < h.id /\ h.id < nextId /\ Queued(Tail(queue), h.id, nextId)
  BY <1>0, <1>2, <1>3, QueuedTail, Zenon
<1>5. head.seq \in Nat BY <1>0, Zenon DEF MessageInv, Numbers
<1>6. /\ s \in Message /\ s.seq = head.seq + 1 /\ s.id = h.id /\ h.id \in Nat
  BY <1>4, <1>5, SMTT(30) DEF Task, Message
<1>7. \A m \in messages : m \in Message BY Zenon DEF MessageInv, Numbers, Dense
<1>8. \A m \in messages : m.id \in Nat /\ m.id < h.id BY <1>2, <1>3, <1>4, <1>6, <1>7, SMTT(30) DEF Message
<1> HIDE DEF h, s
<1>9. Numbers'
  <2>1. h.id > 0 BY <1>3, <1>4, <1>6, SMTT(30)
  <2> QED BY <1>0, <1>6, <1>8, <2>1, Zenon DEF MessageInv, Numbers
<1>10. Order'
  <2>1. h.id \in 0..(nextId' - 1) BY <1>0, <1>1, <1>4, <1>6, SMTT(30)
  <2>2. \A m \in messages' : m.id <= h.id BY <1>0, <1>6, <1>8, SMTT(30)
  <2>3. sending'.id <= h.id BY <1>0, <1>6, SMTT(30)
  <2> QED BY <1>0, <1>1, <1>4, <2>1, <2>2, <2>3, Zenon DEF Order
<1>11. Cursors' BY <1>0, Zenon DEF MessageInv, Cursors
<1>12. Readings' BY <1>0, Zenon DEF MessageInv, Readings
<1> QED BY <1>9, <1>10, <1>11, <1>12, Zenon DEF MessageInv

(* A task that finds no head is dropped.                                    *)
LEMMA RefuseSendMessage ==
  ASSUME MessageInv, RefuseSend
  PROVE  MessageInv'
<1> DEFINE h == Head(queue)
<1>0. /\ queue # <<>> /\ queue' = Tail(queue) /\ sending = None
      /\ UNCHANGED <<status, role, head, cursor, messages, nextId, sending, reading>>
  BY Zenon DEF RefuseSend, HeadFree, rows
<1>1. nextId \in Nat \ {0} BY Zenon DEF MessageInv, Order
<1>2. PICK lo \in 0..(nextId - 1) :
          /\ \A m \in messages : m.id <= lo
          /\ sending # None => sending.id <= lo
          /\ Queued(queue, lo, nextId)
  BY Zenon DEF MessageInv, Order
<1>3. lo \in Nat /\ nextId \in Nat BY <1>1, SMTT(30)
<1>4. h \in Task /\ lo < h.id /\ h.id < nextId /\ Queued(Tail(queue), h.id, nextId)
  BY <1>0, <1>2, <1>3, QueuedTail, Zenon
<1>5. \A m \in messages : m.id \in Nat BY Zenon DEF MessageInv, Numbers, Dense, Message
<1> HIDE DEF h
<1>6. h.id \in 0..(nextId' - 1) /\ h.id \in Nat BY <1>0, <1>1, <1>3, <1>4, SMTT(30) DEF Task
<1>7. \A m \in messages' : m.id <= h.id BY <1>0, <1>2, <1>3, <1>4, <1>5, <1>6, SMTT(30)
<1>8. Order' BY <1>0, <1>1, <1>4, <1>6, <1>7, Zenon DEF Order
<1>9. Numbers' BY <1>0, Zenon DEF MessageInv, Numbers
<1>10. Cursors' BY <1>0, Zenon DEF MessageInv, Cursors
<1>11. Readings' BY <1>0, Zenon DEF MessageInv, Readings
<1> QED BY <1>8, <1>9, <1>10, <1>11, Zenon DEF MessageInv

(* An aborted send gives its number back.                                   *)
LEMMA AbortSendMessage ==
  ASSUME MessageInv, AbortSend
  PROVE  MessageInv'
<1>0. /\ sending' = None
      /\ UNCHANGED <<status, role, head, cursor, messages, queue, nextId, reading>>
  BY Zenon DEF AbortSend, rows
<1>1. Numbers' BY <1>0, Zenon DEF MessageInv, Numbers
<1>2. Order' BY <1>0, Zenon DEF MessageInv, Order
<1>3. Cursors' BY <1>0, Zenon DEF MessageInv, Cursors
<1>4. Readings' BY <1>0, Zenon DEF MessageInv, Readings
<1> QED BY <1>1, <1>2, <1>3, <1>4, Zenon DEF MessageInv

(* What is named stays named.                                               *)
LEMMA NamesGrow ==
  ASSUME NEW S, NEW m, NEW r, NEW i, Names(S, r, i)
  PROVE  Names(S \cup {m}, r, i)
BY Zenon DEF Names

(* A committed send: one more number, the head and the sender's cursor at   *)
(* the new message.                                                         *)
LEMMA CommitSendMessage ==
  ASSUME MessageInv, CommitSend
  PROVE  /\ MessageInv' /\ messages' = messages \cup {sending}
         /\ status = "active" /\ role[sending.from] # "none" /\ sending.from \in Accounts
<1> DEFINE n == Cardinality(messages)
           u == sending.from
           c == cursor[u]
           new == [read |-> IF c.read > sending.seq THEN c.read ELSE sending.seq,
                   msg |-> sending.id, joined |-> c.joined]
<1>0. /\ sending # None /\ c # None /\ reading[u] = None
      /\ messages' = messages \cup {sending}
      /\ head' = [seq |-> sending.seq, msg |-> sending.id]
      /\ cursor' = [cursor EXCEPT ![u] = new]
      /\ sending' = None
      /\ UNCHANGED <<status, role, queue, nextId, reading>>
  BY Zenon DEF CommitSend, CursorFree
<1>1. /\ head # None /\ status = "active" /\ sending \in Message /\ sending.seq = n + 1
      /\ sending.id > 0 /\ Dense(messages, n) /\ head.seq = n
      /\ \A m \in messages : m.id < sending.id
  BY <1>0, Zenon DEF MessageInv, Numbers
<1>2. u \in Accounts /\ sending.id \in Nat /\ sending.seq \in Nat /\ n \in Nat
  BY <1>1, Zenon DEF Message, Dense
<1>3. Dense(messages', n + 1) BY <1>0, <1>1, DenseAdd, Zenon
<1>4. Cardinality(messages') = n + 1 BY <1>3, Zenon DEF Dense
<1>5. Names(messages', sending.seq, sending.id) BY <1>0, Zenon DEF Names
<1>6. /\ head' # None /\ head' \in [seq : Nat, msg : Nat] /\ head'.seq = n + 1 /\ head'.msg = sending.id
  BY <1>0, <1>1, <1>2, GroupsAssumption, SMTT(30)
<1>7. /\ c \in [read : Nat, msg : Nat, joined : Nat] /\ c.joined <= c.read /\ c.read <= n
      /\ role[u] # "none"
  BY <1>0, <1>1, <1>2, Zenon DEF MessageInv, Cursors
<1>8. /\ new \in [read : Nat, msg : Nat, joined : Nat] /\ new.read = n + 1 /\ new.msg = sending.id
      /\ new.joined <= new.read
  BY <1>1, <1>2, <1>7, SMTT(30)
<1> HIDE DEF n, c, new
<1>9. Numbers'
  <2>1. Dense(messages', Cardinality(messages')) BY <1>3, <1>4, Zenon
  <2>2. head'.seq = Cardinality(messages') /\ Names(messages', head'.seq, head'.msg)
    BY <1>1, <1>4, <1>5, <1>6, Zenon
  <2> QED BY <1>0, <1>1, <1>6, <2>1, <2>2, Zenon DEF Numbers
<1>10. Order'
  <2>1. PICK lo \in 0..(nextId - 1) :
          /\ \A m \in messages : m.id <= lo
          /\ sending # None => sending.id <= lo
          /\ Queued(queue, lo, nextId)
    BY Zenon DEF MessageInv, Order
  <2> QED BY <1>0, <2>1, Zenon DEF MessageInv, Order
<1>11. Cursors'
  <2>1. cursor' \in [Accounts -> [read : Nat, msg : Nat, joined : Nat] \cup {None}]
    BY <1>0, <1>8, Zenon DEF MessageInv, Cursors
  <2> SUFFICES ASSUME NEW b \in Accounts, cursor'[b] # None
               PROVE  /\ head' # None /\ role'[b] # "none"
                      /\ cursor'[b] \in [read : Nat, msg : Nat, joined : Nat]
                      /\ cursor'[b].joined <= cursor'[b].read /\ cursor'[b].read <= head'.seq
                      /\ Names(messages', cursor'[b].read, cursor'[b].msg)
    BY <2>1, Zenon DEF Cursors
  <2>2. CASE b = u
    <3>1. cursor'[b] = new BY <1>0, <2>2, Zenon DEF MessageInv, Cursors
    <3>2. Names(messages', new.read, new.msg) BY <1>1, <1>5, <1>8, Zenon
    <3>3. new.read <= head'.seq BY <1>2, <1>6, <1>8, SMTT(30)
    <3> QED BY <1>0, <1>6, <1>7, <1>8, <2>2, <3>1, <3>2, <3>3, Zenon
  <2>3. CASE b # u
    <3>1. cursor'[b] = cursor[b] /\ role'[b] = role[b]
      BY <1>0, <2>3, Zenon DEF MessageInv, Cursors
    <3>2. /\ role[b] # "none" /\ cursor[b] \in [read : Nat, msg : Nat, joined : Nat]
          /\ cursor[b].joined <= cursor[b].read /\ cursor[b].read <= head.seq
          /\ Names(messages, cursor[b].read, cursor[b].msg)
      BY <3>1, Zenon DEF MessageInv, Cursors
    <3>3. Names(messages', cursor[b].read, cursor[b].msg) BY <1>0, <3>2, NamesGrow, Zenon
    <3>4. cursor[b].read <= head'.seq BY <1>1, <1>2, <1>6, <3>2, SMTT(30)
    <3> QED BY <1>6, <3>1, <3>2, <3>3, <3>4, Zenon
  <2> QED BY <2>2, <2>3, Zenon
<1>12. Readings'
  <2> SUFFICES ASSUME NEW b \in Accounts, reading[b] # None
               PROVE  cursor'[b] # None /\ reading[b].old = cursor'[b].read /\ reading[b].to \in messages'
    BY <1>0, Zenon DEF MessageInv, Readings
  <2>1. cursor'[b] = cursor[b] BY <1>0, Zenon DEF MessageInv, Cursors
  <2> QED BY <1>0, <2>1, Zenon DEF MessageInv, Readings
<1> QED BY <1>0, <1>1, <1>2, <1>7, <1>9, <1>10, <1>11, <1>12, Zenon DEF MessageInv

(* A read transaction starts with the cursor as it is.                      *)
LEMMA BeginReadMessage ==
  ASSUME MessageInv, NEW a \in Accounts, NEW m \in messages, BeginRead(a, m)
  PROVE  MessageInv'
<1> DEFINE new == [old |-> cursor[a].read, to |-> m]
<1>0. /\ cursor[a] # None /\ reading' = [reading EXCEPT ![a] = new]
      /\ UNCHANGED <<status, role, head, cursor, messages, queue, nextId, sending>>
  BY Zenon DEF BeginRead, rows
<1>1. new.old = cursor[a].read /\ new.to = m BY Zenon
<1> HIDE DEF new
<1>2. Numbers' BY <1>0, Zenon DEF MessageInv, Numbers
<1>3. Order' BY <1>0, Zenon DEF MessageInv, Order
<1>4. Cursors' BY <1>0, Zenon DEF MessageInv, Cursors
<1>5. Readings' BY <1>0, <1>1, Zenon DEF MessageInv, Readings
<1> QED BY <1>2, <1>3, <1>4, <1>5, Zenon DEF MessageInv

(* A rolled back read leaves the cursor.                                    *)
LEMMA AbortReadMessage ==
  ASSUME MessageInv, NEW a \in Accounts, AbortRead(a)
  PROVE  MessageInv'
<1>0. /\ reading' = [reading EXCEPT ![a] = None]
      /\ UNCHANGED <<status, role, head, cursor, messages, queue, nextId, sending>>
  BY Zenon DEF AbortRead, rows
<1>2. Numbers' BY <1>0, Zenon DEF MessageInv, Numbers
<1>3. Order' BY <1>0, Zenon DEF MessageInv, Order
<1>4. Cursors' BY <1>0, Zenon DEF MessageInv, Cursors
<1>5. Readings' BY <1>0, Zenon DEF MessageInv, Readings
<1> QED BY <1>2, <1>3, <1>4, <1>5, Zenon DEF MessageInv

(* The mark moves forward, to the message that was asked for.               *)
LEMMA CommitReadMessage ==
  ASSUME MessageInv, NEW a \in Accounts, CommitRead(a)
  PROVE  MessageInv'
<1> DEFINE m == reading[a].to
           c == cursor[a]
           new == [c EXCEPT !.read = m.seq, !.msg = m.id]
<1>0. /\ reading[a] # None /\ reading' = [reading EXCEPT ![a] = None]
      /\ UNCHANGED <<status, role, head, messages, queue, nextId, sending>>
      /\ \/ cursor' = cursor
         \/ /\ ~(m.seq <= reading[a].old)
            /\ cursor' = [cursor EXCEPT ![a].read = m.seq, ![a].msg = m.id]
  BY Zenon DEF CommitRead
<1>1. Numbers' BY <1>0, Zenon DEF MessageInv, Numbers
<1>2. Order' BY <1>0, Zenon DEF MessageInv, Order
<1>3. CASE cursor' = cursor
  <2>1. Cursors' BY <1>0, <1>3, Zenon DEF MessageInv, Cursors
  <2>2. Readings' BY <1>0, <1>3, Zenon DEF MessageInv, Readings
  <2> QED BY <1>1, <1>2, <2>1, <2>2, Zenon DEF MessageInv
<1>4. CASE ~(m.seq <= reading[a].old) /\ cursor' = [cursor EXCEPT ![a].read = m.seq, ![a].msg = m.id]
  <2>1. c # None /\ reading[a].old = c.read /\ m \in messages
    BY <1>0, Zenon DEF MessageInv, Readings
  <2>2. /\ head # None /\ role[a] # "none" /\ c \in [read : Nat, msg : Nat, joined : Nat]
        /\ c.joined <= c.read /\ c.read <= head.seq
    BY <2>1, Zenon DEF MessageInv, Cursors
  <2>3. /\ head.seq = Cardinality(messages) /\ Dense(messages, Cardinality(messages))
    BY <2>2, Zenon DEF MessageInv, Numbers
  <2>4. m \in Message /\ m.seq \in 1..head.seq /\ head.seq \in Nat BY <2>1, <2>3, Zenon DEF Dense
  <2>5. m.seq \in Nat /\ m.id \in Nat /\ m.seq > c.read BY <1>4, <2>1, <2>2, <2>4, SMTT(30) DEF Message
  <2>6. /\ new \in [read : Nat, msg : Nat, joined : Nat] /\ new.read = m.seq /\ new.msg = m.id
        /\ new.joined = c.joined
    BY <2>2, <2>5, Zenon
  <2>7. cursor \in [Accounts -> [read : Nat, msg : Nat, joined : Nat] \cup {None}]
    BY Zenon DEF MessageInv, Cursors
  <2>8. cursor' = [cursor EXCEPT ![a] = new] BY <1>4, <2>2, <2>7, Zenon
  <2>9. Names(messages, m.seq, m.id) BY <2>1, Zenon DEF Names
  <2>10. new.joined <= new.read /\ new.read <= head.seq BY <2>2, <2>4, <2>5, <2>6, SMTT(30)
  <2> HIDE DEF new, c, m
  <2>11. Cursors'
    <3>1. cursor' \in [Accounts -> [read : Nat, msg : Nat, joined : Nat] \cup {None}]
      BY <2>6, <2>7, <2>8, Zenon
    <3> SUFFICES ASSUME NEW b \in Accounts, cursor'[b] # None
                 PROVE  /\ head' # None /\ role'[b] # "none"
                        /\ cursor'[b] \in [read : Nat, msg : Nat, joined : Nat]
                        /\ cursor'[b].joined <= cursor'[b].read /\ cursor'[b].read <= head'.seq
                        /\ Names(messages', cursor'[b].read, cursor'[b].msg)
      BY <3>1, Zenon DEF Cursors
    <3>2. CASE b = a
      <4>1. cursor'[b] = new BY <2>7, <2>8, <3>2, Zenon
      <4> QED BY <1>0, <2>2, <2>6, <2>9, <2>10, <3>2, <4>1, Zenon
    <3>3. CASE b # a
      <4>1. cursor'[b] = cursor[b] BY <2>7, <2>8, <3>3, Zenon
      <4> QED BY <1>0, <4>1, Zenon DEF MessageInv, Cursors
    <3> QED BY <3>2, <3>3, Zenon
  <2>12. Readings'
    <3> SUFFICES ASSUME NEW b \in Accounts, b # a, reading[b] # None
                 PROVE  cursor'[b] # None /\ reading[b].old = cursor'[b].read /\ reading[b].to \in messages'
      BY <1>0, Zenon DEF MessageInv, Readings
    <3>1. cursor'[b] = cursor[b] BY <2>7, <2>8, Zenon
    <3> QED BY <1>0, <3>1, Zenon DEF MessageInv, Readings
  <2> QED BY <1>1, <1>2, <2>11, <2>12, Zenon DEF MessageInv
<1> QED BY <1>0, <1>3, <1>4, Zenon

(* A restart forgets tasks and transactions, and draws no id again.         *)
LEMMA RestartMessage ==
  ASSUME MessageInv, Restart
  PROVE  MessageInv'
<1>0. /\ queue' = <<>> /\ sending' = None /\ reading' = [a \in Accounts |-> None]
      /\ UNCHANGED <<status, role, head, cursor, messages, nextId>>
  BY Zenon DEF Restart, rows
<1>1. Numbers' BY <1>0, Zenon DEF MessageInv, Numbers
<1>2. Order'
  <2>1. PICK lo \in 0..(nextId - 1) :
          /\ \A m \in messages : m.id <= lo
          /\ sending # None => sending.id <= lo
          /\ Queued(queue, lo, nextId)
    BY Zenon DEF MessageInv, Order
  <2>2. Queued(<<>>, lo, nextId) BY SMTT(30) DEF Queued
  <2> QED BY <1>0, <2>1, <2>2, Zenon DEF MessageInv, Order
<1>3. Cursors' BY <1>0, Zenon DEF MessageInv, Cursors
<1>4. Readings' BY <1>0, Zenon DEF MessageInv, Readings
<1> QED BY <1>1, <1>2, <1>3, <1>4, Zenon DEF MessageInv

(* What a step does to the messages: MessageInv is kept, and only a sender  *)
(* who is a member adds one.                                                *)
LEMMA MessageStep ==
  ASSUME MemberInv, MessageInv, [Next]_vars
  PROVE  /\ MessageInv'
         /\ \A m \in messages' \ messages : status = "active" /\ m.from \in Members
<1> DEFINE Kept == MessageInv' /\ messages' = messages
           Done == /\ MessageInv'
                   /\ \A m \in messages' \ messages : status = "active" /\ m.from \in Members
<1>0. Kept => Done BY Zenon
<1>1. ASSUME UNCHANGED vars PROVE Kept BY <1>1, MessageFrame, Zenon DEF vars, rows, work
<1>2. ASSUME BeginSend PROVE Kept BY <1>2, BeginSendMessage, Zenon DEF BeginSend
<1>3. ASSUME RefuseSend PROVE Kept BY <1>3, RefuseSendMessage, Zenon DEF RefuseSend
<1>4. ASSUME CommitSend PROVE Done BY <1>4, CommitSendMessage, Zenon DEF Members
<1>5. ASSUME AbortSend PROVE Kept BY <1>5, AbortSendMessage, Zenon DEF AbortSend
<1>6. ASSUME NEW a \in Accounts, Submit(a) PROVE Kept BY <1>6, SubmitMessage, Zenon DEF Submit
<1>7. ASSUME NEW a \in Accounts, CommitRead(a) PROVE Kept BY <1>7, CommitReadMessage, Zenon DEF CommitRead
<1>8. ASSUME NEW a \in Accounts, AbortRead(a) PROVE Kept BY <1>8, AbortReadMessage, Zenon DEF AbortRead
<1>9. ASSUME NEW a \in Accounts, NEW m \in messages, BeginRead(a, m) PROVE Kept
  BY <1>9, BeginReadMessage, Zenon DEF BeginRead
<1>10. ASSUME Restart PROVE Kept BY <1>10, RestartMessage, Zenon DEF Restart
<1>11. ASSUME NEW a \in Accounts, HandleCreateGroup(a) PROVE Kept
  BY <1>11, CreateMessage, Zenon DEF HandleCreateGroup, work
<1>12. ASSUME NEW a \in Accounts, HandleDissolveGroup(a) PROVE Kept
  BY <1>12, DissolveMessage, Zenon DEF HandleDissolveGroup, work
<1>13. ASSUME NEW a \in Accounts, HandleApplyGroupJoin(a) PROVE Kept
  BY <1>13, ApplyMember, MessageFrame, Zenon
<1>14. ASSUME NEW a \in Accounts, HandleLeave(a) PROVE Kept
  <2>0. UNCHANGED work BY <1>14, Zenon DEF HandleLeave
  <2>1. CASE RemoveRows(a) BY <2>0, <2>1, RemoveMessage, Zenon DEF work
  <2>2. CASE UNCHANGED rows BY <2>0, <2>2, MessageFrame, Zenon DEF rows, work
  <2> QED BY <1>14, <2>1, <2>2, LeaveMember, Zenon
<1>15. ASSUME NEW a \in Accounts, LeaveFails(a) PROVE Kept
  BY <1>15, MessageFrame, Zenon DEF LeaveFails, rows, work
<1>16. ASSUME NEW a \in Accounts, NEW o \in Accounts, HandleInviteGroupMember(o, a) PROVE Kept
  <2>1. /\ role' = [role EXCEPT ![a] = "member"]
        /\ UNCHANGED <<status, head, cursor, messages, queue, nextId, sending, reading>>
    BY <1>16, Zenon DEF HandleInviteGroupMember, InviteMember, AddMember, work
  <2> QED BY <2>1, MessageFrame, Zenon DEF MemberInv, RoleTypes
<1>17. ASSUME NEW a \in Accounts, NEW o \in Accounts, HandleKickGroupMember(o, a) PROVE Kept
  <2>1. RemoveRows(a) /\ UNCHANGED work BY <1>17, KickMemberInv, Zenon DEF HandleKickGroupMember
  <2> QED BY <2>1, RemoveMessage, Zenon DEF work
<1>18. ASSUME NEW a \in Accounts, NEW o \in Accounts, HandleTransferGroupOwner(o, a) PROVE Kept
  <2>1. /\ role' = [role EXCEPT ![a] = "owner", ![o] = "member"]
        /\ UNCHANGED <<status, head, cursor, messages, queue, nextId, sending, reading>>
    BY <1>18, Zenon DEF HandleTransferGroupOwner, TransferOwner, TransferRows, work
  <2> QED BY <2>1, MessageFrame, Zenon DEF MemberInv, RoleTypes
<1>19. ASSUME NEW a \in Accounts, NEW o \in Accounts, NEW yes \in BOOLEAN,
              HandleReviewGroupJoin(o, a, yes) PROVE Kept
  <2>0. UNCHANGED work BY <1>19, Zenon DEF HandleReviewGroupJoin
  <2>1. CASE yes BY <1>19, <2>0, <2>1, ReviewMember, ApproveMessage, Zenon DEF work
  <2>2. CASE ~yes
    <3>1. Reject(o, a) /\ role' = role BY <1>19, <2>2, ReviewMember, SMTT(30)
    <3>2. UNCHANGED <<status, head, cursor, messages, queue, nextId, sending, reading>>
      BY <2>0, <3>1, Zenon DEF Reject, work
    <3> QED BY <3>1, <3>2, MessageFrame, Zenon
  <2> QED BY <2>1, <2>2, Zenon
<1>20. ASSUME NEW a \in Accounts, NEW o \in Accounts, NEW yes \in BOOLEAN,
              HandleSetGroupAdmin(o, a, yes) PROVE Kept
  <2>1. /\ role' = [role EXCEPT ![a] = IF yes THEN "admin" ELSE "member"]
        /\ UNCHANGED <<status, head, cursor, messages, queue, nextId, sending, reading>>
    BY <1>20, Zenon DEF HandleSetGroupAdmin, SetAdmin, UpdateMemberRole, work
  <2> QED BY <2>1, MessageFrame, Zenon DEF MemberInv, RoleTypes
<1>21. ASSUME Messaging PROVE Done
  <2> HIDE DEF Kept, Done
  <2> QED BY <1>0, <1>2, <1>3, <1>4, <1>5, <1>6, <1>7, <1>8, <1>9, <1>21, Zenon DEF Messaging
<1>22. ASSUME Membership PROVE Done
  <2> HIDE DEF Kept, Done
  <2> QED
    BY <1>0, <1>11, <1>12, <1>13, <1>14, <1>15, <1>16, <1>17, <1>18, <1>19, <1>20, <1>22, Zenon DEF Membership
<1> HIDE DEF Kept, Done
<1>23. Done BY <1>0, <1>1, <1>10, <1>21, <1>22, Zenon DEF Next
<1> QED BY <1>23, Zenon DEF Done

(* GroupInv is an invariant.                                                *)
LEMMA GroupInvariant == Spec => []GroupInv
<1>1. Init => GroupInv BY InitMember, InitMessage, Zenon DEF GroupInv
<1>2. GroupInv /\ [Next]_vars => GroupInv' BY MemberStep, MessageStep, Zenon DEF GroupInv
<1> QED BY <1>1, <1>2, PTL DEF Spec

(* NumbersAreDense is an invariant: the messages of a group are numbered    *)
(* 1, 2, ... in the order of their ids and the head names the last, with    *)
(* any number of members, messages, aborted transactions and restarts.      *)
THEOREM NumberingIsDense == Spec => []NumbersAreDense
<1>1. GroupInv => NumbersAreDense BY NumbersImply, Zenon DEF GroupInv
<1> QED BY <1>1, GroupInvariant, PTL

(* GroupUnreadExact is an invariant: the difference listConversations       *)
(* computes is the number of messages above the member's read mark.         *)
THEOREM UnreadNumberIsExact == Spec => []GroupUnreadExact
<1>1. GroupInv => GroupUnreadExact BY CursorsImply, Zenon DEF GroupInv
<1> QED BY <1>1, GroupInvariant, PTL

(* OnlyMembersPost holds: the locked cursor of the sender keeps out whoever *)
(* left or was removed between the check and the transaction.               *)
THEOREM PostersAreMembers == Spec => OnlyMembersPost
<1>1. GroupInv /\ [Next]_vars =>
        [\A m \in messages' \ messages : status = "active" /\ m.from \in Members]_vars
  BY MessageStep, Zenon DEF GroupInv
<1> QED BY <1>1, GroupInvariant, PTL DEF Spec, OnlyMembersPost
=============================================================================
