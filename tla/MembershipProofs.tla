-------------------------- MODULE MembershipProofs --------------------------
(* Theorems about Membership.                                               *)
EXTENDS Membership, FiniteSetTheorems, Functions, TLAPS

USE MembershipAssumption

RequestSet == MemberReq \cup AnswerReq \cup {NoRequest}

(* A check moves a request on without changing what it asks for.            *)
LEMMA CheckedIsRequest ==
  ASSUME NEW q \in RequestSet, q.at = "authorized"
  PROVE  [q EXCEPT !.at = "checked"] \in RequestSet
<1>1. CASE q \in InviteReq  BY <1>1 DEF RequestSet, MemberReq, InviteReq, Phases
<1>2. CASE q \in AnswerReq  BY <1>2 DEF RequestSet, AnswerReq, Phases
<1>3. CASE q \in RevokeReq  BY <1>3 DEF RequestSet, MemberReq, RevokeReq, Phases
<1>4. CASE q \in ChangeReq  BY <1>4 DEF RequestSet, MemberReq, ChangeReq, Phases
<1>5. CASE q \in RemoveReq  BY <1>5 DEF RequestSet, MemberReq, RemoveReq, Phases
<1>6. CASE q \in OwnReq     BY <1>6 DEF RequestSet, MemberReq, OwnReq, Phases
<1>7. CASE q = NoRequest    BY <1>7 DEF NoRequest
<1> QED BY <1>1, <1>2, <1>3, <1>4, <1>5, <1>6, <1>7 DEF RequestSet, MemberReq

(* The fields that a request has depend on its operation.                   *)
LEMMA RequestFields ==
  ASSUME NEW q \in RequestSet
  PROVE  /\ q.op = "invite" => q \in InviteReq
         /\ q.op \in {"accept", "decline"} => q \in AnswerReq
         /\ q.op = "revoke" => q \in RevokeReq
         /\ q.op = "change" => q \in ChangeReq
         /\ q.op = "remove" => q \in RemoveReq
         /\ q.op \in {"leave", "delete"} => q \in OwnReq
BY DEF RequestSet, MemberReq, InviteReq, AnswerReq, RevokeReq, ChangeReq, RemoveReq,
       OwnReq, NoRequest

LEMMA RoleSets == Offered \subseteq Roles /\ "member" \in Roles /\ "owner" \in Roles
BY DEF Roles, Privileged

-----------------------------------------------------------------------------
LEMMA TypeInit == Init => TypeOK
<1> SUFFICES ASSUME Init PROVE TypeOK
  OBVIOUS
<1>1. NoInvitation \in InvType
  BY RoleSets DEF NoInvitation, InvType
<1>2. role \in [Users -> Roles \cup {"none"}]
  BY RoleSets DEF Init
<1> QED BY <1>1, <1>2 DEF Init, TypeOK

LEMMA TypeStep == TypeOK /\ [Next]_vars => TypeOK'
<1> SUFFICES ASSUME TypeOK, [Next]_vars PROVE TypeOK'
  OBVIOUS
<1> USE DEF TypeOK
<1>r. req \in [Requests -> RequestSet]
  BY DEF RequestSet
<1>t. ASSUME org' \in {"active", "deleted"}, role' \in [Users -> Roles \cup {"none"}],
             inv' \in [Invitations -> InvType], req' \in [Requests -> RequestSet]
      PROVE  TypeOK'
  <2>1. overtaken' \in BOOLEAN
    BY DEF Next, vars, Authorize, Check, Fail, Write, WriteInvite, WriteAccept, WriteRevoke,
       WriteChange, WriteRemove, WriteLeave, WriteDelete, Overtakes, Expire
  <2> QED BY <1>t, <2>1 DEF RequestSet
<1>n. NoRequest \in RequestSet
  BY DEF RequestSet
<1>1. ASSUME NEW r \in Requests, Authorize(r) PROVE TypeOK'
  BY <1>1, <1>r, <1>t DEF Authorize, RequestSet
<1>2. ASSUME NEW r \in Requests, Check(r) PROVE TypeOK'
  <2>1. [req[r] EXCEPT !.at = "checked"] \in RequestSet
    BY <1>2, <1>r, CheckedIsRequest DEF Check
  <2>2. req' = [req EXCEPT ![r] = [req[r] EXCEPT !.at = "checked"]]
    BY <1>2, <1>r DEF Check
  <2>3. req' \in [Requests -> RequestSet]
    BY <1>r, <2>1, <2>2
  <2>4. UNCHANGED <<org, role, inv>>
    BY <1>2 DEF Check
  <2> QED BY <1>t, <2>3, <2>4
<1>3. ASSUME NEW r \in Requests, Fail(r) PROVE TypeOK'
  BY <1>3, <1>r, <1>n, <1>t DEF Fail
<1>4. ASSUME NEW r \in Requests, WriteInvite(r) PROVE TypeOK'
  <2>1. req[r] \in InviteReq
    BY <1>4, <1>r, RequestFields DEF WriteInvite
  <2>2. req[r].target \in Users /\ req[r].role \in Roles
    BY <2>1, RoleSets DEF InviteReq
  <2>3. PICK new \in Invitations :
          inv' = [i \in Invitations |->
              IF i = new THEN [NoInvitation EXCEPT !.issued = TRUE, !.user = req[r].target,
                                                   !.role = req[r].role]
              ELSE IF Pending(i) /\ inv[i].user = req[r].target
                   THEN [inv[i] EXCEPT !.revoked = TRUE] ELSE inv[i]]
    BY <1>4 DEF WriteInvite
  <2>4. [NoInvitation EXCEPT !.issued = TRUE, !.user = req[r].target,
                             !.role = req[r].role] \in InvType
    BY <2>2 DEF NoInvitation, InvType
  <2>5. ASSUME NEW i \in Invitations, Pending(i) PROVE [inv[i] EXCEPT !.revoked = TRUE] \in InvType
    BY <2>5 DEF Pending, InvType
  <2>6. inv' \in [Invitations -> InvType]
    BY <2>3, <2>4, <2>5
  <2> QED BY <1>4, <1>r, <1>n, <1>t, <2>6 DEF WriteInvite, Done
<1>5. ASSUME NEW r \in Requests, WriteAccept(r) PROVE TypeOK'
  <2>1. req[r] \in AnswerReq
    BY <1>5, <1>r, RequestFields DEF WriteAccept
  <2>2. req[r].inv \in Invitations /\ req[r].user \in Users
    BY <2>1 DEF AnswerReq
  <2>3. inv[req[r].inv].role \in Roles
    BY <2>2 DEF InvType
  <2>4. [inv[req[r].inv] EXCEPT !.accepted = TRUE] \in InvType
    BY <1>5, <2>2 DEF WriteAccept, MayBeAccepted, InvType
  <2>5. inv' \in [Invitations -> InvType]
    BY <1>5, <2>2, <2>4 DEF WriteAccept
  <2>6. role' \in [Users -> Roles \cup {"none"}]
    BY <1>5, <2>2, <2>3 DEF WriteAccept
  <2> QED BY <1>5, <1>r, <1>n, <1>t, <2>5, <2>6 DEF WriteAccept, Done
<1>6. ASSUME NEW r \in Requests, WriteRevoke(r) PROVE TypeOK'
  <2>1. req[r].inv \in Invitations
    BY <1>6, <1>r, RequestFields DEF WriteRevoke, AnswerReq, RevokeReq
  <2>2. [inv[req[r].inv] EXCEPT !.revoked = TRUE] \in InvType
    BY <1>6, <2>1, ZenonT(40) DEF WriteRevoke, MayBeRevoked, InvType
  <2>3. inv' \in [Invitations -> InvType]
    BY <1>6, <2>1, <2>2 DEF WriteRevoke
  <2> QED BY <1>6, <1>r, <1>n, <1>t, <2>3 DEF WriteRevoke, Done
<1>7. ASSUME NEW r \in Requests, WriteChange(r) PROVE TypeOK'
  <2>1. req[r] \in ChangeReq
    BY <1>7, <1>r, RequestFields DEF WriteChange
  <2>2. req[r].target \in Users /\ req[r].role \in Roles
    BY <2>1, RoleSets DEF ChangeReq
  <2> QED BY <1>7, <1>r, <1>n, <1>t, <2>2 DEF WriteChange, Done
<1>8. ASSUME NEW r \in Requests, WriteRemove(r) PROVE TypeOK'
  BY <1>8, <1>r, <1>n, <1>t DEF WriteRemove, Done
<1>9. ASSUME NEW r \in Requests, WriteLeave(r) PROVE TypeOK'
  BY <1>9, <1>r, <1>n, <1>t DEF WriteLeave, Done
<1>10. ASSUME NEW r \in Requests, WriteDelete(r) PROVE TypeOK'
  BY <1>10, <1>r, <1>n, <1>t DEF WriteDelete, Done
<1>11. ASSUME NEW i \in Invitations, Expire(i) PROVE TypeOK'
  <2>1. [inv[i] EXCEPT !.expired = TRUE] \in InvType
    BY DEF InvType
  <2> QED BY <1>11, <1>r, <1>t, <2>1 DEF Expire
<1>12. CASE UNCHANGED vars
  BY <1>12, <1>r, <1>t DEF vars
<1> HIDE DEF TypeOK
<1> QED
  BY <1>1, <1>2, <1>3, <1>4, <1>5, <1>6, <1>7, <1>8, <1>9, <1>10, <1>11, <1>12
  DEF Next, Write

(* Whatever the numbers of users, invitations and overlapping requests, no  *)
(* invitation is ever both accepted and revoked, and every row and request  *)
(* keeps its shape.                                                         *)
THEOREM MembershipTypes == Spec => []TypeOK
BY TypeInit, TypeStep, PTL DEF Spec

-----------------------------------------------------------------------------
(* Between its check and its write, an acceptance stays with an invitation  *)
(* of its user: rows are never issued again.                                *)
AnswersOwn ==
    \A r \in Requests : req[r].at = "checked" /\ req[r].op = "accept" =>
        inv[req[r].inv].issued /\ inv[req[r].inv].user = req[r].user

(* An issued row keeps its address and role.                                *)
LEMMA RowsAreKept ==
  ASSUME TypeOK, [Next]_vars, NEW i \in Invitations, inv[i].issued
  PROVE  inv'[i].issued /\ inv'[i].user = inv[i].user
<1> USE DEF TypeOK, InvType
<1>1. ASSUME NEW r \in Requests, WriteInvite(r) PROVE inv'[i].issued /\ inv'[i].user = inv[i].user
  BY <1>1 DEF WriteInvite
<1>2. ASSUME NEW r \in Requests, WriteAccept(r) PROVE inv'[i].issued /\ inv'[i].user = inv[i].user
  BY <1>2 DEF WriteAccept
<1>3. ASSUME NEW r \in Requests, WriteRevoke(r) PROVE inv'[i].issued /\ inv'[i].user = inv[i].user
  BY <1>3 DEF WriteRevoke
<1>4. ASSUME NEW j \in Invitations, Expire(j) PROVE inv'[i].issued /\ inv'[i].user = inv[i].user
  BY <1>4 DEF Expire
<1>5. CASE UNCHANGED inv
  BY <1>5
<1> QED
  BY <1>1, <1>2, <1>3, <1>4, <1>5
  DEF Next, vars, Write, Authorize, Check, Fail, WriteChange, WriteRemove, WriteLeave, WriteDelete

LEMMA AnswersOwnInit == Init => AnswersOwn
BY DEF Init, AnswersOwn, NoRequest

LEMMA AnswersOwnStep == TypeOK /\ AnswersOwn /\ [Next]_vars => AnswersOwn'
<1> SUFFICES ASSUME TypeOK, AnswersOwn, [Next]_vars,
                    NEW s \in Requests, req'[s].at = "checked", req'[s].op = "accept"
             PROVE  inv'[req'[s].inv].issued /\ inv'[req'[s].inv].user = req'[s].user
  BY DEF AnswersOwn
<1>1. CASE UNCHANGED req[s]
  <2>1. req[s] \in AnswerReq
    BY <1>1, RequestFields DEF TypeOK, RequestSet
  <2>2. req[s].inv \in Invitations /\ inv[req[s].inv].issued /\ inv[req[s].inv].user = req[s].user
    BY <1>1, <2>1 DEF AnswersOwn, AnswerReq
  <2> QED BY <1>1, <2>2, RowsAreKept
<1>2. CASE req'[s] # req[s]
  <2>1. req'[s] \in RequestSet
    BY TypeStep DEF TypeOK, RequestSet
  <2>2. PICK r \in Requests : Authorize(r) \/ Check(r) \/ Write(r) \/ Fail(r)
    BY <1>2 DEF Next, vars, Expire
  <2>3. r = s
    BY <1>2, <2>2 DEF TypeOK, Authorize, Check, Fail, Write, Done, WriteInvite, WriteAccept,
       WriteRevoke, WriteChange, WriteRemove, WriteLeave, WriteDelete
  <2>4. Check(s)
    BY <2>2, <2>3 DEF TypeOK, Authorize, Fail, Write, Done, WriteInvite, WriteAccept, NoRequest,
       WriteRevoke, WriteChange, WriteRemove, WriteLeave, WriteDelete, AnswerReq
  <2>5. UNCHANGED inv /\ req'[s] = [req[s] EXCEPT !.at = "checked"] /\ req[s].at = "authorized"
    BY <2>4 DEF Check, TypeOK
  <2>6. req[s] \in AnswerReq /\ req[s].op = "accept"
    <3>1. req[s] \in RequestSet
      BY DEF TypeOK, RequestSet
    <3>2. CASE req[s] \in AnswerReq
      BY <3>2, <2>5 DEF AnswerReq
    <3>3. CASE req[s] \in MemberReq
      BY <3>3, <2>5 DEF MemberReq, InviteReq, RevokeReq, ChangeReq, RemoveReq, OwnReq
    <3> QED BY <2>5, <3>1, <3>2, <3>3 DEF RequestSet, NoRequest
  <2>7. MayAccept(req[s])
    BY <2>4, <2>6 DEF Check, MayInvite, MayRevoke, MayDecline, MayChange, MayRemove, MayLeave, MayDelete
  <2> QED BY <2>5, <2>6, <2>7 DEF MayAccept, OpenForUser, Pending, AnswerReq
<1> QED BY <1>1, <1>2

(* However requests overlap, whoever becomes a member does so through an    *)
(* invitation to him that nobody has revoked, declined or replaced, with    *)
(* the role it offered.                                                     *)
THEOREM RevokedNeverAdmits == Spec => NeverThroughRevoked
<1>1. TypeOK /\ AnswersOwn /\ [Next]_vars =>
        [\A u \in Users : Joins(u) =>
           \E i \in Invitations : /\ inv[i].issued /\ inv[i].user = u /\ ~inv[i].revoked
                                  /\ inv'[i].accepted /\ role'[u] = inv[i].role]_vars
  <2> SUFFICES ASSUME TypeOK, AnswersOwn, Next, NEW u \in Users, Joins(u)
               PROVE  \E i \in Invitations :
                        /\ inv[i].issued /\ inv[i].user = u /\ ~inv[i].revoked
                        /\ inv'[i].accepted /\ role'[u] = inv[i].role
    OBVIOUS
  <2>1. PICK r \in Requests : WriteAccept(r)
    BY DEF Joins, TypeOK, Next, Authorize, Check, Fail, Write, WriteInvite, WriteRevoke,
       WriteChange, WriteRemove, WriteLeave, WriteDelete, Expire
  <2>2. req[r] \in AnswerReq
    BY <2>1, RequestFields DEF WriteAccept, TypeOK, RequestSet
  <2>3. u = req[r].user
    BY <2>1, <2>2 DEF WriteAccept, Joins, TypeOK, AnswerReq
  <2>4. req[r].inv \in Invitations
    BY <2>2 DEF AnswerReq
  <2>5. inv[req[r].inv].issued /\ inv[req[r].inv].user = u
    BY <2>1, <2>3 DEF WriteAccept, AnswersOwn
  <2>6. ~inv[req[r].inv].revoked /\ inv'[req[r].inv].accepted
    BY <2>1, <2>4 DEF WriteAccept, MayBeAccepted, TypeOK, InvType
  <2>7. role'[u] = inv[req[r].inv].role
    BY <2>1, <2>3 DEF WriteAccept, Joins, TypeOK
  <2> QED BY <2>4, <2>5, <2>6, <2>7
<1> QED
  BY <1>1, TypeInit, TypeStep, AnswersOwnInit, AnswersOwnStep, PTL DEF Spec, NeverThroughRevoked

-----------------------------------------------------------------------------
(* Owners: as long as no write of roles has gone past another request on    *)
(* roles, what such a request has read is still so.                         *)
TakesOwner(q) == \/ q.op = "change" /\ role[q.target] = "owner" /\ q.role # "owner"
                 \/ q.op = "remove" /\ role[q.target] = "owner"
                 \/ q.op = "leave" /\ role[q.user] = "owner"

HasReadTruly(q) ==
    /\ q.op = "leave" => q.ctx # "none" /\ role[q.user] = q.ctx
    /\ q.at = "checked" /\ q.op \in {"change", "remove"} => role[q.target] # "none"
    /\ q.at = "checked" /\ TakesOwner(q) => SeveralOwners

OwnerInv == ~overtaken =>
    AlwaysAnOwner /\ \A r \in Requests : req[r].op \in OnRoles => HasReadTruly(req[r])

LEMMA OwnerInit == Init => OwnerInv
BY DEF Init, OwnerInv, AlwaysAnOwner, Owners, NoRequest, OnRoles

(* Of several owners, one is not the user whose role is taken.              *)
LEMMA AnotherOwner ==
  ASSUME SeveralOwners, NEW u
  PROVE  \E o \in Users : role[o] = "owner" /\ o # u
BY DEF SeveralOwners, Owners

LEMMA RoleRequests ==
  ASSUME NEW q \in RequestSet, q.op \in OnRoles
  PROVE  /\ q.op = "change" => q \in ChangeReq /\ q.target \in Users
         /\ q.op = "remove" => q \in RemoveReq /\ q.target \in Users
         /\ q.op = "leave" => q \in OwnReq /\ q.user \in Users
         /\ q.op \in {"change", "remove", "leave"}
BY RequestFields DEF OnRoles, ChangeReq, RemoveReq, OwnReq

(* Members keep their roles and others may join: what was read stays so.    *)
LEMMA JoinsKeep ==
  ASSUME \A u \in Users : role[u] # "none" => role'[u] = role[u],
         NEW q \in RequestSet, q.op \in OnRoles, HasReadTruly(q)
  PROVE  /\ q.op = "leave" => q.ctx # "none" /\ role'[q.user] = q.ctx
         /\ q.at = "checked" /\ q.op \in {"change", "remove"} => role'[q.target] # "none"
         /\ q.at = "checked" /\ (\/ q.op = "change" /\ role'[q.target] = "owner" /\ q.role # "owner"
                                 \/ q.op = "remove" /\ role'[q.target] = "owner"
                                 \/ q.op = "leave" /\ role'[q.user] = "owner") => SeveralOwners'
<1>1. SeveralOwners => SeveralOwners'
  BY DEF SeveralOwners, Owners
<1> QED BY <1>1, RoleRequests DEF HasReadTruly, TakesOwner

LEMMA OwnerStep == TypeOK /\ OwnerInv /\ [Next]_vars => OwnerInv'
<1> SUFFICES ASSUME TypeOK, OwnerInv, [Next]_vars, ~overtaken'
             PROVE  /\ AlwaysAnOwner'
                    /\ \A r \in Requests : req'[r].op \in OnRoles => HasReadTruly(req[r])'
  BY DEF OwnerInv
<1>n. ~overtaken
  BY DEF Next, vars, Authorize, Check, Fail, Write, WriteInvite, WriteAccept, WriteRevoke,
     WriteChange, WriteRemove, WriteLeave, WriteDelete, Overtakes, Expire
<1>o. PICK o \in Users : role[o] = "owner"
  BY <1>n DEF OwnerInv, AlwaysAnOwner, Owners
<1>q. \A r \in Requests : req[r] \in RequestSet
  BY DEF TypeOK, RequestSet
<1>h. \A r \in Requests : req[r].op \in OnRoles => HasReadTruly(req[r])
  BY <1>n DEF OwnerInv
<1> DEFINE Goal == /\ AlwaysAnOwner'
                   /\ \A r \in Requests : req'[r].op \in OnRoles => HasReadTruly(req[r])'
(* Nobody loses a role.                                                     *)
<1>k. ASSUME \A u \in Users : role[u] # "none" => role'[u] = role[u],
             NEW r \in Requests, \A s \in Requests : s # r => req'[s] = req[s],
             req'[r].op \in OnRoles => HasReadTruly(req[r])'
      PROVE  Goal
  <2>1. AlwaysAnOwner'
    BY <1>k, <1>o DEF AlwaysAnOwner, Owners
  <2>2. ASSUME NEW s \in Requests, s # r, req'[s].op \in OnRoles PROVE HasReadTruly(req[s])'
    <3>1. req'[s] = req[s] /\ req[s] \in RequestSet /\ req[s].op \in OnRoles
      BY <1>k, <1>q, <2>2
    <3>2. HasReadTruly(req[s])
      BY <1>h, <3>1
    <3> QED BY <1>k, <3>1, <3>2, JoinsKeep DEF HasReadTruly, TakesOwner
  <2> QED BY <1>k, <2>1, <2>2
<1>d. ASSUME NEW r \in Requests, Done(r) PROVE /\ req'[r].op \notin OnRoles
                                               /\ \A s \in Requests : s # r => req'[s] = req[s]
  BY <1>d DEF Done, TypeOK, NoRequest, OnRoles
(* A role is taken, but not the last owner's.                               *)
<1>t. ASSUME NEW r \in Requests, Done(r), Overtakes(r), NEW p \in Users, role'[p] = "owner" PROVE Goal
  <2>1. \A s \in Requests : s # r => req[s].op \notin OnRoles
    BY <1>t DEF Overtakes
  <2> QED BY <1>t, <1>d, <2>1 DEF AlwaysAnOwner, Owners
<1>1. ASSUME NEW r \in Requests, Authorize(r) PROVE Goal
  <2>1. UNCHANGED role /\ \A s \in Requests : s # r => req'[s] = req[s]
    BY <1>1 DEF Authorize, TypeOK
  <2>2. req'[r].at = "authorized"
    BY <1>1 DEF Authorize, TypeOK
  <2>3. req'[r].op = "leave" => role[req'[r].user] = req'[r].ctx /\ req'[r].ctx # "none"
    <3>1. CASE req'[r] \in AnswerReq
      BY <3>1 DEF AnswerReq
    <3>2. CASE req'[r] \in MemberReq /\ role[req'[r].user] = req'[r].ctx
      BY <3>2 DEF MemberReq, InviteReq, RevokeReq, ChangeReq, RemoveReq, OwnReq, Roles, Privileged
    <3> QED BY <1>1, <3>1, <3>2 DEF Authorize, TypeOK
  <2> QED BY <1>k, <2>1, <2>2, <2>3 DEF HasReadTruly
<1>2. ASSUME NEW r \in Requests, Check(r) PROVE Goal
  <2>1. UNCHANGED role /\ \A s \in Requests : s # r => req'[s] = req[s]
    BY <1>2 DEF Check, TypeOK
  <2>2. req'[r] = [req[r] EXCEPT !.at = "checked"] /\ req[r].at = "authorized"
    BY <1>2 DEF Check, TypeOK
  <2>3. SeveralOwners => SeveralOwners'
    BY <2>1 DEF SeveralOwners, Owners
  <2>4. CASE req[r] \in ChangeReq
    <3>1. MayChange(req[r])
      BY <1>2, <2>4 DEF Check, ChangeReq, MayInvite, MayAccept, MayDecline, MayRevoke,
         MayRemove, MayLeave, MayDelete
    <3>2. /\ req'[r].op = "change" /\ req'[r].target = req[r].target
          /\ req'[r].role = req[r].role
      BY <2>2, <2>4 DEF ChangeReq
    <3>3. HasReadTruly(req[r])'
      BY <2>1, <2>3, <3>1, <3>2 DEF HasReadTruly, TakesOwner, MayChange
    <3> QED BY <1>k, <2>1, <3>3
  <2>5. CASE req[r] \in RemoveReq
    <3>1. MayRemove(req[r])
      BY <1>2, <2>5 DEF Check, RemoveReq, MayInvite, MayAccept, MayDecline, MayRevoke,
         MayChange, MayLeave, MayDelete
    <3>2. req'[r].op = "remove" /\ req'[r].target = req[r].target
      BY <2>2, <2>5 DEF RemoveReq
    <3>3. HasReadTruly(req[r])'
      BY <2>1, <2>3, <3>1, <3>2 DEF HasReadTruly, TakesOwner, MayRemove
    <3> QED BY <1>k, <2>1, <3>3
  <2>6. CASE req[r] \in OwnReq
    <3>1. /\ req'[r].op = req[r].op /\ req'[r].user = req[r].user /\ req'[r].ctx = req[r].ctx
      BY <2>2, <2>6 DEF OwnReq
    <3>2. req[r].op = "leave" => MayLeave(req[r]) /\ HasReadTruly(req[r])
      BY <1>2, <1>h DEF Check, MayInvite, MayAccept, MayDecline, MayRevoke, MayChange,
         MayRemove, MayDelete, OnRoles
    <3>3. req[r].op = "leave" => HasReadTruly(req[r])'
      BY <2>1, <2>3, <3>1, <3>2 DEF HasReadTruly, TakesOwner, MayLeave
    <3>4. req'[r].op \in OnRoles => req[r].op = "leave"
      BY <2>6, <3>1 DEF OwnReq, OnRoles
    <3> QED BY <1>k, <2>1, <3>3, <3>4
  <2>7. CASE req[r] \in InviteReq \cup RevokeReq \cup AnswerReq
    <3>1. req'[r].op \notin OnRoles
      BY <2>2, <2>7 DEF InviteReq, RevokeReq, AnswerReq, OnRoles
    <3> QED BY <1>k, <2>1, <3>1
  <2> QED BY <1>q, <2>2, <2>4, <2>5, <2>6, <2>7 DEF RequestSet, MemberReq, NoRequest
<1>3. ASSUME NEW r \in Requests,
             Fail(r) \/ WriteInvite(r) \/ WriteRevoke(r) \/ WriteDelete(r) PROVE Goal
  <2>1. Done(r) /\ UNCHANGED role
    BY <1>3 DEF Fail, WriteInvite, WriteRevoke, WriteDelete, Done
  <2> QED BY <1>d, <1>k, <2>1
<1>4. ASSUME NEW r \in Requests, WriteAccept(r) PROVE Goal
  <2>1. Done(r) /\ \A u \in Users : role[u] # "none" => role'[u] = role[u]
    BY <1>4 DEF WriteAccept, TypeOK
  <2> QED BY <1>d, <1>k, <2>1
<1>5. ASSUME NEW r \in Requests, WriteChange(r) PROVE Goal
  <2> DEFINE q == req[r]
  <2>1. q.at = "checked" /\ q.op = "change" /\ Done(r) /\ Overtakes(r)
    BY <1>5 DEF WriteChange
  <2>2. \A u \in Users : u # q.target \/ q.role = "owner" =>
           (role[u] = "owner" => role'[u] = "owner")
    BY <1>5 DEF WriteChange, TypeOK
  <2>3. CASE role[q.target] = "owner" /\ q.role # "owner"
    <3>1. SeveralOwners
      BY <1>h, <2>1, <2>3 DEF HasReadTruly, TakesOwner, OnRoles
    <3>2. PICK p \in Users : role[p] = "owner" /\ p # q.target
      BY <3>1, AnotherOwner
    <3> QED BY <1>t, <2>1, <2>2, <3>2
  <2>4. CASE ~(role[q.target] = "owner" /\ q.role # "owner")
    <3>1. role'[o] = "owner"
      BY <1>o, <2>2, <2>4
    <3> QED BY <1>t, <2>1, <3>1
  <2> QED BY <2>3, <2>4
<1>6. ASSUME NEW r \in Requests, NEW u, role' = [role EXCEPT ![u] = "none"], Done(r),
             Overtakes(r), role[u] = "owner" => SeveralOwners
      PROVE  Goal
  <2>1. PICK p \in Users : role[p] = "owner" /\ p # u
    BY <1>6, <1>o, AnotherOwner
  <2>2. role'[p] = "owner"
    BY <1>6, <2>1 DEF TypeOK
  <2> QED BY <1>6, <1>t, <2>2
<1>7. ASSUME NEW r \in Requests, WriteRemove(r) PROVE Goal
  <2>1. role[req[r].target] = "owner" => SeveralOwners
    BY <1>7, <1>h DEF WriteRemove, HasReadTruly, TakesOwner, OnRoles
  <2> QED BY <1>6, <1>7, <2>1 DEF WriteRemove
<1>8. ASSUME NEW r \in Requests, WriteLeave(r) PROVE Goal
  <2>1. role[req[r].user] = "owner" => SeveralOwners
    BY <1>8, <1>h DEF WriteLeave, HasReadTruly, TakesOwner, OnRoles
  <2> QED BY <1>6, <1>8, <2>1 DEF WriteLeave
<1>9. ASSUME UNCHANGED <<role, req>> PROVE Goal
  BY <1>9, <1>o, <1>h DEF AlwaysAnOwner, Owners, SeveralOwners, HasReadTruly, TakesOwner
<1> HIDE DEF Goal
<1>10. Goal
  BY <1>1, <1>2, <1>3, <1>4, <1>5, <1>7, <1>8, <1>9 DEF Next, Write, Expire, vars
<1> QED BY <1>10 DEF Goal

(* For any numbers of users, invitations and requests in progress: until a  *)
(* role is written while another request on roles is in progress, whoever   *)
(* leaves, is removed, is given another role or joins, an owner remains.    *)
THEOREM OwnerRemains == Spec => []OwnerUnlessOvertaken
<1>1. TypeOK /\ OwnerInv /\ [Next]_vars => OwnerInv'
  BY OwnerStep
<1>2. OwnerInv => OwnerUnlessOvertaken
  BY DEF OwnerInv, OwnerUnlessOvertaken
<1> QED
  BY <1>1, <1>2, TypeInit, TypeStep, OwnerInit, PTL DEF Spec

-----------------------------------------------------------------------------
(* Seats: who is a member, or will be by a checked acceptance although no   *)
(* counted invitation stands for it any more; the counted invitations; and  *)
(* the invites that have found room.                                        *)
Accepting(r) == req[r].at = "checked" /\ req[r].op = "accept"
Holds(r) == Accepting(r) /\ req[r].inv \notin Counted
Takers   == {u \in Users : role[u] # "none" \/ \E r \in Requests : Holds(r) /\ req[r].user = u}
Inviting == {r \in Requests : req[r].at = "checked" /\ req[r].op = "invite"}

SeatsInv ==
    Cardinality(Takers) + Cardinality(Counted) + Cardinality(Inviting)
        < MemberLimit + Cardinality(Requests)

LEMMA SeatsAreFinite ==
  /\ IsFiniteSet(Members) /\ Cardinality(Members) \in Nat
  /\ IsFiniteSet(Takers) /\ Cardinality(Takers) \in Nat
  /\ IsFiniteSet(Counted) /\ Cardinality(Counted) \in Nat
  /\ IsFiniteSet(Inviting) /\ Cardinality(Inviting) \in Nat
  /\ Cardinality(Requests) \in Nat
<1>1. /\ Members \subseteq Users /\ Takers \subseteq Users
      /\ Counted \subseteq Invitations /\ Inviting \subseteq Requests
  BY DEF Members, Takers, Counted, Inviting
<1> QED BY <1>1, FS_Subset, FS_CardinalityType

LEMMA Fewer ==
  ASSUME NEW S, IsFiniteSet(S), NEW T, T \subseteq S
  PROVE  Cardinality(T) <= Cardinality(S)
BY FS_Subset

LEMMA OneMore ==
  ASSUME NEW S, IsFiniteSet(S), NEW x, NEW T, T \subseteq S \cup {x}
  PROVE  Cardinality(T) <= Cardinality(S) + 1
<1>1. Cardinality(S) \in Nat
  BY FS_CardinalityType
<1>2. IsFiniteSet(S \cup {x}) /\ Cardinality(S \cup {x}) <= Cardinality(S) + 1
  <2>1. /\ x \in S => Cardinality(S \cup {x}) = Cardinality(S)
        /\ x \notin S => Cardinality(S \cup {x}) = Cardinality(S) + 1
        /\ IsFiniteSet(S \cup {x})
    BY FS_AddElement
  <2> QED BY <1>1, <2>1
<1>3. Cardinality(T) <= Cardinality(S \cup {x}) /\ Cardinality(T) \in Nat
  BY <1>2, FS_Subset, FS_CardinalityType
<1>4. Cardinality(S \cup {x}) \in Nat
  BY <1>2, FS_CardinalityType
<1> QED BY <1>1, <1>2, <1>3, <1>4

LEMMA OneLess ==
  ASSUME NEW S, IsFiniteSet(S), NEW x \in S, NEW T, T \subseteq S \ {x}
  PROVE  Cardinality(T) <= Cardinality(S) - 1
<1>1. IsFiniteSet(S \ {x}) /\ Cardinality(S \ {x}) = Cardinality(S) - 1
  BY FS_RemoveElement
<1> QED BY <1>1, Fewer

(* A step that needs no more seats, and one in which a counted invitation   *)
(* is given up for the user it was for.                                     *)
LEMMA SeatsStay ==
  ASSUME SeatsInv, Takers' \subseteq Takers, Counted' \subseteq Counted,
         Inviting' \subseteq Inviting
  PROVE  SeatsInv'
<1>1. /\ Cardinality(Takers') <= Cardinality(Takers)
      /\ Cardinality(Counted') <= Cardinality(Counted)
      /\ Cardinality(Inviting') <= Cardinality(Inviting)
  BY SeatsAreFinite, Fewer
<1>2. /\ Cardinality(Takers') \in Nat /\ Cardinality(Counted') \in Nat
      /\ Cardinality(Inviting') \in Nat
  BY SeatsAreFinite, FS_Subset, FS_CardinalityType
<1> QED BY <1>1, <1>2, SeatsAreFinite DEF SeatsInv

LEMMA SeatPasses ==
  ASSUME SeatsInv, NEW u, NEW j \in Counted,
         Takers' \subseteq Takers \cup {u}, Counted' \subseteq Counted \ {j},
         Inviting' \subseteq Inviting
  PROVE  SeatsInv'
<1>1. /\ Cardinality(Takers') <= Cardinality(Takers) + 1
      /\ Cardinality(Counted') <= Cardinality(Counted) - 1
      /\ Cardinality(Inviting') <= Cardinality(Inviting)
  BY SeatsAreFinite, Fewer, OneMore, OneLess
<1>2. /\ Cardinality(Takers') \in Nat /\ Cardinality(Counted') \in Nat
      /\ Cardinality(Inviting') \in Nat
  <2>1. IsFiniteSet(Takers \cup {u})
    BY SeatsAreFinite, FS_AddElement
  <2> QED BY <2>1, SeatsAreFinite, FS_Subset, FS_CardinalityType
<1> QED BY <1>1, <1>2, SeatsAreFinite DEF SeatsInv

(* Whoever will take a seat beyond the counted ones has a request of his    *)
(* own in progress, and no invite is one of those.                          *)
LEMMA TakersHaveRequests ==
  ASSUME NEW M, IsFiniteSet(M), NEW T, NEW I, NEW A, I \subseteq Requests, A \subseteq Requests,
         A \cap I = {}, NEW who, \A u \in T \ M : \E r \in A : who[r] = u
  PROVE  Cardinality(T) + Cardinality(I) <= Cardinality(M) + Cardinality(Requests)
<1> DEFINE B == {r \in A : who[r] \in T \ M}
           f == [r \in B |-> who[r]]
<1>1. /\ IsFiniteSet(B) /\ Cardinality(B) \in Nat /\ IsFiniteSet(I) /\ Cardinality(I) \in Nat
      /\ Cardinality(M) \in Nat /\ Cardinality(Requests) \in Nat
  BY FS_Subset, FS_CardinalityType
<1>2. f \in Surjection(B, T \ M)
  <2>1. f \in [B -> T \ M]
    OBVIOUS
  <2>2. \A u \in T \ M : \E r \in B : f[r] = u
    OBVIOUS
  <2> QED BY <2>1, <2>2 DEF Surjection
<1> HIDE DEF f
<1>3. /\ IsFiniteSet(T \ M) /\ Cardinality(T \ M) <= Cardinality(B)
      /\ Cardinality(T \ M) \in Nat
  BY <1>1, <1>2, FS_Surjection, FS_CardinalityType
<1>4. B \cap I = {} /\ B \cup I \subseteq Requests
  OBVIOUS
<1> HIDE DEF B
<1>5. Cardinality(B) + Cardinality(I) <= Cardinality(Requests)
  <2>1. Cardinality(B \cup I) = Cardinality(B) + Cardinality(I) - Cardinality(B \cap I)
    BY <1>1, FS_Union
  <2>2. Cardinality(B \cap I) = 0
    BY <1>4, FS_EmptySet
  <2>3. Cardinality(B \cup I) <= Cardinality(Requests)
    BY <1>4, Fewer
  <2> QED BY <1>1, <2>1, <2>2, <2>3
<1>6. Cardinality(T) <= Cardinality(M) + Cardinality(T \ M) /\ Cardinality(T) \in Nat
  <2> DEFINE D == T \ M
  <2>1. /\ IsFiniteSet(M \cup D)
        /\ Cardinality(M \cup D) = Cardinality(M) + Cardinality(D) - Cardinality(M \cap D)
    BY <1>3, FS_Union
  <2>2. M \cap D = {} /\ T \subseteq M \cup D
    OBVIOUS
  <2>3. Cardinality(M \cap D) = 0
    BY <2>2, FS_EmptySet
  <2>4. Cardinality(T) <= Cardinality(M \cup D) /\ Cardinality(T) \in Nat
    BY <2>1, <2>2, FS_Subset, FS_CardinalityType
  <2> QED BY <1>1, <1>3, <2>1, <2>3, <2>4
<1> QED BY <1>1, <1>3, <1>5, <1>6

LEMMA SeatsInit == Init => SeatsInv
<1> SUFFICES ASSUME Init PROVE SeatsInv
  OBVIOUS
<1>1. Takers = {Founder} /\ Counted = {} /\ Inviting = {}
  BY DEF Init, Takers, Counted, Inviting, Pending, NoInvitation, Holds, Accepting, NoRequest
<1>2. Cardinality(Takers) = 1 /\ Cardinality(Counted) = 0 /\ Cardinality(Inviting) = 0
  BY <1>1, FS_Singleton, FS_EmptySet
<1>3. Cardinality(Requests) # 0
  BY FS_EmptySet
<1> QED BY <1>2, <1>3, SeatsAreFinite DEF SeatsInv

LEMMA SeatsFiniteAfter ==
  /\ Cardinality(Takers') \in Nat /\ Cardinality(Counted') \in Nat
  /\ Cardinality(Inviting') \in Nat
<1>1. /\ Takers' \subseteq Users /\ Counted' \subseteq Invitations
      /\ Inviting' \subseteq Requests
  BY DEF Takers, Counted, Inviting
<1> QED BY <1>1, FS_Subset, FS_CardinalityType

(* Only the request at hand moves on; it is over, or takes no seat.         *)
Moves(r) ==
    /\ \A s \in Requests : s # r => req'[s] = req[s]
    /\ ~(req'[r].at = "checked" /\ req'[r].op \in {"accept", "invite"})

LEMMA DoneMoves ==
  ASSUME TypeOK, NEW r \in Requests, Done(r)
  PROVE  Moves(r)
BY DEF Moves, Done, TypeOK, NoRequest

(* Who takes a seat after such a step: whoever did, the new members, and    *)
(* the user of an invitation that no longer counts.                         *)
LEMMA TakersMove ==
  ASSUME NEW r \in Requests, Moves(r)
  PROVE  /\ Inviting' \subseteq Inviting
         /\ r \in Inviting => Inviting' \subseteq Inviting \ {r}
         /\ \A u \in Takers' : \/ u \in Takers \/ role'[u] # "none"
                               \/ \E s \in Requests : /\ Accepting(s) /\ req[s].user = u
                                                      /\ req[s].inv \in Counted \ Counted'
BY DEF Moves, Inviting, Takers, Holds, Accepting

LEMMA SeatsStep == TypeOK /\ AnswersOwn /\ SeatsInv /\ [Next]_vars => SeatsInv'
<1> SUFFICES ASSUME TypeOK, AnswersOwn, SeatsInv, [Next]_vars PROVE SeatsInv'
  OBVIOUS
<1>q. \A r \in Requests : req[r] \in RequestSet
  BY DEF TypeOK, RequestSet
<1>a. ASSUME NEW s \in Requests, Accepting(s)
      PROVE  req[s].inv \in Invitations /\ inv[req[s].inv].issued /\ inv[req[s].inv].user = req[s].user
  BY <1>a, <1>q, RequestFields DEF Accepting, AnswersOwn, AnswerReq
(* Invitation j does not count any more, and only its user may join.        *)
<1>m. ASSUME NEW r \in Requests, Moves(r), NEW j \in Invitations,
             Counted' = Counted \ {j},
             \A u \in Users : role'[u] # "none" => \/ u \in Takers
                                                   \/ j \in Counted /\ u = inv[j].user
      PROVE  SeatsInv'
  <2>1. Inviting' \subseteq Inviting
    BY <1>m, TakersMove
  <2>2. ASSUME NEW u \in Takers', u \notin Takers PROVE u = inv[j].user /\ j \in Counted
    <3>1. u \in Users
      BY DEF Takers
    <3>2. CASE role'[u] # "none"
      BY <1>m, <2>2, <3>1, <3>2
    <3>3. CASE \E s \in Requests : /\ Accepting(s) /\ req[s].user = u
                                   /\ req[s].inv \in Counted \ Counted'
      BY <1>a, <1>m, <3>3
    <3> QED BY <1>m, <2>2, <3>2, <3>3, TakersMove
  <2>3. CASE j \in Counted
    <3>1. Takers' \subseteq Takers \cup {inv[j].user} /\ Counted' \subseteq Counted \ {j}
      BY <1>m, <2>2
    <3> QED BY <2>1, <2>3, <3>1, SeatPasses
  <2>4. CASE j \notin Counted
    <3>1. Takers' \subseteq Takers /\ Counted' \subseteq Counted
      BY <1>m, <2>2, <2>4
    <3> QED BY <2>1, <3>1, SeatsStay
  <2> QED BY <2>3, <2>4
(* No invitation stops to count and nobody joins.                           *)
<1>n. ASSUME NEW r \in Requests, Moves(r), Counted' = Counted,
             \A u \in Users : role'[u] # "none" => role[u] # "none"
      PROVE  SeatsInv'
  <2>1. Inviting' \subseteq Inviting
    BY <1>n, TakersMove
  <2>2. Takers' \subseteq Takers
    <3>1. \A u \in Users : role[u] # "none" => u \in Takers
      BY DEF Takers
    <3>2. Takers' \subseteq Users
      BY DEF Takers
    <3> QED BY <1>n, <3>1, <3>2, TakersMove
  <2> QED BY <1>n, <2>1, <2>2, SeatsStay
<1>1. ASSUME NEW r \in Requests, Authorize(r) PROVE SeatsInv'
  <2>1. UNCHANGED <<role, inv>> /\ Moves(r)
    BY <1>1 DEF Authorize, Moves, TypeOK
  <2>2. Counted' = Counted
    BY <2>1 DEF Counted, Pending
  <2> QED BY <1>n, <2>1, <2>2
<1>2. ASSUME NEW r \in Requests, Check(r) PROVE SeatsInv'
  <2>1. UNCHANGED <<role, inv>> /\ \A s \in Requests : s # r => req'[s] = req[s]
    BY <1>2 DEF Check, TypeOK
  <2>2. req'[r] = [req[r] EXCEPT !.at = "checked"] /\ req[r].at = "authorized"
    BY <1>2 DEF Check, TypeOK
  <2>3. Counted' = Counted /\ Members' = Members
    BY <2>1 DEF Counted, Pending, Members
  <2>4. CASE req[r] \in InviteReq
    <3>1. MayInvite(req[r])
      BY <1>2, <2>4 DEF Check, InviteReq, MayAccept, MayDecline, MayRevoke, MayChange,
         MayRemove, MayLeave, MayDelete
    <3>2. Cardinality(Members) + Cardinality(Counted) < MemberLimit
      BY <3>1 DEF MayInvite, HasRoom
    <3>3. Cardinality(Takers') + Cardinality(Inviting') <= Cardinality(Members') + Cardinality(Requests)
      <4> DEFINE A == {q \in Requests : Holds(q)'}
                 who == [q \in Requests |-> req'[q].user]
      <4>1. \A u \in Takers' \ Members' : \E q \in A : who[q] = u
        BY DEF Takers, Members
      <4>2. A \cap Inviting' = {} /\ A \subseteq Requests /\ Inviting' \subseteq Requests
        BY DEF Inviting, Holds, Accepting
      <4> HIDE DEF A, who
      <4>3. IsFiniteSet(Members')
        BY <2>3, SeatsAreFinite
      <4> QED BY <4>1, <4>2, <4>3, TakersHaveRequests
    <3>4. Cardinality(Takers') \in Nat /\ Cardinality(Inviting') \in Nat
      <4>1. Takers' \subseteq Users /\ Inviting' \subseteq Requests
        BY DEF Takers, Inviting
      <4> QED BY <4>1, FS_Subset, FS_CardinalityType
    <3> QED BY <2>3, <3>2, <3>3, <3>4, SeatsAreFinite DEF SeatsInv
  <2>5. CASE req[r] \in AnswerReq
    <3>1. /\ req'[r].op = req[r].op /\ req'[r].inv = req[r].inv /\ req'[r].user = req[r].user
          /\ req[r].op \in {"accept", "decline"}
      BY <2>2, <2>5 DEF AnswerReq
    <3>2. req[r].op = "accept" => req[r].inv \in Counted
      <4>1. req[r].op = "accept" => MayAccept(req[r])
        BY <1>2, <2>5 DEF Check, AnswerReq, MayInvite, MayDecline, MayRevoke, MayChange,
           MayRemove, MayLeave, MayDelete
      <4> QED BY <2>5, <4>1 DEF MayAccept, OpenForUser, Counted, AnswerReq
    <3>3. \A s \in Requests : Holds(s)' => Holds(s) /\ req'[s] = req[s]
      BY <2>1, <2>3, <3>1, <3>2 DEF Holds, Accepting
    <3>4. Takers' \subseteq Takers
      BY <2>1, <3>3 DEF Takers
    <3>5. Inviting' \subseteq Inviting
      BY <2>1, <3>1 DEF Inviting
    <3> QED BY <2>3, <3>4, <3>5, SeatsStay
  <2>6. CASE req[r] \in RevokeReq \cup ChangeReq \cup RemoveReq \cup OwnReq
    <3>1. Moves(r)
      BY <2>1, <2>2, <2>6 DEF Moves, RevokeReq, ChangeReq, RemoveReq, OwnReq
    <3> QED BY <1>n, <2>1, <2>3, <3>1
  <2> QED BY <1>q, <2>2, <2>4, <2>5, <2>6 DEF RequestSet, MemberReq, NoRequest
<1>3. ASSUME NEW r \in Requests, Fail(r) \/ WriteDelete(r) PROVE SeatsInv'
  <2>1. UNCHANGED <<role, inv>> /\ Done(r)
    BY <1>3 DEF Fail, WriteDelete, Done
  <2>2. Counted' = Counted
    BY <2>1 DEF Counted, Pending
  <2> QED BY <1>n, <2>1, <2>2, DoneMoves
<1>4. ASSUME NEW r \in Requests, WriteInvite(r) PROVE SeatsInv'
  <2> DEFINE u == req[r].target
             old == {i \in Counted : inv[i].user = u}
  <2>1. Moves(r) /\ UNCHANGED role /\ r \in Inviting
    BY <1>4, DoneMoves DEF WriteInvite, Inviting
  <2>2. PICK new \in Invitations :
          /\ ~inv[new].issued
          /\ inv' = [i \in Invitations |->
              IF i = new THEN [NoInvitation EXCEPT !.issued = TRUE, !.user = req[r].target,
                                                   !.role = req[r].role]
              ELSE IF Pending(i) /\ inv[i].user = req[r].target
                   THEN [inv[i] EXCEPT !.revoked = TRUE] ELSE inv[i]]
    BY <1>4 DEF WriteInvite
  <2>3. Counted' = (Counted \ old) \cup {new}
    <3>1. new \in Counted'
      BY <2>2 DEF Counted, Pending, NoInvitation
    <3>2. ASSUME NEW i \in Invitations, i # new PROVE i \in Counted' <=> i \in Counted \ old
      BY <2>2, <3>2 DEF Counted, Pending, TypeOK, InvType
    <3>3. new \notin Counted /\ Counted \subseteq Invitations /\ Counted' \subseteq Invitations
      BY <2>2 DEF Counted, Pending
    <3> QED BY <3>1, <3>2, <3>3
  <2>4. Cardinality(Inviting') <= Cardinality(Inviting) - 1
    BY <2>1, SeatsAreFinite, TakersMove, OneLess
  <2>5. ASSUME NEW x \in Takers', x \notin Takers PROVE x = u /\ old # {}
    <3>1. ~(role'[x] # "none")
      BY <2>1, <2>5 DEF Takers
    <3>2. \E s \in Requests : Accepting(s) /\ req[s].user = x /\ req[s].inv \in Counted \ Counted'
      BY <2>1, <2>5, <3>1, TakersMove
    <3> QED BY <1>a, <2>3, <3>2
  <2> HIDE DEF old, u
  <2>6. CASE old = {}
    <3>1. Takers' \subseteq Takers /\ Counted' \subseteq Counted \cup {new}
      BY <2>3, <2>5, <2>6
    <3>2. /\ Cardinality(Takers') <= Cardinality(Takers)
          /\ Cardinality(Counted') <= Cardinality(Counted) + 1
      BY <3>1, SeatsAreFinite, Fewer, OneMore
    <3> QED BY <2>4, <3>2, SeatsFiniteAfter, SeatsAreFinite DEF SeatsInv
  <2>7. CASE old # {}
    <3>1. PICK k \in Counted : k \in old
      BY <2>7 DEF old
    <3>2. Takers' \subseteq Takers \cup {u} /\ Counted' \subseteq (Counted \ {k}) \cup {new}
      BY <2>3, <2>5, <3>1
    <3>3. Cardinality(Takers') <= Cardinality(Takers) + 1
      BY <3>2, SeatsAreFinite, OneMore
    <3>4. Cardinality(Counted') <= Cardinality(Counted)
      <4>1. IsFiniteSet(Counted \ {k}) /\ Cardinality(Counted \ {k}) = Cardinality(Counted) - 1
        BY SeatsAreFinite, FS_RemoveElement
      <4>2. Cardinality(Counted') <= Cardinality(Counted \ {k}) + 1
        BY <3>2, <4>1, OneMore
      <4> QED BY <4>1, <4>2, SeatsAreFinite
    <3> QED BY <2>4, <3>3, <3>4, SeatsFiniteAfter, SeatsAreFinite DEF SeatsInv
  <2> QED BY <2>6, <2>7
<1>5. ASSUME NEW r \in Requests, WriteAccept(r) PROVE SeatsInv'
  <2> DEFINE j == req[r].inv
             u == req[r].user
  <2>1. Accepting(r) /\ Moves(r)
    BY <1>5, DoneMoves DEF WriteAccept, Accepting
  <2>2. j \in Invitations /\ inv[j].user = u
    BY <1>a, <2>1
  <2>3. Counted' = Counted \ {j}
    BY <1>5, <2>2 DEF WriteAccept, Counted, Pending, TypeOK, InvType
  <2>4. \A x \in Users : role'[x] # "none" => role[x] # "none" \/ x = u
    BY <1>5 DEF WriteAccept, TypeOK
  <2>5. j \notin Counted => (u \in Users => u \in Takers)
    BY <2>1 DEF Takers, Holds
  <2>6. \A x \in Users : role[x] # "none" => x \in Takers
    BY DEF Takers
  <2> HIDE DEF j, u
  <2> QED BY <1>m, <2>1, <2>2, <2>3, <2>4, <2>5, <2>6
<1>6. ASSUME NEW r \in Requests, WriteRevoke(r) PROVE SeatsInv'
  <2>1. req[r].inv \in Invitations
    BY <1>6, <1>q, RequestFields DEF WriteRevoke, AnswerReq, RevokeReq
  <2>2. Moves(r) /\ UNCHANGED role
    BY <1>6, DoneMoves DEF WriteRevoke
  <2>3. Counted' = Counted \ {req[r].inv}
    BY <1>6, <2>1 DEF WriteRevoke, Counted, Pending, TypeOK, InvType
  <2>4. \A x \in Users : role[x] # "none" => x \in Takers
    BY DEF Takers
  <2> QED BY <1>m, <2>1, <2>2, <2>3, <2>4
<1>7. ASSUME NEW r \in Requests, WriteChange(r) \/ WriteRemove(r) \/ WriteLeave(r) PROVE SeatsInv'
  <2>1. Done(r) /\ UNCHANGED inv
    BY <1>7 DEF WriteChange, WriteRemove, WriteLeave
  <2>2. Counted' = Counted
    BY <2>1 DEF Counted, Pending
  <2>3. \A u \in Users : role'[u] # "none" => role[u] # "none"
    BY <1>7 DEF WriteChange, WriteRemove, WriteLeave, TypeOK
  <2> QED BY <1>n, <2>1, <2>2, <2>3, DoneMoves
<1>8. ASSUME NEW i \in Invitations, Expire(i) PROVE SeatsInv'
  <2>1. UNCHANGED <<role, req>> /\ i \in Counted
    BY <1>8 DEF Expire, Counted
  <2>2. Counted' = Counted \ {i}
    BY <1>8 DEF Expire, Counted, Pending, TypeOK, InvType
  <2>3. Inviting' = Inviting
    BY <2>1 DEF Inviting
  <2>4. Takers' \subseteq Takers \cup {inv[i].user}
    <3>1. ASSUME NEW u \in Takers', u \notin Takers PROVE u = inv[i].user
      <4>1. PICK s \in Requests : Accepting(s) /\ req[s].user = u /\ req[s].inv \in Counted \ Counted'
        BY <2>1, <3>1 DEF Takers, Holds, Accepting
      <4> QED BY <1>a, <2>2, <4>1
    <3> QED BY <3>1
  <2> QED BY <2>1, <2>2, <2>3, <2>4, SeatPasses
<1>9. CASE UNCHANGED vars
  BY <1>9 DEF vars, SeatsInv, Takers, Holds, Accepting, Inviting, Counted, Pending
<1> QED
  BY <1>1, <1>2, <1>3, <1>4, <1>5, <1>6, <1>7, <1>8, <1>9 DEF Next, Write

(* For any numbers of users, invitations and overlapping requests: members  *)
(* and open invitations together exceed the plan by less than there are     *)
(* requests at a time, which for one request is not at all.                 *)
THEOREM LimitIsKept == Spec => []WithinFreeLimit
<1>1. SeatsInv => WithinFreeLimit
  <2>1. Members \subseteq Takers
    BY DEF Members, Takers
  <2>2. Cardinality(Members) <= Cardinality(Takers)
    BY <2>1, SeatsAreFinite, Fewer
  <2> QED BY <2>2, SeatsAreFinite DEF SeatsInv, WithinFreeLimit
<1> QED
  BY <1>1, TypeInit, TypeStep, AnswersOwnInit, AnswersOwnStep, SeatsInit, SeatsStep, PTL DEF Spec
=============================================================================
