----------------------------- MODULE Membership -----------------------------
(***************************************************************************)
(* Members and invitations of one organization on the free plan.  A request *)
(* is authorized with the role its user has then (OrganizationContext),     *)
(* reads what its command checks, and writes in a commit of its own: three  *)
(* steps, between which other requests commit.  The writes take no locks    *)
(* that matter; only the constraints of the tables are checked again.       *)
(***************************************************************************)
EXTENDS Naturals, FiniteSets

CONSTANTS
    Users,          \* registered and verified users
    Founder,        \* the user who creates the organization
    Invitations,    \* identifiers of invitations (each issued once)
    Requests,       \* requests in progress at the same time
    MemberLimit,    \* members and pending invitations of a free organization
    Offered         \* roles that requests name (a bound: all of them, or fewer)

Privileged == {"owner", "admin"}
Roles == Privileged \cup {"member"}

ASSUME MembershipAssumption ==
    /\ Founder \in Users /\ IsFiniteSet(Users) /\ IsFiniteSet(Invitations)
    /\ Requests # {} /\ IsFiniteSet(Requests)
    /\ MemberLimit \in Nat \ {0} /\ Offered \subseteq Roles

VARIABLES
    org,     \* the organization: "active" or "deleted"
    role,    \* role[u]: organization_role of u, "none" without a row
    inv,     \* inv[i]: the row of invitation i
    req,     \* req[r]: the request in progress
    overtaken \* a write of a role went past another request on roles (history)

vars == <<org, role, inv, req, overtaken>>

(* Rows of organization_invitations; user stands for the invited address.   *)
InvType == {i \in [issued : BOOLEAN, accepted : BOOLEAN, revoked : BOOLEAN,
                   expired : BOOLEAN, user : Users, role : Roles] :
              ~(i.accepted /\ i.revoked)}

NoInvitation == [issued |-> FALSE, accepted |-> FALSE, revoked |-> FALSE,
                 expired |-> FALSE, user |-> Founder, role |-> "member"]

(* A request of user, with the role ctx he was authorized with.             *)
Phases == {"authorized", "checked"}
InviteReq == [op : {"invite"}, at : Phases, user : Users, ctx : Roles,
              target : Users, role : Offered]
AnswerReq == [op : {"accept", "decline"}, at : Phases, user : Users, inv : Invitations]
RevokeReq == [op : {"revoke"}, at : Phases, user : Users, ctx : Roles, inv : Invitations]
ChangeReq == [op : {"change"}, at : Phases, user : Users, ctx : Roles,
              target : Users, role : Offered]
RemoveReq == [op : {"remove"}, at : Phases, user : Users, ctx : Roles, target : Users]
OwnReq    == [op : {"leave", "delete"}, at : Phases, user : Users, ctx : Roles]
MemberReq == InviteReq \cup RevokeReq \cup ChangeReq \cup RemoveReq \cup OwnReq

NoRequest == [op |-> "none", at |-> "idle"]

Members == {u \in Users : role[u] # "none"}
Owners  == {u \in Users : role[u] = "owner"}

Pending(i) == inv[i].issued /\ ~inv[i].accepted /\ ~inv[i].revoked
Counted == {i \in Invitations : Pending(i) /\ ~inv[i].expired}

(* count_total_members_and_pending against the limit.                       *)
RoomForOneMore == Cardinality(Members) + Cardinality(Counted) <= MemberLimit
HasRoom == Cardinality(Members) + Cardinality(Counted) < MemberLimit

(* count_active_owners > 1.                                                 *)
NoOwnerCheck == TRUE
SeveralOwners == \E a, b \in Owners : a # b

-----------------------------------------------------------------------------
(* AuthorizeOrganization, or for a received invitation only the user.       *)
Authorize(r) ==
    /\ req[r].at = "idle"
    /\ \/ \E q \in MemberReq :
            /\ q.at = "authorized"
            /\ org = "active" /\ role[q.user] = q.ctx
            /\ req' = [req EXCEPT ![r] = q]
       \/ \E q \in AnswerReq :
            /\ q.at = "authorized"
            /\ req' = [req EXCEPT ![r] = q]
    /\ UNCHANGED <<org, role, inv, overtaken>>

MayInvite(q) ==
    /\ q.op = "invite"
    /\ q.ctx \in Privileged
    /\ q.role \in Privileged => q.ctx = "owner"
    /\ HasRoom
    /\ role[q.target] = "none"

(* Accepting and declining: an open invitation of one's own.                *)
OpenForUser(q) == Pending(q.inv) /\ ~inv[q.inv].expired /\ inv[q.inv].user = q.user

MayAccept(q)  == q.op = "accept" /\ OpenForUser(q) /\ role[q.user] = "none"
MayDecline(q) == q.op = "decline" /\ OpenForUser(q)
MayRevoke(q)  == q.op = "revoke" /\ q.ctx \in Privileged /\ Pending(q.inv)

MayChange(q) ==
    /\ q.op = "change" /\ q.ctx = "owner"
    /\ role[q.target] # "none"
    /\ role[q.target] = "owner" /\ q.role # "owner" => SeveralOwners

MayRemove(q) ==
    /\ q.op = "remove"
    /\ role[q.target] # "none"
    /\ role[q.target] = "owner" => SeveralOwners
    /\ q.target # q.user =>
         /\ q.ctx # "member"
         /\ q.ctx = "admin" => role[q.target] \notin Privileged

(* The check uses the role the request was authorized with.                 *)
MayLeave(q) == q.op = "leave" /\ (q.ctx = "owner" => SeveralOwners)

MayDelete(q) == q.op = "delete" /\ q.ctx = "owner"

Check(r) ==
    /\ req[r].at = "authorized"
    /\ LET q == req[r] IN
         \/ MayInvite(q) \/ MayAccept(q) \/ MayDecline(q) \/ MayRevoke(q)
         \/ MayChange(q) \/ MayRemove(q) \/ MayLeave(q) \/ MayDelete(q)
    /\ req' = [req EXCEPT ![r].at = "checked"]
    /\ UNCHANGED <<org, role, inv, overtaken>>

(* A check refuses, a constraint refuses the commit, or the request dies:   *)
(* nothing is written.                                                      *)
Fail(r) ==
    /\ req[r].at # "idle"
    /\ req' = [req EXCEPT ![r] = NoRequest]
    /\ UNCHANGED <<org, role, inv, overtaken>>

-----------------------------------------------------------------------------
(* The writes.                                                              *)

Done(r) == req' = [req EXCEPT ![r] = NoRequest]

(* CHECK ck_organization_invitations_terminal_state.                        *)
Unconstrained(i) == TRUE
MayBeAccepted(i) == ~inv[i].revoked
MayBeRevoked(i)  == ~inv[i].accepted

(* create_invitation: earlier open invitations of the address are revoked.  *)
WriteInvite(r) ==
    LET q == req[r] IN
    /\ q.at = "checked" /\ q.op = "invite"
    /\ \E new \in Invitations :
         /\ ~inv[new].issued
         /\ inv' = [i \in Invitations |->
              IF i = new THEN [NoInvitation EXCEPT !.issued = TRUE, !.user = q.target,
                                                   !.role = q.role]
              ELSE IF Pending(i) /\ inv[i].user = q.target
                   THEN [inv[i] EXCEPT !.revoked = TRUE] ELSE inv[i]]
    /\ Done(r) /\ UNCHANGED <<org, role, overtaken>>

(* accept_invitation: an active member keeps the role he has.               *)
WriteAccept(r) ==
    LET q == req[r] IN
    /\ q.at = "checked" /\ q.op = "accept"
    /\ MayBeAccepted(q.inv)
    /\ inv' = [inv EXCEPT ![q.inv].accepted = TRUE]
    /\ role' = [role EXCEPT ![q.user] = IF @ = "none" THEN inv[q.inv].role ELSE @]
    /\ Done(r) /\ UNCHANGED <<org, overtaken>>

(* revoke_invitation and decline_invitation: one UPDATE by id.              *)
WriteRevoke(r) ==
    LET q == req[r] IN
    /\ q.at = "checked" /\ q.op \in {"revoke", "decline"}
    /\ MayBeRevoked(q.inv)
    /\ inv' = [inv EXCEPT ![q.inv].revoked = TRUE]
    /\ Done(r) /\ UNCHANGED <<org, role, overtaken>>

(* What the checks of other requests on roles have read is no longer so.    *)
OnRoles == {"change", "remove", "leave"}
Overtakes(r) == overtaken' = (overtaken \/ \E s \in Requests \ {r} : req[s].op \in OnRoles)

WriteChange(r) ==
    LET q == req[r] IN
    /\ q.at = "checked" /\ q.op = "change"
    /\ role' = [role EXCEPT ![q.target] = IF @ = "none" THEN @ ELSE q.role]
    /\ Overtakes(r) /\ Done(r) /\ UNCHANGED <<org, inv>>

WriteRemove(r) ==
    LET q == req[r] IN
    /\ q.at = "checked" /\ q.op = "remove"
    /\ role' = [role EXCEPT ![q.target] = "none"]
    /\ Overtakes(r) /\ Done(r) /\ UNCHANGED <<org, inv>>

WriteLeave(r) ==
    LET q == req[r] IN
    /\ q.at = "checked" /\ q.op = "leave"
    /\ role' = [role EXCEPT ![q.user] = "none"]
    /\ Overtakes(r) /\ Done(r) /\ UNCHANGED <<org, inv>>

WriteDelete(r) ==
    /\ req[r].at = "checked" /\ req[r].op = "delete"
    /\ org = "active"
    /\ org' = "deleted"
    /\ Done(r) /\ UNCHANGED <<role, inv, overtaken>>

Write(r) ==
    \/ WriteInvite(r) \/ WriteAccept(r) \/ WriteRevoke(r)
    \/ WriteChange(r) \/ WriteRemove(r) \/ WriteLeave(r) \/ WriteDelete(r)

Expire(i) ==
    /\ Pending(i) /\ ~inv[i].expired
    /\ inv' = [inv EXCEPT ![i].expired = TRUE]
    /\ UNCHANGED <<org, role, req, overtaken>>

-----------------------------------------------------------------------------
(* create_with_owner: the organization and its owner in one commit.         *)
Init ==
    /\ org = "active"
    /\ role = [u \in Users |-> IF u = Founder THEN "owner" ELSE "none"]
    /\ inv = [i \in Invitations |-> NoInvitation]
    /\ req = [r \in Requests |-> NoRequest]
    /\ overtaken = FALSE

Next ==
    \/ \E r \in Requests : Authorize(r) \/ Check(r) \/ Write(r) \/ Fail(r)
    \/ \E i \in Invitations : Expire(i)

Spec == Init /\ [][Next]_vars

-----------------------------------------------------------------------------
TypeOK ==
    /\ org \in {"active", "deleted"}
    /\ role \in [Users -> Roles \cup {"none"}]
    /\ inv \in [Invitations -> InvType]
    /\ req \in [Requests -> MemberReq \cup AnswerReq \cup {NoRequest}]
    /\ overtaken \in BOOLEAN

(* "Cannot remove the only owner of an organization": whoever leaves, is    *)
(* removed or is given another role, an owner remains.                      *)
AlwaysAnOwner == Owners # {}

(* ... which holds until a role is written while another request that       *)
(* changes a role, removes or leaves is in progress; invitations,           *)
(* acceptances and deletions may overlap with them.                         *)
OwnerUnlessOvertaken == ~overtaken => AlwaysAnOwner

(* "Free tier is strictly capped at 5 members (active + pending)": exactly  *)
(* so for one request at a time.  Each request more in progress may exceed  *)
(* the cap by one, although an invitation may expire, and its seat be given *)
(* away, between the check of its acceptance and the write.                 *)
WithinFreeLimit ==
    Cardinality(Members) + Cardinality(Counted) < MemberLimit + Cardinality(Requests)

(* Nobody becomes a member through an invitation that was revoked, declined *)
(* or replaced, even if that happened after the acceptance was checked.     *)
Joins(u) == role[u] = "none" /\ role'[u] # "none"

NeverThroughRevoked ==
    [][\A u \in Users : Joins(u) =>
         \E i \in Invitations : /\ inv[i].issued /\ inv[i].user = u /\ ~inv[i].revoked
                                /\ inv'[i].accepted /\ role'[u] = inv[i].role]_vars
=============================================================================
