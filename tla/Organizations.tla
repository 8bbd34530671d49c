----------------------------- MODULE Organizations -----------------------------
(****************************************************************************)
(* Accounts, organizations and their members.  Every request checks what    *)
(* its caller may do, one query at a time, and writes afterwards; unique    *)
(* indexes decide races on a slug and on a (user, organization) pair, none  *)
(* on an e-mail.  Members, accounts and organizations are never deleted,    *)
(* only switched off.  Passwords and tokens are left out.                   *)
(****************************************************************************)
EXTENDS Naturals, Sequences, FiniteSets

CONSTANTS
    Names,              \* slugs of organization names
    Emails,
    Founders,           \* a sequence of three of them, or the empty one
    Requests,           \* requests in progress at once
    None,
    MaxAccounts,        \* bound on accounts
    MaxOrganizations,   \* bound on organizations
    MaxRequests,        \* bound on requests
    MaxFaults           \* bound on failed calls and crashes

VARIABLES
    accounts,       \* users: sequence of [email, super, active]
    orgs,           \* organizations: sequence of [slug, active]
    members,        \* organization_members: [user, org, role, active]
    request,        \* requests in progress
    received,       \* requests received
    faults,         \* failures so far
    overlapped,     \* history: e-mails two creations wanted at once
    ungoverned      \* history: organizations that may be without an admin

organizationVars == <<accounts, orgs, members, request, received, faults, overlapped,
                      ungoverned>>

Roles == {"admin", "user"}
Idle == [pc |-> "idle", kind |-> "bootstrap", actor |-> 0, super |-> FALSE, org |-> 0,
         user |-> 0, email |-> None, role |-> "user", slug |-> None, active |-> None]

At(r, step) == request[r].pc = step
Goto(r, step) == request' = [request EXCEPT ![r].pc = step]
Done(r) == request' = [request EXCEPT ![r] = Idle]
Fault == faults < MaxFaults /\ faults' = faults + 1

Account(email, super) == [email |-> email, super |-> super, active |-> TRUE]
Row(u, o, role) == [user |-> u, org |-> o, role |-> role, active |-> TRUE]

\* An empty system, or what a super admin set up: two admins of one
\* organization, the first of them also the admin of another.
Init ==
    /\ accounts = [i \in DOMAIN Founders |-> Account(Founders[i], i = 1)]
    /\ orgs = [o \in IF Founders = <<>> THEN {} ELSE 1 .. 2 |->
                [slug |-> <<CHOOSE n \in Names : TRUE, o>>, active |-> TRUE]]
    /\ members = IF Founders = <<>> THEN {}
                 ELSE {Row(2, 1, "admin"), Row(3, 1, "admin"), Row(2, 2, "admin"),
                       Row(3, 2, "user")}
    /\ request = [r \in Requests |-> Idle]
    /\ received = 0
    /\ faults = 0
    /\ overlapped = {}
    /\ ungoverned = {}

-----------------------------------------------------------------------------
(* The repositories and what the services answer from them.                 *)

\* find_by_user_and_org with is_active: at most one row.
Member(u, o) == {m \in members : m.user = u /\ m.org = o /\ m.active}
IsAdmin(u, o) == \E m \in Member(u, o) : m.role = "admin"
HasRow(u, o) == \E m \in members : m.user = u /\ m.org = o

\* _ensure_org_admin's and _check_can_manage_members' first question.
Open(o) == o \in DOMAIN orgs /\ orgs[o].active

\* get_current_organization_context.
MayEnter(u, o) ==
    /\ accounts[u].active /\ Open(o)
    /\ accounts[u].super \/ Member(u, o) # {}

\* get_user_organizations and get_organization_members.
OrganizationsOf(u) == {m.org : m \in {m \in members : m.user = u /\ m.active /\ Open(m.org)}}
MembersOf(o) == {m.user : m \in {m \in members : m.org = o /\ m.active}}

\* Those who can act for an organization.
Governors(users, rows, o) ==
    {u \in DOMAIN users : users[u].active /\ \E m \in rows :
        m.user = u /\ m.org = o /\ m.active /\ m.role = "admin"}

\* After a step an organization may be without an admin if it was before, or
\* for one of the step's reasons.
Excuse(reasons) ==
    ungoverned' = {o \in DOMAIN orgs' :
        Governors(accounts', members', o) = {} /\ o \in ungoverned \cup reasons}

\* The reasons of a request: it is a super admin's, or its caller lost the
\* right it had when it was checked.
Reasons(r) ==
    IF request[r].super THEN DOMAIN orgs
    ELSE IF request[r].actor \in Governors(accounts, members, request[r].org) THEN {}
    ELSE {request[r].org}

-----------------------------------------------------------------------------
(* Requests.                                                                *)

\* The calls of an account u, with what they carry.
Call(u) == [Idle EXCEPT !.actor = u, !.super = accounts[u].super]
AddCall(u, o, e, p) ==
    [Call(u) EXCEPT !.kind = "add", !.pc = "organization", !.org = o, !.email = e, !.role = p]
RemoveCall(u, o, v) ==
    [Call(u) EXCEPT !.kind = "remove", !.pc = "organization", !.org = o, !.user = v]
RoleCall(u, o, v, p) ==
    [Call(u) EXCEPT !.kind = "role", !.pc = "organization", !.org = o, !.user = v, !.role = p]
CreateUserCall(u, o, e, p) ==
    [Call(u) EXCEPT !.kind = "create_user", !.pc = "email", !.org = o, !.email = e, !.role = p]
DeactivateCall(u, o, v) ==
    [Call(u) EXCEPT !.kind = "deactivate", !.org = o, !.user = v,
                    !.pc = IF accounts[u].super THEN "write" ELSE "organization"]
CreateOrgCall(u, n) ==
    [Call(u) EXCEPT !.kind = "create_org", !.pc = "slug", !.slug = <<n, 1>>]
RenameOrgCall(u, o, n) ==
    [Call(u) EXCEPT !.kind = "update_org", !.pc = "slug", !.org = o, !.slug = <<n, 1>>]
SwitchOrgCall(u, o, a) ==
    [Call(u) EXCEPT !.kind = "update_org", !.pc = "write", !.org = o, !.active = a]

\* Those that are not refused at once: nobody deactivates themselves, only a
\* super admin creates accounts without an organization, and
\* require_super_admin keeps everybody else from the organizations.
CallsOf(u) ==
    LET Orgs == DOMAIN orgs
        Known == DOMAIN accounts
    IN  {AddCall(u, o, e, p) : o \in Orgs, e \in Emails, p \in Roles}
        \cup {RemoveCall(u, o, v) : o \in Orgs, v \in Known}
        \cup {RoleCall(u, o, v, p) : o \in Orgs, v \in Known, p \in Roles}
        \cup {CreateUserCall(u, o, e, p) :
                o \in Orgs \cup {o \in {0} : accounts[u].super}, e \in Emails,
                p \in {p \in Roles : Len(accounts) < MaxAccounts}}
        \cup {DeactivateCall(u, o, v) : o \in Orgs, v \in Known \ {u}}
        \cup {CreateOrgCall(u, n) :
                n \in {n \in Names : accounts[u].super /\ Len(orgs) < MaxOrganizations}}
        \cup {RenameOrgCall(u, o, n) : o \in {o \in Orgs : accounts[u].super}, n \in Names}
        \cup {SwitchOrgCall(u, o, a) : o \in {o \in Orgs : accounts[u].super}, a \in BOOLEAN}

\* get_current_active_user: the account is read again on every request.
Calls ==
    {[Idle EXCEPT !.pc = "count", !.email = e] : e \in Emails}
    \cup UNION {CallsOf(u) : u \in {u \in DOMAIN accounts : accounts[u].active}}

Creates(call) == call.pc # "idle" /\ call.kind \in {"bootstrap", "create_user"}

Begin(r) ==
    /\ At(r, "idle") /\ received < MaxRequests /\ received' = received + 1
    /\ \E call \in Calls :
        /\ request' = [request EXCEPT ![r] = call]
        /\ overlapped' = overlapped \cup
            IF \E q \in Requests : Creates(request[q]) /\ Creates(call)
                                   /\ \/ request[q].email = call.email
                                      \/ request[q].kind = "bootstrap" /\ call.kind = "bootstrap"
            THEN {call.email} \cup {request[q].email : q \in {q \in Requests : Creates(request[q])}}
            ELSE {}
    /\ UNCHANGED <<accounts, orgs, members, faults, ungoverned>>

\* create_user: the e-mail must be free, whoever asks.
CheckEmail(r) ==
    /\ At(r, "email")
    /\ IF \E u \in DOMAIN accounts : accounts[u].email = request[r].email THEN Done(r)
       ELSE Goto(r, IF request[r].org = 0 THEN "insert"
                    ELSE IF request[r].super THEN "again" ELSE "organization")
    /\ UNCHANGED <<accounts, orgs, members, received, faults, overlapped, ungoverned>>

\* Nobody removes or demotes themselves.
OnSelf(r) ==
    /\ request[r].user = request[r].actor
    /\ \/ request[r].kind = "remove"
       \/ request[r].kind = "role" /\ request[r].role = "user"

\* After the caller's checks.
Permitted(r) ==
    IF OnSelf(r) THEN Done(r)
    ELSE Goto(r, CASE request[r].kind = "create_user" -> "again"
                   [] request[r].kind = "add" -> "lookup"
                   [] OTHER -> "target")

\* _check_can_manage_members, _ensure_org_admin: the organization is open,
\* and the caller, unless a super admin, an admin of it.
CheckOrganization(r) ==
    /\ At(r, "organization")
    /\ IF ~Open(request[r].org) THEN Done(r)
       ELSE IF request[r].super THEN Permitted(r)
       ELSE Goto(r, "actor")
    /\ UNCHANGED <<accounts, orgs, members, received, faults, overlapped, ungoverned>>

CheckActor(r) ==
    /\ At(r, "actor")
    /\ IF IsAdmin(request[r].actor, request[r].org) THEN Permitted(r) ELSE Done(r)
    /\ UNCHANGED <<accounts, orgs, members, received, faults, overlapped, ungoverned>>

\* create_user asks for the organization once more.
CheckAgain(r) ==
    /\ At(r, "again")
    /\ IF Open(request[r].org) THEN Goto(r, "insert") ELSE Done(r)
    /\ UNCHANGED <<accounts, orgs, members, received, faults, overlapped, ungoverned>>

\* add_member: find_by_email, any account of that e-mail.
FindUser(r) ==
    /\ At(r, "lookup")
    /\ LET found == {u \in DOMAIN accounts : accounts[u].email = request[r].email}
       IN  IF found = {} THEN Done(r)
           ELSE \E u \in found :
                request' = [request EXCEPT ![r].user = u, ![r].pc = "target"]
    /\ UNCHANGED <<accounts, orgs, members, received, faults, overlapped, ungoverned>>

\* The target is an active member, or for add_member none yet.
CheckTarget(r) ==
    /\ At(r, "target")
    /\ IF (request[r].kind = "add") = (Member(request[r].user, request[r].org) = {})
       THEN Goto(r, "write") ELSE Done(r)
    /\ UNCHANGED <<accounts, orgs, members, received, faults, overlapped, ungoverned>>

\* The insert, or the error of the unique index: also for a removed member,
\* whose row stays.
AddMember(r) ==
    /\ \/ At(r, "write") /\ request[r].kind = "add"
       \/ At(r, "member")
    /\ members' = members \cup
        IF HasRow(request[r].user, request[r].org) THEN {}
        ELSE {Row(request[r].user, request[r].org, request[r].role)}
    /\ Done(r)
    /\ UNCHANGED <<accounts, orgs, received, faults, overlapped>>
    /\ Excuse({})

RemoveMember(r) ==
    /\ At(r, "write") /\ request[r].kind = "remove"
    /\ members' = {IF m \in Member(request[r].user, request[r].org)
                   THEN [m EXCEPT !.active = FALSE] ELSE m : m \in members}
    /\ Done(r)
    /\ UNCHANGED <<accounts, orgs, received, faults, overlapped>>
    /\ Excuse(Reasons(r))

\* A member removed meanwhile keeps the row as it is.
ChangeRole(r) ==
    /\ At(r, "write") /\ request[r].kind = "role"
    /\ members' = {IF m \in Member(request[r].user, request[r].org)
                   THEN [m EXCEPT !.role = request[r].role] ELSE m : m \in members}
    /\ Done(r)
    /\ UNCHANGED <<accounts, orgs, received, faults, overlapped>>
    /\ Excuse(Reasons(r))

\* An account is switched off everywhere, whichever organization's admin asked.
DeactivateUser(r) ==
    /\ At(r, "write") /\ request[r].kind = "deactivate"
    /\ accounts' = [accounts EXCEPT ![request[r].user].active = FALSE]
    /\ Done(r)
    /\ UNCHANGED <<orgs, members, received, faults, overlapped>>
    /\ Excuse(Reasons(r) \cup (DOMAIN orgs \ {request[r].org}))

\* No index on the e-mail: the insert always succeeds.  The membership is a
\* write of its own.
InsertUser(r) ==
    /\ At(r, "insert") /\ Len(accounts) < MaxAccounts
    /\ accounts' = Append(accounts, Account(request[r].email, request[r].kind = "bootstrap"))
    /\ IF request[r].org = 0 THEN Done(r)
       ELSE request' = [request EXCEPT ![r].user = Len(accounts) + 1, ![r].pc = "member"]
    /\ UNCHANGED <<orgs, members, received, faults, overlapped, ungoverned>>

\* bootstrap_super_admin: only in an empty system, then the e-mail's check.
CountUsers(r) ==
    /\ At(r, "count")
    /\ IF Len(accounts) > 0 THEN Done(r) ELSE Goto(r, "email")
    /\ UNCHANGED <<accounts, orgs, members, received, faults, overlapped, ungoverned>>

\* _generate_unique_slug: one suffix after the other until one is free, or is
\* the organization's own.
Taken(slug, o) == \E k \in DOMAIN orgs \ {o} : orgs[k].slug = slug
TrySlug(r) ==
    /\ At(r, "slug")
    /\ IF Taken(request[r].slug, request[r].org)
       THEN request' = [request EXCEPT ![r].slug[2] = @ + 1]
       ELSE Goto(r, "write")
    /\ UNCHANGED <<accounts, orgs, members, received, faults, overlapped, ungoverned>>

\* The insert, or the error of the unique index.
CreateOrganization(r) ==
    /\ At(r, "write") /\ request[r].kind = "create_org" /\ Len(orgs) < MaxOrganizations
    /\ orgs' = IF Taken(request[r].slug, 0) THEN orgs
               ELSE Append(orgs, [slug |-> request[r].slug, active |-> TRUE])
    /\ Done(r)
    /\ UNCHANGED <<accounts, members, received, faults, overlapped>>
    /\ Excuse(DOMAIN orgs')

\* update_organization of a name or of is_active, and deactivate_organization.
UpdateOrganization(r) ==
    /\ At(r, "write") /\ request[r].kind = "update_org"
    /\ orgs' = IF request[r].slug = None
               THEN [orgs EXCEPT ![request[r].org].active = request[r].active]
               ELSE IF Taken(request[r].slug, request[r].org) THEN orgs
               ELSE [orgs EXCEPT ![request[r].org].slug = request[r].slug]
    /\ Done(r)
    /\ UNCHANGED <<accounts, members, received, faults, overlapped, ungoverned>>

\* A call raises or the process dies between the two writes of create_user: the
\* account stays without its membership.  A request that fails before its first
\* write changes nothing, as one that never goes on.
RequestFails(r) ==
    /\ At(r, "member") /\ Fault /\ Done(r)
    /\ UNCHANGED <<accounts, orgs, members, received, overlapped, ungoverned>>

Next ==
    \E r \in Requests :
        \/ Begin(r) \/ CountUsers(r) \/ CheckEmail(r)
        \/ CheckOrganization(r) \/ CheckActor(r) \/ CheckAgain(r) \/ FindUser(r) \/ CheckTarget(r)
        \/ AddMember(r) \/ RemoveMember(r) \/ ChangeRole(r)
        \/ InsertUser(r) \/ DeactivateUser(r)
        \/ TrySlug(r) \/ CreateOrganization(r) \/ UpdateOrganization(r)
        \/ RequestFails(r)
Spec == Init /\ [][Next]_organizationVars

-----------------------------------------------------------------------------
\* Type invariant.
TypeOK ==
    /\ \A u \in DOMAIN accounts : accounts[u] \in [email : Emails, super : BOOLEAN, active : BOOLEAN]
    /\ Len(accounts) <= MaxAccounts
    /\ \A o \in DOMAIN orgs : orgs[o].slug[1] \in Names /\ orgs[o].active \in BOOLEAN
    /\ members \subseteq [user : DOMAIN accounts, org : DOMAIN orgs, role : Roles, active : BOOLEAN]
    /\ overlapped \subseteq Emails
    /\ ungoverned \subseteq DOMAIN orgs

\* An organization that has an admin who can log in keeps one ("Cannot remove
\* yourself", "Cannot change your own role", "Cannot deactivate yourself"),
\* unless a super admin takes it, the one who takes it lost its own right after
\* the check (two admins removing each other), or an admin of another
\* organization switches the account off.
AdminRemains ==
    \A o \in DOMAIN orgs : o \in ungoverned \/ Governors(accounts, members, o) # {}

\* Two accounts have one e-mail, or are super admins, only when the requests
\* that created them overlapped: users has no unique index.
AccountsAreDistinct ==
    \A u, v \in DOMAIN accounts :
        \/ u = v
        \/ {accounts[u].email, accounts[v].email} \subseteq overlapped
        \/ accounts[u].email # accounts[v].email /\ ~(accounts[u].super /\ accounts[v].super)

\* However requests interleave, an organization has one row per member and a
\* slug of its own, and what members are shown is what they may enter.
MembersAreSets ==
    /\ \A m, n \in members : m.user = n.user /\ m.org = n.org => m = n
    /\ \A o, p \in DOMAIN orgs : orgs[o].slug = orgs[p].slug => o = p
    /\ \A u \in DOMAIN accounts : accounts[u].active /\ ~accounts[u].super =>
        LET entered == {o \in DOMAIN orgs : MayEnter(u, o)}
        IN  /\ OrganizationsOf(u) = entered
            /\ {o \in DOMAIN orgs : Open(o) /\ u \in MembersOf(o)} = entered
=============================================================================
