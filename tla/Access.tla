------------------------------- MODULE Access -------------------------------
(***************************************************************************)
(* Who may administer the product and one workspace of it: the operators,  *)
(* their product role and status, their role in the workspace, the two     *)
(* kinds of sessions, and the handlers that change them.                   *)
(*                                                                         *)
(* Operators and memberships are rows of PostgreSQL, sessions are two maps *)
(* of the process and are lost with it.  A handler reads, decides and      *)
(* writes in separate statements; each is one action.  Two distinctions    *)
(* nothing here depends on are not made: PLATFORM_OWNER counts as          *)
(* PLATFORM_ADMIN, VIEWER as OPERATOR.  Passwords are left out: a wrong    *)
(* one is a login that does not happen.                                    *)
(***************************************************************************)
EXTENDS Naturals, FiniteSets

CONSTANTS
    Operators,   \* the operators rows that may ever exist
    Bootstrap,   \* the operator of ADMIN_USERNAME
    Requests,    \* the API requests served at a time
    MaxSessions  \* bound on the sessions of each kind

ASSUME OperatorsAssumption == IsFiniteSet(Operators) /\ Bootstrap \in Operators
ASSUME BoundAssumption == MaxSessions \in Nat

VARIABLES
    operators,  \* the rows of operators
    admins,     \* those whose platform_role administers the product
    active,     \* those whose status is ACTIVE
    role,       \* workspace_members.role; "NONE" without a row
    signed,     \* adminSessions: whose they are
    sessions,   \* sessions of the workspace: whose they are
    request,    \* per request: where its handler is and what it is to do
    overlapped  \* history: two requests have been changing operators at a
                \*   time since the process started

rows == <<operators, admins, active, role>>
vars == <<rows, signed, sessions, request, overlapped>>

Roles == {"OWNER", "ADMIN", "OPERATOR"}
Steps == {"idle", "count", "update", "created", "undo", "enrol", "read", "change"}
Request == [at : Steps, of : Operators, admin : BOOLEAN, active : BOOLEAN,
            role : Roles \union {"NONE"}]
Job(step, o, level) ==
    [at |-> step, of |-> o, admin |-> FALSE, active |-> FALSE, role |-> level]
Idle == Job("idle", Bootstrap, "NONE")

TypeOK ==
    /\ operators \subseteq Operators
    /\ admins \subseteq operators /\ active \subseteq operators
    /\ role \in [Operators -> Roles \union {"NONE"}]
    /\ \A o \in Operators : role[o] # "NONE" => o \in operators
    /\ signed \subseteq Operators /\ sessions \subseteq Operators
    /\ request \in [Requests -> Request]
    /\ overlapped \in BOOLEAN

-----------------------------------------------------------------------------
At(r, step) == request[r].at = step

\* adminUpdateUser past its read and adminCreateUser past its INSERT.
ChangingSteps == {"count", "update", "created", "undo"}
Changing(r) == request[r].at \in ChangingSteps

Goes(r, next) == request' = [request EXCEPT ![r] = next]

\* A handler that starts to change operators while another one does.
Begins(r) == overlapped' = (overlapped \/ \E q \in Requests \ {r} : Changing(q))

Protected(o) == o \in admins \/ role[o] = "OWNER"
Administrators == admins \cap active

\* requireWorkspaceRole "OWNER", "ADMIN": an admin session, or a session of
\* the workspace whose membership is read again.
MayManage == signed # {} \/ \E o \in sessions : role[o] \in {"OWNER", "ADMIN"}

-----------------------------------------------------------------------------
(* Start-up: ensureBootstrapAdmin writes the account of ADMIN_USERNAME and *)
(* its membership; nobody is signed in.                                    *)
Init ==
    /\ operators = {Bootstrap} /\ admins = {Bootstrap} /\ active = {Bootstrap}
    /\ role = [o \in Operators |-> IF o = Bootstrap THEN "OWNER" ELSE "NONE"]
    /\ signed = {} /\ sessions = {} /\ overlapped = FALSE
    /\ request = [r \in Requests |-> Idle]

Restart ==
    /\ operators' = operators \union {Bootstrap}
    /\ admins' = admins \union {Bootstrap}
    /\ active' = active \union {Bootstrap}
    /\ role' = [role EXCEPT ![Bootstrap] = "OWNER"]
    /\ signed' = {} /\ sessions' = {} /\ overlapped' = FALSE
    /\ request' = [r \in Requests |-> Idle]

\* login: product administrators are sent to the other door.
Login(o) ==
    /\ o \in active \ admins /\ role[o] # "NONE"
    /\ Cardinality(sessions) < MaxSessions /\ sessions' = sessions \union {o}
    /\ UNCHANGED <<rows, signed, request, overlapped>>

AdminLogin(o) ==
    /\ o \in Administrators
    /\ Cardinality(signed) < MaxSessions /\ signed' = signed \union {o}
    /\ UNCHANGED <<rows, sessions, request, overlapped>>

\* logout, adminLogout, or twelve hours later.
Logout(o) ==
    /\ \/ sessions' = sessions \ {o} /\ signed' = signed
       \/ signed' = signed \ {o} /\ sessions' = sessions
    /\ UNCHANGED <<rows, request, overlapped>>

-----------------------------------------------------------------------------
(* adminUpdateUser: the row is read, and its own account refused; if the   *)
(* row stops being an active administrator, the others are counted; then   *)
(* it is written.  The session is not checked against the row: whoever     *)
(* signed in as an administrator acts as one until the session ends.       *)
UpdateRead(r, o, admin, act) ==
    /\ At(r, "idle") /\ role[o] # "NONE"
    /\ \E by \in signed : by = o => admin /\ act
    /\ Goes(r, [of |-> o, admin |-> admin, active |-> act, role |-> "NONE",
                  at |-> IF o \in admins /\ ~(admin /\ act) THEN "count" ELSE "update"])
    /\ Begins(r)
    /\ UNCHANGED <<rows, signed, sessions>>

(* A mutant: any administrator at all is enough.                           *)
UpdateCount_AtLeastOne(r) ==
    /\ At(r, "count")
    /\ Cardinality(Administrators) >= 1
    /\ Goes(r, [request[r] EXCEPT !.at = "update"])
    /\ UNCHANGED <<rows, signed, sessions, overlapped>>

UpdateCount(r) ==
    /\ At(r, "count")
    /\ Cardinality(Administrators) > 1
    /\ Goes(r, [request[r] EXCEPT !.at = "update"])
    /\ UNCHANGED <<rows, signed, sessions, overlapped>>

(* A mutant: the update brings back a row that is gone (an upsert).        *)
UpdateWrite_Upsert(r) ==
    LET o == request[r].of IN
    /\ At(r, "update")
    /\ admins' = IF request[r].admin THEN admins \union {o} ELSE admins \ {o}
    /\ active' = IF request[r].active THEN active \union {o} ELSE active \ {o}
    /\ Goes(r, Idle)
    /\ UNCHANGED <<operators, role, signed, sessions, overlapped>>

UpdateWrite(r) ==
    LET o == request[r].of IN
    /\ At(r, "update") /\ o \in operators
    /\ admins' = IF request[r].admin THEN admins \union {o} ELSE admins \ {o}
    /\ active' = IF request[r].active THEN active \union {o} ELSE active \ {o}
    /\ Goes(r, Idle)
    /\ UNCHANGED <<operators, role, signed, sessions, overlapped>>

\* adminCreateUser: an account, then its membership, or the account goes.
CreateUser(r, o, admin) ==
    /\ At(r, "idle") /\ signed # {}
    /\ o \notin operators /\ \A q \in Requests : ~At(q, "idle") => request[q].of # o
    /\ operators' = operators \union {o} /\ active' = active \union {o}
    /\ admins' = IF admin THEN admins \union {o} ELSE admins
    /\ Goes(r, Job("created", o, "NONE"))
    /\ Begins(r)
    /\ UNCHANGED <<role, signed, sessions>>

CreateMember(r, level) ==
    LET o == request[r].of IN
    /\ At(r, "created") /\ role[o] = "NONE"
    /\ role' = [role EXCEPT ![o] = level]
    /\ Goes(r, Idle)
    /\ UNCHANGED <<operators, admins, active, signed, sessions, overlapped>>

CreateRefused(r) ==
    /\ At(r, "created")
    /\ Goes(r, [request[r] EXCEPT !.at = "undo"])
    /\ UNCHANGED <<rows, signed, sessions, overlapped>>

CreateUndo(r) ==
    LET o == request[r].of IN
    /\ At(r, "undo")
    /\ operators' = operators \ {o}
    /\ admins' = admins \ {o} /\ active' = active \ {o}
    /\ role' = [role EXCEPT ![o] = "NONE"]
    /\ Goes(r, Idle)
    /\ UNCHANGED <<signed, sessions, overlapped>>

-----------------------------------------------------------------------------
\* adminAddMember and adminRemoveMember: one statement each.
AdminAddMember(o, level) ==
    /\ signed # {} /\ o \in operators
    /\ role' = [role EXCEPT ![o] = level]
    /\ UNCHANGED <<operators, admins, active, signed, sessions, request, overlapped>>

AdminRemoveMember(o) ==
    /\ signed # {} /\ role[o] \notin {"NONE", "OWNER"}
    /\ role' = [role EXCEPT ![o] = "NONE"]
    /\ UNCHANGED <<operators, admins, active, signed, sessions, request, overlapped>>

\* workspaceMembers: allowed first, then one transaction for both rows.
EnrolAllowed(r) ==
    /\ At(r, "idle") /\ MayManage
    /\ Goes(r, Job("enrol", Bootstrap, "NONE"))
    /\ UNCHANGED <<rows, signed, sessions, overlapped>>

Enrol(r, o, level) ==
    /\ At(r, "enrol") /\ level # "OWNER"
    /\ o \notin operators /\ \A q \in Requests : Changing(q) => request[q].of # o
    /\ operators' = operators \union {o} /\ active' = active \union {o}
    /\ role' = [role EXCEPT ![o] = level]
    /\ Goes(r, Idle)
    /\ UNCHANGED <<admins, signed, sessions, overlapped>>

\* workspaceMember: allowed, then the member is read, then changed.
MemberAllowed(r) ==
    /\ At(r, "idle") /\ MayManage
    /\ Goes(r, Job("read", Bootstrap, "NONE"))
    /\ UNCHANGED <<rows, signed, sessions, overlapped>>

MemberRead(r, o, level) ==
    /\ At(r, "read") /\ role[o] # "NONE"
    /\ ~Protected(o) /\ level # "OWNER"
    /\ Goes(r, Job("change", o, level))
    /\ UNCHANGED <<rows, signed, sessions, overlapped>>

MemberChange(r) ==
    LET o == request[r].of IN
    /\ At(r, "change") /\ role[o] # "NONE"
    /\ role' = [role EXCEPT ![o] = request[r].role]
    /\ Goes(r, Idle)
    /\ UNCHANGED <<operators, admins, active, signed, sessions, overlapped>>

\* A refusal, an error or a client that disconnects.
Fails(r) ==
    /\ ~At(r, "idle")
    /\ Goes(r, Idle)
    /\ UNCHANGED <<rows, signed, sessions, overlapped>>

-----------------------------------------------------------------------------
Next ==
    \/ Restart
    \/ \E o \in Operators :
          \/ Login(o) \/ AdminLogin(o) \/ Logout(o) \/ AdminRemoveMember(o)
          \/ \E level \in Roles : AdminAddMember(o, level)
    \/ \E r \in Requests :
          \/ UpdateCount(r) \/ UpdateWrite(r) \/ CreateRefused(r) \/ CreateUndo(r)
          \/ EnrolAllowed(r) \/ MemberAllowed(r) \/ MemberChange(r) \/ Fails(r)
          \/ \E level \in Roles : CreateMember(r, level)
          \/ \E o \in Operators :
                \/ \E admin, act \in BOOLEAN : UpdateRead(r, o, admin, act)
                \/ \E admin \in BOOLEAN : CreateUser(r, o, admin)
                \/ \E level \in Roles : Enrol(r, o, level)
                \/ \E level \in Roles \union {"NONE"} : MemberRead(r, o, level)

Spec == Init /\ [][Next]_vars

-----------------------------------------------------------------------------
(* adminUpdateUser, main.go 2228: "at least one active product             *)
(* administrator must remain".  It counts before it updates, so the rule   *)
(* holds until two requests have been changing operators at once; a        *)
(* restart, which writes the bootstrap account, makes it hold again.       *)
AdminRemains == overlapped \/ Administrators # {}

=============================================================================
