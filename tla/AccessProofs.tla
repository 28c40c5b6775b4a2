----------------------------- MODULE AccessProofs -----------------------------
(***************************************************************************)
(* Safety of Access for any finite set of operators, any number of         *)
(* requests served at a time and any bound on the sessions.                *)
(***************************************************************************)
EXTENDS Access, FiniteSetTheorems, TLAPS

Creating(r) == request[r].at \in {"created", "undo"}

(* An account under creation is there, and is its creator's alone.         *)
CreationsApart ==
    /\ \A r \in Requests : Creating(r) => request[r].of \in operators
    /\ \A r, q \in Requests :
          Creating(r) /\ Creating(q) /\ r # q => request[r].of # request[q].of

(* The request may leave its target without the rights of an administrator.*)
MayLose(r) ==
    \/ Creating(r)
    \/ At(r, "update") /\ ~(request[r].admin /\ request[r].active)

(* With one request changing operators at a time, the one that may take an *)
(* administrator away leaves another.                                      *)
OthersRemain ==
    overlapped \/
       /\ Administrators # {}
       /\ \A r, q \in Requests : Changing(r) /\ Changing(q) => r = q
       /\ \A r \in Requests : MayLose(r) => Administrators \ {request[r].of} # {}

AccessInv ==
    /\ TypeOK
    /\ CreationsApart
    /\ OthersRemain

(* adminUpdateUser's count: two administrators are one and another.        *)
LEMMA CountedAnother ==
    ASSUME TypeOK, Cardinality(Administrators) > 1, NEW o \in Operators
    PROVE  Administrators \ {o} # {}
<1> SUFFICES ASSUME Administrators \subseteq {o} PROVE FALSE
  OBVIOUS
<1>1. Administrators = {} \/ Administrators = {o}
  OBVIOUS
<1>2. Cardinality(Administrators) = 0 \/ Cardinality(Administrators) = 1
  BY <1>1, FS_EmptySet, FS_Singleton
<1> QED BY <1>2

(* Type correctness.                                                       *)
LEMMA TypeStep == TypeOK /\ CreationsApart /\ [Next]_vars => TypeOK'
<1> SUFFICES ASSUME TypeOK, CreationsApart, [Next]_vars PROVE TypeOK'
  OBVIOUS
<1> USE OperatorsAssumption
<1> USE DEF rows, At, Goes, Idle, Job
<1> USE DEF TypeOK, Request, Steps, Roles
<1>1. ASSUME Restart PROVE TypeOK'
  BY <1>1 DEF Restart
<1>2. ASSUME NEW o \in Operators, Login(o) PROVE TypeOK'
  BY <1>2 DEF Login
<1>3. ASSUME NEW o \in Operators, AdminLogin(o) PROVE TypeOK'
  BY <1>3 DEF AdminLogin
<1>4. ASSUME NEW o \in Operators, Logout(o) PROVE TypeOK'
  BY <1>4 DEF Logout
<1>5. ASSUME NEW o \in Operators, AdminRemoveMember(o) PROVE TypeOK'
  BY <1>5 DEF AdminRemoveMember
<1>6. ASSUME NEW o \in Operators, NEW level \in Roles, AdminAddMember(o, level) PROVE
      TypeOK'
  BY <1>6 DEF AdminAddMember
<1>7. ASSUME NEW r \in Requests, UpdateCount(r) PROVE TypeOK'
  BY <1>7 DEF UpdateCount
<1>8. ASSUME NEW r \in Requests, UpdateWrite(r) PROVE TypeOK'
  BY <1>8 DEF UpdateWrite
<1>9. ASSUME NEW r \in Requests, CreateRefused(r) PROVE TypeOK'
  BY <1>9 DEF CreateRefused
<1>10. ASSUME NEW r \in Requests, CreateUndo(r) PROVE TypeOK'
  BY <1>10 DEF CreateUndo
<1>11. ASSUME NEW r \in Requests, EnrolAllowed(r) PROVE TypeOK'
  BY <1>11 DEF EnrolAllowed
<1>12. ASSUME NEW r \in Requests, MemberAllowed(r) PROVE TypeOK'
  BY <1>12 DEF MemberAllowed
<1>13. ASSUME NEW r \in Requests, MemberChange(r) PROVE TypeOK'
  BY <1>13 DEF MemberChange
<1>14. ASSUME NEW r \in Requests, Fails(r) PROVE TypeOK'
  BY <1>14 DEF Fails
<1>15. ASSUME NEW r \in Requests, NEW level \in Roles, CreateMember(r, level) PROVE
      TypeOK'
  BY <1>15 DEF CreateMember, CreationsApart, Creating
<1>16. ASSUME NEW r \in Requests, NEW o \in Operators, NEW admin \in BOOLEAN, NEW act
      \in BOOLEAN, UpdateRead(r, o, admin, act) PROVE TypeOK'
  BY <1>16 DEF UpdateRead, Begins
<1>17. ASSUME NEW r \in Requests, NEW o \in Operators, NEW admin \in BOOLEAN,
      CreateUser(r, o, admin) PROVE TypeOK'
  BY <1>17 DEF CreateUser, Begins
<1>18. ASSUME NEW r \in Requests, NEW o \in Operators, NEW level \in Roles, Enrol(r, o,
      level) PROVE TypeOK'
  BY <1>18 DEF Enrol
<1>19. ASSUME NEW r \in Requests, NEW o \in Operators, NEW level \in Roles \union
      {"NONE"}, MemberRead(r, o, level) PROVE TypeOK'
  BY <1>19 DEF MemberRead
<1>20. CASE UNCHANGED vars
  BY <1>20 DEF vars
<1> QED
  BY <1>1, <1>2, <1>3, <1>4, <1>5, <1>6, <1>7, <1>8, <1>9, <1>10, <1>11, <1>12, <1>13,
     <1>14, <1>15, <1>16, <1>17, <1>18, <1>19, <1>20 DEF Next

(* Accounts under creation.                                                *)
LEMMA CreationsStep == TypeOK /\ CreationsApart /\ [Next]_vars => CreationsApart'
<1> SUFFICES ASSUME TypeOK, CreationsApart, [Next]_vars PROVE CreationsApart'
  OBVIOUS
<1> USE OperatorsAssumption
<1> USE DEF rows, At, Goes, Idle, Job
<1> USE DEF TypeOK, Request, Steps, Roles
<1> USE DEF CreationsApart, Creating
<1>1. ASSUME Restart PROVE CreationsApart'
  BY <1>1 DEF Restart
<1>2. ASSUME NEW o \in Operators, Login(o) PROVE CreationsApart'
  BY <1>2 DEF Login
<1>3. ASSUME NEW o \in Operators, AdminLogin(o) PROVE CreationsApart'
  BY <1>3 DEF AdminLogin
<1>4. ASSUME NEW o \in Operators, Logout(o) PROVE CreationsApart'
  BY <1>4 DEF Logout
<1>5. ASSUME NEW o \in Operators, AdminRemoveMember(o) PROVE CreationsApart'
  BY <1>5 DEF AdminRemoveMember
<1>6. ASSUME NEW o \in Operators, NEW level \in Roles, AdminAddMember(o, level) PROVE
      CreationsApart'
  BY <1>6 DEF AdminAddMember
<1>7. ASSUME NEW r \in Requests, UpdateCount(r) PROVE CreationsApart'
  BY <1>7 DEF UpdateCount
<1>8. ASSUME NEW r \in Requests, UpdateWrite(r) PROVE CreationsApart'
  BY <1>8 DEF UpdateWrite
<1>9. ASSUME NEW r \in Requests, CreateRefused(r) PROVE CreationsApart'
  BY <1>9 DEF CreateRefused
<1>10. ASSUME NEW r \in Requests, CreateUndo(r) PROVE CreationsApart'
  BY <1>10 DEF CreateUndo
<1>11. ASSUME NEW r \in Requests, EnrolAllowed(r) PROVE CreationsApart'
  BY <1>11 DEF EnrolAllowed
<1>12. ASSUME NEW r \in Requests, MemberAllowed(r) PROVE CreationsApart'
  BY <1>12 DEF MemberAllowed
<1>13. ASSUME NEW r \in Requests, MemberChange(r) PROVE CreationsApart'
  BY <1>13 DEF MemberChange
<1>14. ASSUME NEW r \in Requests, Fails(r) PROVE CreationsApart'
  BY <1>14 DEF Fails
<1>15. ASSUME NEW r \in Requests, NEW level \in Roles, CreateMember(r, level) PROVE
      CreationsApart'
  BY <1>15 DEF CreateMember
<1>16. ASSUME NEW r \in Requests, NEW o \in Operators, NEW admin \in BOOLEAN, NEW act
      \in BOOLEAN, UpdateRead(r, o, admin, act) PROVE CreationsApart'
  BY <1>16 DEF UpdateRead, Begins
<1>17. ASSUME NEW r \in Requests, NEW o \in Operators, NEW admin \in BOOLEAN,
      CreateUser(r, o, admin) PROVE CreationsApart'
  BY <1>17 DEF CreateUser, Begins
<1>18. ASSUME NEW r \in Requests, NEW o \in Operators, NEW level \in Roles, Enrol(r, o,
      level) PROVE CreationsApart'
  BY <1>18 DEF Enrol
<1>19. ASSUME NEW r \in Requests, NEW o \in Operators, NEW level \in Roles \union
      {"NONE"}, MemberRead(r, o, level) PROVE CreationsApart'
  BY <1>19 DEF MemberRead
<1>20. CASE UNCHANGED vars
  BY <1>20 DEF vars
<1> QED
  BY <1>1, <1>2, <1>3, <1>4, <1>5, <1>6, <1>7, <1>8, <1>9, <1>10, <1>11, <1>12, <1>13,
     <1>14, <1>15, <1>16, <1>17, <1>18, <1>19, <1>20 DEF Next

(* Another administrator.                                                  *)
LEMMA OthersStep == TypeOK /\ CreationsApart /\ OthersRemain /\ [Next]_vars => OthersRemain'
<1> SUFFICES ASSUME TypeOK, CreationsApart, OthersRemain, [Next]_vars PROVE OthersRemain'
  OBVIOUS
<1> USE OperatorsAssumption
<1> USE DEF rows, At, Goes, Idle, Job
<1> USE DEF TypeOK, Request, Steps, Roles
<1> USE DEF OthersRemain, MayLose, Creating, Administrators, Changing, ChangingSteps
<1>1. ASSUME Restart PROVE OthersRemain'
  BY <1>1 DEF Restart
<1>2. ASSUME NEW o \in Operators, Login(o) PROVE OthersRemain'
  BY <1>2 DEF Login
<1>3. ASSUME NEW o \in Operators, AdminLogin(o) PROVE OthersRemain'
  BY <1>3 DEF AdminLogin
<1>4. ASSUME NEW o \in Operators, Logout(o) PROVE OthersRemain'
  BY <1>4 DEF Logout
<1>5. ASSUME NEW o \in Operators, AdminRemoveMember(o) PROVE OthersRemain'
  BY <1>5 DEF AdminRemoveMember
<1>6. ASSUME NEW o \in Operators, NEW level \in Roles, AdminAddMember(o, level) PROVE
      OthersRemain'
  BY <1>6 DEF AdminAddMember
<1>7. ASSUME NEW r \in Requests, UpdateCount(r) PROVE OthersRemain'
  <2>1. request[r].of \in Operators
    OBVIOUS
  <2>2. Administrators \ {request[r].of} # {}
    BY <1>7, <2>1, CountedAnother DEF UpdateCount
  <2> QED BY <1>7, <2>2 DEF UpdateCount
<1>8. ASSUME NEW r \in Requests, UpdateWrite(r) PROVE OthersRemain'
  BY <1>8 DEF UpdateWrite
<1>9. ASSUME NEW r \in Requests, CreateRefused(r) PROVE OthersRemain'
  BY <1>9 DEF CreateRefused
<1>10. ASSUME NEW r \in Requests, CreateUndo(r) PROVE OthersRemain'
  BY <1>10 DEF CreateUndo
<1>11. ASSUME NEW r \in Requests, EnrolAllowed(r) PROVE OthersRemain'
  BY <1>11 DEF EnrolAllowed
<1>12. ASSUME NEW r \in Requests, MemberAllowed(r) PROVE OthersRemain'
  BY <1>12 DEF MemberAllowed
<1>13. ASSUME NEW r \in Requests, MemberChange(r) PROVE OthersRemain'
  BY <1>13 DEF MemberChange
<1>14. ASSUME NEW r \in Requests, Fails(r) PROVE OthersRemain'
  BY <1>14 DEF Fails
<1>15. ASSUME NEW r \in Requests, NEW level \in Roles, CreateMember(r, level) PROVE
      OthersRemain'
  BY <1>15 DEF CreateMember
<1>16. ASSUME NEW r \in Requests, NEW o \in Operators, NEW admin \in BOOLEAN, NEW act
      \in BOOLEAN, UpdateRead(r, o, admin, act) PROVE OthersRemain'
  <2>1. CASE overlapped'
    BY <2>1
  <2>2. CASE ~overlapped'
    <3>1. ~overlapped /\ \A q \in Requests : q # r => ~Changing(q) /\ request'[q] = request[q]
      BY <1>16, <2>2 DEF UpdateRead, Begins
    <3>2. \A q \in Requests : Changing(q)' => q = r
      BY <3>1
    <3>3. Administrators' = Administrators /\ Administrators # {}
      BY <1>16, <3>1 DEF UpdateRead
    <3>4. MayLose(r)' => o \notin admins /\ request'[r].of = o
      <4>1. CASE o \in admins /\ ~(admin /\ act)
        BY <1>16, <4>1 DEF UpdateRead
      <4>2. CASE ~(o \in admins /\ ~(admin /\ act))
        BY <1>16, <4>2 DEF UpdateRead
      <4> QED BY <4>1, <4>2
    <3>5. \A q \in Requests : MayLose(q)' => Administrators' \ {request'[q].of} # {}
      BY <3>2, <3>3, <3>4
    <3> QED BY <3>2, <3>3, <3>5
  <2> QED BY <2>1, <2>2
<1>17. ASSUME NEW r \in Requests, NEW o \in Operators, NEW admin \in BOOLEAN,
      CreateUser(r, o, admin) PROVE OthersRemain'
  <2>1. CASE overlapped'
    BY <2>1
  <2>2. CASE ~overlapped'
    <3>1. ~overlapped /\ \A q \in Requests : q # r => ~Changing(q) /\ request'[q] = request[q]
      BY <1>17, <2>2 DEF CreateUser, Begins
    <3>2. \A q \in Requests : Changing(q)' => q = r
      BY <3>1
    <3>3. Administrators \subseteq Administrators' /\ Administrators # {}
          /\ o \notin Administrators /\ request'[r].of = o
      BY <1>17, <3>1 DEF CreateUser
    <3>4. \A q \in Requests : MayLose(q)' => Administrators' \ {request'[q].of} # {}
      BY <3>2, <3>3
    <3> QED BY <3>2, <3>3, <3>4
  <2> QED BY <2>1, <2>2
<1>18. ASSUME NEW r \in Requests, NEW o \in Operators, NEW level \in Roles, Enrol(r, o,
      level) PROVE OthersRemain'
  BY <1>18 DEF Enrol
<1>19. ASSUME NEW r \in Requests, NEW o \in Operators, NEW level \in Roles \union
      {"NONE"}, MemberRead(r, o, level) PROVE OthersRemain'
  BY <1>19 DEF MemberRead
<1>20. CASE UNCHANGED vars
  BY <1>20 DEF vars
<1> HIDE DEF OthersRemain, MayLose, Creating, Administrators, Changing, ChangingSteps
<1> QED
  BY <1>1, <1>2, <1>3, <1>4, <1>5, <1>6, <1>7, <1>8, <1>9, <1>10, <1>11, <1>12, <1>13,
     <1>14, <1>15, <1>16, <1>17, <1>18, <1>19, <1>20 DEF Next

LEMMA InvHolds == Spec => []AccessInv
<1>1. Init => AccessInv
  <2> USE OperatorsAssumption DEF Init, Idle, Job, At
  <2>1. Init => TypeOK
    <3> SUFFICES ASSUME Init PROVE TypeOK
      OBVIOUS
    <3>1. request \in [Requests -> Request]
      BY DEF Request, Steps
    <3>2. role \in [Operators -> Roles \union {"NONE"}]
      BY DEF Roles
    <3>3. \A o \in Operators : role[o] # "NONE" => o \in operators
      OBVIOUS
    <3>4. overlapped \in BOOLEAN
      OBVIOUS
    <3> QED BY <3>1, <3>2, <3>3, <3>4 DEF TypeOK
  <2>2. Init => CreationsApart
    BY DEF CreationsApart, Creating
  <2>3. Init => OthersRemain
    BY DEF OthersRemain, MayLose, Creating, Administrators, Changing, ChangingSteps
  <2> QED BY <2>1, <2>2, <2>3 DEF AccessInv
<1>2. AccessInv /\ [Next]_vars => AccessInv'
  BY TypeStep, CreationsStep, OthersStep DEF AccessInv
<1> QED BY <1>1, <1>2, PTL DEF Spec

(* Every variable keeps its type.                                          *)
THEOREM AccessTypeCorrect == Spec => []TypeOK
<1>1. AccessInv => TypeOK
  BY DEF AccessInv
<1> QED BY <1>1, InvHolds, PTL

(* adminUpdateUser: an active administrator remains, unless two requests   *)
(* have been changing operators at a time since the process started.       *)
THEOREM AnAdministratorRemains == Spec => []AdminRemains
<1>1. AccessInv => AdminRemains
  BY DEF AccessInv, OthersRemain, AdminRemains
<1> QED BY <1>1, InvHolds, PTL

=============================================================================
