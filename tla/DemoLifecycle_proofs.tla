------------------------ MODULE DemoLifecycle_proofs ------------------------
(***************************************************************************)
(* Theorems about DemoLifecycle, for every number of organisations, admins *)
(* and faults: the types, what the nightly job may remove, that rows and    *)
(* logins match, that a create rolled back leaves no organisation behind,   *)
(* and that the owner of a running demo can sign in.                        *)
(***************************************************************************)
EXTENDS DemoLifecycle, TLAPS

----------------------------------------------------------------------------
(* Types.  TypeOK alone is not inductive: an operation under way writes to *)
(* the organisation it is about, so there must be one.                     *)

BusyHasOrg == \A a \in Actors : Busy(a) => call[a].org \in Orgs

TypeInv == TypeOK /\ BusyHasOrg

LEMMA BusyCall ==
  ASSUME TypeInv, NEW a \in Actors, Busy(a)
  PROVE  /\ call[a] \in Call
         /\ call[a].org \in Orgs
         /\ call[a].logins \in SUBSET Roles
         /\ org[call[a].org] \in Row
         /\ login[call[a].org] \in [Roles -> {"none", "active", "banned"}]
BY DEF TypeInv, TypeOK, BusyHasOrg, Call

(* What an operation may do to the table of calls. *)
CallsTyped == call \in [Actors -> Call] /\ BusyHasOrg

LEMMA GotoTypes ==
  ASSUME TypeInv, NEW a \in Actors, Busy(a), NEW step \in Steps, Goto(a, step)
  PROVE  CallsTyped'
BY DEF TypeInv, TypeOK, BusyHasOrg, CallsTyped, Busy, Goto, Call

LEMMA LearnTypes ==
  ASSUME TypeInv, NEW a \in Actors, Busy(a), NEW step \in Steps, NEW logins \in SUBSET Roles,
         Learn(a, step, logins)
  PROVE  CallsTyped'
BY DEF TypeInv, TypeOK, BusyHasOrg, CallsTyped, Busy, Learn, Call

LEMMA BeginTypes ==
  ASSUME TypeInv, NEW a \in Actors, NEW op \in Ops, NEW o \in Orgs, NEW step \in Steps,
         NEW logins \in SUBSET Roles, NEW seen \in 0..MaxExpires,
         Begin(a, Begun(op, o, step, logins, seen))
  PROVE  CallsTyped'
<1>1. Begun(op, o, step, logins, seen) \in Call /\ Begun(op, o, step, logins, seen).org = o
  BY DEF Begun, Call
<1> QED BY <1>1 DEF TypeInv, TypeOK, BusyHasOrg, CallsTyped, Busy, Begin

LEMMA EndTypes ==
  ASSUME TypeInv, NEW a \in Actors, End(a)
  PROVE  CallsTyped'
<1>1. Free \in Call /\ Free.op = "none"
  BY DemoAssumption DEF Free, Begun, Call, Ops, Steps
<1> QED BY <1>1 DEF TypeInv, TypeOK, BusyHasOrg, CallsTyped, Busy, End

LEMMA SameCalls == ASSUME TypeInv, UNCHANGED call PROVE CallsTyped'
BY DEF TypeInv, TypeOK, BusyHasOrg, CallsTyped, Busy

LEMMA SetTypes ==
  ASSUME TypeInv, NEW o \in Orgs, NEW row \in Row, Set(o, row)
  PROVE  org' \in [Orgs -> Row]
BY DEF TypeInv, TypeOK, Set

LEMMA NoRowTypes == NoRow \in Row
<1>1. 0 \in 0..MaxExpires BY DemoAssumption
<1> QED BY <1>1, Zenon DEF NoRow, Row

LEMMA NewRowTypes ==
  ASSUME NEW demo \in BOOLEAN, NEW expires \in 0..MaxExpires, NEW linked \in SUBSET Roles,
         NEW onDuty \in {"unseeded", "yes", "no"}
  PROVE  NewRow(demo, expires, linked, onDuty) \in Row
BY Zenon DEF NewRow, Row

LEMMA FaultTypes ==
  ASSUME TypeInv, (\E kind \in {"refused", "lost", "db", "profile", "kill"} : Fault(kind))
                  \/ NoFault
  PROVE  faults' \in 0..MaxFaults
BY DemoAssumption DEF TypeInv, TypeOK, Fault, NoFault

LEMMA LeaveTypes ==
  ASSUME TypeInv, NEW o \in Orgs, Leave(o) \/ UNCHANGED left
  PROVE  left' \in SUBSET Orgs
BY DEF TypeInv, TypeOK, Leave

LEMMA RaceTypes ==
  ASSUME TypeInv, NEW o \in Orgs, NEW op, Race(o, op) \/ UNCHANGED raced
  PROVE  raced' \in SUBSET Orgs
BY DEF TypeInv, TypeOK, Race

LEMMA LoginTypes ==
  ASSUME TypeInv, NEW o \in Orgs, NEW role \in Roles, NEW s \in {"none", "active", "banned"},
         login' = [login EXCEPT ![o][role] = s]
  PROVE  login' \in [Orgs -> [Roles -> {"none", "active", "banned"}]]
BY DEF TypeInv, TypeOK

(* The steps of a create. *)
LEMMA CreateTypes ==
  ASSUME TypeInv, NEW q \in Actors,
         \/ \E o \in Orgs : CreateUser(q, o) \/ SeedProspect(q, o)
         \/ MarkDemo(q) \/ SeedDemo(q) \/ CreateAttendant(q) \/ LinkLogin(q)
         \/ Invite(q) \/ UpdateAppMetadata(q)
  PROVE  TypeInv'
<1> USE DEF Steps, Roles
<1>1. ASSUME NEW o \in Orgs, CreateUser(q, o) PROVE TypeInv'
  <2>0. /\ FALSE \in BOOLEAN /\ 0 \in 0..MaxExpires /\ {"owner"} \in SUBSET Roles
        /\ "unseeded" \in {"unseeded", "yes", "no"}
    BY DemoAssumption
  <2>1. NewRow(FALSE, 0, {"owner"}, "unseeded") \in Row
    BY <2>0, NewRowTypes, Zenon
  <2>2. 0 \in 0..MaxExpires BY DemoAssumption
  <2>3. CallsTyped'
    BY <1>1, <2>2, BeginTypes, SameCalls DEF CreateUser, Ops
  <2>4. login' \in [Orgs -> [Roles -> {"none", "active", "banned"}]]
    BY <1>1, LoginTypes DEF CreateUser
  <2>5. org' \in [Orgs -> Row]
    BY <1>1, <2>1, SetTypes DEF CreateUser
  <2>6. faults' \in 0..MaxFaults /\ left' \in SUBSET Orgs
    BY <1>1, FaultTypes, LeaveTypes DEF CreateUser
  <2> QED BY <1>1, <2>3, <2>4, <2>5, <2>6 DEF CreateUser, TypeInv, TypeOK, CallsTyped
<1>2. ASSUME NEW o \in Orgs, SeedProspect(q, o) PROVE TypeInv'
  <2>1. 0 \in 0..MaxExpires BY DemoAssumption
  <2>2. CallsTyped'
    BY <1>2, <2>1, BeginTypes DEF SeedProspect, Ops
  <2>3. org' \in [Orgs -> Row]
    <3>1. PICK term \in Terms, onDuty \in {"yes", "no"} :
            /\ day + term <= MaxExpires
            /\ Set(o, NewRow(TRUE, day + term, {}, onDuty))
      BY <1>2 DEF SeedProspect
    <3>2. day + term \in 0..MaxExpires
      BY <3>1, DemoAssumption DEF TypeInv, TypeOK
    <3>3. NewRow(TRUE, day + term, {}, onDuty) \in Row
      BY <3>2, NewRowTypes
    <3> QED BY <3>1, <3>3, SetTypes
  <2> QED BY <1>2, <2>2, <2>3 DEF SeedProspect, TypeInv, TypeOK, CallsTyped
<1>3. CASE MarkDemo(q)
  <2> DEFINE o == call[q].org
  <2>1. Busy(q) BY <1>3 DEF MarkDemo, At
  <2>2. o \in Orgs /\ org[o] \in Row BY <2>1, BusyCall
  <2>3. CallsTyped' BY <1>3, <2>1, GotoTypes DEF MarkDemo
  <2>4. faults' \in 0..MaxFaults /\ left' \in SUBSET Orgs
    BY <1>3, <2>2, FaultTypes, LeaveTypes DEF MarkDemo
  <2>5. org' \in [Orgs -> Row]
    <3>1. ASSUME NEW term \in Terms, day + term <= MaxExpires,
                 Set(o, [org[o] EXCEPT !.demo = TRUE, !.expires = day + term])
          PROVE  org' \in [Orgs -> Row]
      <4>1. day + term \in 0..MaxExpires
        BY <3>1, DemoAssumption DEF TypeInv, TypeOK
      <4>2. [org[o] EXCEPT !.demo = TRUE, !.expires = day + term] \in Row
        BY <2>2, <4>1 DEF Row
      <4> QED BY <2>2, <3>1, <4>2, SetTypes
    <3> QED BY <1>3, <3>1 DEF MarkDemo, TypeInv, TypeOK
  <2> QED BY <1>3, <2>3, <2>4, <2>5 DEF MarkDemo, TypeInv, TypeOK, CallsTyped
<1>4. CASE SeedDemo(q)
  <2> DEFINE o == call[q].org
  <2>1. Busy(q) BY <1>4 DEF SeedDemo, At
  <2>2. o \in Orgs /\ org[o] \in Row BY <2>1, BusyCall
  <2>3. CallsTyped' BY <1>4, <2>1, GotoTypes, EndTypes DEF SeedDemo
  <2>4. \A d \in {"yes", "no"} : [org[o] EXCEPT !.onDuty = d] \in Row
    BY <2>2 DEF Row
  <2>5. org' \in [Orgs -> Row]
    BY <1>4, <2>2, <2>4, SetTypes DEF SeedDemo, TypeInv, TypeOK
  <2> QED BY <1>4, <2>3, <2>5, FaultTypes DEF SeedDemo, TypeInv, TypeOK, CallsTyped
<1>5. CASE CreateAttendant(q)
  <2>1. Busy(q) BY <1>5 DEF CreateAttendant, At
  <2>2. call[q].org \in Orgs BY <2>1, BusyCall
  <2>3. CallsTyped' BY <1>5, <2>1, GotoTypes, LearnTypes DEF CreateAttendant
  <2>4. login' \in [Orgs -> [Roles -> {"none", "active", "banned"}]]
    BY <1>5, <2>2, LoginTypes DEF CreateAttendant, TypeInv, TypeOK
  <2>5. faults' \in 0..MaxFaults /\ left' \in SUBSET Orgs
    BY <1>5, <2>2, FaultTypes, LeaveTypes DEF CreateAttendant
  <2> QED BY <1>5, <2>3, <2>4, <2>5 DEF CreateAttendant, TypeInv, TypeOK, CallsTyped
<1>6. CASE LinkLogin(q)
  <2> DEFINE o == call[q].org
             role == IF call[q].op = "invite" THEN "owner" ELSE "attendant"
  <2>1. Busy(q) BY <1>6 DEF LinkLogin, At
  <2>2. o \in Orgs /\ org[o] \in Row BY <2>1, BusyCall
  <2>3. CallsTyped' BY <1>6, <2>1, GotoTypes, EndTypes DEF LinkLogin
  <2>4. [org[o] EXCEPT !.linked = @ \cup {role}] \in Row
    BY <2>2 DEF Row
  <2>5. org' \in [Orgs -> Row]
    BY <1>6, <2>2, <2>4, SetTypes DEF LinkLogin, TypeInv, TypeOK
  <2> QED BY <1>6, <2>3, <2>5, FaultTypes DEF LinkLogin, TypeInv, TypeOK, CallsTyped
<1>7. CASE Invite(q)
  <2> DEFINE o == call[q].org
  <2>1. Busy(q) BY <1>7 DEF Invite, At
  <2>2. o \in Orgs /\ org[o] \in Row BY <2>1, BusyCall
  <2>3. CallsTyped' BY <1>7, <2>1, GotoTypes, LearnTypes DEF Invite
  <2>4. [org[o] EXCEPT !.linked = @ \cup {"owner"}, !.active = TRUE] \in Row
    BY <2>2 DEF Row
  <2>5. org' \in [Orgs -> Row]
    BY <1>7, <2>2, <2>4, SetTypes DEF Invite, TypeInv, TypeOK
  <2>6. login' \in [Orgs -> [Roles -> {"none", "active", "banned"}]]
    BY <1>7, <2>2, LoginTypes DEF Invite, TypeInv, TypeOK
  <2>7. faults' \in 0..MaxFaults /\ left' \in SUBSET Orgs
    BY <1>7, <2>2, FaultTypes, LeaveTypes DEF Invite
  <2> QED BY <1>7, <2>3, <2>5, <2>6, <2>7 DEF Invite, TypeInv, TypeOK, CallsTyped
<1>8. CASE UpdateAppMetadata(q)
  <2>1. Busy(q) BY <1>8 DEF UpdateAppMetadata, At
  <2>2. CallsTyped' BY <1>8, <2>1, GotoTypes DEF UpdateAppMetadata
  <2> QED BY <1>8, <2>2, FaultTypes DEF UpdateAppMetadata, TypeInv, TypeOK, CallsTyped
<1> QED BY <1>1, <1>2, <1>3, <1>4, <1>5, <1>6, <1>7, <1>8

(* Undoing and deleting. *)
LEMMA DeleteTypes ==
  ASSUME TypeInv, NEW a \in Actors,
         RollbackRows(a) \/ DeleteLogins(a) \/ DeleteDemoRows(a)
  PROVE  TypeInv'
<1> USE DEF Steps, Roles
<1> DEFINE o == call[a].org
<1>b. Busy(a) BY DEF RollbackRows, DeleteLogins, DeleteDemoRows, At
<1>o. o \in Orgs /\ org[o] \in Row BY <1>b, BusyCall
<1>n. org' \in [Orgs -> Row] \/ ~Set(o, NoRow)
  BY <1>o, NoRowTypes, SetTypes
<1>1. CASE RollbackRows(a)
  <2>1. CallsTyped' BY <1>b, <1>1, GotoTypes DEF RollbackRows
  <2>2. org' \in [Orgs -> Row]
    BY <1>1, <1>n DEF RollbackRows, RolledBack, TypeInv, TypeOK
  <2>3. faults' \in 0..MaxFaults /\ left' \in SUBSET Orgs
    BY <1>1, <1>o, FaultTypes, LeaveTypes DEF RollbackRows
  <2> QED BY <1>1, <2>1, <2>2, <2>3 DEF RollbackRows, TypeInv, TypeOK, CallsTyped
<1>2. CASE DeleteLogins(a)
  <2>1. CallsTyped' BY <1>2, EndTypes DEF DeleteLogins
  <2>2. login' \in [Orgs -> [Roles -> {"none", "active", "banned"}]]
    BY <1>2, <1>o DEF DeleteLogins, TypeInv, TypeOK
  <2>3. faults' \in 0..MaxFaults /\ left' \in SUBSET Orgs
    BY <1>2, <1>o, FaultTypes, LeaveTypes DEF DeleteLogins
  <2> QED BY <1>2, <2>1, <2>2, <2>3 DEF DeleteLogins, TypeInv, TypeOK, CallsTyped
<1>3. CASE DeleteDemoRows(a)
  <2>1. CallsTyped' BY <1>b, <1>3, GotoTypes, EndTypes DEF DeleteDemoRows
  <2>2. org' \in [Orgs -> Row]
    BY <1>3, <1>n DEF DeleteDemoRows, TypeInv, TypeOK
  <2> QED BY <1>3, <2>1, <2>2, FaultTypes DEF DeleteDemoRows, TypeInv, TypeOK, CallsTyped
<1> QED BY <1>1, <1>2, <1>3

(* What an admin does in one step or begins. *)
LEMMA AdminTypes ==
  ASSUME TypeInv, NEW o \in Orgs,
         \/ ResetDemo(o)
         \/ \E term \in Terms : ExtendDemo(o, term)
         \/ \E q \in Requests : \/ StartDelete(q, o)
                                \/ \E op \in {"activate", "deactivate"} : StartSetOwner(q, o, op)
  PROVE  TypeInv'
<1> USE DEF Steps, Roles
<1>o. org[o] \in Row /\ org[o].linked \in SUBSET Roles BY DEF TypeInv, TypeOK, Row
<1>z. 0 \in 0..MaxExpires BY DemoAssumption
<1>1. CASE ResetDemo(o)
  <2> DEFINE onDuty == IF org[o].onDuty = "unseeded" THEN "yes" ELSE org[o].onDuty
  <2>1. [org[o] EXCEPT !.onDuty = onDuty, !.linked = Relinked(@, onDuty)] \in Row
    BY <1>o DEF Relinked, Row
  <2>2. org' \in [Orgs -> Row] BY <1>1, <2>1, SetTypes DEF ResetDemo
  <2>3. CallsTyped' BY <1>1, SameCalls DEF ResetDemo
  <2> QED BY <1>1, <2>2, <2>3 DEF ResetDemo, TypeInv, TypeOK, CallsTyped
<1>2. ASSUME NEW term \in Terms, ExtendDemo(o, term) PROVE TypeInv'
  <2>1. ExpiryAfter(org[o], term) \in 0..MaxExpires
    BY <1>2, DemoAssumption DEF ExtendDemo, ExpiryAfter, TypeInv, TypeOK
  <2>2. [org[o] EXCEPT !.expires = ExpiryAfter(org[o], term)] \in Row
    BY <1>o, <2>1 DEF Row
  <2>3. org' \in [Orgs -> Row] BY <1>2, <2>2, SetTypes DEF ExtendDemo
  <2>4. CallsTyped' BY <1>2, SameCalls DEF ExtendDemo
  <2> QED BY <1>2, <2>3, <2>4 DEF ExtendDemo, TypeInv, TypeOK, CallsTyped
<1>3. ASSUME NEW q \in Requests, StartDelete(q, o) PROVE TypeInv'
  <2>1. CallsTyped'
    BY <1>3, <1>o, <1>z, BeginTypes DEF StartDelete, Ops, Actors
  <2> QED BY <1>3, <2>1 DEF StartDelete, TypeInv, TypeOK, CallsTyped
<1>4. ASSUME NEW q \in Requests, NEW op \in {"activate", "deactivate"}, StartSetOwner(q, o, op)
      PROVE  TypeInv'
  <2>1. CallsTyped'
    BY <1>4, <1>o, <1>z, BeginTypes DEF StartSetOwner, FirstSwitch, Ops, Actors
  <2>2. raced' \in SUBSET Orgs BY <1>4, RaceTypes DEF StartSetOwner
  <2> QED BY <1>4, <2>1, <2>2 DEF StartSetOwner, TypeInv, TypeOK, CallsTyped
<1> QED BY <1>1, <1>2, <1>3, <1>4

(* The steps of setOwnerActive. *)
LEMMA OwnerTypes ==
  ASSUME TypeInv, NEW q \in Actors, SwitchLogin(q) \/ SwitchStatus(q) \/ SetSuspension(q)
  PROVE  TypeInv'
<1> USE DEF Steps, Roles
<1> DEFINE o == call[q].org
<1>b. Busy(q) BY DEF SwitchLogin, SwitchStatus, SetSuspension, At
<1>o. o \in Orgs /\ org[o] \in Row BY <1>b, BusyCall
<1>1. CASE SwitchLogin(q)
  <2>1. CallsTyped' BY <1>b, <1>1, GotoTypes, EndTypes DEF SwitchLogin
  <2>2. login' \in [Orgs -> [Roles -> {"none", "active", "banned"}]]
    BY <1>1, <1>o, LoginTypes DEF SwitchLogin, TypeInv, TypeOK
  <2>3. faults' \in 0..MaxFaults /\ left' \in SUBSET Orgs
    BY <1>1, <1>o, FaultTypes, LeaveTypes DEF SwitchLogin
  <2> QED BY <1>1, <2>1, <2>2, <2>3 DEF SwitchLogin, TypeInv, TypeOK, CallsTyped
<1>2. CASE SwitchStatus(q)
  <2>1. CallsTyped' BY <1>b, <1>2, GotoTypes, EndTypes DEF SwitchStatus
  <2>2. [org[o] EXCEPT !.active = call[q].op = "activate"] \in Row
    <3>1. (call[q].op = "activate") \in BOOLEAN OBVIOUS
    <3> QED BY <1>o, <3>1, Zenon DEF Row
  <2>3. org' \in [Orgs -> Row]
    BY <1>2, <1>o, <2>2, SetTypes DEF SwitchStatus, TypeInv, TypeOK
  <2>4. faults' \in 0..MaxFaults /\ left' \in SUBSET Orgs
    BY <1>2, <1>o, FaultTypes, LeaveTypes DEF SwitchStatus
  <2> QED BY <1>2, <2>1, <2>3, <2>4 DEF SwitchStatus, TypeInv, TypeOK, CallsTyped
<1>3. CASE SetSuspension(q)
  <2>1. CallsTyped' BY <1>3, EndTypes DEF SetSuspension
  <2>2. [org[o] EXCEPT !.suspended = call[q].op = "deactivate"] \in Row
    <3>1. (call[q].op = "deactivate") \in BOOLEAN OBVIOUS
    <3> QED BY <1>o, <3>1, Zenon DEF Row
  <2>3. org' \in [Orgs -> Row]
    BY <1>3, <1>o, <2>2, SetTypes DEF SetSuspension, TypeInv, TypeOK
  <2>4. faults' \in 0..MaxFaults /\ left' \in SUBSET Orgs
    BY <1>3, <1>o, FaultTypes, LeaveTypes DEF SetSuspension
  <2> QED BY <1>3, <2>1, <2>3, <2>4 DEF SetSuspension, TypeInv, TypeOK, CallsTyped
<1> QED BY <1>1, <1>2, <1>3

(* The job, a killed worker, the next day. *)
LEMMA JobTypes ==
  ASSUME TypeInv, JobStep \/ (\E a \in Actors : Kill(a)) \/ Tick
  PROVE  TypeInv'
<1> USE DEF Steps, Roles
<1>j. Job \in Actors BY DEF Actors
<1>1. CASE JobList
  <2>1. listed' \in SUBSET [org: Orgs, expires: 0..MaxExpires]
    BY <1>1 DEF JobList, TypeInv, TypeOK, Row
  <2>2. CallsTyped' BY <1>1, SameCalls DEF JobList
  <2> QED BY <1>1, <2>1, <2>2 DEF JobList, TypeInv, TypeOK, CallsTyped
<1>2. ASSUME NEW d \in listed, JobPick(d) PROVE TypeInv'
  <2>1. d.org \in Orgs /\ d.expires \in 0..MaxExpires /\ org[d.org].linked \in SUBSET Roles
    BY DEF TypeInv, TypeOK, Row
  <2>2. CallsTyped' BY <1>j, <1>2, <2>1, BeginTypes, SameCalls DEF JobPick, Ops
  <2>3. raced' \in SUBSET Orgs BY <1>2, <2>1, RaceTypes DEF JobPick
  <2> QED BY <1>2, <2>2, <2>3, FaultTypes DEF JobPick, TypeInv, TypeOK, CallsTyped
<1>3. CASE JobStop
  <2> DEFINE o == call[Job].org
  <2>1. Busy(Job) BY <1>3 DEF JobStop, At
  <2>2. o \in Orgs /\ org[o] \in Row BY <1>j, <2>1, BusyCall
  <2>3. CallsTyped' BY <1>j, <1>3, <2>1, GotoTypes, EndTypes DEF JobStop
  <2>4. [org[o] EXCEPT !.suspended = TRUE, !.active = FALSE] \in Row
    BY <2>2, Zenon DEF Row
  <2>5. org' \in [Orgs -> Row]
    BY <1>3, <2>2, <2>4, SetTypes DEF JobStop, TypeInv, TypeOK
  <2> QED BY <1>3, <2>3, <2>5, FaultTypes DEF JobStop, TypeInv, TypeOK, CallsTyped
<1>4. CASE JobBan
  <2>1. Busy(Job) BY <1>4 DEF JobBan, At
  <2>2. CallsTyped' BY <1>j, <1>4, EndTypes DEF JobBan
  <2>3. login' \in [Orgs -> [Roles -> {"none", "active", "banned"}]]
    BY <1>j, <1>4, <2>1, BusyCall DEF JobBan, TypeInv, TypeOK
  <2> QED BY <1>4, <2>2, <2>3, FaultTypes DEF JobBan, TypeInv, TypeOK, CallsTyped
<1>5. ASSUME NEW a \in Actors, Kill(a) PROVE TypeInv'
  <2>1. CallsTyped' BY <1>5, EndTypes DEF Kill
  <2>2. faults' \in 0..MaxFaults /\ left' \in SUBSET Orgs
    BY <1>5, BusyCall, FaultTypes, LeaveTypes DEF Kill
  <2> QED BY <1>5, <2>1, <2>2 DEF Kill, TypeInv, TypeOK, CallsTyped
<1>6. CASE Tick
  <2>1. CallsTyped' BY <1>6, SameCalls DEF Tick
  <2>2. day' \in 0..MaxDay BY <1>6, DemoAssumption DEF Tick, TypeInv, TypeOK
  <2> QED BY <1>6, <2>1, <2>2 DEF Tick, TypeInv, TypeOK, CallsTyped
<1> QED BY <1>1, <1>2, <1>3, <1>4, <1>5, <1>6 DEF JobStep

LEMMA NextTypes == TypeInv /\ [Next]_vars => TypeInv'
<1> SUFFICES ASSUME TypeInv, [Next]_vars PROVE TypeInv'
  OBVIOUS
<1>1. ASSUME NEW q \in Requests, NEW o \in Orgs, Admin(q, o) PROVE TypeInv'
  BY <1>1, CreateTypes, AdminTypes DEF Admin, Actors
<1>2. ASSUME NEW o \in Orgs, ResetDemo(o) \/ \E term \in Terms : ExtendDemo(o, term)
      PROVE  TypeInv'
  BY <1>2, AdminTypes
<1>3. ASSUME NEW a \in Actors, Step(a) PROVE TypeInv'
  BY <1>3, CreateTypes, DeleteTypes, OwnerTypes DEF Step
<1>4. ASSUME JobStep \/ (\E a \in Actors : Kill(a)) \/ Tick PROVE TypeInv'
  BY <1>4, JobTypes
<1>5. CASE UNCHANGED vars
  BY <1>5 DEF vars, TypeInv, TypeOK, BusyHasOrg, Busy
<1> QED BY <1>1, <1>2, <1>3, <1>4, <1>5 DEF Next

LEMMA InitTypes == Init => TypeInv
<1> SUFFICES ASSUME Init PROVE TypeInv
  OBVIOUS
<1>1. Free \in Call /\ Free.op = "none"
  BY DemoAssumption DEF Free, Begun, Call, Ops, Steps
<1>2. login \in [Orgs -> [Roles -> {"none", "active", "banned"}]]
  BY DEF Init
<1>3. day \in 0..MaxDay /\ faults \in 0..MaxFaults
  BY DemoAssumption DEF Init
<1> QED BY <1>1, <1>2, <1>3, NoRowTypes DEF Init, TypeInv, TypeOK, BusyHasOrg, Busy

(* Every state of the demos, their logins and the operations on them is one
   the rows, the auth provider and the code's variables can be in. *)
THEOREM DemoTypes == Spec => []TypeOK
<1>1. Spec => []TypeInv
  BY InitTypes, NextTypes, PTL DEF Spec
<1> QED BY <1>1, PTL DEF TypeInv

----------------------------------------------------------------------------
(* The job.  It deletes on the verdict of its list, which stays true of the *)
(* expiry it saw because no day passes while it works.                      *)

JobVerdict ==
  /\ call[Job].step \in {"start", "deleteRows", "deleteLogins", "stop", "ban"}
  /\ At(Job, "deleteRows") => Overdue(call[Job].seen)

(* Steps of requests, and those that change no call, leave it alone. *)
LEMMA OthersKeepVerdict ==
  ASSUME JobVerdict, call'[Job] = call[Job], UNCHANGED day
  PROVE  JobVerdict'
BY DEF JobVerdict, At, Busy, Overdue

LEMMA NextVerdict == TypeInv /\ JobVerdict /\ [Next]_vars => JobVerdict'
<1> SUFFICES ASSUME TypeInv, JobVerdict, [Next]_vars PROVE JobVerdict'
  OBVIOUS
<1>j. Job \in Actors /\ call \in [Actors -> Call] BY DEF Actors, TypeInv, TypeOK
<1>f. Free.step = "start" /\ Free.op = "none" BY DEF Free, Begun
<1>e. ASSUME NEW a \in Actors, End(a), UNCHANGED day PROVE JobVerdict'
  <2>1. CASE a = Job
    BY <1>e, <1>f, <1>j, <2>1 DEF End, JobVerdict, At, Busy
  <2>2. CASE a # Job
    BY <1>e, <1>j, <2>2, OthersKeepVerdict DEF End
  <2> QED BY <2>1, <2>2
<1>1. ASSUME NEW q \in Requests, NEW o \in Orgs, Admin(q, o) PROVE JobVerdict'
  <2>1. q # Job /\ q \in Actors BY DemoAssumption DEF Actors
  <2>2. call'[Job] = call[Job] /\ UNCHANGED day
    BY <1>1, <1>j, <2>1
       DEF Admin, CreateUser, SeedProspect, StartDelete, StartSetOwner, Begin
  <2> QED BY <2>2, OthersKeepVerdict
<1>2. ASSUME NEW o \in Orgs, ResetDemo(o) \/ \E term \in Terms : ExtendDemo(o, term)
      PROVE  JobVerdict'
  BY <1>2, OthersKeepVerdict DEF ResetDemo, ExtendDemo
<1>3. ASSUME NEW a \in Actors, Step(a) PROVE JobVerdict'
  <2>1. UNCHANGED day
    BY <1>3 DEF Step, MarkDemo, SeedDemo, CreateAttendant, LinkLogin, Invite,
                UpdateAppMetadata, RollbackRows, DeleteLogins, DeleteDemoRows,
                SwitchLogin, SwitchStatus, SetSuspension
  <2>2. CASE a # Job
    BY <1>3, <1>j, <2>1, <2>2, OthersKeepVerdict
       DEF Step, MarkDemo, SeedDemo, CreateAttendant, LinkLogin, Invite,
           UpdateAppMetadata, RollbackRows, DeleteLogins, DeleteDemoRows,
           SwitchLogin, SwitchStatus, SetSuspension, Goto, Learn, End
  <2>3. CASE a = Job
    <3>1. DeleteLogins(Job) \/ DeleteDemoRows(Job)
      BY <1>3, <2>3 DEF Step, MarkDemo, SeedDemo, CreateAttendant, LinkLogin, Invite,
           UpdateAppMetadata, RollbackRows, SwitchLogin, SwitchStatus, SetSuspension,
           JobVerdict, At
    <3>2. CASE DeleteLogins(Job)
      BY <1>e, <1>j, <2>1, <3>2 DEF DeleteLogins
    <3>3. CASE DeleteDemoRows(Job)
      <4>1. CASE Goto(Job, "deleteLogins")
        BY <1>j, <4>1 DEF Goto, JobVerdict, At, Call
      <4>2. CASE End(Job)
        BY <1>e, <1>j, <2>1, <4>2
      <4> QED BY <3>3, <4>1, <4>2 DEF DeleteDemoRows
    <3> QED BY <3>1, <3>2, <3>3
  <2> QED BY <2>2, <2>3
<1>4. CASE JobList
  BY <1>4, OthersKeepVerdict DEF JobList
<1>5. ASSUME NEW d \in listed, JobPick(d) PROVE JobVerdict'
  <2>1. CASE UNCHANGED call
    BY <1>5, <2>1, OthersKeepVerdict DEF JobPick
  <2>2. CASE Begin(Job, Begun("expire", d.org,
                            IF Overdue(d.expires) THEN "deleteRows" ELSE "stop",
                            org[d.org].linked, d.expires))
    <3>1. /\ call'[Job].step = IF Overdue(d.expires) THEN "deleteRows" ELSE "stop"
          /\ call'[Job].seen = d.expires
      BY <1>j, <2>2 DEF Begin, Begun
    <3> QED BY <1>5, <3>1 DEF JobPick, JobVerdict, At, Overdue
  <2> QED BY <1>5, <2>1, <2>2 DEF JobPick
<1>6. CASE JobStop
  <2>1. CASE Goto(Job, "ban")
    BY <1>j, <2>1 DEF Goto, JobVerdict, At, Call
  <2>2. CASE End(Job)
    BY <1>6, <1>e, <1>j, <2>2 DEF JobStop
  <2> QED BY <1>6, <2>1, <2>2 DEF JobStop
<1>7. CASE JobBan
  BY <1>7, <1>e, <1>j DEF JobBan
<1>8. ASSUME NEW a \in Actors, Kill(a) PROVE JobVerdict'
  BY <1>8, <1>e DEF Kill
<1>9. CASE Tick
  BY <1>9 DEF Tick, JobVerdict, At, Busy
<1>10. CASE UNCHANGED vars
  BY <1>10, OthersKeepVerdict DEF vars
<1> QED BY <1>1, <1>2, <1>3, <1>4, <1>5, <1>6, <1>7, <1>8, <1>9, <1>10 DEF Next, JobStep

(* The nightly job stops only a demo expired when it stops it, and removes
   only one past its grace or extended after its list was read. *)
THEOREM JobKeepsToExpiries == Spec => ExpiryIsRespected
<1> DEFINE Respected ==
      \A o \in Orgs :
        LET c == call[Job] IN
        c.org = o /\ call'[Job] # c /\ org'[o] # org[o] =>
          IF org'[o].here THEN org[o].expires <= day
          ELSE org[o].expires + Grace < day \/ org[o].expires # c.seen
<1>1. TypeInv /\ JobVerdict /\ [Next]_vars => [Respected]_vars
  <2> SUFFICES ASSUME TypeInv, JobVerdict, Next, NEW o \in Orgs,
                      call[Job].org = o, call'[Job] # call[Job], org'[o] # org[o]
               PROVE  IF org'[o].here THEN org[o].expires <= day
                      ELSE org[o].expires + Grace < day \/ org[o].expires # call[Job].seen
    OBVIOUS
  <2>j. Job \in Actors /\ call \in [Actors -> Call] /\ org \in [Orgs -> Row]
    BY DEF Actors, TypeInv, TypeOK
  <2>1. CASE DeleteDemoRows(Job)
    <3>1. Set(o, NoRow)
      BY <2>1 DEF DeleteDemoRows
    <3>2. ~org'[o].here
      BY <2>j, <3>1, Zenon DEF Set, NoRow
    <3>3. Overdue(call[Job].seen)
      BY <2>1 DEF DeleteDemoRows, JobVerdict
    <3>4. org[o].expires \in Int /\ day \in Int /\ Grace \in Int
      BY <2>j, DemoAssumption DEF Row, TypeInv, TypeOK
    <3>5. org[o].expires + Grace < day \/ org[o].expires # call[Job].seen
      BY <3>3, <3>4 DEF Overdue
    <3> QED BY <3>2, <3>5
  <2>2. CASE JobStop
    <3>1. Set(o, [org[o] EXCEPT !.suspended = TRUE, !.active = FALSE]) /\ StillDue(org[o])
      BY <2>2 DEF JobStop
    <3>2. org[o].here /\ org[o].expires <= day
      BY <3>1 DEF StillDue, Expired
    <3>3. org'[o] = [org[o] EXCEPT !.suspended = TRUE, !.active = FALSE]
      BY <2>j, <3>1, Zenon DEF Set
    <3>4. org'[o].here
      BY <2>j, <3>2, <3>3, Zenon DEF Row
    <3> QED BY <3>2, <3>4
  <2>3. DeleteDemoRows(Job) \/ JobStop
    <3>1. \A q \in Requests : q # Job /\ q \in Actors
      BY DemoAssumption DEF Actors
    <3>2. ~\E q \in Requests, x \in Orgs : Admin(q, x)
      BY <2>j, <3>1 DEF Admin, CreateUser, SeedProspect, StartDelete, StartSetOwner, Begin
    <3>3. ~\E x \in Orgs : ResetDemo(x) \/ \E term \in Terms : ExtendDemo(x, term)
      BY DEF ResetDemo, ExtendDemo
    <3>4. ASSUME NEW a \in Actors, Step(a) PROVE DeleteDemoRows(Job)
      <4>1. a = Job
        BY <3>4, <2>j
           DEF Step, MarkDemo, SeedDemo, CreateAttendant, LinkLogin, Invite,
               UpdateAppMetadata, RollbackRows, DeleteLogins, DeleteDemoRows,
               SwitchLogin, SwitchStatus, SetSuspension, Goto, Learn, End
      <4> QED
        BY <3>4, <4>1
           DEF Step, MarkDemo, SeedDemo, CreateAttendant, LinkLogin, Invite,
               UpdateAppMetadata, RollbackRows, DeleteLogins, SwitchLogin,
               SwitchStatus, SetSuspension, JobVerdict, At
    <3>5. ~\E a \in Actors : Kill(a)
      BY DEF Kill
    <3>6. ~JobList /\ ~JobBan /\ ~Tick /\ ~\E d \in listed : JobPick(d)
      BY DEF JobList, JobBan, Tick, JobPick
    <3> QED BY <3>2, <3>3, <3>4, <3>5, <3>6 DEF Next, JobStep
  <2> QED BY <2>1, <2>2, <2>3
<1>2. Init => JobVerdict
  BY DEF Init, JobVerdict, Free, Begun, At, Busy, Actors
<1>3. Spec => [](TypeInv /\ JobVerdict)
  BY <1>2, InitTypes, NextTypes, NextVerdict, PTL DEF Spec
<1> QED BY <1>1, <1>3, PTL DEF Spec, ExpiryIsRespected

----------------------------------------------------------------------------
(* Rows and logins.  Between the steps of a create or a delete the two      *)
(* disagree in a known way, and the operation knows the logins that exist.  *)

On(a, o) == Busy(a) /\ call[a].org = o
Makes(a, o) == On(a, o) /\ call[a].op \in {"create", "invite"}
Drops(a, o) == On(a, o) /\ call[a].step = "deleteLogins"
Has(o) == {r \in Roles : login[o][r] # "none"}

(* Which steps an operation consists of. *)
Shape(c) ==
  /\ c.op = "create" =>
       c.step \in {"mark", "seed", "attendant", "link", "undoRows", "undoLogins"}
  /\ c.op = "invite" =>
       c.step \in {"invite", "metadata", "link", "undoRows", "undoLogins"}
  /\ c.op = "delete" => c.step \in {"deleteRows", "deleteLogins"}
  /\ c.op \in {"activate", "deactivate"} => c.step \in {"auth", "status", "suspension"}
  /\ c.op = "expire" => c.step \in {"stop", "ban", "deleteRows", "deleteLogins"}

(* A create has its organisation to itself: no admin sees it yet, and the
   job does not list what has not expired. *)
Order(o) ==
  /\ \A a \in Actors : On(a, o) => Shape(call[a])
  /\ \A a, b \in Actors : Makes(a, o) /\ On(b, o) => a = b
  /\ \A a \in Actors : Makes(a, o) => a # Job
  /\ (\E a \in Actors : Makes(a, o)) =>
       /\ org[o].here /\ org[o].demo => day < org[o].expires
       /\ \A d \in listed : d.org # o

(* What a step finds: the logins there are, the profiles linked, and what
   the operation has learnt of them. *)
Finds(a, o, logins, linked) ==
  org[o].here /\ Has(o) = logins /\ call[a].logins = logins /\ org[o].linked = linked

CallBooks(a, o) ==
  LET step == call[a].step
      op == call[a].op IN
  /\ step \in {"mark", "seed", "attendant", "metadata"} => Finds(a, o, {"owner"}, {"owner"})
  /\ step = "link" /\ op = "invite" => Finds(a, o, {"owner"}, {"owner"})
  /\ step = "link" /\ op = "create" => Finds(a, o, Roles, {"owner"})
  /\ step = "invite" => Finds(a, o, {}, {})
  /\ step \in {"attendant", "link"} /\ op = "create" => org[o].onDuty = "yes"
  /\ step \in {"undoRows", "undoLogins", "deleteLogins"} => Has(o) = call[a].logins
  /\ step \in {"undoLogins", "deleteLogins"} => ~org[o].here
  /\ step = "deleteRows" /\ org[o].here => call[a].logins = org[o].linked

Books(o) ==
  /\ \A a \in Actors : On(a, o) => CallBooks(a, o)
  /\ \A a, b \in Actors : Drops(a, o) /\ Drops(b, o) => a = b
  /\ (\A a \in Actors : ~Makes(a, o) /\ ~Drops(a, o)) => Has(o) = org[o].linked
  /\ "attendant" \in org[o].linked => org[o].onDuty = "yes"
  /\ ~org[o].here => org[o].linked = {}

Kept(o) == Order(o) /\ (o \notin left => Books(o))

BooksInv == \A o \in Orgs : Kept(o)

(* A step about one organisation leaves the others alone. *)
LEMMA OthersKept ==
  ASSUME BooksInv, NEW x \in Orgs,
         org'[x] = org[x], login'[x] = login[x], UNCHANGED day,
         \A a \in Actors : call'[a] = call[a] \/ (~On(a, x) /\ ~On(a, x)'),
         \A d \in listed' : d.org = x => d \in listed,
         x \notin left' => x \notin left
  PROVE  Kept(x)'
<1> USE DEF Busy, On, Makes, Drops
<1>1. \A a \in Actors : /\ On(a, x)' <=> On(a, x)
                        /\ On(a, x) => call'[a] = call[a]
  OBVIOUS
<1>2. Has(x)' = Has(x) BY DEF Has
<1>3. Order(x)'
  BY <1>1 DEF BooksInv, Kept, Order, Shape
<1>4. ASSUME x \notin left' PROVE Books(x)'
  <2>1. Books(x) BY <1>4 DEF BooksInv, Kept
  <2>2. \A a \in Actors : On(a, x)' => CallBooks(a, x)'
    BY <1>1, <1>2, <2>1 DEF Books, CallBooks, Finds
  <2> QED BY <1>1, <1>2, <2>1, <2>2 DEF Books
<1> QED BY <1>3, <1>4 DEF Kept

(* A step of a create: it has the organisation to itself. *)
LEMMA MakerKept ==
  ASSUME TypeInv, NEW o \in Orgs, Kept(o), NEW a \in Actors, Makes(a, o),
         \A b \in Actors : b # a => call'[b] = call[b],
         UNCHANGED <<day, listed>>, left \subseteq left',
         org'[o] \in Row,
         org'[o].here /\ org'[o].demo => day < org'[o].expires,
         On(a, o)' => /\ call'[a].op = call[a].op
                      /\ Shape(call'[a])
                      /\ call'[a].step # "deleteLogins",
         o \notin left' => /\ On(a, o)' => CallBooks(a, o)'
                           /\ ~On(a, o)' => Has(o)' = org'[o].linked
                           /\ "attendant" \in org'[o].linked => org'[o].onDuty = "yes"
                           /\ ~org'[o].here => org'[o].linked = {}
  PROVE  Kept(o)'
<1> USE DEF Busy, On, Makes, Drops
<1>1. \A b \in Actors : On(b, o)' => b = a
  BY DEF Kept, Order
<1>2. Order(o)'
  BY <1>1 DEF Kept, Order
<1>3. ASSUME o \notin left' PROVE Books(o)'
  BY <1>1, <1>3 DEF Books
<1> QED BY <1>2, <1>3 DEF Kept

(* Any other step of an operation: no create is under way on o. *)
LEMMA UserKept ==
  ASSUME TypeInv, NEW o \in Orgs, Kept(o), NEW a \in Actors,
         \A b \in Actors : ~Makes(b, o) /\ ~Makes(b, o)',
         \A b \in Actors : b # a => call'[b] = call[b],
         left \subseteq left',
         On(a, o)' => Shape(call'[a]),
         o \notin left' =>
           /\ \A b \in Actors : On(b, o)' => CallBooks(b, o)'
           /\ Drops(a, o)' => \A b \in Actors \ {a} : ~Drops(b, o)
           /\ (\A b \in Actors : ~Drops(b, o)') => Has(o)' = org'[o].linked
           /\ "attendant" \in org'[o].linked => org'[o].onDuty = "yes"
           /\ ~org'[o].here => org'[o].linked = {}
  PROVE  Kept(o)'
<1> USE DEF Busy, On, Makes, Drops
<1>1. Order(o)'
  BY DEF Kept, Order
<1>2. ASSUME o \notin left' PROVE Books(o)'
  <2>1. o \notin left /\ Books(o) BY <1>2 DEF Kept
  <2>2. \A b, c \in Actors : Drops(b, o)' /\ Drops(c, o)' => b = c
    BY <1>2, <2>1 DEF Books
  <2> QED BY <1>2, <2>2 DEF Books
<1> QED BY <1>1, <1>2 DEF Kept

(* What the operators on calls write. *)
LEMMA GotoCall ==
  ASSUME TypeInv, NEW a \in Actors, NEW step, Goto(a, step)
  PROVE  /\ call'[a].op = call[a].op /\ call'[a].org = call[a].org
         /\ call'[a].logins = call[a].logins /\ call'[a].step = step
         /\ \A b \in Actors : b # a => call'[b] = call[b]
BY DEF TypeInv, TypeOK, Goto, Call

LEMMA LearnCall ==
  ASSUME TypeInv, NEW a \in Actors, NEW step, NEW logins, Learn(a, step, logins)
  PROVE  /\ call'[a].op = call[a].op /\ call'[a].org = call[a].org
         /\ call'[a].logins = logins /\ call'[a].step = step
         /\ \A b \in Actors : b # a => call'[b] = call[b]
BY DEF TypeInv, TypeOK, Learn, Call

LEMMA EndCall ==
  ASSUME TypeInv, NEW a \in Actors, End(a)
  PROVE  /\ ~Busy(a)' /\ \A o \in Orgs : ~On(a, o)'
         /\ \A b \in Actors : b # a => call'[b] = call[b]
BY DEF TypeInv, TypeOK, End, Free, Begun, Busy, On

LEMMA BeginCall ==
  ASSUME TypeInv, NEW a \in Actors, NEW op, NEW o, NEW step, NEW logins, NEW seen,
         Begin(a, Begun(op, o, step, logins, seen))
  PROVE  /\ call'[a].op = op /\ call'[a].org = o
         /\ call'[a].step = step /\ call'[a].logins = logins
         /\ \A b \in Actors : b # a => call'[b] = call[b]
BY DEF TypeInv, TypeOK, Begin, Begun

(* What Set writes. *)
LEMMA SetRow ==
  ASSUME TypeInv, NEW o \in Orgs, NEW row, Set(o, row)
  PROVE  org'[o] = row /\ \A x \in Orgs : x # o => org'[x] = org[x]
BY DEF TypeInv, TypeOK, Set

(* What the edits of a row with truth values in them leave. *)
LEMMA MarkedRow ==
  ASSUME TypeInv, NEW o \in Orgs, NEW expires,
         Set(o, [org[o] EXCEPT !.demo = TRUE, !.expires = expires])
  PROVE  /\ org'[o].here = org[o].here /\ org'[o].linked = org[o].linked
         /\ org'[o].onDuty = org[o].onDuty /\ org'[o].expires = expires
<1>1. org[o] \in Row BY DEF TypeInv, TypeOK
<1>2. org'[o] = [org[o] EXCEPT !.demo = TRUE, !.expires = expires] BY SetRow
<1> QED BY <1>1, <1>2, Zenon DEF Row

LEMMA InvitedRow ==
  ASSUME TypeInv, NEW o \in Orgs,
         Set(o, [org[o] EXCEPT !.linked = @ \cup {"owner"}, !.active = TRUE])
  PROVE  /\ org'[o].here = org[o].here /\ org'[o].linked = org[o].linked \cup {"owner"}
         /\ org'[o].onDuty = org[o].onDuty
         /\ org'[o].expires = org[o].expires /\ org'[o].demo = org[o].demo
<1>1. org[o] \in Row BY DEF TypeInv, TypeOK
<1>2. org'[o] = [org[o] EXCEPT !.linked = @ \cup {"owner"}, !.active = TRUE] BY SetRow
<1> QED BY <1>1, <1>2, Zenon DEF Row

LEMMA StoppedRow ==
  ASSUME TypeInv, NEW o \in Orgs,
         Set(o, [org[o] EXCEPT !.suspended = TRUE, !.active = FALSE])
  PROVE  /\ org'[o].here = org[o].here /\ org'[o].linked = org[o].linked
         /\ org'[o].onDuty = org[o].onDuty
         /\ org'[o].expires = org[o].expires /\ org'[o].demo = org[o].demo
<1>1. org[o] \in Row BY DEF TypeInv, TypeOK
<1>2. org'[o] = [org[o] EXCEPT !.suspended = TRUE, !.active = FALSE] BY SetRow
<1> QED BY <1>1, <1>2, Zenon DEF Row

LEMMA NoRowIsGone == ~NoRow.here /\ NoRow.linked = {} /\ NoRow.onDuty = "unseeded"
BY Zenon DEF NoRow

LEMMA CreatedRow ==
  ASSUME TypeInv, NEW o \in Orgs, NEW demo \in BOOLEAN, NEW expires, NEW linked, NEW onDuty,
         Set(o, NewRow(demo, expires, linked, onDuty))
  PROVE  /\ org'[o].here /\ (org'[o].demo => demo) /\ org'[o].expires = expires
         /\ org'[o].linked = linked
         /\ \A x \in Orgs : x # o => org'[x] = org[x]
<1> DEFINE row == NewRow(demo, expires, linked, onDuty)
<1>1. row.here /\ (row.demo => demo) /\ row.expires = expires /\ row.linked = linked
  BY Zenon DEF NewRow
<1>2. org'[o] = row BY SetRow
<1> HIDE DEF row
<1> QED BY <1>1, <1>2, SetRow DEF row

(* The create whose step it is. *)
LEMMA MakerStep ==
  ASSUME TypeInv, BooksInv, NEW a \in Actors,
         \/ At(a, "mark") \/ At(a, "seed") \/ At(a, "attendant") \/ At(a, "link")
         \/ At(a, "invite") \/ At(a, "metadata") \/ At(a, "undoRows") \/ At(a, "undoLogins")
  PROVE  /\ call[a].org \in Orgs /\ Makes(a, call[a].org) /\ Shape(call[a])
         /\ Kept(call[a].org) /\ org[call[a].org] \in Row
         /\ call[a].org \notin left => Books(call[a].org) /\ CallBooks(a, call[a].org)
<1>1. Busy(a) BY DEF At
<1>2. call[a].org \in Orgs /\ call[a] \in Call /\ org[call[a].org] \in Row
  BY <1>1, BusyCall
<1>3. On(a, call[a].org) /\ Kept(call[a].org)
  BY <1>1, <1>2 DEF On, BooksInv
<1>4. Shape(call[a])
  BY <1>2, <1>3 DEF Kept, Order
<1>5. call[a].op \in {"create", "invite"}
  BY <1>1, <1>2, <1>4 DEF Shape, At, Busy, Call, Ops
<1>6. call[a].org \notin left => Books(call[a].org) /\ CallBooks(a, call[a].org)
  BY <1>3 DEF Kept, Books
<1> QED BY <1>2, <1>3, <1>4, <1>5, <1>6 DEF Makes

(* No step about one organisation is about another. *)
LEMMA FromOne ==
  ASSUME TypeInv, BooksInv, NEW o \in Orgs, NEW a \in Actors,
         call[a].org = o \/ ~Busy(a), On(a, o)' \/ ~Busy(a)' \/ call'[a] = call[a],
         \A b \in Actors : b # a => call'[b] = call[b],
         \A x \in Orgs : x # o => org'[x] = org[x] /\ login'[x] = login[x],
         UNCHANGED day, listed' \subseteq listed,
         \A x \in left' : x # o => x \in left, left \subseteq left',
         Kept(o)'
  PROVE  BooksInv'
<1>1. ASSUME NEW x \in Orgs, x # o PROVE Kept(x)'
  <2>1. \A b \in Actors : call'[b] = call[b] \/ (~On(b, x) /\ ~On(b, x)')
    BY <1>1 DEF On, Busy
  <2> QED BY <1>1, <2>1, OthersKept
<1> QED BY <1>1 DEF BooksInv

(* The steps of a create under way. *)
LEMMA MakerBooks ==
  ASSUME TypeInv, TypeInv', BooksInv, NEW a \in Actors,
         NEW o \in Orgs, call[a].org = o,
         \/ MarkDemo(a) \/ SeedDemo(a) \/ CreateAttendant(a) \/ LinkLogin(a)
         \/ Invite(a) \/ UpdateAppMetadata(a) \/ RollbackRows(a)
  PROVE  BooksInv'
<1> USE DEF Roles
<1>a. /\ o \in Orgs /\ Makes(a, o) /\ Shape(call[a]) /\ Kept(o) /\ org[o] \in Row
      /\ o \notin left => Books(o) /\ CallBooks(a, o)
  BY MakerStep DEF MarkDemo, SeedDemo, CreateAttendant, LinkLogin, Invite,
                   UpdateAppMetadata, RollbackRows
<1>b. /\ Busy(a) /\ org'[o] \in Row
      /\ UNCHANGED <<day, listed>>
      /\ left \subseteq left' /\ \A x \in left' : x # o => x \in left
  BY <1>a DEF Makes, On, TypeInv, TypeOK, Leave, MarkDemo, SeedDemo, CreateAttendant,
              LinkLogin, Invite, UpdateAppMetadata, RollbackRows
<1>c. org[o].here /\ org[o].demo => day < org[o].expires
  BY <1>a DEF Kept, Order
<1>e. o \notin left => /\ "attendant" \in org[o].linked => org[o].onDuty = "yes"
                       /\ ~org[o].here => org[o].linked = {}
  BY <1>a DEF Books
<1>f. \A b \in Actors : b # a => call'[b] = call[b]
  BY GotoCall, LearnCall, EndCall
     DEF MarkDemo, SeedDemo, CreateAttendant, LinkLogin, Invite, UpdateAppMetadata, RollbackRows
<1>g. On(a, o)' \/ ~Busy(a)'
  BY <1>a, GotoCall, LearnCall, EndCall
     DEF MarkDemo, SeedDemo, CreateAttendant, LinkLogin, Invite, UpdateAppMetadata,
         RollbackRows, On, Makes, Busy
<1>h. \A x \in Orgs : x # o => org'[x] = org[x] /\ login'[x] = login[x]
  BY <1>a, SetRow
     DEF MarkDemo, SeedDemo, CreateAttendant, LinkLogin, Invite, UpdateAppMetadata,
         RollbackRows, TypeInv, TypeOK
<1>k. SUFFICES Kept(o)'
  BY <1>a, <1>b, <1>f, <1>g, <1>h, FromOne
<1>1. CASE MarkDemo(a)
  <2>1. CASE Goto(a, "seed") /\ UNCHANGED login /\ \E term \in Terms :
               Set(o, [org[o] EXCEPT !.demo = TRUE, !.expires = day + term])
    <3>1. PICK term \in Terms : Set(o, [org[o] EXCEPT !.demo = TRUE, !.expires = day + term])
      BY <2>1
    <3>2. /\ org'[o].here = org[o].here /\ org'[o].linked = org[o].linked
          /\ org'[o].onDuty = org[o].onDuty /\ org'[o].expires = day + term
      BY <3>1, MarkedRow
    <3>3. day < day + term
      BY DemoAssumption DEF TypeInv, TypeOK
    <3>4. call[a].step = "mark" BY <1>1 DEF MarkDemo, At
    <3>5. call[a].op = "create"
      BY <1>a, <3>4 DEF Shape, Makes
    <3> QED
      BY <1>a, <1>b, <1>c, <1>e, <1>f, <2>1, <3>2, <3>3, <3>4, <3>5, GotoCall, MakerKept
         DEF Shape, CallBooks, Finds, Has
  <2>2. CASE Goto(a, "undoRows") /\ UNCHANGED <<login, org>>
    <3>1. call[a].step = "mark" BY <1>1 DEF MarkDemo, At
    <3> QED
      BY <1>a, <1>b, <1>c, <1>e, <1>f, <2>2, <3>1, GotoCall, MakerKept
         DEF Shape, CallBooks, Finds, Has
  <2>3. CASE Goto(a, "undoLogins") /\ UNCHANGED <<login, org>> /\ Leave(o)
    <3>1. call[a].step = "mark" BY <1>1 DEF MarkDemo, At
    <3>2. o \in left' BY <2>3 DEF Leave
    <3> QED
      BY <1>a, <1>b, <1>c, <1>f, <2>3, <3>1, <3>2, GotoCall, MakerKept DEF Shape
  <2> QED BY <1>1, <2>1, <2>2, <2>3 DEF MarkDemo
<1>2. CASE SeedDemo(a)
  <2>0. call[a].step = "seed" /\ call[a].op = "create"
    BY <1>2, <1>a DEF SeedDemo, At, Shape, Makes
  <2>1. CASE Goto(a, "attendant") /\ UNCHANGED login /\ Set(o, [org[o] EXCEPT !.onDuty = "yes"])
    <3>1. /\ org'[o].here = org[o].here /\ org'[o].linked = org[o].linked
          /\ org'[o].onDuty = "yes" /\ org'[o].expires = org[o].expires
          /\ org'[o].demo = org[o].demo
      BY <1>a, <2>1, SetRow DEF Row
    <3> QED
      BY <1>a, <1>b, <1>c, <1>f, <2>0, <2>1, <3>1, GotoCall, MakerKept
         DEF Shape, CallBooks, Finds, Has
  <2>2. CASE End(a) /\ UNCHANGED login /\ Set(o, [org[o] EXCEPT !.onDuty = "no"])
    <3>1. /\ org'[o].here = org[o].here /\ org'[o].linked = org[o].linked
          /\ org'[o].expires = org[o].expires /\ org'[o].demo = org[o].demo
      BY <1>a, <2>2, SetRow DEF Row
    <3> QED
      BY <1>a, <1>b, <1>c, <1>f, <2>0, <2>2, <3>1, EndCall, MakerKept
         DEF CallBooks, Finds, Has
  <2>3. CASE Goto(a, "undoRows") /\ UNCHANGED <<login, org>>
    BY <1>a, <1>b, <1>c, <1>e, <1>f, <2>0, <2>3, GotoCall, MakerKept
       DEF Shape, CallBooks, Finds, Has
  <2> QED BY <1>2, <2>1, <2>2, <2>3 DEF SeedDemo
<1>3. CASE CreateAttendant(a)
  <2>0. call[a].step = "attendant" /\ call[a].op = "create"
    BY <1>3, <1>a DEF CreateAttendant, At, Shape, Makes
  <2>1. CASE Learn(a, "link", Roles) /\ UNCHANGED org
             /\ login' = [login EXCEPT ![o]["attendant"] = "active"]
    <3>1. o \notin left => Has(o)' = Roles
      BY <1>a, <2>0, <2>1 DEF CallBooks, Finds, Has, TypeInv, TypeOK
    <3>2. o \notin left' => CallBooks(a, o)'
      BY <1>a, <1>b, <2>0, <2>1, <3>1, LearnCall DEF CallBooks, Finds
    <3>3. /\ Shape(call'[a]) /\ On(a, o)'
          /\ call'[a].op = call[a].op /\ call'[a].step # "deleteLogins"
      BY <1>a, <2>0, <2>1, LearnCall DEF Shape, On, Busy, Makes
    <3>4. org' = org BY <2>1
    <3> QED
      BY <1>a, <1>b, <1>c, <1>e, <1>f, <2>0, <2>1, <3>1, <3>2, <3>3, <3>4, LearnCall, MakerKept
         DEF Shape, CallBooks, Finds, Has
  <2>2. CASE Goto(a, "undoRows") /\ UNCHANGED <<login, org>>
    BY <1>a, <1>b, <1>c, <1>e, <1>f, <2>0, <2>2, GotoCall, MakerKept
       DEF Shape, CallBooks, Finds, Has
  <2>3. CASE Goto(a, "undoRows") /\ UNCHANGED org /\ Leave(o)
    <3>1. o \in left' BY <2>3 DEF Leave
    <3> QED
      BY <1>a, <1>b, <1>c, <1>f, <2>0, <2>3, <3>1, GotoCall, MakerKept DEF Shape
  <2> QED BY <1>3, <2>1, <2>2, <2>3 DEF CreateAttendant
<1>4. CASE LinkLogin(a)
  <2> DEFINE role == IF call[a].op = "invite" THEN "owner" ELSE "attendant"
  <2>0. call[a].step = "link" /\ call[a].op \in {"create", "invite"}
    BY <1>4, <1>a DEF LinkLogin, At, Makes
  <2>1. CASE End(a) /\ UNCHANGED login /\ Set(o, [org[o] EXCEPT !.linked = @ \cup {role}])
    <3>1. /\ org'[o].here = org[o].here /\ org'[o].linked = org[o].linked \cup {role}
          /\ org'[o].onDuty = org[o].onDuty
          /\ org'[o].expires = org[o].expires /\ org'[o].demo = org[o].demo
      BY <1>a, <2>1, SetRow DEF Row
    <3>2. o \notin left => /\ org[o].here /\ Has(o)' = org'[o].linked
                           /\ "attendant" \in org'[o].linked => org'[o].onDuty = "yes"
      BY <1>a, <2>0, <2>1, <3>1 DEF CallBooks, Finds, Has
    <3> QED
      BY <1>a, <1>b, <1>c, <1>f, <2>1, <3>1, <3>2, EndCall, MakerKept
  <2>2. CASE Goto(a, "undoRows") /\ UNCHANGED <<login, org>>
    <3>1. o \notin left' => CallBooks(a, o)'
      BY <1>a, <1>b, <2>0, <2>2, GotoCall DEF CallBooks, Finds, Has
    <3>2. /\ Shape(call'[a]) /\ On(a, o)'
          /\ call'[a].op = call[a].op /\ call'[a].step # "deleteLogins"
      BY <1>a, <2>0, <2>2, GotoCall DEF Shape, On, Busy, Makes
    <3>3. org' = org BY <2>2
    <3> QED
      BY <1>a, <1>b, <1>c, <1>e, <1>f, <2>0, <2>2, <3>1, <3>2, <3>3, GotoCall, MakerKept
         DEF Shape, CallBooks, Finds, Has
  <2> QED BY <1>4, <2>1, <2>2 DEF LinkLogin
<1>5. CASE Invite(a)
  <2>0. call[a].step = "invite" /\ call[a].op = "invite"
    BY <1>5, <1>a DEF Invite, At, Shape, Makes
  <2>1. CASE /\ Learn(a, "metadata", {"owner"})
             /\ login' = [login EXCEPT ![o]["owner"] = "active"]
             /\ Set(o, [org[o] EXCEPT !.linked = @ \cup {"owner"}, !.active = TRUE])
    <3>1. /\ org'[o].here = org[o].here /\ org'[o].linked = org[o].linked \cup {"owner"}
          /\ org'[o].onDuty = org[o].onDuty
          /\ org'[o].expires = org[o].expires /\ org'[o].demo = org[o].demo
      BY <2>1, InvitedRow
    <3>2. o \notin left => /\ Has(o)' = {"owner"} /\ org[o].here /\ org[o].linked = {}
      BY <1>a, <2>0, <2>1 DEF CallBooks, Finds, Has, TypeInv, TypeOK
    <3>3. o \notin left' => CallBooks(a, o)'
      BY <1>a, <1>b, <2>0, <2>1, <3>1, <3>2, LearnCall DEF CallBooks, Finds
    <3>4. Shape(call'[a]) /\ On(a, o)'
      BY <1>a, <2>0, <2>1, LearnCall DEF Shape, On, Busy, Makes
    <3> QED
      BY <1>a, <1>b, <1>c, <1>e, <1>f, <2>0, <2>1, <3>1, <3>2, <3>3, <3>4, LearnCall, MakerKept
  <2>2. CASE Goto(a, "undoRows") /\ UNCHANGED <<login, org>>
    BY <1>a, <1>b, <1>c, <1>e, <1>f, <2>0, <2>2, GotoCall, MakerKept
       DEF Shape, CallBooks, Finds, Has
  <2>3. CASE /\ Goto(a, "undoRows") /\ Leave(o)
             /\ Set(o, [org[o] EXCEPT !.linked = @ \cup {"owner"}, !.active = TRUE])
    <3>1. o \in left' BY <2>3 DEF Leave
    <3>2. /\ org'[o].here = org[o].here
          /\ org'[o].expires = org[o].expires /\ org'[o].demo = org[o].demo
      BY <2>3, InvitedRow
    <3> QED
      BY <1>a, <1>b, <1>c, <1>f, <2>0, <2>3, <3>1, <3>2, GotoCall, MakerKept DEF Shape
  <2> QED BY <1>5, <2>1, <2>2, <2>3 DEF Invite
<1>6. CASE UpdateAppMetadata(a)
  <2>0. call[a].step = "metadata" /\ call[a].op = "invite"
    BY <1>6, <1>a DEF UpdateAppMetadata, At, Shape, Makes
  <2>1. UNCHANGED <<login, org>> /\ (Goto(a, "link") \/ Goto(a, "undoRows"))
    BY <1>6 DEF UpdateAppMetadata
  <2> QED
    BY <1>a, <1>b, <1>c, <1>e, <1>f, <2>0, <2>1, GotoCall, MakerKept
       DEF Shape, CallBooks, Finds, Has
<1>7. CASE RollbackRows(a)
  <2>0. call[a].step = "undoRows" /\ call[a].op \in {"create", "invite"}
    BY <1>7, <1>a DEF RollbackRows, At, Makes
  <2>1. Goto(a, "undoLogins") /\ UNCHANGED login
    BY <1>7 DEF RollbackRows
  <2>2. CASE Set(o, NoRow)
    <3>1. ~org'[o].here /\ org'[o].linked = {}
      BY <1>a, <2>2, SetRow, NoRowIsGone
    <3>2. o \notin left' => CallBooks(a, o)'
      BY <1>a, <1>b, <2>0, <2>1, <3>1, GotoCall DEF CallBooks, Finds, Has
    <3> QED
      BY <1>a, <1>b, <1>f, <2>0, <2>1, <3>1, <3>2, GotoCall, MakerKept DEF Shape, On, Busy, Makes
  <2>3. CASE Leave(o) /\ UNCHANGED org
    <3>1. o \in left' BY <2>3 DEF Leave
    <3> QED
      BY <1>a, <1>b, <1>c, <1>f, <2>0, <2>1, <2>3, <3>1, GotoCall, MakerKept DEF Shape
  <2> QED BY <1>7, <2>2, <2>3 DEF RollbackRows, RolledBack
<1> QED BY <1>1, <1>2, <1>3, <1>4, <1>5, <1>6, <1>7

(* The two beginnings of a create. *)
LEMMA NewBooks ==
  ASSUME TypeInv, BooksInv, NEW q \in Requests, NEW o \in Orgs,
         CreateUser(q, o) \/ SeedProspect(q, o)
  PROVE  BooksInv'
<1>a. q \in Actors /\ q # Job /\ ~Busy(q) /\ Kept(o)
  BY DemoAssumption DEF Actors, CreateUser, SeedProspect, BooksInv
<1>b. /\ Has(o) = {} /\ (\A b \in Actors : call[b].org # o) /\ \A d \in listed : d.org # o
      /\ UNCHANGED <<day, listed>>
  BY DEF CreateUser, SeedProspect, Fresh, Has
<1>c. \A b \in Actors : ~On(b, o)
  BY <1>b DEF On
<1>1. CASE /\ CreateUser(q, o) /\ Begin(q, Begun("create", o, "mark", {"owner"}, 0))
           /\ UNCHANGED left
  <2>1. /\ Busy(q)' /\ call'[q].op = "create" /\ call'[q].org = o
        /\ call'[q].step = "mark" /\ call'[q].logins = {"owner"}
        /\ \A b \in Actors : b # q => call'[b] = call[b]
    BY <1>a, <1>1, BeginCall DEF Busy
  <2>2. /\ org'[o].here /\ ~org'[o].demo /\ org'[o].linked = {"owner"}
        /\ \A x \in Orgs : x # o => org'[x] = org[x]
    <3>1. Set(o, NewRow(FALSE, 0, {"owner"}, "unseeded")) BY <1>1 DEF CreateUser
    <3> QED BY <3>1, CreatedRow
  <2>3. Has(o)' = {"owner"} /\ \A x \in Orgs : x # o => login'[x] = login[x]
    BY <1>b, <1>1 DEF CreateUser, Has, Roles, TypeInv, TypeOK
  <2>4. \A b \in Actors : On(b, o)' => b = q
    BY <1>c, <2>1 DEF On, Busy
  <2>5. Order(o)'
    BY <1>a, <1>b, <2>1, <2>2, <2>4 DEF Order, Shape, Makes
  <2>6. CallBooks(q, o)'
    BY <2>1, <2>2, <2>3 DEF CallBooks, Finds
  <2>7. Makes(q, o)'
    BY <2>1 DEF Makes, On, Busy
  <2>8. Books(o)'
    BY <1>a, <2>2, <2>4, <2>6, <2>7 DEF Books, Drops
  <2> QED
    BY <1>a, <1>b, <1>1, <2>1, <2>2, <2>3, <2>5, <2>8, FromOne DEF Kept, On
<1>2. CASE CreateUser(q, o) /\ Leave(o) /\ UNCHANGED call
  <2>1. /\ \A x \in Orgs : x # o => org'[x] = org[x] /\ login'[x] = login[x]
        /\ left' = left \cup {o}
    BY <1>2, SetRow DEF CreateUser, Leave, TypeInv, TypeOK
  <2>2. Order(o)'
    BY <1>c, <1>2 DEF Order, Makes, On, Busy
  <2> QED
    BY <1>a, <1>b, <1>2, <2>1, <2>2, FromOne DEF Kept
<1>3. CASE SeedProspect(q, o)
  <2>1. /\ Busy(q)' /\ call'[q].op = "invite" /\ call'[q].org = o
        /\ call'[q].step = "invite" /\ call'[q].logins = {}
        /\ \A b \in Actors : b # q => call'[b] = call[b]
    BY <1>a, <1>3, BeginCall DEF Busy, SeedProspect
  <2>2. PICK term \in Terms, onDuty \in {"yes", "no"} :
          Set(o, NewRow(TRUE, day + term, {}, onDuty))
    BY <1>3 DEF SeedProspect
  <2>3. /\ org'[o].here /\ org'[o].expires = day + term /\ org'[o].linked = {}
        /\ \A x \in Orgs : x # o => org'[x] = org[x]
    BY <2>2, CreatedRow
  <2>4. day < day + term
    BY DemoAssumption DEF TypeInv, TypeOK
  <2>5. Has(o)' = {} /\ login' = login /\ left' = left
    BY <1>b, <1>3 DEF SeedProspect, Has
  <2>6. \A b \in Actors : On(b, o)' => b = q
    BY <1>c, <2>1 DEF On, Busy
  <2>7. Order(o)'
    BY <1>a, <1>b, <2>1, <2>3, <2>4, <2>6 DEF Order, Shape, Makes
  <2>8. CallBooks(q, o)'
    BY <2>1, <2>3, <2>5 DEF CallBooks, Finds
  <2>9. Makes(q, o)'
    BY <2>1 DEF Makes, On, Busy
  <2>10. Books(o)'
    BY <1>a, <2>3, <2>6, <2>8, <2>9 DEF Books, Drops
  <2> QED
    BY <1>a, <1>b, <2>1, <2>3, <2>5, <2>7, <2>10, FromOne DEF Kept, On
<1> QED BY <1>1, <1>2, <1>3 DEF CreateUser

(* The admin's or the job's operation whose step it is. *)
LEMMA UserStep ==
  ASSUME TypeInv, BooksInv, NEW a \in Actors,
         \/ At(a, "deleteRows") \/ At(a, "deleteLogins") \/ At(a, "auth")
         \/ At(a, "status") \/ At(a, "suspension") \/ At(a, "stop") \/ At(a, "ban")
  PROVE  /\ call[a].org \in Orgs /\ On(a, call[a].org) /\ Shape(call[a])
         /\ call[a] \in Call /\ Kept(call[a].org)
         /\ \A b \in Actors : ~Makes(b, call[a].org)
         /\ call[a].org \notin left =>
              Books(call[a].org) /\ \A b \in Actors : On(b, call[a].org) => CallBooks(b, call[a].org)
<1>1. Busy(a) BY DEF At
<1>2. call[a].org \in Orgs /\ call[a] \in Call
  BY <1>1, BusyCall
<1>3. On(a, call[a].org) /\ Kept(call[a].org)
  BY <1>1, <1>2 DEF On, BooksInv
<1>4. Shape(call[a])
  BY <1>2, <1>3 DEF Kept, Order
<1>5. ~Makes(a, call[a].org)
  BY <1>4 DEF Shape, At, Makes
<1>6. \A b \in Actors : ~Makes(b, call[a].org)
  BY <1>3, <1>5 DEF Kept, Order
<1>7. call[a].org \notin left =>
        Books(call[a].org) /\ \A b \in Actors : On(b, call[a].org) => CallBooks(b, call[a].org)
  BY <1>3 DEF Kept, Books
<1> QED BY <1>2, <1>3, <1>4, <1>6, <1>7

(* A step that neither makes nor takes a login or a link. *)
LEMMA QuietKept ==
  ASSUME TypeInv, NEW o \in Orgs, Kept(o), NEW a \in Actors, ~Drops(a, o),
         \A b \in Actors : ~Makes(b, o),
         \A b \in Actors : b # a => call'[b] = call[b],
         left \subseteq left',
         On(a, o)' => /\ call'[a].op \notin {"create", "invite"} /\ Shape(call'[a])
                      /\ call'[a].step \in {"status", "suspension", "ban"},
         o \notin left' =>
           /\ Has(o)' = Has(o) /\ org'[o].here = org[o].here
           /\ org'[o].linked = org[o].linked /\ org'[o].onDuty = org[o].onDuty
  PROVE  Kept(o)'
<1>1. \A b \in Actors : ~Makes(b, o)'
  BY DEF Makes, On, Busy
<1>2. ~Drops(a, o)'
  BY DEF Drops
<1>3. \A b \in Actors : b # a => (On(b, o)' <=> On(b, o)) /\ (Drops(b, o)' <=> Drops(b, o))
  BY DEF Drops, On, Busy
<1>4. ASSUME o \notin left'
      PROVE  /\ \A b \in Actors : On(b, o)' => CallBooks(b, o)'
             /\ (\A b \in Actors : ~Drops(b, o)') => Has(o)' = org'[o].linked
             /\ "attendant" \in org'[o].linked => org'[o].onDuty = "yes"
             /\ ~org'[o].here => org'[o].linked = {}
  <2>1. Books(o) BY <1>4 DEF Kept
  <2>2. ASSUME NEW b \in Actors, On(b, o)' PROVE CallBooks(b, o)'
    <3>1. CASE b = a
      BY <1>4, <2>2, <3>1 DEF CallBooks
    <3>2. CASE b # a
      <4>1. CallBooks(b, o) /\ call'[b] = call[b] BY <1>3, <2>1, <2>2, <3>2 DEF Books
      <4> QED BY <1>4, <4>1 DEF CallBooks, Finds
    <3> QED BY <3>1, <3>2
  <2>3. (\A b \in Actors : ~Drops(b, o)') => Has(o)' = org'[o].linked
    BY <1>3, <1>4, <2>1 DEF Books
  <2> QED BY <1>4, <2>1, <2>2, <2>3 DEF Books
<1> QED BY <1>1, <1>2, <1>4, UserKept

(* Switching an owner on or off, the job's stop, and its bans. *)
LEMMA SwitchBooks ==
  ASSUME TypeInv, BooksInv, NEW a \in Actors, NEW o \in Orgs, call[a].org = o,
         \/ SwitchLogin(a) \/ SwitchStatus(a) \/ SetSuspension(a)
         \/ a = Job /\ (JobStop \/ JobBan)
  PROVE  BooksInv'
<1>a. /\ On(a, o) /\ Shape(call[a]) /\ Kept(o) /\ call[a] \in Call
      /\ (\A b \in Actors : ~Makes(b, o)) /\ org[o] \in Row
  BY UserStep DEF SwitchLogin, SwitchStatus, SetSuspension, JobStop, JobBan, TypeInv, TypeOK
<1>b. ~Drops(a, o)
  BY DEF SwitchLogin, SwitchStatus, SetSuspension, JobStop, JobBan, Drops, At
<1>c. /\ UNCHANGED <<day, listed>>
      /\ left \subseteq left' /\ \A x \in left' : x # o => x \in left
  BY DEF SwitchLogin, SwitchStatus, SetSuspension, JobStop, JobBan, Leave
<1>d. \A b \in Actors : b # a => call'[b] = call[b]
  BY GotoCall, EndCall DEF SwitchLogin, SwitchStatus, SetSuspension, JobStop, JobBan
<1>e. On(a, o)' \/ ~Busy(a)'
  BY <1>a, GotoCall, EndCall
     DEF SwitchLogin, SwitchStatus, SetSuspension, JobStop, JobBan, On, Busy
<1>f. On(a, o)' => /\ call'[a].op \notin {"create", "invite"} /\ Shape(call'[a])
                   /\ call'[a].step \in {"status", "suspension", "ban"}
  <2>1. CASE SwitchLogin(a) \/ SwitchStatus(a) \/ SetSuspension(a)
    <3>1. call[a].step \in {"auth", "status", "suspension"}
      BY <2>1 DEF SwitchLogin, SwitchStatus, SetSuspension, At
    <3>2. call[a].op \in {"activate", "deactivate"}
      BY <1>a, <3>1 DEF Shape, On, Busy, Call, Ops
    <3>3. Goto(a, "status") \/ Goto(a, "suspension") \/ End(a)
      BY <2>1 DEF SwitchLogin, SwitchStatus, SetSuspension
    <3> QED BY <1>a, <3>2, <3>3, GotoCall, EndCall DEF Shape
  <2>2. CASE a = Job /\ (JobStop \/ JobBan)
    <3>1. call[a].step \in {"stop", "ban"}
      BY <2>2 DEF JobStop, JobBan, At
    <3>2. call[a].op = "expire"
      BY <1>a, <3>1 DEF Shape, On, Busy, Call, Ops
    <3>3. Goto(a, "ban") \/ End(a)
      BY <2>2 DEF JobStop, JobBan
    <3> QED BY <1>a, <3>2, <3>3, GotoCall, EndCall DEF Shape
  <2> QED BY <2>1, <2>2
<1>g. \A x \in Orgs : x # o => org'[x] = org[x] /\ login'[x] = login[x]
  BY <1>a, SetRow
     DEF SwitchLogin, SwitchStatus, SetSuspension, JobStop, JobBan, TypeInv, TypeOK
<1>h. /\ org'[o].here = org[o].here
      /\ org'[o].linked = org[o].linked /\ org'[o].onDuty = org[o].onDuty
  <2>1. CASE org' = org BY <2>1
  <2>2. CASE \E active \in BOOLEAN : Set(o, [org[o] EXCEPT !.active = active])
    <3>1. PICK active \in BOOLEAN : org'[o] = [org[o] EXCEPT !.active = active]
      BY <2>2, SetRow
    <3> QED BY <1>a, <3>1, Zenon DEF Row
  <2>3. CASE \E suspended \in BOOLEAN : Set(o, [org[o] EXCEPT !.suspended = suspended])
    <3>1. PICK suspended \in BOOLEAN : org'[o] = [org[o] EXCEPT !.suspended = suspended]
      BY <2>3, SetRow
    <3> QED BY <1>a, <3>1, Zenon DEF Row
  <2>4. CASE Set(o, [org[o] EXCEPT !.suspended = TRUE, !.active = FALSE])
    BY <2>4, StoppedRow
  <2>5. (call[a].op = "activate") \in BOOLEAN /\ (call[a].op = "deactivate") \in BOOLEAN
    OBVIOUS
  <2> QED
    BY <2>1, <2>2, <2>3, <2>4, <2>5, Zenon
       DEF SwitchLogin, SwitchStatus, SetSuspension, JobStop, JobBan
<1>i. Has(o)' = Has(o)
  <2>1. CASE login' = login BY <2>1 DEF Has
  <2>2. CASE SwitchLogin(a) /\ login' # login
    BY <2>2 DEF SwitchLogin, Has, TypeInv, TypeOK, Roles
  <2>3. CASE a = Job /\ JobBan
    BY <2>3 DEF JobBan, Has, TypeInv, TypeOK, Roles
  <2> QED BY <2>1, <2>2, <2>3 DEF SwitchStatus, SetSuspension, JobStop
<1>k. Kept(o)'
  BY <1>a, <1>b, <1>c, <1>d, <1>f, <1>h, <1>i, QuietKept
<1> QED BY <1>c, <1>d, <1>e, <1>g, <1>k, FromOne

(* The rows of a demo go, with the logins the delete has read known to it. *)
LEMMA DropRowsBooks ==
  ASSUME TypeInv, BooksInv, NEW a \in Actors, NEW o \in Orgs, call[a].org = o,
         DeleteDemoRows(a)
  PROVE  BooksInv'
<1>a. /\ On(a, o) /\ Shape(call[a]) /\ Kept(o) /\ call[a] \in Call
      /\ (\A b \in Actors : ~Makes(b, o))
      /\ o \notin left => Books(o) /\ \A b \in Actors : On(b, o) => CallBooks(b, o)
  BY UserStep DEF DeleteDemoRows
<1>b. /\ UNCHANGED <<day, listed, left, login>> /\ call[a].step = "deleteRows"
      /\ ~Drops(a, o)
  BY DEF DeleteDemoRows, At, Drops
<1>c. call[a].op \notin {"create", "invite"}
  BY <1>a DEF Makes
<1>d. \A b \in Actors : b # a => call'[b] = call[b]
  BY GotoCall, EndCall DEF DeleteDemoRows
<1>1. CASE End(a) /\ UNCHANGED org
  <2>1. ~Busy(a)' /\ ~On(a, o)' BY <1>1, EndCall
  <2>2. Has(o)' = Has(o) BY <1>b DEF Has
  <2>3. Kept(o)'
    BY <1>a, <1>b, <1>d, <1>1, <2>1, <2>2, QuietKept
  <2> QED
    BY <1>b, <1>d, <1>1, <2>1, <2>3, FromOne
<1>2. CASE org[o].here /\ Set(o, NoRow) /\ Goto(a, "deleteLogins")
  <2>1. /\ ~org'[o].here /\ org'[o].linked = {}
        /\ \A x \in Orgs : x # o => org'[x] = org[x]
    BY <1>2, SetRow, NoRowIsGone
  <2>2. /\ call'[a].op = call[a].op /\ call'[a].org = o /\ call'[a].logins = call[a].logins
        /\ call'[a].step = "deleteLogins"
    BY <1>2, GotoCall
  <2>3. On(a, o)' /\ Shape(call'[a])
    BY <1>a, <1>b, <2>2 DEF On, Busy, Shape, Call, Ops
  <2>4. \A b \in Actors : ~Makes(b, o)'
    BY <1>a, <1>d, <2>2 DEF Makes, On, Busy
  <2>5. ASSUME o \notin left
        PROVE  /\ \A b \in Actors : ~Drops(b, o)
               /\ \A b \in Actors : On(b, o)' => CallBooks(b, o)'
    <3>1. \A b \in Actors : ~Drops(b, o)
      BY <1>a, <1>2, <2>5 DEF Drops, CallBooks
    <3>2. Has(o)' = call[a].logins
      BY <1>a, <1>b, <1>2, <2>5, <3>1 DEF Books, CallBooks, Has
    <3>3. ASSUME NEW b \in Actors, On(b, o)', b # a PROVE CallBooks(b, o)'
      <4>1. /\ On(b, o) /\ call'[b] = call[b] /\ Shape(call[b]) /\ ~Makes(b, o)
            /\ call[b] \in Call
        BY <1>a, <1>d, <3>3 DEF On, Busy, Kept, Order, TypeInv, TypeOK
      <4>2. call[b].op \in {"delete", "activate", "deactivate", "expire"}
        BY <4>1 DEF Makes, On, Busy, Call, Ops
      <4>3. call[b].step \in {"deleteRows", "auth", "status", "suspension", "stop", "ban"}
        BY <3>1, <4>1, <4>2 DEF Shape, Drops
      <4> QED BY <2>1, <4>1, <4>3 DEF CallBooks
    <3>4. CallBooks(a, o)'
      BY <2>1, <2>2, <3>2 DEF CallBooks
    <3> QED BY <3>1, <3>3, <3>4
  <2>6. Drops(a, o)'
    BY <2>2, <2>3 DEF Drops
  <2>7. Kept(o)'
    BY <1>a, <1>b, <1>d, <2>1, <2>3, <2>4, <2>5, <2>6, UserKept
  <2> QED
    BY <1>b, <1>d, <2>1, <2>3, <2>7, FromOne
<1> QED BY <1>1, <1>2 DEF DeleteDemoRows

(* The logins of a demo that is gone, or of a create that failed. *)
LEMMA DeleteLoginsBooks ==
  ASSUME TypeInv, BooksInv, NEW a \in Actors, NEW o \in Orgs, call[a].org = o,
         DeleteLogins(a)
  PROVE  BooksInv'
<1>a. /\ On(a, o) /\ Kept(o) /\ UNCHANGED <<day, listed, org>> /\ org[o] \in Row
      /\ o \notin left => Books(o) /\ \A b \in Actors : On(b, o) => CallBooks(b, o)
  BY UserStep, MakerStep DEF DeleteLogins, Makes, TypeInv, TypeOK, Kept, Books
<1>b. /\ ~Busy(a)' /\ ~On(a, o)' /\ \A b \in Actors : b # a => call'[b] = call[b]
  BY EndCall DEF DeleteLogins
<1>c. /\ left \subseteq left' /\ \A x \in left' : x # o => x \in left
  BY DEF DeleteLogins, Leave
<1>d. \A x \in Orgs : x # o => org'[x] = org[x] /\ login'[x] = login[x]
  BY <1>a DEF DeleteLogins, TypeInv, TypeOK
<1>e. o \notin left' => /\ Has(o)' = {} /\ ~org'[o].here /\ org'[o].linked = {}
  <2> SUFFICES ASSUME o \notin left' PROVE Has(o)' = {} /\ ~org'[o].here /\ org'[o].linked = {}
    OBVIOUS
  <2>1. login' = [login EXCEPT ![o] = [r \in Roles |-> IF r \in call[a].logins
                                                       THEN "none" ELSE login[o][r]]]
    BY DEF DeleteLogins, Leave
  <2>2. Books(o) /\ CallBooks(a, o) /\ call[a].step \in {"undoLogins", "deleteLogins"}
    BY <1>a, <1>c DEF DeleteLogins, At
  <2>3. Has(o) = call[a].logins /\ ~org[o].here /\ org[o].linked = {}
    BY <2>2 DEF CallBooks, Books
  <2> QED BY <1>a, <2>1, <2>3 DEF Has, TypeInv, TypeOK
<1>1. CASE Makes(a, o)
  <2>1. org'[o].here /\ org'[o].demo => day < org'[o].expires
    BY <1>a, <1>1 DEF Kept, Order
  <2>2. Kept(o)'
    BY <1>a, <1>b, <1>c, <1>e, <1>1, <2>1, MakerKept
  <2> QED BY <1>a, <1>b, <1>c, <1>d, <2>2, FromOne
<1>2. CASE ~Makes(a, o)
  <2>1. \A b \in Actors : ~Makes(b, o) /\ ~Makes(b, o)'
    BY <1>a, <1>b, <1>2 DEF Kept, Order, Makes, On, Busy
  <2>2. ASSUME o \notin left' PROVE \A b \in Actors : On(b, o)' => CallBooks(b, o)'
    <3>1. ASSUME NEW b \in Actors, On(b, o)' PROVE CallBooks(b, o)'
      <4>1. On(b, o) /\ b # a /\ call'[b] = call[b] /\ CallBooks(b, o) /\ Shape(call[b])
            /\ ~Makes(b, o) /\ call[b] \in Call
        BY <1>a, <1>b, <1>c, <2>1, <2>2, <3>1
           DEF On, Busy, Kept, Order, TypeInv, TypeOK
      <4>2. call[b].op \in {"delete", "activate", "deactivate", "expire"}
        BY <4>1 DEF Makes, On, Busy, Call, Ops
      <4>3. Drops(a, o)
        <5>1. Shape(call[a]) /\ call[a] \in Call /\ Busy(a)
          BY <1>a DEF Kept, Order, On, TypeInv, TypeOK
        <5>2. call[a].op \in {"delete", "activate", "deactivate", "expire"}
          BY <1>a, <1>2, <5>1 DEF Makes, Busy, Call, Ops
        <5>3. call[a].step # "undoLogins"
          BY <5>1, <5>2 DEF Shape
        <5> QED BY <1>a, <5>3 DEF DeleteLogins, At, Drops
      <4>4. ~Drops(b, o)
        BY <1>a, <1>c, <2>2, <4>1, <4>3 DEF Books
      <4>5. call[b].step \in {"deleteRows", "auth", "status", "suspension", "stop", "ban"}
        BY <4>1, <4>2, <4>4 DEF Shape, Drops
      <4> QED BY <1>e, <2>2, <4>1, <4>5 DEF CallBooks
    <3> QED BY <3>1
  <2>3. ~Drops(a, o)' BY <1>b DEF Drops
  <2>4. Kept(o)'
    BY <1>a, <1>b, <1>c, <1>e, <2>1, <2>2, <2>3, UserKept
  <2> QED BY <1>a, <1>b, <1>c, <1>d, <2>4, FromOne
<1> QED BY <1>1, <1>2

(* The beginnings of a delete, of a switch and of the job's work on a demo. *)
LEMMA StartBooks ==
  ASSUME TypeInv, BooksInv, NEW a \in Actors, NEW o \in Orgs, ~Busy(a),
         \A b \in Actors : ~Makes(b, o),
         NEW op \in {"delete", "activate", "deactivate", "expire"},
         NEW step \in {"deleteRows", "auth", "status", "stop"}, NEW seen,
         step = "deleteRows" => op \in {"delete", "expire"},
         step \in {"auth", "status"} => op \in {"activate", "deactivate"},
         step = "stop" => op = "expire",
         Begin(a, Begun(op, o, step, org[o].linked, seen)),
         UNCHANGED <<day, org, login, left>>, listed' \subseteq listed
  PROVE  BooksInv'
<1>1. /\ call'[a].op = op /\ call'[a].org = o /\ call'[a].step = step
      /\ call'[a].logins = org[o].linked /\ \A b \in Actors : b # a => call'[b] = call[b]
  BY BeginCall
<1>2. Busy(a)' /\ On(a, o)' /\ Shape(call'[a]) /\ ~Makes(a, o)' /\ ~Drops(a, o)'
  BY <1>1 DEF Busy, On, Shape, Makes, Drops
<1>3. \A b \in Actors : b # a => /\ On(b, o)' <=> On(b, o)
                                 /\ Makes(b, o)' <=> Makes(b, o)
                                 /\ Drops(b, o)' <=> Drops(b, o)
  BY <1>1 DEF Makes, Drops, On, Busy
<1>4. Kept(o) /\ Has(o)' = Has(o)
  BY DEF BooksInv, Has
<1>5. ~Drops(a, o)
  BY DEF Drops, On
<1>6. ASSUME o \notin left
      PROVE  /\ \A b \in Actors : On(b, o)' => CallBooks(b, o)'
             /\ (\A b \in Actors : ~Drops(b, o)') => Has(o)' = org'[o].linked
             /\ "attendant" \in org'[o].linked => org'[o].onDuty = "yes"
             /\ ~org'[o].here => org'[o].linked = {}
  <2>1. Books(o) BY <1>4, <1>6 DEF Kept
  <2>2. CallBooks(a, o)' BY <1>1 DEF CallBooks
  <2>3. ASSUME NEW b \in Actors, On(b, o)', b # a PROVE CallBooks(b, o)'
    <3>1. CallBooks(b, o) /\ call'[b] = call[b] BY <1>1, <1>3, <2>1, <2>3 DEF Books
    <3> QED BY <1>4, <3>1 DEF CallBooks, Finds
  <2> QED BY <1>3, <1>4, <1>5, <2>1, <2>2, <2>3 DEF Books
<1>7. Kept(o)'
  BY <1>1, <1>2, <1>3, <1>4, <1>6, UserKept
<1> QED BY <1>1, <1>2, <1>7, FromOne

LEMMA AdminStarts ==
  ASSUME TypeInv, BooksInv, NEW q \in Requests, NEW o \in Orgs,
         \/ StartDelete(q, o)
         \/ \E op \in {"activate", "deactivate"} : StartSetOwner(q, o, op)
  PROVE  BooksInv'
<1>1. \A b \in Actors : ~Makes(b, o)
  BY DEF BooksInv, Kept, Order, Makes, On, Actors, StartDelete, StartSetOwner, Creating
<1>2. q \in Actors /\ ~Busy(q) /\ UNCHANGED <<day, org, login, listed, left>>
  BY DEF Actors, StartDelete, StartSetOwner
<1>3. CASE StartDelete(q, o)
  <2>1. Begin(q, Begun("delete", o, "deleteRows", org[o].linked, 0))
    BY <1>3 DEF StartDelete
  <2> QED BY <1>1, <1>2, <2>1, StartBooks
<1>4. ASSUME NEW op \in {"activate", "deactivate"}, StartSetOwner(q, o, op) PROVE BooksInv'
  <2>1. Begin(q, Begun(op, o, FirstSwitch(op, org[o].linked), org[o].linked, 0))
    BY <1>4 DEF StartSetOwner
  <2>2. FirstSwitch(op, org[o].linked) \in {"auth", "status"}
    BY DEF FirstSwitch
  <2> HIDE DEF FirstSwitch
  <2> QED BY <1>1, <1>2, <2>1, <2>2, StartBooks
<1> QED BY <1>3, <1>4

(* The job's list and its next demo: no create is on the list. *)
LEMMA JobBooks ==
  ASSUME TypeInv, BooksInv, JobList \/ \E d \in listed : JobPick(d)
  PROVE  BooksInv'
<1>1. CASE JobList
  <2> SUFFICES ASSUME NEW x \in Orgs PROVE Kept(x)'
    BY DEF BooksInv
  <2>1. Kept(x) /\ UNCHANGED <<day, org, login, call, left>>
    BY <1>1 DEF BooksInv, JobList
  <2>2. \A d \in listed' : d.org \in Orgs /\ Lists(org[d.org])
    BY <1>1 DEF JobList
  <2>3. ASSUME NEW a \in Actors, Makes(a, x) PROVE \A d \in listed' : d.org # x
    <3>1. ~Lists(org[x])
      <4>1. org[x].here /\ org[x].demo => day < org[x].expires /\ org[x].expires \in Nat
        BY <2>1, <2>3 DEF Kept, Order, TypeInv, TypeOK, Row
      <4>2. day \in Nat BY DemoAssumption DEF TypeInv, TypeOK
      <4> QED BY <4>1, <4>2 DEF Lists, Expired
    <3> QED BY <2>2, <3>1
  <2>4. Order(x)'
    BY <2>1, <2>3 DEF Kept, Order, Makes, On, Busy
  <2>5. Books(x) => Books(x)'
    BY <2>1 DEF Books, CallBooks, Finds, Has, On, Busy, Makes, Drops
  <2> QED BY <2>1, <2>4, <2>5 DEF Kept
<1>2. ASSUME NEW d \in listed, JobPick(d) PROVE BooksInv'
  <2>1. d.org \in Orgs /\ Job \in Actors /\ ~Busy(Job) /\ listed' \subseteq listed
        /\ UNCHANGED <<day, org, login, left>>
    BY <1>2 DEF TypeInv, TypeOK, Actors, JobPick
  <2>2. \A b \in Actors : ~Makes(b, d.org)
    BY <2>1 DEF BooksInv, Kept, Order
  <2>3. CASE UNCHANGED call
    BY <2>1, <2>3, OthersKept DEF BooksInv
  <2>4. CASE Begin(Job, Begun("expire", d.org,
                              IF Overdue(d.expires) THEN "deleteRows" ELSE "stop",
                              org[d.org].linked, d.expires))
    <3> DEFINE step == IF Overdue(d.expires) THEN "deleteRows" ELSE "stop"
    <3>1. step \in {"deleteRows", "stop"} OBVIOUS
    <3>2. Begin(Job, Begun("expire", d.org, step, org[d.org].linked, d.expires))
      BY <2>4
    <3> HIDE DEF step
    <3> QED BY <2>1, <2>2, <3>1, <3>2, StartBooks
  <2> QED BY <1>2, <2>3, <2>4 DEF JobPick
<1> QED BY <1>1, <1>2

(* A reset and an extension: the profiles linked stay linked. *)
LEMMA RowBooks ==
  ASSUME TypeInv, BooksInv, NEW o \in Orgs,
         ResetDemo(o) \/ \E term \in Terms : ExtendDemo(o, term)
  PROVE  BooksInv'
<1>1. /\ UNCHANGED <<day, login, call, listed, left>> /\ org[o] \in Row /\ org[o].here
      /\ \A b \in Actors : ~Makes(b, o)
  BY DEF BooksInv, Kept, Order, Makes, On, Actors, ResetDemo, ExtendDemo, Creating,
         TypeInv, TypeOK
<1>2. \A x \in Orgs : x # o => org'[x] = org[x]
  BY SetRow DEF ResetDemo, ExtendDemo
<1>3. o \notin left => /\ org'[o].here /\ org'[o].linked = org[o].linked
                       /\ "attendant" \in org'[o].linked => org'[o].onDuty = "yes"
  <2> SUFFICES ASSUME o \notin left
               PROVE  /\ org'[o].here /\ org'[o].linked = org[o].linked
                      /\ "attendant" \in org'[o].linked => org'[o].onDuty = "yes"
    OBVIOUS
  <2>1. "attendant" \in org[o].linked => org[o].onDuty = "yes"
    BY DEF BooksInv, Kept, Books
  <2>2. CASE ResetDemo(o)
    <3> DEFINE onDuty == IF org[o].onDuty = "unseeded" THEN "yes" ELSE org[o].onDuty
               linked == Relinked(org[o].linked, onDuty)
    <3>1. org'[o] = [org[o] EXCEPT !.onDuty = onDuty, !.linked = linked]
      BY <2>2, SetRow DEF ResetDemo
    <3>2. linked = org[o].linked
      BY <1>1, <2>1 DEF Relinked, Row, Roles
    <3>3. "attendant" \in org[o].linked => onDuty = "yes"
      BY <2>1
    <3> HIDE DEF onDuty, linked
    <3>4. org'[o].here = org[o].here /\ org'[o].linked = linked /\ org'[o].onDuty = onDuty
      BY <1>1, <3>1, Zenon DEF Row
    <3> QED BY <1>1, <3>2, <3>3, <3>4
  <2>3. ASSUME NEW term \in Terms, ExtendDemo(o, term)
        PROVE  /\ org'[o].here /\ org'[o].linked = org[o].linked
               /\ "attendant" \in org'[o].linked => org'[o].onDuty = "yes"
    <3>1. org'[o] = [org[o] EXCEPT !.expires = ExpiryAfter(org[o], term)]
      BY <2>3, SetRow DEF ExtendDemo
    <3>2. /\ org'[o].here = org[o].here /\ org'[o].linked = org[o].linked
          /\ org'[o].onDuty = org[o].onDuty
      BY <1>1, <3>1, Zenon DEF Row
    <3> QED BY <1>1, <2>1, <3>2
  <2> QED BY <2>2, <2>3
<1>4. Kept(o) BY DEF BooksInv
<1>5. Order(o)'
  BY <1>1, <1>4 DEF Kept, Order, Makes, On, Busy
<1>6. ASSUME o \notin left PROVE Books(o)'
  <2>1. Books(o) /\ Has(o)' = Has(o) BY <1>1, <1>4, <1>6 DEF Kept, Has
  <2>2. ASSUME NEW a \in Actors, On(a, o)' PROVE CallBooks(a, o)'
    <3>1. On(a, o) /\ CallBooks(a, o) /\ Shape(call[a]) /\ ~Makes(a, o)
          /\ call'[a] = call[a] /\ call[a] \in Call
      BY <1>1, <1>4, <2>1, <2>2 DEF On, Busy, Books, Kept, Order, TypeInv, TypeOK
    <3>2. call[a].op \in {"delete", "activate", "deactivate", "expire"}
      BY <3>1 DEF Makes, On, Busy, Call, Ops
    <3>3. call[a].step \in {"deleteRows", "auth", "status", "suspension", "stop", "ban"}
      BY <1>1, <3>1, <3>2 DEF Shape, CallBooks
    <3> QED BY <1>1, <1>3, <1>6, <3>1, <3>3 DEF CallBooks
  <2> QED BY <1>1, <1>3, <1>6, <2>1, <2>2 DEF Books, Makes, Drops, On, Busy
<1>7. Kept(o)' BY <1>1, <1>5, <1>6 DEF Kept
<1>8. ASSUME NEW x \in Orgs, x # o PROVE Kept(x)'
  BY <1>1, <1>2, <1>8, OthersKept
<1> QED BY <1>7, <1>8 DEF BooksInv

(* A kill breaks an operation off, which is what `left` records. *)
LEMMA KillBooks ==
  ASSUME TypeInv, BooksInv, NEW a \in Actors, Kill(a)
  PROVE  BooksInv'
<1> DEFINE o == call[a].org
<1>1. call[a].org \in Orgs BY BusyCall DEF Kill
<1>2. ~Busy(a)' /\ (\A b \in Actors : b # a => call'[b] = call[b])
      /\ UNCHANGED <<day, org, login>> /\ listed' \subseteq listed
      /\ left' = left \cup {call[a].org}
  BY EndCall DEF Kill, Leave
<1>3. ASSUME NEW x \in Orgs PROVE Order(x)'
  BY <1>2 DEF BooksInv, Kept, Order, Makes, On, Busy
<1>4. ASSUME NEW x \in Orgs, x \notin left' PROVE Kept(x)'
  <2>1. \A b \in Actors : call'[b] = call[b] \/ (~On(b, x) /\ ~On(b, x)')
    BY <1>2, <1>4 DEF On, Busy
  <2> QED BY <1>2, <1>4, <2>1, OthersKept
<1> QED BY <1>3, <1>4 DEF BooksInv, Kept

LEMMA NextBooks == TypeInv /\ BooksInv /\ [Next]_vars => BooksInv'
<1> SUFFICES ASSUME TypeInv, BooksInv, [Next]_vars PROVE BooksInv'
  OBVIOUS
<1>0. TypeInv' BY NextTypes
<1>1. ASSUME NEW q \in Requests, NEW o \in Orgs, Admin(q, o) PROVE BooksInv'
  BY <1>1, NewBooks, AdminStarts DEF Admin
<1>2. ASSUME NEW o \in Orgs, ResetDemo(o) \/ \E term \in Terms : ExtendDemo(o, term)
      PROVE  BooksInv'
  BY <1>2, RowBooks
<1>3. ASSUME NEW a \in Actors, Step(a) PROVE BooksInv'
  <2>1. Busy(a)
    BY <1>3 DEF Step, At, MarkDemo, SeedDemo, CreateAttendant, LinkLogin, Invite,
                UpdateAppMetadata, RollbackRows, DeleteLogins, DeleteDemoRows,
                SwitchLogin, SwitchStatus, SetSuspension
  <2>2. PICK o \in Orgs : call[a].org = o BY <2>1, BusyCall
  <2> QED
    BY <1>0, <1>3, <2>2, MakerBooks, DeleteLoginsBooks, DropRowsBooks, SwitchBooks DEF Step
<1>4. ASSUME NEW a \in Actors, Kill(a) PROVE BooksInv'
  BY <1>4, KillBooks
<1>5. CASE JobStep
  <2>1. CASE JobList \/ \E d \in listed : JobPick(d)
    BY <2>1, JobBooks
  <2>2. CASE JobStop \/ JobBan
    <3>1. Busy(Job) /\ Job \in Actors BY <2>2 DEF JobStop, JobBan, At, Actors
    <3>2. PICK o \in Orgs : call[Job].org = o BY <3>1, BusyCall
    <3> QED BY <2>2, <3>1, <3>2, SwitchBooks
  <2> QED BY <1>5, <2>1, <2>2 DEF JobStep
<1>6. CASE Tick
  <2> SUFFICES ASSUME NEW x \in Orgs PROVE Kept(x)' BY DEF BooksInv
  <2>1. Kept(x) /\ UNCHANGED <<org, login, call, listed, left>> /\ ~Busy(Job)
    BY <1>6 DEF BooksInv, Tick
  <2>2. \A b \in Actors : ~Makes(b, x)
    BY <1>6, <2>1 DEF Tick, Makes, On, Actors
  <2>3. Order(x)'
    BY <2>1, <2>2 DEF Kept, Order, Makes, On, Busy
  <2>4. Books(x) => Books(x)'
    BY <2>1 DEF Books, CallBooks, Finds, Has, On, Busy, Makes, Drops
  <2> QED BY <2>1, <2>3, <2>4 DEF Kept
<1>7. CASE UNCHANGED vars
  BY <1>7, OthersKept DEF vars, BooksInv
<1> QED BY <1>1, <1>2, <1>3, <1>4, <1>5, <1>6, <1>7 DEF Next

LEMMA InitBooks == Init => BooksInv
<1> SUFFICES ASSUME Init, NEW o \in Orgs PROVE Kept(o)
  BY DEF BooksInv
<1>1. \A a \in Actors : ~On(a, o)
  BY DEF Init, Free, Begun, On, Busy
<1>2. Has(o) = {} /\ org[o] = NoRow
  BY DEF Init, Has, Roles
<1>3. Order(o) BY <1>1 DEF Order, Makes
<1>4. Books(o)
  BY <1>1, <1>2, NoRowIsGone DEF Books, Makes, Drops
<1> QED BY <1>3, <1>4 DEF Kept

(* Outside of an operation, and unless one broke off half-way, an
   organisation's logins are those of its linked profiles, for any number of
   demos and admins and whatever fails. *)
THEOREM BooksMatch == Spec => []LoginsMatchProfiles
<1>1. TypeInv /\ BooksInv => LoginsMatchProfiles
  <2> SUFFICES ASSUME TypeInv, BooksInv, NEW o \in Orgs, Settled(o)
               PROVE  {r \in Roles : login[o][r] # "none"} = org[o].linked
    BY DEF LoginsMatchProfiles
  <2>1. \A a \in Actors : ~On(a, o)
    BY DEF Settled, On
  <2>2. Books(o)
    BY DEF BooksInv, Kept, Settled
  <2> QED BY <2>1, <2>2 DEF Books, Makes, Drops, Has
<1>2. Spec => [](TypeInv /\ BooksInv)
  BY InitTypes, InitBooks, NextTypes, NextBooks, PTL DEF Spec
<1> QED BY <1>1, <1>2, PTL

----------------------------------------------------------------------------
(* Ordinary organisations.  One that the auth trigger made is on its way to  *)
(* become a demo or to be rolled back.                                      *)

UnderWay(a, o) == Busy(a) /\ call[a].org = o /\ call[a].step \in {"mark", "undoRows"}

NoneForgotten ==
  \A o \in Orgs : org[o].here /\ ~org[o].demo /\ o \notin left
                   => \E a \in Actors : UnderWay(a, o)

(* A step that makes no ordinary organisation and abandons none. *)
LEMMA NoneAbandoned ==
  ASSUME NoneForgotten, NEW o \in Orgs, left \subseteq left',
         org'[o].here /\ ~org'[o].demo => org[o].here /\ ~org[o].demo,
         \A a \in Actors : UnderWay(a, o) => UnderWay(a, o)' \/ o \in left'
                                             \/ ~org'[o].here \/ org'[o].demo
  PROVE  org'[o].here /\ ~org'[o].demo /\ o \notin left'
           => \E a \in Actors : UnderWay(a, o)'
BY DEF NoneForgotten

(* The steps that touch neither an ordinary organisation nor what makes it a
   demo or rolls it back. *)
LEMMA PlainSteps ==
  ASSUME TypeInv, NoneForgotten, left \subseteq left',
         \A o \in Orgs : org'[o].here /\ ~org'[o].demo => org[o].here /\ ~org[o].demo,
         \A a \in Actors : call'[a] = call[a] \/ ~Busy(a) \/ ~(At(a, "mark") \/ At(a, "undoRows"))
  PROVE  NoneForgotten'
<1>1. \A a \in Actors, o \in Orgs : UnderWay(a, o) => UnderWay(a, o)'
  BY DEF UnderWay, Busy, At
<1> QED BY <1>1, NoneAbandoned DEF NoneForgotten

(* The edits of a row keep it what it is. *)
LEMMA EditsKeepKind ==
  ASSUME TypeInv, NEW o \in Orgs, NEW x, NEW y,
         \/ Set(o, [org[o] EXCEPT !.onDuty = x])
         \/ Set(o, [org[o] EXCEPT !.linked = x])
         \/ Set(o, [org[o] EXCEPT !.expires = x])
         \/ Set(o, [org[o] EXCEPT !.active = x])
         \/ Set(o, [org[o] EXCEPT !.suspended = x])
         \/ Set(o, [org[o] EXCEPT !.linked = x, !.active = y])
         \/ Set(o, [org[o] EXCEPT !.suspended = x, !.active = y])
         \/ Set(o, [org[o] EXCEPT !.onDuty = x, !.linked = y])
  PROVE  \A p \in Orgs : org'[p].here = org[p].here /\ org'[p].demo = org[p].demo
<1>1. org[o] \in Row BY DEF TypeInv, TypeOK
<1>2. \A p \in Orgs : p # o => org'[p] = org[p]
  BY SetRow
<1>3. \/ org'[o] = [org[o] EXCEPT !.onDuty = x]
      \/ org'[o] = [org[o] EXCEPT !.linked = x]
      \/ org'[o] = [org[o] EXCEPT !.expires = x]
      \/ org'[o] = [org[o] EXCEPT !.active = x]
      \/ org'[o] = [org[o] EXCEPT !.suspended = x]
      \/ org'[o] = [org[o] EXCEPT !.linked = x, !.active = y]
      \/ org'[o] = [org[o] EXCEPT !.suspended = x, !.active = y]
      \/ org'[o] = [org[o] EXCEPT !.onDuty = x, !.linked = y]
  BY SetRow
<1>4. org'[o].here = org[o].here /\ org'[o].demo = org[o].demo
  BY <1>1, <1>3, Zenon DEF Row
<1> QED BY <1>2, <1>4

LEMMA MakerStray ==
  ASSUME TypeInv, NoneForgotten, NEW a \in Actors,
         \/ MarkDemo(a) \/ SeedDemo(a) \/ CreateAttendant(a) \/ LinkLogin(a)
         \/ Invite(a) \/ UpdateAppMetadata(a) \/ RollbackRows(a)
  PROVE  NoneForgotten'
<1>a. call[a].org \in Orgs /\ Busy(a)
  BY BusyCall DEF MarkDemo, SeedDemo, CreateAttendant, LinkLogin, Invite,
                  UpdateAppMetadata, RollbackRows, At
<1>b. left \subseteq left'
  BY DEF MarkDemo, SeedDemo, CreateAttendant, LinkLogin, Invite, UpdateAppMetadata,
         RollbackRows, Leave
<1>c. \A b \in Actors : b # a => call'[b] = call[b]
  BY GotoCall, LearnCall, EndCall
     DEF MarkDemo, SeedDemo, CreateAttendant, LinkLogin, Invite, UpdateAppMetadata, RollbackRows
<1>1. CASE MarkDemo(a)
  <2>1. CASE Goto(a, "seed") /\ \E term \in Terms :
               Set(call[a].org, [org[call[a].org] EXCEPT !.demo = TRUE, !.expires = day + term])
    <3>1. org'[call[a].org].demo /\ \A x \in Orgs : x # call[a].org => org'[x] = org[x]
      <4>1. PICK term \in Terms :
              org'[call[a].org] = [org[call[a].org] EXCEPT !.demo = TRUE, !.expires = day + term]
        BY <1>a, <2>1, SetRow
      <4>2. org[call[a].org] \in Row BY <1>a DEF TypeInv, TypeOK
      <4>3. org'[call[a].org].demo BY <4>1, <4>2, Zenon DEF Row
      <4> QED BY <1>a, <2>1, <4>3, SetRow
    <3>2. ASSUME NEW x \in Orgs, NEW b \in Actors, UnderWay(b, x)
          PROVE  UnderWay(b, x)' \/ org'[x].demo
      BY <1>c, <3>1, <3>2 DEF UnderWay, Busy
    <3>3. ASSUME NEW x \in Orgs, org'[x].here /\ ~org'[x].demo
          PROVE  org[x].here /\ ~org[x].demo
      BY <3>1, <3>3
    <3> QED BY <1>b, <3>2, <3>3, NoneAbandoned DEF NoneForgotten
  <2>2. CASE Goto(a, "undoRows") /\ UNCHANGED org
    <3>1. \A b \in Actors, x \in Orgs : UnderWay(b, x) => UnderWay(b, x)'
      BY <1>a, <1>c, <2>2, GotoCall DEF UnderWay, Busy
    <3> QED BY <1>b, <2>2, <3>1, NoneAbandoned DEF NoneForgotten
  <2>3. CASE Leave(call[a].org) /\ UNCHANGED org
    <3>1. call[a].org \in left' BY <2>3 DEF Leave
    <3>2. \A b \in Actors, x \in Orgs : UnderWay(b, x) => UnderWay(b, x)' \/ x \in left'
      BY <1>c, <3>1 DEF UnderWay, Busy
    <3> QED BY <1>b, <2>3, <3>2, NoneAbandoned DEF NoneForgotten
  <2> QED BY <1>1, <2>1, <2>2, <2>3 DEF MarkDemo
<1>2. CASE RollbackRows(a)
  <2>1. Goto(a, "undoLogins") /\ (Set(call[a].org, NoRow) \/ (Leave(call[a].org) /\ UNCHANGED org))
    BY <1>2 DEF RollbackRows, RolledBack
  <2>2. /\ ~org'[call[a].org].here \/ (call[a].org \in left' /\ org' = org)
        /\ \A x \in Orgs : x # call[a].org => org'[x] = org[x]
    BY <1>a, <2>1, SetRow, NoRowIsGone DEF Leave
  <2>3. ASSUME NEW x \in Orgs, NEW b \in Actors, UnderWay(b, x)
        PROVE  UnderWay(b, x)' \/ x \in left' \/ ~org'[x].here
    BY <1>c, <2>2, <2>3 DEF UnderWay, Busy
  <2>4. ASSUME NEW x \in Orgs, org'[x].here /\ ~org'[x].demo
        PROVE  org[x].here /\ ~org[x].demo
    BY <2>2, <2>4
  <2> QED BY <1>b, <2>3, <2>4, NoneAbandoned DEF NoneForgotten
<1>3. CASE \/ SeedDemo(a) \/ CreateAttendant(a) \/ LinkLogin(a)
           \/ Invite(a) \/ UpdateAppMetadata(a)
  <2>1. ~(At(a, "mark") \/ At(a, "undoRows"))
    BY <1>3 DEF SeedDemo, CreateAttendant, LinkLogin, Invite, UpdateAppMetadata, At
  <2>2. \A x \in Orgs : org'[x].here = org[x].here /\ org'[x].demo = org[x].demo
    <3>1. CASE SeedDemo(a)
      BY <1>a, <3>1, EditsKeepKind DEF SeedDemo
    <3>2. CASE LinkLogin(a)
      BY <1>a, <3>2, EditsKeepKind DEF LinkLogin
    <3>3. CASE Invite(a)
      BY <1>a, <3>3, EditsKeepKind DEF Invite
    <3>4. CASE CreateAttendant(a) \/ UpdateAppMetadata(a)
      BY <3>4 DEF CreateAttendant, UpdateAppMetadata
    <3> QED BY <1>3, <3>1, <3>2, <3>3, <3>4
  <2> QED BY <1>b, <1>c, <2>1, <2>2, PlainSteps
<1> QED BY <1>1, <1>2, <1>3

LEMMA StepStray ==
  ASSUME TypeInv, NoneForgotten, NEW a \in Actors,
         \/ DeleteLogins(a) \/ DeleteDemoRows(a) \/ SwitchLogin(a) \/ SwitchStatus(a)
         \/ SetSuspension(a)
         \/ a = Job /\ (JobStop \/ JobBan)
  PROVE  NoneForgotten'
<1>1. call[a].org \in Orgs /\ ~(At(a, "mark") \/ At(a, "undoRows"))
  BY BusyCall DEF DeleteLogins, DeleteDemoRows, SwitchLogin, SwitchStatus, SetSuspension,
                  JobStop, JobBan, At
<1>2. left \subseteq left' /\ \A b \in Actors : b # a => call'[b] = call[b]
  BY GotoCall, EndCall
     DEF DeleteLogins, DeleteDemoRows, SwitchLogin, SwitchStatus, SetSuspension, JobStop,
         JobBan, Leave
<1>3. \A x \in Orgs : org'[x].here /\ ~org'[x].demo => org[x].here /\ ~org[x].demo
  <2>1. CASE UNCHANGED org BY <2>1
  <2>2. CASE Set(call[a].org, NoRow)
    BY <1>1, <2>2, SetRow, NoRowIsGone
  <2>3. CASE \/ SwitchStatus(a) /\ ~UNCHANGED org
             \/ SetSuspension(a) /\ ~UNCHANGED org
             \/ a = Job /\ JobStop /\ ~UNCHANGED org
    BY <1>1, <2>3, EditsKeepKind DEF SwitchStatus, SetSuspension, JobStop
  <2> QED
    BY <2>1, <2>2, <2>3 DEF DeleteLogins, DeleteDemoRows, SwitchLogin, JobBan
<1> QED BY <1>1, <1>2, <1>3, PlainSteps

LEMMA AdminStray ==
  ASSUME TypeInv, NoneForgotten, NEW q \in Requests, NEW o \in Orgs, Admin(q, o)
  PROVE  NoneForgotten'
<1>a. q \in Actors BY DEF Actors
<1>1. CASE StartDelete(q, o) \/ \E op \in {"activate", "deactivate"} : StartSetOwner(q, o, op)
  <2>1. ~Busy(q) /\ UNCHANGED <<org, left>> /\ \A b \in Actors : b # q => call'[b] = call[b]
    BY <1>1, <1>a, BeginCall DEF StartDelete, StartSetOwner
  <2> QED BY <2>1, PlainSteps
<1>2. CASE SeedProspect(q, o)
  <2>1. ~Busy(q) /\ left' = left /\ \A b \in Actors : b # q => call'[b] = call[b]
    BY <1>2, <1>a, BeginCall DEF SeedProspect
  <2>2. org'[o].demo /\ \A x \in Orgs : x # o => org'[x] = org[x]
    <3>1. PICK term \in Terms, onDuty \in {"yes", "no"} :
            Set(o, NewRow(TRUE, day + term, {}, onDuty))
      BY <1>2 DEF SeedProspect
    <3>2. org'[o] = NewRow(TRUE, day + term, {}, onDuty) BY <3>1, SetRow
    <3>3. NewRow(TRUE, day + term, {}, onDuty).demo BY Zenon DEF NewRow
    <3> QED BY <3>1, <3>2, <3>3, SetRow
  <2> QED BY <2>1, <2>2, PlainSteps
<1>3. CASE CreateUser(q, o)
  <2>1. ~Busy(q) /\ left \subseteq left' /\ \A x \in Orgs : x # o => org'[x] = org[x]
    BY <1>3, SetRow DEF CreateUser, Leave
  <2>2. o \in left' \/ UnderWay(q, o)'
    BY <1>a, <1>3, BeginCall DEF CreateUser, UnderWay, Busy, Leave
  <2>3. \A b \in Actors : call'[b] = call[b] \/ b = q
    BY <1>a, <1>3, BeginCall DEF CreateUser
  <2>4. \A b \in Actors, x \in Orgs : UnderWay(b, x) => UnderWay(b, x)'
    BY <2>1, <2>3 DEF UnderWay, Busy
  <2> QED BY <1>a, <2>1, <2>2, <2>4 DEF NoneForgotten
<1> QED BY <1>1, <1>2, <1>3 DEF Admin

LEMMA NextStray == TypeInv /\ NoneForgotten /\ [Next]_vars => NoneForgotten'
<1> SUFFICES ASSUME TypeInv, NoneForgotten, [Next]_vars PROVE NoneForgotten'
  OBVIOUS
<1>1. ASSUME NEW q \in Requests, NEW o \in Orgs, Admin(q, o) PROVE NoneForgotten'
  BY <1>1, AdminStray
<1>2. ASSUME NEW o \in Orgs, ResetDemo(o) \/ \E term \in Terms : ExtendDemo(o, term)
      PROVE  NoneForgotten'
  <2>1. \A x \in Orgs : org'[x].here = org[x].here /\ org'[x].demo = org[x].demo
    <3>1. CASE ResetDemo(o)
      BY <3>1, EditsKeepKind DEF ResetDemo
    <3>2. CASE \E term \in Terms : ExtendDemo(o, term)
      BY <3>2, EditsKeepKind DEF ExtendDemo
    <3> QED BY <1>2, <3>1, <3>2
  <2>2. UNCHANGED <<call, left>> BY <1>2 DEF ResetDemo, ExtendDemo
  <2> QED BY <2>1, <2>2, PlainSteps
<1>3. ASSUME NEW a \in Actors, Step(a) PROVE NoneForgotten'
  <2>1. CASE \/ MarkDemo(a) \/ SeedDemo(a) \/ CreateAttendant(a) \/ LinkLogin(a)
             \/ Invite(a) \/ UpdateAppMetadata(a) \/ RollbackRows(a)
    BY <2>1, MakerStray
  <2>2. CASE \/ DeleteLogins(a) \/ DeleteDemoRows(a) \/ SwitchLogin(a) \/ SwitchStatus(a)
             \/ SetSuspension(a)
    BY <2>2, StepStray
  <2> QED BY <1>3, <2>1, <2>2 DEF Step
<1>4. ASSUME NEW a \in Actors, Kill(a) PROVE NoneForgotten'
  <2>1. /\ UNCHANGED org /\ left' = left \cup {call[a].org}
        /\ \A b \in Actors : b # a => call'[b] = call[b]
    BY <1>4, EndCall DEF Kill, Leave
  <2>2. \A b \in Actors, x \in Orgs : UnderWay(b, x) => UnderWay(b, x)' \/ x \in left'
    BY <2>1 DEF UnderWay, Busy
  <2> QED BY <2>1, <2>2, NoneAbandoned DEF NoneForgotten
<1>5. CASE JobStep
  <2>1. CASE JobList \/ \E d \in listed : JobPick(d)
    <3>1. UNCHANGED <<org, left>> BY <2>1 DEF JobList, JobPick
    <3>2. UNCHANGED call \/ (~Busy(Job) /\ \A b \in Actors : b # Job => call'[b] = call[b])
      BY <2>1, BeginCall DEF JobList, JobPick, Actors
    <3> QED BY <3>1, <3>2, PlainSteps
  <2>2. CASE JobStop \/ JobBan
    BY <2>2, StepStray DEF Actors
  <2> QED BY <1>5, <2>1, <2>2 DEF JobStep
<1>6. CASE Tick \/ UNCHANGED vars
  BY <1>6, PlainSteps DEF Tick, vars
<1> QED BY <1>1, <1>2, <1>3, <1>4, <1>5, <1>6 DEF Next

(* A create that fails and rolls its rows back leaves no ordinary organisation
   behind, for any number of demos and admins and whatever fails -- unless an
   operation on it broke off half-way, as a create does that cannot read its
   owner's profile. *)
THEOREM NoStrays == Spec => []NoStrayOrganization
<1>1. NoneForgotten => NoStrayOrganization
  BY DEF NoneForgotten, NoStrayOrganization, Settled, UnderWay
<1>2. Init => NoneForgotten
  BY NoRowIsGone DEF Init, NoneForgotten
<1> QED BY <1>1, <1>2, InitTypes, NextTypes, NextStray, PTL DEF Spec

----------------------------------------------------------------------------
(* Signing in.  An owner is let in before the demo runs and shut out before  *)
(* it stops.  Several reactivations may overlap, and several stops; what     *)
(* parts the two is one of each, and raced names the demos it happened to.   *)

Runs(o) == org[o].here /\ org[o].active /\ ~org[o].suspended
SignsIn(o) == login[o]["owner"] = "active"

(* Only the job expires demos, and of a demo that is not in raced nobody is
   being let in while somebody else stops it. *)
Calm ==
  /\ call[Job].op \in {"none", "expire"}
  /\ \A q \in Requests : call[q].op # "expire"
  /\ \A o \in Orgs \ raced : \A a, b \in Actors :
       Starting(a, o) /\ On(b, o) => ~Stopping(b, o)

CallAccess(a, o) ==
  LET step == call[a].step
      op == call[a].op IN
  /\ op \in {"create", "invite"} /\ step \in {"mark", "seed", "attendant", "metadata", "link"}
       => SignsIn(o)
  /\ op = "activate" /\ step \in {"status", "suspension"} /\ org[o].here => SignsIn(o)
  /\ step = "ban" => ~Runs(o)

(* A deactivation bans the owner one step before it stops the demo. *)
ShutsOut(a, o) == On(a, o) /\ call[a].op = "deactivate" /\ call[a].step = "status"

Access(o) ==
  /\ \A a \in Actors : On(a, o) => CallAccess(a, o)
  /\ (\A a \in Actors : ~Makes(a, o)) /\ org[o].here => "owner" \in org[o].linked
  /\ (\A a \in Actors : ~Makes(a, o)) /\ Runs(o)
       => SignsIn(o) \/ \E a \in Actors : ShutsOut(a, o)

AccessInv == Calm /\ \A o \in Orgs : o \notin left \cup raced => Access(o)

(* Steps that only go on or end leave everyone where they are. *)
LEMMA CalmKept ==
  ASSUME TypeInv, Calm, UNCHANGED raced,
         \A a \in Actors :
           \/ call'[a].op = "none"
           \/ /\ call'[a].op = call[a].op /\ call'[a].org = call[a].org
              /\ call'[a].step \in {"stop", "ban"} => call[a].step \in {"stop", "ban"}
  PROVE  Calm'
<1>j. Job \in Actors /\ \A q \in Requests : q \in Actors BY DEF Actors
<1>1. call'[Job].op \in {"none", "expire"} /\ \A q \in Requests : call'[q].op # "expire"
  BY <1>j DEF Calm
<1>2. ASSUME NEW o \in Orgs \ raced', NEW a \in Actors, NEW b \in Actors,
             Starting(a, o)', On(b, o)', Stopping(b, o)'
      PROVE  FALSE
  <2>1. Starting(a, o) BY <1>2 DEF Starting
  <2>2. On(b, o) /\ Stopping(b, o) BY <1>2 DEF On, Busy, Stopping
  <2> QED BY <1>2, <2>1, <2>2 DEF Calm
<1> QED BY <1>1, <1>2 DEF Calm

(* A beginning keeps the record of who is let in and stopped at once. *)
LEMMA BeginsCalm ==
  ASSUME TypeInv, Calm, NEW a \in Actors, NEW o \in Orgs, NEW op, NEW step, NEW logins, NEW seen,
         Begin(a, Begun(op, o, step, logins, seen)),
         a = Job <=> op = "expire", op = "activate" => step \notin {"stop", "ban"},
         \/ Race(o, op)
         \/ UNCHANGED raced /\ op \notin {"activate", "deactivate"} /\ step \notin {"stop", "ban"}
  PROVE  Calm'
<1>j. Job \in Actors /\ (\A q \in Requests : q \in Actors /\ q # Job)
  BY DemoAssumption DEF Actors
<1>1. /\ call'[a].op = op /\ call'[a].org = o /\ call'[a].step = step
      /\ \A b \in Actors : b # a => call'[b] = call[b]
  BY BeginCall
<1>2. call'[Job].op \in {"none", "expire"} /\ \A q \in Requests : call'[q].op # "expire"
  BY <1>1, <1>j DEF Calm
<1>3. ASSUME NEW x \in Orgs \ raced', NEW b \in Actors, NEW c \in Actors,
             Starting(b, x)', On(c, x)', Stopping(c, x)'
      PROVE  FALSE
  <2>1. x \in Orgs \ raced BY <1>3 DEF Race
  <2>2. b # a => Starting(b, x) BY <1>1, <1>3 DEF Starting
  <2>3. c # a => On(c, x) /\ Stopping(c, x) BY <1>1, <1>3 DEF On, Busy, Stopping
  <2>4. CASE b # a /\ c # a
    BY <2>1, <2>2, <2>3, <2>4 DEF Calm
  <2>5. CASE b = a
    <3>1. x = o /\ op = "activate" BY <1>1, <1>3, <2>5 DEF Starting
    <3>2. ~Opposed(o, op) BY <1>3, <3>1 DEF Race
    <3>3. c # a BY <1>1, <1>3, <3>1 DEF Stopping
    <3> QED BY <2>3, <3>1, <3>2, <3>3 DEF Opposed
  <2>6. CASE b # a /\ c = a
    <3>1. x = o /\ op # "activate" /\ (op = "deactivate" \/ step \in {"stop", "ban"})
      BY <1>1, <1>3, <2>6 DEF Stopping
    <3>2. ~Opposed(o, op) BY <1>3, <3>1 DEF Race
    <3> QED BY <2>2, <2>6, <3>1, <3>2 DEF Opposed
  <2> QED BY <2>4, <2>5, <2>6
<1> QED BY <1>2, <1>3 DEF Calm

LEMMA OthersAccess ==
  ASSUME NEW x \in Orgs, Access(x), org'[x] = org[x], login'[x] = login[x],
         \A a \in Actors : call'[a] = call[a] \/ (~On(a, x) /\ ~On(a, x)')
  PROVE  Access(x)'
<1>1. \A a \in Actors : /\ On(a, x)' <=> On(a, x)
                        /\ On(a, x) => call'[a] = call[a]
  BY DEF On, Busy
<1>2. \A a \in Actors : /\ Makes(a, x)' <=> Makes(a, x)
                        /\ ShutsOut(a, x)' <=> ShutsOut(a, x)
  BY <1>1 DEF Makes, ShutsOut
<1>3. (SignsIn(x)' <=> SignsIn(x)) /\ (Runs(x)' <=> Runs(x))
  BY DEF SignsIn, Runs
<1>4. ASSUME NEW a \in Actors, On(a, x)' PROVE CallAccess(a, x)'
  <2>1. CallAccess(a, x) /\ call'[a] = call[a] BY <1>1, <1>4 DEF Access
  <2> QED BY <1>3, <2>1 DEF CallAccess
<1> QED BY <1>2, <1>3, <1>4 DEF Access

LEMMA AccessFromOne ==
  ASSUME TypeInv, AccessInv, NEW o \in Orgs, NEW a \in Actors,
         call[a].org = o \/ ~Busy(a), On(a, o)' \/ ~Busy(a)' \/ call'[a] = call[a],
         \A b \in Actors : b # a => call'[b] = call[b],
         \A x \in Orgs : x # o => org'[x] = org[x] /\ login'[x] = login[x],
         \A x \in Orgs : x # o /\ x \in left \cup raced => x \in left' \cup raced',
         Calm', o \notin left' \cup raced' => Access(o)'
  PROVE  AccessInv'
<1>1. ASSUME NEW x \in Orgs, x # o, x \notin left' \cup raced' PROVE Access(x)'
  <2>1. \A b \in Actors : call'[b] = call[b] \/ (~On(b, x) /\ ~On(b, x)')
    BY <1>1 DEF On, Busy
  <2>2. Access(x) BY <1>1 DEF AccessInv
  <2> QED BY <1>1, <2>1, <2>2, OthersAccess
<1> QED BY <1>1 DEF AccessInv

(* A step of a create, which has the organisation to itself. *)
LEMMA MakerLetsIn ==
  ASSUME TypeInv, NEW o \in Orgs, Kept(o), NEW a \in Actors, Makes(a, o),
         \A b \in Actors : b # a => call'[b] = call[b],
         On(a, o)' => /\ call'[a].op = call[a].op /\ call'[a].step # "ban"
                      /\ call'[a].step \in {"mark", "seed", "attendant", "metadata", "link"}
                           => SignsIn(o)',
         ~On(a, o)' /\ org'[o].here => "owner" \in org'[o].linked /\ SignsIn(o)'
  PROVE  Access(o)'
<1>1. \A b \in Actors : On(b, o)' => b = a
  BY DEF Kept, Order, On, Makes, Busy
<1>2. On(a, o)' => Makes(a, o)' /\ CallAccess(a, o)'
  BY DEF Makes, CallAccess
<1>3. \A b \in Actors : On(b, o)' => CallAccess(b, o)'
  BY <1>1, <1>2
<1>4. CASE On(a, o)'
  <2>1. ~\A b \in Actors : ~Makes(b, o)' BY <1>2, <1>4
  <2> QED BY <1>3, <2>1 DEF Access
<1>5. CASE ~On(a, o)'
  <2>1. org'[o].here => "owner" \in org'[o].linked /\ SignsIn(o)' BY <1>5
  <2>2. Runs(o)' => SignsIn(o)' BY <2>1 DEF Runs
  <2> QED BY <1>3, <2>1, <2>2 DEF Access
<1> QED BY <1>4, <1>5

LEMMA MakerAccess ==
  ASSUME TypeInv, BooksInv, AccessInv, NEW a \in Actors,
         NEW o \in Orgs, call[a].org = o,
         \/ MarkDemo(a) \/ SeedDemo(a) \/ CreateAttendant(a) \/ LinkLogin(a)
         \/ Invite(a) \/ UpdateAppMetadata(a) \/ RollbackRows(a)
  PROVE  AccessInv'
<1>a. /\ Makes(a, o) /\ Shape(call[a]) /\ Kept(o) /\ org[o] \in Row
      /\ o \notin left => CallBooks(a, o)
  BY MakerStep DEF MarkDemo, SeedDemo, CreateAttendant, LinkLogin, Invite,
                   UpdateAppMetadata, RollbackRows
<1>b. Busy(a) /\ On(a, o) BY <1>a DEF Makes, On
<1>c. \A b \in Actors : b # a => call'[b] = call[b]
  BY GotoCall, LearnCall, EndCall
     DEF MarkDemo, SeedDemo, CreateAttendant, LinkLogin, Invite, UpdateAppMetadata, RollbackRows
<1>d. /\ left \subseteq left' /\ UNCHANGED raced
      /\ \A x \in Orgs : x # o => org'[x] = org[x] /\ login'[x] = login[x]
  BY <1>a, SetRow
     DEF MarkDemo, SeedDemo, CreateAttendant, LinkLogin, Invite, UpdateAppMetadata,
         RollbackRows, Leave, TypeInv, TypeOK
<1>e. \/ ~Busy(a)' /\ ~On(a, o)'
      \/ /\ On(a, o)' /\ call'[a].op = call[a].op /\ call'[a].org = call[a].org
         /\ call'[a].step \notin {"stop", "ban"}
  <2>1. CASE End(a)
    BY <2>1, EndCall
  <2>2. CASE \E step \in Steps \ {"stop", "ban"} : Goto(a, step) \/ Learn(a, step, Roles)
                                                 \/ Learn(a, step, {"owner"})
    <3>1. /\ call'[a].op = call[a].op /\ call'[a].org = call[a].org
          /\ call'[a].step \notin {"stop", "ban"}
      BY <2>2, GotoCall, LearnCall
    <3> QED BY <1>b, <3>1 DEF On, Busy
  <2>3. CASE MarkDemo(a) \/ SeedDemo(a) \/ CreateAttendant(a) \/ LinkLogin(a)
    BY <2>1, <2>2, <2>3 DEF MarkDemo, SeedDemo, CreateAttendant, LinkLogin, Steps
  <2>4. CASE Invite(a) \/ UpdateAppMetadata(a) \/ RollbackRows(a)
    BY <2>1, <2>2, <2>4 DEF Invite, UpdateAppMetadata, RollbackRows, Steps
  <2> QED BY <2>3, <2>4
<1>f. Calm'
  BY <1>c, <1>d, <1>e, CalmKept DEF AccessInv, Busy
<1>g. o \notin left' \cup raced' => CallBooks(a, o) /\ CallAccess(a, o)
  BY <1>a, <1>b, <1>d DEF AccessInv, Access
<1>h. call[a].op \in {"create", "invite"} BY <1>a DEF Makes
<1>k. ASSUME o \notin left' \cup raced'
      PROVE  /\ On(a, o)' => /\ call'[a].step # "ban"
                             /\ call'[a].step \in {"mark", "seed", "attendant", "metadata", "link"}
                                  => SignsIn(o)'
             /\ ~On(a, o)' /\ org'[o].here => "owner" \in org'[o].linked /\ SignsIn(o)'
  <2>1. CASE MarkDemo(a)
    <3>1. call[a].step = "mark" /\ UNCHANGED login /\ (Goto(a, "seed") \/ Goto(a, "undoRows"))
      BY <1>k, <2>1 DEF MarkDemo, At, Leave
    <3>2. SignsIn(o)' BY <1>g, <1>h, <1>k, <3>1 DEF CallAccess, SignsIn
    <3>3. On(a, o)' BY <1>b, <3>1, GotoCall DEF On, Busy
    <3> QED BY <3>1, <3>2, <3>3, GotoCall
  <2>2. CASE SeedDemo(a)
    <3>1. call[a].step = "seed" /\ UNCHANGED login BY <2>2 DEF SeedDemo, At
    <3>2. SignsIn(o)' BY <1>g, <1>h, <1>k, <3>1 DEF CallAccess, SignsIn
    <3>3. CASE Goto(a, "attendant") \/ Goto(a, "undoRows")
      <4>1. On(a, o)' BY <1>b, <3>3, GotoCall DEF On, Busy
      <4> QED BY <3>2, <3>3, <4>1, GotoCall
    <3>4. CASE End(a) /\ Set(o, [org[o] EXCEPT !.onDuty = "no"])
      <4>1. org'[o].linked = org[o].linked BY <1>a, <3>4, SetRow DEF Row
      <4>2. "owner" \in org'[o].linked BY <1>g, <1>k, <3>1, <4>1 DEF CallBooks, Finds
      <4>3. ~On(a, o)' BY <3>4, EndCall
      <4> QED BY <3>2, <4>2, <4>3
    <3> QED BY <2>2, <3>3, <3>4 DEF SeedDemo
  <2>3. CASE CreateAttendant(a)
    <3>1. call[a].step = "attendant" BY <2>3 DEF CreateAttendant, At
    <3>2. login' = login \/ login' = [login EXCEPT ![o]["attendant"] = "active"]
      BY <2>3 DEF CreateAttendant
    <3>3. SignsIn(o)'
      BY <1>g, <1>h, <1>k, <3>1, <3>2 DEF CallAccess, SignsIn, TypeInv, TypeOK, Roles
    <3>4. On(a, o)' /\ call'[a].step \in {"link", "undoRows"}
      BY <1>b, <2>3, GotoCall, LearnCall DEF CreateAttendant, On, Busy
    <3> QED BY <3>3, <3>4
  <2>4. CASE LinkLogin(a)
    <3>1. call[a].step = "link" /\ UNCHANGED login BY <2>4 DEF LinkLogin, At
    <3>2. SignsIn(o)' BY <1>g, <1>h, <1>k, <3>1 DEF CallAccess, SignsIn
    <3>3. CASE Goto(a, "undoRows")
      <4>1. On(a, o)' BY <1>b, <3>3, GotoCall DEF On, Busy
      <4> QED BY <3>2, <3>3, <4>1, GotoCall
    <3>4. CASE End(a) /\ \E role \in Roles : Set(o, [org[o] EXCEPT !.linked = @ \cup {role}])
      <4>1. PICK role \in Roles : org'[o] = [org[o] EXCEPT !.linked = @ \cup {role}]
        BY <3>4, SetRow
      <4>2. org'[o].linked = org[o].linked \cup {role} BY <1>a, <4>1 DEF Row
      <4>3. "owner" \in org'[o].linked
        BY <1>g, <1>h, <1>k, <3>1, <4>2 DEF CallBooks, Finds
      <4>4. ~On(a, o)' BY <3>4, EndCall
      <4> QED BY <3>2, <4>3, <4>4
    <3> QED BY <2>4, <3>3, <3>4 DEF LinkLogin, Roles
  <2>5. CASE Invite(a)
    <3>1. CASE Learn(a, "metadata", {"owner"}) /\ login' = [login EXCEPT ![o]["owner"] = "active"]
      <4>1. SignsIn(o)' BY <3>1 DEF SignsIn, TypeInv, TypeOK, Roles
      <4>2. On(a, o)' /\ call'[a].step = "metadata" BY <1>b, <3>1, LearnCall DEF On, Busy
      <4> QED BY <4>1, <4>2
    <3>2. CASE Goto(a, "undoRows")
      <4>1. On(a, o)' /\ call'[a].step = "undoRows" BY <1>b, <3>2, GotoCall DEF On, Busy
      <4> QED BY <4>1
    <3> QED BY <2>5, <3>1, <3>2 DEF Invite
  <2>6. CASE UpdateAppMetadata(a)
    <3>1. call[a].step = "metadata" /\ UNCHANGED login BY <2>6 DEF UpdateAppMetadata, At
    <3>2. SignsIn(o)' BY <1>g, <1>h, <1>k, <3>1 DEF CallAccess, SignsIn
    <3>3. On(a, o)' /\ call'[a].step \in {"link", "undoRows"}
      BY <1>b, <2>6, GotoCall DEF UpdateAppMetadata, On, Busy
    <3> QED BY <3>2, <3>3
  <2>7. CASE RollbackRows(a)
    <3>1. On(a, o)' /\ call'[a].step = "undoLogins"
      BY <1>b, <2>7, GotoCall DEF RollbackRows, On, Busy
    <3> QED BY <3>1
  <2> QED BY <2>1, <2>2, <2>3, <2>4, <2>5, <2>6, <2>7
<1>l. o \notin left' \cup raced' => Access(o)'
  BY <1>a, <1>c, <1>e, <1>k, MakerLetsIn
<1> QED BY <1>c, <1>d, <1>e, <1>f, <1>l, AccessFromOne

(* A step that leaves the row and the logins alone. *)
LEMMA StillAccess ==
  ASSUME NEW o \in Orgs, Access(o), org'[o] = org[o], login'[o] = login[o], NEW a \in Actors,
         \A b \in Actors : b # a => call'[b] = call[b],
         ~Makes(a, o), ~Makes(a, o)', ShutsOut(a, o) => ShutsOut(a, o)',
         On(a, o)' => CallAccess(a, o)'
  PROVE  Access(o)'
<1>1. \A b \in Actors : b # a => (On(b, o)' <=> On(b, o))
  BY DEF On, Busy
<1>2. \A b \in Actors : (Makes(b, o)' <=> Makes(b, o)) /\ (ShutsOut(b, o) => ShutsOut(b, o)')
  BY <1>1 DEF Makes, ShutsOut
<1>3. (SignsIn(o)' <=> SignsIn(o)) /\ (Runs(o)' <=> Runs(o))
  BY DEF SignsIn, Runs
<1>4. ASSUME NEW b \in Actors, On(b, o)' PROVE CallAccess(b, o)'
  <2>1. CASE b = a BY <1>4, <2>1
  <2>2. CASE b # a
    <3>1. CallAccess(b, o) /\ call'[b] = call[b] BY <1>1, <1>4, <2>2 DEF Access
    <3> QED BY <1>3, <3>1 DEF CallAccess
  <2> QED BY <2>1, <2>2
<1> QED BY <1>2, <1>3, <1>4 DEF Access

(* Nobody signs in to an organisation that is gone. *)
LEMMA GoneAccess ==
  ASSUME NEW o \in Orgs, ~org'[o].here, \A b \in Actors : ~Makes(b, o)'
  PROVE  Access(o)'
<1>1. ~Runs(o)' BY DEF Runs
<1>2. \A b \in Actors : On(b, o)' => call'[b].op \notin {"create", "invite"}
  BY DEF Makes
<1>3. \A b \in Actors : On(b, o)' => CallAccess(b, o)'
  BY <1>1, <1>2 DEF CallAccess
<1> QED BY <1>1, <1>3 DEF Access

(* Deleting a demo, or undoing a create: the row goes before the logins. *)
LEMMA DeleteAccess ==
  ASSUME TypeInv, BooksInv, AccessInv, NEW a \in Actors, NEW o \in Orgs, call[a].org = o,
         DeleteDemoRows(a) \/ DeleteLogins(a)
  PROVE  AccessInv'
<1>a. On(a, o) /\ Shape(call[a]) /\ Kept(o)
  BY UserStep, MakerStep DEF DeleteDemoRows, DeleteLogins, Makes
<1>c. \A b \in Actors : b # a => call'[b] = call[b]
  BY GotoCall, EndCall DEF DeleteDemoRows, DeleteLogins
<1>d. /\ left \subseteq left' /\ UNCHANGED raced
      /\ \A x \in Orgs : x # o => org'[x] = org[x] /\ login'[x] = login[x]
  BY <1>a, SetRow DEF DeleteDemoRows, DeleteLogins, Leave, TypeInv, TypeOK
<1>e. \/ ~Busy(a)' /\ ~On(a, o)'
      \/ /\ On(a, o)' /\ call'[a].op = call[a].op /\ call'[a].org = call[a].org
         /\ call'[a].step \notin {"stop", "ban"}
  BY <1>a, GotoCall, EndCall DEF DeleteDemoRows, DeleteLogins, On, Busy
<1>f. Calm'
  BY <1>c, <1>d, <1>e, CalmKept DEF AccessInv, Busy
<1>l. ASSUME o \notin left' \cup raced' PROVE Access(o)'
  <2>0. Access(o) /\ Books(o) BY <1>a, <1>d, <1>l DEF AccessInv, Kept
  <2>1. CASE DeleteLogins(a)
    <3>1. ~org'[o].here
      BY <1>a, <2>0, <2>1 DEF Books, CallBooks, DeleteLogins, At
    <3>2. \A b \in Actors : ~Makes(b, o)'
      <4>1. ~On(a, o)' /\ \A b \in Actors : Makes(b, o)' => b # a /\ Makes(b, o)
        BY <1>c, <2>1, EndCall DEF DeleteLogins, Makes, On, Busy
      <4>2. \A b \in Actors : Makes(b, o) => b = a
        BY <1>a DEF Kept, Order
      <4> QED BY <4>1, <4>2
    <3> QED BY <3>1, <3>2, GoneAccess
  <2>2. CASE DeleteDemoRows(a)
    <3>1. \A b \in Actors : ~Makes(b, o)
      BY <2>2, UserStep DEF DeleteDemoRows
    <3>2. \A b \in Actors : ~Makes(b, o)'
      BY <1>c, <1>e, <3>1 DEF Makes, On, Busy
    <3>3. CASE Set(o, NoRow)
      <4>1. ~org'[o].here BY <3>3, SetRow, NoRowIsGone
      <4> QED BY <3>2, <4>1, GoneAccess
    <3>4. CASE End(a) /\ UNCHANGED <<org, login>>
      <4>1. ~ShutsOut(a, o) /\ ~On(a, o)'
        BY <2>2, <3>4, EndCall DEF DeleteDemoRows, At, ShutsOut
      <4> QED BY <1>c, <2>0, <3>1, <3>2, <3>4, <4>1, StillAccess
    <3> QED BY <2>2, <3>3, <3>4 DEF DeleteDemoRows
  <2> QED BY <2>1, <2>2
<1> QED BY <1>a, <1>c, <1>d, <1>e, <1>f, <1>l, AccessFromOne DEF On

(* What the switches of an owner leave of a row. *)
LEMMA StatusRow ==
  ASSUME TypeInv, NEW o \in Orgs, NEW active \in BOOLEAN,
         Set(o, [org[o] EXCEPT !.active = active])
  PROVE  /\ org'[o].here = org[o].here /\ org'[o].linked = org[o].linked
         /\ org'[o].suspended = org[o].suspended /\ org'[o].active = active
<1>1. org[o] \in Row BY DEF TypeInv, TypeOK
<1>2. org'[o] = [org[o] EXCEPT !.active = active] BY SetRow
<1> QED BY <1>1, <1>2, Zenon DEF Row

LEMMA SuspensionRow ==
  ASSUME TypeInv, NEW o \in Orgs, NEW suspended \in BOOLEAN,
         Set(o, [org[o] EXCEPT !.suspended = suspended])
  PROVE  /\ org'[o].here = org[o].here /\ org'[o].linked = org[o].linked
         /\ org'[o].active = org[o].active /\ org'[o].suspended = suspended
<1>1. org[o] \in Row BY DEF TypeInv, TypeOK
<1>2. org'[o] = [org[o] EXCEPT !.suspended = suspended] BY SetRow
<1> QED BY <1>1, <1>2, Zenon DEF Row

(* Switching an owner: the login first, then the status, then the stop. *)
LEMMA SwitchAccess ==
  ASSUME TypeInv, BooksInv, AccessInv, NEW a \in Actors, NEW o \in Orgs, call[a].org = o,
         SwitchLogin(a) \/ SwitchStatus(a) \/ SetSuspension(a)
  PROVE  AccessInv'
<1>a. /\ On(a, o) /\ Shape(call[a]) /\ Kept(o) /\ call[a] \in Call
      /\ \A b \in Actors : ~Makes(b, o)
  BY UserStep DEF SwitchLogin, SwitchStatus, SetSuspension
<1>o. call[a].op \in {"activate", "deactivate"}
  <2>1. call[a].step \in {"auth", "status", "suspension"}
    BY DEF SwitchLogin, SwitchStatus, SetSuspension, At
  <2> QED BY <1>a, <2>1 DEF Shape, On, Busy, Call, Ops
<1>c. \A b \in Actors : b # a => call'[b] = call[b]
  BY GotoCall, EndCall DEF SwitchLogin, SwitchStatus, SetSuspension
<1>d. /\ left \subseteq left' /\ UNCHANGED raced
      /\ \A x \in Orgs : x # o => org'[x] = org[x] /\ login'[x] = login[x]
  BY <1>a, SetRow DEF SwitchLogin, SwitchStatus, SetSuspension, Leave, TypeInv, TypeOK
<1>e. \/ ~Busy(a)' /\ ~On(a, o)'
      \/ /\ On(a, o)' /\ call'[a].op = call[a].op /\ call'[a].org = call[a].org
         /\ call'[a].step \notin {"stop", "ban"}
  BY <1>a, GotoCall, EndCall DEF SwitchLogin, SwitchStatus, SetSuspension, On, Busy
<1>f. Calm'
  BY <1>c, <1>d, <1>e, CalmKept DEF AccessInv, Busy
<1>m. \A b \in Actors : ~Makes(b, o)'
  BY <1>a, <1>c, <1>e, <1>o DEF Makes, On, Busy
<1>s. ASSUME o \notin left' \cup raced', End(a), UNCHANGED <<org, login>>, ~ShutsOut(a, o)
      PROVE  Access(o)'
  <2>1. Access(o) BY <1>d, <1>s DEF AccessInv
  <2>2. ~On(a, o)' BY <1>s, EndCall
  <2> QED BY <1>a, <1>c, <1>m, <1>s, <2>1, <2>2, StillAccess
(* The other operations on o: a reactivation among them has a reactivation
   beside it, one that is to ban a stop. *)
<1>b. ASSUME o \notin left' \cup raced', org'[o].here => org[o].here,
             call[a].op = "activate" /\ SignsIn(o) => SignsIn(o)',
             Runs(o)' => Runs(o) \/ call[a].op = "activate"
      PROVE  \A b \in Actors \ {a} : On(b, o)' => CallAccess(b, o)'
  <2> SUFFICES ASSUME NEW b \in Actors, b # a, On(b, o)' PROVE CallAccess(b, o)'
    OBVIOUS
  <2>1. On(b, o) /\ call'[b] = call[b] BY <1>c DEF On, Busy
  <2>2. call'[b].op \notin {"create", "invite"} BY <1>m DEF Makes
  <2>3. CallAccess(b, o) /\ o \in Orgs \ raced
    BY <1>b, <1>d, <2>1 DEF AccessInv, Access
  <2>4. ASSUME call[b].op = "activate" PROVE call[a].op = "activate"
    <3>1. Starting(b, o) BY <2>1, <2>4 DEF Starting, On
    <3>2. ~Stopping(a, o) BY <1>a, <2>3, <3>1 DEF AccessInv, Calm
    <3> QED BY <1>o, <3>2 DEF Stopping
  <2>5. ASSUME call[b].step = "ban" PROVE ~Runs(o)'
    <3>1. Stopping(b, o) BY <2>1, <2>5 DEF Stopping, On
    <3>2. ~Starting(a, o) BY <2>1, <2>3, <3>1 DEF AccessInv, Calm
    <3>3. call[a].op # "activate" BY <3>2 DEF Starting
    <3>4. ~Runs(o) BY <2>3, <2>5 DEF CallAccess
    <3> QED BY <1>b, <3>3, <3>4
  <2>6. call[b].op = "activate" /\ call[b].step \in {"status", "suspension"} /\ org'[o].here
          => SignsIn(o)'
    BY <1>b, <2>3, <2>4 DEF CallAccess
  <2> QED BY <2>1, <2>2, <2>5, <2>6 DEF CallAccess
<1>l. ASSUME o \notin left' \cup raced' PROVE Access(o)'
  <2>0. Access(o) /\ CallAccess(a, o)
    BY <1>a, <1>d, <1>l DEF AccessInv, Access
  <2>h. org[o].here => "owner" \in org[o].linked
    BY <1>a, <2>0 DEF Access
  <2>1. CASE SwitchLogin(a)
    <3>1. call[a].step = "auth" /\ ~ShutsOut(a, o) /\ UNCHANGED org
      BY <2>1 DEF SwitchLogin, At, ShutsOut
    <3>2. CASE End(a) /\ UNCHANGED login
      BY <1>l, <1>s, <3>1, <3>2
    <3>3. CASE Goto(a, "status") /\ login' = [login EXCEPT ![o]["owner"] =
                        IF call[a].op = "activate" THEN "active" ELSE "banned"]
      <4>1. Runs(o)' <=> Runs(o) BY <3>1 DEF Runs
      <4>4. call[a].op = "activate" => SignsIn(o)'
        BY <3>3 DEF SignsIn, TypeInv, TypeOK, Roles
      <4>2. \A b \in Actors \ {a} : On(b, o)' => CallAccess(b, o)'
        BY <1>b, <1>l, <3>1, <4>1, <4>4
      <4>3. On(a, o)' /\ call'[a].op = call[a].op /\ call'[a].step = "status"
        BY <1>a, <3>3, GotoCall DEF On, Busy
      <4>5. call[a].op = "deactivate" => ShutsOut(a, o)'
        BY <4>3 DEF ShutsOut
      <4>6. CallAccess(a, o)' BY <1>o, <4>3, <4>4 DEF CallAccess
      <4>7. org'[o].here => "owner" \in org'[o].linked BY <2>h, <3>1
      <4> QED BY <1>o, <4>2, <4>4, <4>5, <4>6, <4>7 DEF Access
    <3>4. CASE Leave(o)
      BY <1>l, <3>4 DEF Leave
    <3> QED BY <2>1, <3>2, <3>3, <3>4 DEF SwitchLogin
  <2>2. CASE SwitchStatus(a)
    <3>1. call[a].step = "status" /\ UNCHANGED login
      BY <2>2 DEF SwitchStatus, At
    <3>2. CASE Leave(o)
      BY <1>l, <3>2 DEF Leave
    <3>3. CASE Goto(a, "suspension") /\ org[o].here
               /\ Set(o, [org[o] EXCEPT !.active = call[a].op = "activate"])
      <4>0. (call[a].op = "activate") \in BOOLEAN OBVIOUS
      <4>1. /\ org'[o].here /\ org'[o].linked = org[o].linked
            /\ org'[o].active = (call[a].op = "activate")
        BY <3>3, <4>0, StatusRow
      <4>2. call[a].op = "deactivate" => ~Runs(o)'
        BY <4>1 DEF Runs
      <4>8. SignsIn(o)' <=> SignsIn(o)
        BY <3>1 DEF SignsIn
      <4>3. \A b \in Actors \ {a} : On(b, o)' => CallAccess(b, o)'
        BY <1>b, <1>l, <1>o, <3>1, <3>3, <4>2, <4>8
      <4>4. call[a].op = "activate" => SignsIn(o)'
        BY <2>0, <3>1, <3>3, <4>8 DEF CallAccess
      <4>5. On(a, o)' /\ call'[a].op = call[a].op /\ call'[a].step = "suspension"
        BY <1>a, <3>3, GotoCall DEF On, Busy
      <4>6. CallAccess(a, o)' BY <1>o, <4>1, <4>4, <4>5 DEF CallAccess
      <4>7. Runs(o)' => SignsIn(o)' BY <1>o, <4>2, <4>4
      <4> QED BY <2>h, <3>3, <4>1, <4>3, <4>6, <4>7 DEF Access
    <3>4. CASE Goto(a, "suspension") /\ ~org[o].here /\ UNCHANGED org
      <4>1. ~org'[o].here BY <3>4
      <4> QED BY <1>m, <4>1, GoneAccess
    <3> QED BY <2>2, <3>2, <3>3, <3>4 DEF SwitchStatus
  <2>3. CASE SetSuspension(a)
    <3>1. call[a].step = "suspension" /\ UNCHANGED login /\ End(a)
      BY <2>3 DEF SetSuspension, At
    <3>2. CASE Leave(o)
      BY <1>l, <3>2 DEF Leave
    <3>3. CASE org[o].here /\ Set(o, [org[o] EXCEPT !.suspended = call[a].op = "deactivate"])
      <4>0. (call[a].op = "deactivate") \in BOOLEAN OBVIOUS
      <4>1. /\ org'[o].here /\ org'[o].linked = org[o].linked
            /\ org'[o].suspended = (call[a].op = "deactivate")
        BY <3>3, <4>0, SuspensionRow
      <4>2. call[a].op = "deactivate" => ~Runs(o)'
        BY <4>1 DEF Runs
      <4>8. SignsIn(o)' <=> SignsIn(o)
        BY <3>1 DEF SignsIn
      <4>3. \A b \in Actors \ {a} : On(b, o)' => CallAccess(b, o)'
        BY <1>b, <1>l, <1>o, <3>1, <3>3, <4>2, <4>8
      <4>4. call[a].op = "activate" => SignsIn(o)'
        BY <2>0, <3>1, <3>3, <4>8 DEF CallAccess
      <4>5. ~On(a, o)' BY <3>1, EndCall
      <4>7. Runs(o)' => SignsIn(o)' BY <1>o, <4>2, <4>4
      <4> QED BY <2>h, <3>3, <4>1, <4>3, <4>5, <4>7 DEF Access
    <3>4. CASE ~org[o].here /\ UNCHANGED org
      <4>1. ~org'[o].here BY <3>4
      <4> QED BY <1>m, <4>1, GoneAccess
    <3> QED BY <2>3, <3>2, <3>3, <3>4 DEF SetSuspension
  <2> QED BY <2>1, <2>2, <2>3
<1> QED BY <1>c, <1>d, <1>e, <1>f, <1>l, AccessFromOne

(* The job's stop, and its bans of an organisation that no longer runs. *)
LEMMA JobAccess ==
  ASSUME TypeInv, BooksInv, AccessInv, NEW o \in Orgs, call[Job].org = o, JobStop \/ JobBan
  PROVE  AccessInv'
<1>j. Job \in Actors /\ Busy(Job) BY DEF Actors, JobStop, JobBan, At
<1>a. /\ On(Job, o) /\ Shape(call[Job]) /\ Kept(o)
      /\ \A b \in Actors : ~Makes(b, o)
  BY <1>j, UserStep DEF JobStop, JobBan
<1>c. \A b \in Actors : b # Job => call'[b] = call[b]
  BY <1>j, GotoCall, EndCall DEF JobStop, JobBan
<1>d. /\ UNCHANGED <<left, raced>>
      /\ \A x \in Orgs : x # o => org'[x] = org[x] /\ login'[x] = login[x]
  BY <1>a, SetRow DEF JobStop, JobBan, TypeInv, TypeOK
<1>e. \/ ~Busy(Job)' /\ ~On(Job, o)'
      \/ /\ On(Job, o)' /\ call'[Job].op = call[Job].op /\ call'[Job].org = call[Job].org
         /\ call[Job].step = "stop"
  BY <1>a, <1>j, GotoCall, EndCall DEF JobStop, JobBan, On, Busy, At
<1>f. Calm'
  BY <1>c, <1>d, <1>e, <1>j, CalmKept DEF AccessInv, Busy
<1>m. ASSUME o \notin raced, NEW b \in Actors, On(b, o)'
      PROVE  ~Makes(b, o)' /\ call'[b].op # "activate"
  <2>1. CASE b = Job
    BY <1>e, <1>m, <2>1 DEF AccessInv, Calm, Makes
  <2>2. CASE b # Job
    <3>1. On(b, o) /\ call'[b] = call[b] BY <1>c, <1>m, <2>2 DEF On, Busy
    <3>2. Stopping(Job, o) BY DEF JobStop, JobBan, At, Stopping
    <3>3. ~Starting(b, o) BY <1>a, <1>j, <1>m, <3>2 DEF AccessInv, Calm
    <3> QED BY <1>a, <3>1, <3>3 DEF Starting, On, Makes
  <2> QED BY <2>1, <2>2
(* Nothing is claimed of an organisation that does not run. *)
<1>s. ASSUME ~Runs(o)', org'[o].here => org[o].here /\ org'[o].linked = org[o].linked,
             o \notin left \cup raced
      PROVE  Access(o)'
  <2>1. \A b \in Actors : On(b, o)' => CallAccess(b, o)'
    BY <1>m, <1>s DEF CallAccess, Makes
  <2>2. org'[o].here => "owner" \in org'[o].linked
    BY <1>a, <1>s DEF AccessInv, Access
  <2> QED BY <1>s, <2>1, <2>2 DEF Access
<1>l. ASSUME o \notin left' \cup raced' PROVE Access(o)'
  <2>0. Access(o) /\ CallAccess(Job, o)
    BY <1>a, <1>d, <1>j, <1>l DEF AccessInv, Access
  <2>1. CASE JobStop
    <3>1. CASE End(Job) /\ UNCHANGED <<org, login>>
      <4>1. ~On(Job, o)' /\ ~Makes(Job, o)' /\ ~ShutsOut(Job, o)
        BY <1>j, <2>1, <3>1, EndCall DEF Makes, ShutsOut, JobStop, At
      <4> QED BY <1>a, <1>c, <1>j, <2>0, <3>1, <4>1, StillAccess
    <3>2. CASE Set(o, [org[o] EXCEPT !.suspended = TRUE, !.active = FALSE])
      <4>1. org[o] \in Row BY DEF TypeInv, TypeOK
      <4>2. org'[o] = [org[o] EXCEPT !.suspended = TRUE, !.active = FALSE]
        BY <3>2, SetRow
      <4>3. org'[o].suspended /\ org'[o].here = org[o].here /\ org'[o].linked = org[o].linked
        BY <4>1, <4>2, Zenon DEF Row
      <4> QED BY <1>d, <1>l, <1>s, <4>3 DEF Runs
    <3> QED BY <2>1, <3>1, <3>2 DEF JobStop
  <2>2. CASE JobBan
    <3>1. ~Runs(o) /\ org' = org BY <2>0, <2>2 DEF JobBan, At, CallAccess
    <3>2. ~Runs(o)' BY <3>1 DEF Runs
    <3> QED BY <1>d, <1>l, <1>s, <3>1, <3>2
  <2> QED BY <2>1, <2>2
<1> QED BY <1>c, <1>d, <1>e, <1>f, <1>j, <1>l, AccessFromOne

(* The beginnings of a delete, of a switch and of the job's work on a demo. *)
LEMMA StartAccess ==
  ASSUME TypeInv, AccessInv, NEW a \in Actors, NEW o \in Orgs, ~Busy(a),
         \A b \in Actors : ~Makes(b, o),
         NEW op \in {"delete", "activate", "deactivate", "expire"},
         NEW step \in {"deleteRows", "auth", "status", "stop"}, NEW seen,
         o \notin left \cup raced /\ op = "activate" => step = "auth",
         Begin(a, Begun(op, o, step, org[o].linked, seen)),
         UNCHANGED <<org, login, left>>, raced \subseteq raced', Calm'
  PROVE  AccessInv'
<1>1. /\ call'[a].op = op /\ call'[a].org = o /\ call'[a].step = step
      /\ \A b \in Actors : b # a => call'[b] = call[b]
  BY BeginCall
<1>2. On(a, o)' /\ ~Makes(a, o)' /\ ~ShutsOut(a, o)
  BY <1>1 DEF Busy, On, Makes, ShutsOut
<1>3. ASSUME o \notin left \cup raced PROVE Access(o)'
  <2>1. CallAccess(a, o)' BY <1>1, <1>3 DEF CallAccess
  <2>2. Access(o) BY <1>3 DEF AccessInv
  <2> QED BY <1>1, <1>2, <2>1, <2>2, StillAccess
<1> QED BY <1>1, <1>2, <1>3, AccessFromOne

LEMMA AdminAccess ==
  ASSUME TypeInv, BooksInv, AccessInv, NEW q \in Requests, NEW o \in Orgs,
         \/ StartDelete(q, o)
         \/ \E op \in {"activate", "deactivate"} : StartSetOwner(q, o, op)
  PROVE  AccessInv'
<1>1. \A b \in Actors : ~Makes(b, o)
  BY DEF BooksInv, Kept, Order, Makes, On, Actors, StartDelete, StartSetOwner, Creating
<1>2. /\ q \in Actors /\ q # Job /\ ~Busy(q) /\ org[o].here
      /\ UNCHANGED <<org, login, left>> /\ raced \subseteq raced'
  BY DemoAssumption DEF Actors, StartDelete, StartSetOwner, Race
<1>3. CASE StartDelete(q, o)
  <2>1. Begin(q, Begun("delete", o, "deleteRows", org[o].linked, 0))
    BY <1>3 DEF StartDelete
  <2>3. Calm'
    BY <1>2, <1>3, <2>1, BeginsCalm DEF AccessInv, StartDelete
  <2> QED BY <1>1, <1>2, <2>1, <2>3, StartAccess
<1>4. ASSUME NEW op \in {"activate", "deactivate"}, StartSetOwner(q, o, op) PROVE AccessInv'
  <2>1. Begin(q, Begun(op, o, FirstSwitch(op, org[o].linked), org[o].linked, 0))
    BY <1>4 DEF StartSetOwner
  <2>2. FirstSwitch(op, org[o].linked) \in {"auth", "status"}
    BY DEF FirstSwitch
  <2>3. o \notin left \cup raced => FirstSwitch(op, org[o].linked) = "auth"
    BY <1>1, <1>2 DEF FirstSwitch, AccessInv, Access
  <2> HIDE DEF FirstSwitch
  <2>5. Calm'
    BY <1>2, <1>4, <2>1, <2>2, BeginsCalm DEF AccessInv, StartSetOwner
  <2> QED BY <1>1, <1>2, <2>1, <2>2, <2>3, <2>5, StartAccess
<1> QED BY <1>3, <1>4

(* A create begins on an organisation nobody knows. *)
LEMMA NewAccess ==
  ASSUME TypeInv, AccessInv, NEW q \in Requests, NEW o \in Orgs,
         CreateUser(q, o) \/ SeedProspect(q, o)
  PROVE  AccessInv'
<1>a. /\ q \in Actors /\ q # Job /\ ~Busy(q)
      /\ raced' = raced \ {o} /\ left \subseteq left'
  BY DemoAssumption DEF Actors, CreateUser, SeedProspect, Leave
<1>b. \A b \in Actors : call[b].org # o
  BY DEF CreateUser, SeedProspect, Fresh
<1>c. \A x \in Orgs : x # o => org'[x] = org[x] /\ login'[x] = login[x]
  <2>1. CASE CreateUser(q, o)
    BY <2>1, SetRow DEF CreateUser, TypeInv, TypeOK
  <2>2. CASE SeedProspect(q, o)
    BY <2>2, SetRow DEF SeedProspect
  <2> QED BY <2>1, <2>2
<1>1. CASE CreateUser(q, o) /\ Leave(o) /\ UNCHANGED call
  <2>1. o \in left' BY <1>1 DEF Leave
  <2>2. Calm'
    <3>1. \A b \in Actors : ~Starting(b, o) BY <1>b DEF Starting
    <3> QED BY <1>1, <1>a, <3>1 DEF AccessInv, Calm, Starting, Stopping, On, Busy
  <2> QED BY <1>1, <1>a, <1>c, <2>1, <2>2, AccessFromOne
<1>2. CASE \/ /\ CreateUser(q, o) /\ Begin(q, Begun("create", o, "mark", {"owner"}, 0))
              /\ SignsIn(o)'
           \/ Begin(q, Begun("invite", o, "invite", {}, 0))
  <2>1. /\ call'[q].op \in {"create", "invite"} /\ call'[q].org = o
        /\ \A b \in Actors : b # q => call'[b] = call[b]
    BY <1>2, <1>a, BeginCall
  <2>2. \A b \in Actors : On(b, o)' => b = q
    BY <1>b, <2>1 DEF On
  <2>3. CallAccess(q, o)' /\ Makes(q, o)'
    BY <1>2, <1>a, <2>1, BeginCall DEF CallAccess, Makes, On, Busy
  <2>4. Access(o)'
    <3>1. ~\A b \in Actors : ~Makes(b, o)' BY <1>a, <2>3
    <3>2. \A b \in Actors : On(b, o)' => CallAccess(b, o)' BY <2>2, <2>3
    <3> QED BY <3>1, <3>2 DEF Access
  <2>5. Calm'
    <3>1. \A p \in Requests : p \in Actors /\ p # Job BY DemoAssumption DEF Actors
    <3>2. \A b \in Actors : ~Starting(b, o)'
      BY <1>b, <2>1 DEF Starting
    <3>3. ASSUME NEW x \in Orgs \ raced', NEW b \in Actors, NEW c \in Actors,
                 Starting(b, x)', On(c, x)', Stopping(c, x)'
          PROVE  FALSE
      <4>1. x # o /\ x \in Orgs \ raced BY <1>a, <3>2, <3>3
      <4>2. b # q /\ c # q BY <2>1, <3>3, <4>1 DEF Starting, Stopping
      <4>3. Starting(b, x) /\ On(c, x) /\ Stopping(c, x)
        BY <2>1, <3>3, <4>2 DEF Starting, Stopping, On, Busy
      <4> QED BY <4>1, <4>3 DEF AccessInv, Calm
    <3>4. call'[Job].op \in {"none", "expire"} /\ \A p \in Requests : call'[p].op # "expire"
      BY <1>a, <2>1, <3>1 DEF AccessInv, Calm, Actors
    <3> QED BY <3>3, <3>4 DEF Calm
  <2>6. On(q, o)' BY <2>3 DEF Makes
  <2> QED BY <1>a, <1>c, <2>1, <2>4, <2>5, <2>6, AccessFromOne
<1>3. CreateUser(q, o) => SignsIn(o)'
  BY DEF CreateUser, SignsIn, TypeInv, TypeOK, Roles
<1> QED BY <1>1, <1>2, <1>3 DEF CreateUser, SeedProspect

(* The job's list and its next demo. *)
LEMMA ListAccess ==
  ASSUME TypeInv, BooksInv, AccessInv, JobList \/ \E d \in listed : JobPick(d)
  PROVE  AccessInv'
<1>1. CASE JobList
  <2>1. Calm'
    BY <1>1, CalmKept DEF JobList, AccessInv
  <2>2. ASSUME NEW x \in Orgs, x \notin left' \cup raced' PROVE Access(x)'
    BY <1>1, <2>2, OthersAccess DEF JobList, AccessInv
  <2> QED BY <2>1, <2>2 DEF AccessInv
<1>2. ASSUME NEW d \in listed, JobPick(d) PROVE AccessInv'
  <2>1. /\ d.org \in Orgs /\ Job \in Actors /\ ~Busy(Job)
        /\ UNCHANGED <<org, login, left>> /\ raced \subseteq raced'
    BY <1>2 DEF TypeInv, TypeOK, Actors, JobPick, Race
  <2>2. \A b \in Actors : ~Makes(b, d.org)
    BY <2>1 DEF BooksInv, Kept, Order
  <2>3. CASE UNCHANGED <<call, raced>>
    <3>1. Calm' BY <2>1, <2>3, CalmKept DEF AccessInv
    <3>2. ASSUME NEW x \in Orgs, x \notin left' \cup raced' PROVE Access(x)'
      BY <2>1, <2>3, <3>2, OthersAccess DEF AccessInv
    <3> QED BY <3>1, <3>2 DEF AccessInv
  <2>4. CASE /\ Begin(Job, Begun("expire", d.org,
                              IF Overdue(d.expires) THEN "deleteRows" ELSE "stop",
                              org[d.org].linked, d.expires))
             /\ IF Overdue(d.expires) THEN UNCHANGED raced ELSE Race(d.org, "expire")
    <3> DEFINE step == IF Overdue(d.expires) THEN "deleteRows" ELSE "stop"
    <3>1. /\ step \in {"deleteRows", "stop"}
          /\ Race(d.org, "expire") \/ (UNCHANGED raced /\ step = "deleteRows")
      BY <2>4
    <3>2. Begin(Job, Begun("expire", d.org, step, org[d.org].linked, d.expires))
      BY <2>4
    <3> HIDE DEF step
    <3>3. Calm'
      BY <2>1, <3>1, <3>2, BeginsCalm DEF AccessInv
    <3> QED BY <2>1, <2>2, <3>1, <3>2, <3>3, StartAccess
  <2> QED BY <1>2, <2>3, <2>4 DEF JobPick
<1> QED BY <1>1, <1>2

(* A reset and an extension: the Owner's profile stays linked. *)
LEMMA RowAccess ==
  ASSUME TypeInv, AccessInv, NEW o \in Orgs,
         ResetDemo(o) \/ \E term \in Terms : ExtendDemo(o, term)
  PROVE  AccessInv'
<1>1. UNCHANGED <<login, call, left, raced>> /\ org[o] \in Row
  BY DEF ResetDemo, ExtendDemo, TypeInv, TypeOK
<1>2. \A x \in Orgs : x # o => org'[x] = org[x]
  BY SetRow DEF ResetDemo, ExtendDemo
<1>3. /\ org'[o].here = org[o].here /\ org'[o].active = org[o].active
      /\ org'[o].suspended = org[o].suspended
      /\ "owner" \in org[o].linked => "owner" \in org'[o].linked
  <2>1. CASE ResetDemo(o)
    <3> DEFINE onDuty == IF org[o].onDuty = "unseeded" THEN "yes" ELSE org[o].onDuty
               linked == Relinked(org[o].linked, onDuty)
    <3>1. org'[o] = [org[o] EXCEPT !.onDuty = onDuty, !.linked = linked]
      BY <2>1, SetRow DEF ResetDemo
    <3>2. "owner" \in org[o].linked => "owner" \in linked
      BY DEF Relinked, Roles
    <3> HIDE DEF onDuty, linked
    <3>3. /\ org'[o].here = org[o].here /\ org'[o].active = org[o].active
          /\ org'[o].suspended = org[o].suspended /\ org'[o].linked = linked
      BY <1>1, <3>1, Zenon DEF Row
    <3> QED BY <3>2, <3>3
  <2>2. ASSUME NEW term \in Terms, ExtendDemo(o, term)
        PROVE  /\ org'[o].here = org[o].here /\ org'[o].active = org[o].active
               /\ org'[o].suspended = org[o].suspended
               /\ "owner" \in org[o].linked => "owner" \in org'[o].linked
    <3>1. org'[o] = [org[o] EXCEPT !.expires = ExpiryAfter(org[o], term)]
      BY <2>2, SetRow DEF ExtendDemo
    <3>2. /\ org'[o].here = org[o].here /\ org'[o].active = org[o].active
          /\ org'[o].suspended = org[o].suspended /\ org'[o].linked = org[o].linked
      BY <1>1, <3>1, Zenon DEF Row
    <3> QED BY <3>2
  <2> QED BY <2>1, <2>2
<1>4. Calm' BY <1>1, CalmKept DEF AccessInv
<1>5. ASSUME o \notin left \cup raced PROVE Access(o)'
  <2>1. Access(o) BY <1>5 DEF AccessInv
  <2>2. (Runs(o)' <=> Runs(o)) /\ (SignsIn(o)' <=> SignsIn(o))
    BY <1>1, <1>3 DEF Runs, SignsIn
  <2>3. \A a \in Actors : /\ On(a, o)' <=> On(a, o)
                          /\ Makes(a, o)' <=> Makes(a, o)
                          /\ ShutsOut(a, o)' <=> ShutsOut(a, o)
    BY <1>1 DEF On, Makes, ShutsOut, Busy
  <2>4. ASSUME NEW a \in Actors, On(a, o)' PROVE CallAccess(a, o)'
    <3>1. CallAccess(a, o) BY <2>1, <2>3, <2>4 DEF Access
    <3> QED BY <1>1, <1>3, <2>2, <3>1 DEF CallAccess
  <2> QED BY <1>3, <2>1, <2>2, <2>3, <2>4 DEF Access
<1>6. ASSUME NEW x \in Orgs, x # o, x \notin left' \cup raced' PROVE Access(x)'
  BY <1>1, <1>2, <1>6, OthersAccess DEF AccessInv
<1> QED BY <1>1, <1>4, <1>5, <1>6 DEF AccessInv

LEMMA NextAccess == TypeInv /\ BooksInv /\ AccessInv /\ [Next]_vars => AccessInv'
<1> SUFFICES ASSUME TypeInv, BooksInv, AccessInv, [Next]_vars PROVE AccessInv'
  OBVIOUS
<1>1. ASSUME NEW q \in Requests, NEW o \in Orgs, Admin(q, o) PROVE AccessInv'
  BY <1>1, NewAccess, AdminAccess DEF Admin
<1>2. ASSUME NEW o \in Orgs, ResetDemo(o) \/ \E term \in Terms : ExtendDemo(o, term)
      PROVE  AccessInv'
  BY <1>2, RowAccess
<1>3. ASSUME NEW a \in Actors, Step(a) PROVE AccessInv'
  <2>1. Busy(a)
    BY <1>3 DEF Step, At, MarkDemo, SeedDemo, CreateAttendant, LinkLogin, Invite,
                UpdateAppMetadata, RollbackRows, DeleteLogins, DeleteDemoRows,
                SwitchLogin, SwitchStatus, SetSuspension
  <2>2. PICK o \in Orgs : call[a].org = o BY <2>1, BusyCall
  <2> QED BY <1>3, <2>2, MakerAccess, DeleteAccess, SwitchAccess DEF Step
<1>4. ASSUME NEW a \in Actors, Kill(a) PROVE AccessInv'
  <2>1. PICK o \in Orgs : call[a].org = o BY <1>4, BusyCall DEF Kill
  <2>2. /\ ~Busy(a)' /\ (\A b \in Actors : b # a => call'[b] = call[b])
        /\ UNCHANGED <<org, login, raced>>
        /\ left' = left \cup {o}
    BY <1>4, <2>1, EndCall DEF Kill, Leave
  <2>3. Calm' BY <2>2, CalmKept DEF AccessInv, Busy
  <2> QED BY <2>1, <2>2, <2>3, AccessFromOne
<1>5. CASE JobStep
  <2>1. CASE JobList \/ \E d \in listed : JobPick(d)
    BY <2>1, ListAccess
  <2>2. CASE JobStop \/ JobBan
    <3>1. Busy(Job) /\ Job \in Actors BY <2>2 DEF JobStop, JobBan, At, Actors
    <3>2. PICK o \in Orgs : call[Job].org = o BY <3>1, BusyCall
    <3> QED BY <2>2, <3>2, JobAccess
  <2> QED BY <1>5, <2>1, <2>2 DEF JobStep
<1>6. CASE Tick \/ UNCHANGED vars
  <2>1. UNCHANGED <<org, login, call, left, raced>> BY <1>6 DEF Tick, vars
  <2>2. Calm' BY <2>1, CalmKept DEF AccessInv
  <2>3. ASSUME NEW x \in Orgs, x \notin left' \cup raced' PROVE Access(x)'
    BY <2>1, <2>3, OthersAccess DEF AccessInv
  <2> QED BY <2>2, <2>3 DEF AccessInv
<1> QED BY <1>1, <1>2, <1>3, <1>4, <1>5, <1>6 DEF Next

LEMMA InitAccess == Init => AccessInv
<1> SUFFICES ASSUME Init PROVE AccessInv
  OBVIOUS
<1>1. \A a \in Actors : call[a].op = "none" /\ ~Busy(a)
  BY DEF Init, Free, Begun, Busy
<1>2. Calm
  BY <1>1 DEF Calm, Starting, Actors
<1>3. ASSUME NEW o \in Orgs PROVE Access(o)
  <2>1. org[o] = NoRow BY DEF Init
  <2>2. ~org[o].here BY <2>1, NoRowIsGone
  <2> QED BY <1>1, <2>2 DEF Access, On, Runs
<1> QED BY <1>2, <1>3 DEF AccessInv

(* Outside of an operation, and unless one broke off half-way, the owner of
   an organisation that is not stopped can sign in, for any number of demos,
   admins and overlapping operations and whatever fails -- unless a
   reactivation overlapped a stop. *)
THEOREM RunningOwnersSignIn == Spec => []RunningCanSignIn
<1>1. AccessInv => RunningCanSignIn
  <2> SUFFICES ASSUME AccessInv, NEW o \in Orgs, Settled(o), o \notin raced,
                      org[o].here, org[o].active, ~org[o].suspended
               PROVE  login[o]["owner"] = "active"
    BY DEF RunningCanSignIn, CanSignIn
  <2>1. \A a \in Actors : ~On(a, o) BY DEF Settled, On
  <2>2. Access(o) /\ Runs(o) BY DEF Settled, AccessInv, Runs
  <2> QED BY <2>1, <2>2 DEF Access, Makes, ShutsOut, SignsIn
<1>2. Spec => [](TypeInv /\ BooksInv /\ AccessInv)
  BY InitTypes, InitBooks, InitAccess, NextTypes, NextBooks, NextAccess, PTL DEF Spec
<1> QED BY <1>1, <1>2, PTL
=============================================================================
