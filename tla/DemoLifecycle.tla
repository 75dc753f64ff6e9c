--------------------------- MODULE DemoLifecycle ---------------------------
(***************************************************************************)
(* Demo organisations: how a platform admin creates, resets, extends,      *)
(* deactivates and deletes them, and how the nightly job stops and removes *)
(* the expired ones (apps/api/src/services/demo/demo-lifecycle.ts).        *)
(*                                                                         *)
(* Two systems hold a demo: the database (the organisation's row with its  *)
(* users) and the auth provider (the logins).  No transaction spans both,  *)
(* so each operation is a sequence of commits and provider calls, any of   *)
(* which can fail, and the Worker can die between two of them.             *)
(***************************************************************************)
EXTENDS Integers, FiniteSets

CONSTANTS
  Orgs,            \* organisations a create may make
  NoOrg,           \* no organisation
  Requests,        \* requests of platform admins handled at once
  Job,             \* the nightly job, the one actor that is not a request
  Terms,           \* expiresInDays an admin may choose
  MaxExpires,      \* bound: last day an admin sets an expiry to
  Grace,           \* DEMO_DELETE_GRACE_DAYS
  MaxDay,          \* bound: every demo is overdue by then
  Faults,          \* what may go wrong: "refused", "lost", "db", "profile", "kill"
  MaxFaults        \* bound: how often

ASSUME DemoAssumption ==
  /\ NoOrg \notin Orgs
  /\ Job \notin Requests
  /\ Terms \subseteq Nat \ {0}
  /\ {MaxExpires, Grace, MaxDay, MaxFaults} \subseteq Nat
  /\ MaxExpires + Grace < MaxDay

VARIABLES
  day,       \* today
  ranToday,  \* has the job been triggered today?
  org,       \* the organisation's row, with what matters of its users
  login,     \* the logins the auth provider has for it
  call,      \* each actor's operation in progress
  listed,    \* expired demos the job has listed and not yet handled
  left,      \* history: organisations over which an operation broke off half-way
  raced,     \* history: those whose owner was being reactivated while a stop of
             \* theirs, the job's or an admin's, was still under way
  faults     \* faults so far

vars == <<day, ranToday, org, login, call, listed, left, raced, faults>>

Roles == {"owner", "attendant"}
Actors == Requests \cup {Job}

NoRow == [here |-> FALSE, demo |-> FALSE, expires |-> 0, suspended |-> FALSE,
          active |-> FALSE, linked |-> {}, onDuty |-> "unseeded"]

NewRow(demo, expires, linked, onDuty) ==
  [here |-> TRUE, demo |-> demo, expires |-> expires, suspended |-> FALSE,
   active |-> TRUE, linked |-> linked, onDuty |-> onDuty]

(* `active` is the Owner's status, `linked` the users whose auth_user_id is
   set, `onDuty` whether the seeded history leaves an Attendant on duty. *)
Row == [here: BOOLEAN, demo: BOOLEAN, expires: 0..MaxExpires, suspended: BOOLEAN,
        active: BOOLEAN, linked: SUBSET Roles, onDuty: {"unseeded", "yes", "no"}]

Ops == {"none", "create", "invite", "delete", "activate", "deactivate", "expire"}

Steps == {"start", "mark", "seed", "attendant", "link", "invite", "metadata",
          "undoRows", "undoLogins", "deleteRows", "deleteLogins", "auth",
          "status", "suspension", "stop", "ban"}

Begun(op, o, step, logins, seen) ==
  [op |-> op, org |-> o, step |-> step, logins |-> logins, seen |-> seen]

Free == Begun("none", NoOrg, "start", {}, 0)

(* `logins` are the auth ids the operation has learnt so far, `seen` the
   expiry the job read when it listed the demo. *)
Call == [op: Ops, org: Orgs \cup {NoOrg}, step: Steps, logins: SUBSET Roles,
         seen: 0..MaxExpires]

Init ==
  /\ day = 0 /\ ranToday = FALSE
  /\ org = [o \in Orgs |-> NoRow]
  /\ login = [o \in Orgs |-> [r \in Roles |-> "none"]]
  /\ call = [a \in Actors |-> Free]
  /\ listed = {} /\ left = {} /\ raced = {} /\ faults = 0

----------------------------------------------------------------------------
Busy(a) == call[a].op # "none"
At(a, step) == Busy(a) /\ call[a].step = step
Begin(a, c) == call' = [call EXCEPT ![a] = c]
Goto(a, step) == call' = [call EXCEPT ![a].step = step]
Learn(a, step, logins) == call' = [call EXCEPT ![a].step = step, ![a].logins = logins]
End(a) == call' = [call EXCEPT ![a] = Free]

(* Is a create of this organisation still running? *)
Creating(o) == \E q \in Requests : call[q].op \in {"create", "invite"} /\ call[q].org = o

NoFault == UNCHANGED faults
Fault(kind) == kind \in Faults /\ faults < MaxFaults /\ faults' = faults + 1

(* The operation breaks off and no later step of the code mends it. *)
Leave(o) == left' = left \cup {o}

Set(o, row) == org' = [org EXCEPT ![o] = row]

Expired(expires) == expires <= day
Overdue(expires) == expires < day - Grace

Fresh(o) ==
  /\ ~org[o].here /\ o \notin left
  /\ \A r \in Roles : login[o][r] = "none"
  /\ \A a \in Actors : call[a].org # o
  /\ \A d \in listed : d.org # o

----------------------------------------------------------------------------
(* createDemo without a prospect email: the login first. *)

(* admin.createUser, whose trigger provisions an ordinary organisation.  A
   refusal makes nothing; after a lost answer nobody knows the login. *)
CreateUser(q, o) ==
  /\ ~Busy(q) /\ Fresh(o) /\ \E term \in Terms : day + term <= MaxExpires
  /\ Set(o, NewRow(FALSE, 0, {"owner"}, "unseeded"))
  /\ login' = [login EXCEPT ![o]["owner"] = "active"]
  /\ \/ /\ NoFault
        /\ Begin(q, Begun("create", o, "mark", {"owner"}, 0))
        /\ UNCHANGED left
     \/ Fault("lost") /\ Leave(o) /\ UNCHANGED call
  /\ raced' = raced \ {o}
  /\ UNCHANGED <<day, ranToday, listed>>

(* The owner's profile is read and its organisation marked a demo, in a
   commit of its own.  When the read fails, the code does not know the
   organisation and only undoes the login. *)
MarkDemo(q) ==
  /\ At(q, "mark")
  /\ LET o == call[q].org IN
     \/ \E term \in Terms :
          /\ day + term <= MaxExpires
          /\ Set(o, [org[o] EXCEPT !.demo = TRUE, !.expires = day + term])
          /\ Goto(q, "seed") /\ NoFault /\ UNCHANGED left
     \/ Fault("db") /\ Goto(q, "undoRows") /\ UNCHANGED <<org, left>>
     \/ Fault("profile") /\ Goto(q, "undoLogins") /\ Leave(o) /\ UNCHANGED org
  /\ UNCHANGED <<day, ranToday, login, listed, raced>>

(* The seed, one transaction, which returns the Attendant on duty if any. *)
SeedDemo(q) ==
  /\ At(q, "seed")
  /\ LET o == call[q].org IN
     \/ /\ Set(o, [org[o] EXCEPT !.onDuty = "yes"])
        /\ Goto(q, "attendant") /\ NoFault
     \/ /\ Set(o, [org[o] EXCEPT !.onDuty = "no"])
        /\ End(q) /\ NoFault
     \/ Fault("db") /\ Goto(q, "undoRows") /\ UNCHANGED org
  /\ UNCHANGED <<day, ranToday, login, listed, left, raced>>

CreateAttendant(q) ==
  /\ At(q, "attendant")
  /\ LET o == call[q].org
         made == [login EXCEPT ![o]["attendant"] = "active"] IN
     \/ /\ login' = made /\ NoFault /\ UNCHANGED left
        /\ Learn(q, "link", Roles)
     \/ Fault("refused") /\ Goto(q, "undoRows") /\ UNCHANGED <<login, left>>
     \/ Fault("lost") /\ login' = made /\ Goto(q, "undoRows") /\ Leave(o)
  /\ UNCHANGED <<day, ranToday, org, listed, raced>>

(* The last write of either path: the profile's auth_user_id. *)
LinkLogin(q) ==
  /\ At(q, "link")
  /\ LET c == call[q]
         role == IF c.op = "invite" THEN "owner" ELSE "attendant" IN
     \/ /\ Set(c.org, [org[c.org] EXCEPT !.linked = @ \cup {role}])
        /\ End(q) /\ NoFault
     \/ Fault("db") /\ Goto(q, "undoRows") /\ UNCHANGED org
  /\ UNCHANGED <<day, ranToday, login, listed, left, raced>>

----------------------------------------------------------------------------
(* createDemo with a prospect email: the rows first, then the invite. *)

SeedProspect(q, o) ==
  /\ ~Busy(q) /\ Fresh(o)
  /\ \E term \in Terms, onDuty \in {"yes", "no"} :
       /\ day + term <= MaxExpires
       /\ Set(o, NewRow(TRUE, day + term, {}, onDuty))
  /\ Begin(q, Begun("invite", o, "invite", {}, 0))
  /\ raced' = raced \ {o}
  /\ UNCHANGED <<day, ranToday, login, listed, left, faults>>

(* The provider makes the login, and its trigger links it to the profile
   with the same email. *)
Invite(q) ==
  /\ At(q, "invite")
  /\ LET o == call[q].org
         made ==
           /\ login' = [login EXCEPT ![o]["owner"] = "active"]
           /\ Set(o, [org[o] EXCEPT !.linked = @ \cup {"owner"}, !.active = TRUE]) IN
     \/ /\ made /\ NoFault /\ UNCHANGED left
        /\ Learn(q, "metadata", {"owner"})
     \/ Fault("refused") /\ Goto(q, "undoRows") /\ UNCHANGED <<login, org, left>>
     \/ Fault("lost") /\ made /\ Goto(q, "undoRows") /\ Leave(o)
  /\ UNCHANGED <<day, ranToday, listed, raced>>

UpdateAppMetadata(q) ==
  /\ At(q, "metadata")
  /\ \/ Goto(q, "link") /\ NoFault
     \/ (Fault("refused") \/ Fault("lost")) /\ Goto(q, "undoRows")
  /\ UNCHANGED <<day, ranToday, org, login, listed, left, raced>>

----------------------------------------------------------------------------
(* rollbackCreate, then the logins the failed create knows of. *)

(* Rows go whether or not the organisation became a demo. *)
RolledBackDemo(row) == IF row.demo THEN NoRow ELSE row                \* mutant
RolledBack(row) == NoRow

RollbackRows(q) ==
  /\ At(q, "undoRows")
  /\ \/ Set(call[q].org, RolledBack(org[call[q].org])) /\ NoFault /\ UNCHANGED left
     \/ Fault("db") /\ Leave(call[q].org) /\ UNCHANGED org
  /\ Goto(q, "undoLogins")
  /\ UNCHANGED <<day, ranToday, login, listed, raced>>

(* deleteLogins: refusals are logged and the operation ends all the same. *)
DeleteLogins(a) ==
  /\ At(a, "undoLogins") \/ At(a, "deleteLogins")
  /\ LET o == call[a].org IN
     \E refused \in SUBSET call[a].logins :
       /\ login' = [login EXCEPT ![o] =
                      [r \in Roles |-> IF r \in call[a].logins \ refused
                                       THEN "none" ELSE login[o][r]]]
       /\ IF refused = {} THEN NoFault /\ UNCHANGED left
                          ELSE Fault("refused") /\ Leave(o)
  /\ End(a)
  /\ UNCHANGED <<day, ranToday, org, listed, raced>>

----------------------------------------------------------------------------
(* The admin's other operations on an organisation. *)

(* The profiles a reset keeps linked: the Owner, who is not cleared, and
   whoever of the new staff is on duty, to whom the Attendant's login moves. *)
OwnerOnly(linked, onDuty) == linked \cap {"owner"}                     \* mutant
Relinked(linked, onDuty) ==
  linked \cap (IF onDuty = "yes" THEN Roles ELSE {"owner"})

(* resetDemo, one transaction.  Without a station the default one is seeded,
   which has an Attendant on duty. *)
ResetDemo(o) ==
  LET row == org[o]
      onDuty == IF row.onDuty = "unseeded" THEN "yes" ELSE row.onDuty IN
  /\ ~Creating(o) /\ row.here /\ row.demo
  /\ Set(o, [row EXCEPT !.onDuty = onDuty, !.linked = Relinked(@, onDuty)])
  /\ UNCHANGED <<day, ranToday, login, call, listed, left, raced, faults>>

ExpiryAfter(row, term) == day + term

ExtendDemo(o, term) ==
  /\ ~Creating(o) /\ org[o].here /\ org[o].demo /\ day + term <= MaxExpires
  /\ Set(o, [org[o] EXCEPT !.expires = ExpiryAfter(org[o], term)])
  /\ UNCHANGED <<day, ranToday, login, call, listed, left, raced, faults>>

(* deleteDemo reads the logins before its transaction. *)
StartDelete(q, o) ==
  /\ ~Busy(q) /\ ~Creating(o) /\ org[o].here
  /\ Begin(q, Begun("delete", o, "deleteRows", org[o].linked, 0))
  /\ UNCHANGED <<day, ranToday, org, login, listed, left, raced, faults>>

(* deleteDemoRows, for the admin's delete and for the job's. *)
DeleteDemoRows(a) ==
  /\ At(a, "deleteRows")
  /\ LET o == call[a].org
         isDemo == org[o].here /\ org[o].demo IN
     \/ isDemo /\ Set(o, NoRow) /\ Goto(a, "deleteLogins") /\ NoFault
     \/ ~isDemo /\ End(a) /\ NoFault /\ UNCHANGED org
     \/ Fault("db") /\ End(a) /\ UNCHANGED org
  /\ UNCHANGED <<day, ranToday, login, listed, left, raced>>

(* Is somebody at work on this demo who wants the opposite? *)
Stopping(a, o) ==
  call[a].org = o /\ (call[a].op = "deactivate" \/ call[a].step \in {"stop", "ban"})
Starting(a, o) == call[a].org = o /\ call[a].op = "activate"

Opposed(o, op) ==
  \E a \in Actors : IF op = "activate" THEN Stopping(a, o) ELSE Starting(a, o)

Race(o, op) == raced' = IF Opposed(o, op) THEN raced \cup {o} ELSE raced

(* setOwnerActive: the login, then the Owner's status, then the stop, each
   on its own, whoever else is at it. *)
FirstBan(op, linked) ==                                               \* mutant
  IF "owner" \in linked /\ op = "deactivate" THEN "auth" ELSE "status"
FirstSwitch(op, linked) == IF "owner" \in linked THEN "auth" ELSE "status"

StartSetOwner(q, o, op) ==
  /\ ~Busy(q) /\ ~Creating(o) /\ org[o].here
  /\ Begin(q, Begun(op, o, FirstSwitch(op, org[o].linked), org[o].linked, 0))
  /\ Race(o, op)
  /\ UNCHANGED <<day, ranToday, org, login, listed, left, faults>>

(* A provider that no longer has the login refuses. *)
SwitchLogin(q) ==
  /\ At(q, "auth")
  /\ LET o == call[q].org
         known == login[o]["owner"] # "none"
         switched == [login EXCEPT ![o]["owner"] =
                        IF call[q].op = "activate" THEN "active" ELSE "banned"] IN
     \/ known /\ login' = switched /\ Goto(q, "status") /\ NoFault /\ UNCHANGED left
     \/ ~known /\ End(q) /\ NoFault /\ UNCHANGED <<login, left>>
     \/ Fault("refused") /\ End(q) /\ UNCHANGED <<login, left>>
     \/ known /\ Fault("lost") /\ login' = switched /\ End(q) /\ Leave(o)
  /\ UNCHANGED <<day, ranToday, org, listed, raced>>

SwitchStatus(q) ==
  /\ At(q, "status")
  /\ LET o == call[q].org IN
     \/ /\ IF org[o].here
           THEN Set(o, [org[o] EXCEPT !.active = call[q].op = "activate"])
           ELSE UNCHANGED org
        /\ Goto(q, "suspension") /\ NoFault /\ UNCHANGED left
     \/ Fault("db") /\ End(q) /\ Leave(o) /\ UNCHANGED org
  /\ UNCHANGED <<day, ranToday, login, listed, raced>>

(* SuspendOrganization and RestoreOrganization: an organisation that is gone
   is an error, one already so is left alone. *)
SetSuspension(q) ==
  /\ At(q, "suspension")
  /\ LET o == call[q].org IN
     \/ /\ IF org[o].here
           THEN Set(o, [org[o] EXCEPT !.suspended = call[q].op = "deactivate"])
           ELSE UNCHANGED org
        /\ NoFault /\ UNCHANGED left
     \/ Fault("db") /\ Leave(o) /\ UNCHANGED org
  /\ End(q)
  /\ UNCHANGED <<day, ranToday, login, listed, raced>>

----------------------------------------------------------------------------
(* expireDemoOrganizations, triggered once a day. *)

ListsRunning(row) ==                                                  \* mutant
  row.here /\ row.demo /\ Expired(row.expires) /\ ~row.suspended
Lists(row) ==
  /\ row.here /\ row.demo /\ Expired(row.expires)
  /\ Overdue(row.expires) \/ ~row.suspended

JobList ==
  /\ ~ranToday
  /\ ranToday' = TRUE
  /\ listed' = {[org |-> o, expires |-> org[o].expires] :
                  o \in {x \in Orgs : Lists(org[x])}}
  /\ UNCHANGED <<day, org, login, call, left, raced, faults>>

(* The next demo of the list; its logins are read first.  A failed read is
   logged and the job moves on. *)
JobPick(d) ==
  /\ ~Busy(Job) /\ d \in listed
  /\ listed' = listed \ {d}
  /\ \/ /\ Begin(Job, Begun("expire", d.org,
                            IF Overdue(d.expires) THEN "deleteRows" ELSE "stop",
                            org[d.org].linked, d.expires))
        /\ IF Overdue(d.expires) THEN UNCHANGED raced ELSE Race(d.org, "expire")
        /\ NoFault
     \/ Fault("db") /\ UNCHANGED <<call, raced>>
  /\ UNCHANGED <<day, ranToday, org, login, left>>

(* Stops the demo, after checking under its lock that it still is one and
   still is expired. *)
StillADemo(row) == row.here /\ row.demo                               \* mutant
StillDue(row) == row.here /\ row.demo /\ Expired(row.expires)

JobStop ==
  /\ At(Job, "stop")
  /\ LET o == call[Job].org
         due == StillDue(org[o]) IN
     \/ /\ due /\ NoFault
        /\ Set(o, [org[o] EXCEPT !.suspended = TRUE, !.active = FALSE])
        /\ Goto(Job, "ban")
     \/ ~due /\ End(Job) /\ NoFault /\ UNCHANGED org
     \/ Fault("db") /\ End(Job) /\ UNCHANGED org
  /\ UNCHANGED <<day, ranToday, login, listed, left, raced>>

(* Bans every login it read; refusals are logged. *)
JobBan ==
  /\ At(Job, "ban")
  /\ LET o == call[Job].org IN
     \E refused \in SUBSET call[Job].logins :
       /\ login' = [login EXCEPT ![o] =
                      [r \in Roles |->
                         IF r \in call[Job].logins \ refused /\ login[o][r] # "none"
                         THEN "banned" ELSE login[o][r]]]
       /\ IF refused = {} THEN NoFault ELSE Fault("refused")
  /\ End(Job)
  /\ UNCHANGED <<day, ranToday, org, listed, left, raced>>

----------------------------------------------------------------------------
(* A Worker dies in the middle of an operation; the job loses its list. *)
Kill(a) ==
  /\ Busy(a) /\ Fault("kill")
  /\ End(a) /\ Leave(call[a].org)
  /\ listed' = IF a = Job THEN {} ELSE listed
  /\ UNCHANGED <<day, ranToday, org, login, raced>>

(* The next day.  A create takes seconds and terms are days, so none is under
   way; every demo is overdue on MaxDay, and later days are alike. *)
Tick ==
  /\ ranToday /\ listed = {} /\ ~Busy(Job)
  /\ \A q \in Requests : call[q].op \notin {"create", "invite"}
  /\ day' = IF day < MaxDay THEN day + 1 ELSE day
  /\ ranToday' = FALSE
  /\ UNCHANGED <<org, login, call, listed, left, raced, faults>>

----------------------------------------------------------------------------
(* One step of an operation under way. *)
Step(a) ==
  \/ MarkDemo(a) \/ SeedDemo(a) \/ CreateAttendant(a) \/ LinkLogin(a)
  \/ Invite(a) \/ UpdateAppMetadata(a) \/ RollbackRows(a) \/ DeleteLogins(a)
  \/ DeleteDemoRows(a) \/ SwitchLogin(a) \/ SwitchStatus(a) \/ SetSuspension(a)

JobStep == JobList \/ (\E d \in listed : JobPick(d)) \/ JobStop \/ JobBan

Admin(q, o) ==
  \/ CreateUser(q, o) \/ SeedProspect(q, o) \/ StartDelete(q, o)
  \/ \E op \in {"activate", "deactivate"} : StartSetOwner(q, o, op)

Next ==
  \/ \E q \in Requests, o \in Orgs : Admin(q, o)
  \/ \E o \in Orgs : ResetDemo(o) \/ \E term \in Terms : ExtendDemo(o, term)
  \/ \E a \in Actors : Step(a) \/ Kill(a)
  \/ JobStep
  \/ Tick

Spec == Init /\ [][Next]_vars

(* Time passes whatever the admins do, the trigger fires every day, and the
   runtime runs to its end what it does not kill. *)
FairSpec ==
  /\ Spec
  /\ SF_vars(Tick)
  /\ WF_vars(JobStep \/ Step(Job))
  /\ \A q \in Requests : WF_vars(Step(q))

----------------------------------------------------------------------------
(* Every variable stays in its range; no demo is listed twice. *)
TypeOK ==
  /\ day \in 0..MaxDay /\ ranToday \in BOOLEAN
  /\ org \in [Orgs -> Row]
  /\ login \in [Orgs -> [Roles -> {"none", "active", "banned"}]]
  /\ call \in [Actors -> Call]
  /\ listed \in SUBSET [org: Orgs, expires: 0..MaxExpires]
  /\ left \in SUBSET Orgs /\ raced \in SUBSET Orgs /\ faults \in 0..MaxFaults

Settled(o) == o \notin left /\ \A a \in Actors : call[a].org # o

(* A create that fails and whose rollback runs to its end leaves no ordinary
   organisation behind: the auth trigger makes one, and either it becomes a
   demo, which the job removes in the end, or the rollback takes it away.
   The rollback does not get there when the Worker is killed, an answer is
   lost, its own delete fails, or the owner's profile could not be read: then
   it does not know the organisation. *)
NoStrayOrganization ==
  \A o \in Orgs : Settled(o) /\ org[o].here => org[o].demo

(* Outside of an operation, and unless one broke off, the logins at the auth
   provider are those of the profiles in the database: creating, resetting
   and deleting demos neither orphans a login nor strands a profile. *)
LoginsMatchProfiles ==
  \A o \in Orgs : Settled(o) =>
    {r \in Roles : login[o][r] # "none"} = org[o].linked

CanSignIn(o, role) ==
  org[o].here /\ org[o].active /\ ~org[o].suspended => login[o][role] = "active"

(* The owner of a demo that is not stopped can sign in: no ban outlives the
   stop it belongs to, through any number of stops and reactivations, as long
   as no reactivation overlapped a stop, which nothing in the code prevents. *)
RunningCanSignIn == \A o \in Orgs : Settled(o) /\ o \notin raced => CanSignIn(o, "owner")

(* The nightly job stops only a demo that is expired when it stops it, and
   removes only one past its grace, though an extension that commits after
   the list does not save a demo the list found overdue. *)
ExpiryIsRespected ==
  [][\A o \in Orgs :
       LET c == call[Job] IN
       c.org = o /\ call'[Job] # c /\ org'[o] # org[o] =>
         IF org'[o].here THEN org[o].expires <= day
         ELSE org[o].expires + Grace < day \/ org[o].expires # c.seen]_vars

(* Every demo goes in the end, also one whose seed failed or was killed and
   one that is suspended: the admins stop extending it and the job gets it. *)
DemosGo == \A o \in Orgs : org[o].here /\ org[o].demo ~> ~org[o].here

=============================================================================
