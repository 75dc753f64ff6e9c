------------------------- MODULE DesktopUpdater_proofs -------------------------
(***************************************************************************)
(* What holds of the update coordinator for every number of versions,      *)
(* update objects and calls, on both platforms: that versions only rise,    *)
(* that one call works at a time, and that checks nobody asked for are      *)
(* silent.                                                                 *)
(***************************************************************************)
EXTENDS DesktopUpdater, TLAPS

-----------------------------------------------------------------------------
(* Types.  TypeOK is not inductive: a call captures the object this.handle  *)
(* names, which must not be absent while anything is on offer, and a        *)
(* postponed offer resumes as what its detail says.                        *)

HandleIsThere ==
  /\ state.update # 0 \/ state.phase = "relaunch-ready" => handle # NoHandle
  /\ \A c \in Calls : Busy(c) => handle # NoHandle

PostponedResumes == state.phase = "postponed" => state.detail \in {"available", "downloaded"}

TypeInv == TypeOK /\ HandleIsThere /\ PostponedResumes

USE UpdaterAssumption, NoCallAssumption DEF Versions, Found, Unreadable

(* Records with truth values in them are typed by themselves.              *)
LEMMA ObjectTypes ==
  /\ \A v \in Versions, b, o \in BOOLEAN : [version |-> v, bytes |-> b, open |-> o] \in ObjectRow
  /\ \A r \in ObjectRow : [r EXCEPT !.bytes = TRUE] \in ObjectRow
  /\ \A r \in ObjectRow : [r EXCEPT !.open = FALSE] \in ObjectRow
<1>1. \A v \in Versions, b, o \in BOOLEAN : [version |-> v, bytes |-> b, open |-> o] \in ObjectRow
  BY Zenon DEF ObjectRow
<1>2. \A r \in ObjectRow : [r EXCEPT !.bytes = TRUE] \in ObjectRow
  BY Zenon DEF ObjectRow
<1>3. \A r \in ObjectRow : [r EXCEPT !.open = FALSE] \in ObjectRow
  BY Zenon DEF ObjectRow
<1> QED BY <1>1, <1>2, <1>3

LEMMA NoObject == [version |-> 0, bytes |-> FALSE, open |-> FALSE] \in ObjectRow
<1>1. 0 \in Versions OBVIOUS
<1>2. FALSE \in BOOLEAN OBVIOUS
<1> QED BY <1>1, <1>2, ObjectTypes, Zenon

LEMMA CalledVersion ==
  ASSUME TypeOK, NEW c \in Calls, Busy(c)
  PROVE  /\ call[c] \in CallRow
         /\ object[call[c].handle].version \in Versions
<1>1. call[c] \in CallRow BY DEF TypeOK, Busy
<1>2. object[call[c].handle] \in ObjectRow BY <1>1 DEF TypeOK, CallRow
<1> QED BY <1>1, <1>2, Zenon DEF ObjectRow

LEMMA FreshTypes == ASSUME TypeInv, Fresh, running' \in Versions, disk' \in Versions
                    PROVE  TypeInv'
<1>1. /\ state' \in UpdateState /\ state'.update = 0 /\ state'.phase = "idle"
  BY DEF Fresh, Idle, Show, UpdateState, Phases, Details
<1>2. call' \in [Calls -> CallRow \cup {NoCall}] /\ \A c \in Calls : ~Busy(c)'
  BY DEF Fresh, Busy
<1>3. object' \in [Handles -> ObjectRow]
  BY NoObject, Zenon DEF Fresh
<1>4. checkIsManual' \in BOOLEAN /\ started' \in BOOLEAN /\ owed' \in BOOLEAN
      /\ overtaken' \in BOOLEAN
  BY Zenon DEF Fresh
<1>5. TypeOK'
  BY <1>1, <1>2, <1>3, <1>4 DEF TypeInv, TypeOK, Fresh
<1> QED BY <1>1, <1>2, <1>5 DEF TypeInv, HandleIsThere, PostponedResumes

(* A check and its three branches, from any state a method may see.        *)
LEMMA CheckTypes ==
  ASSUME TypeInv, NEW s \in UpdateState, NEW manual \in BOOLEAN,
         s.update # 0 \/ s.phase = "relaunch-ready" => handle # NoHandle,
         s.phase = "postponed" => s.detail \in {"available", "downloaded"},
         Check(s, manual), started' \in BOOLEAN
  PROVE  TypeInv'
<1> USE DEF TypeInv, TypeOK, HandleIsThere, PostponedResumes, UpdateState, Phases, Details,
            Busy, Show, Check, checkVars
<1>1. CASE Join(s, manual)
  <2>1. checkIsManual' \in BOOLEAN /\ owed' \in BOOLEAN BY <1>1, Zenon DEF Join
  <2>2. state' \in UpdateState /\ (state' = s \/ state' = Show("checking", s.update, "manual"))
    BY <1>1 DEF Join
  <2> QED BY <1>1, <2>1, <2>2 DEF Join
<1>2. CASE ResumeOffer(s)
  <2>1. owed' \in BOOLEAN BY <1>2, Zenon DEF ResumeOffer
  <2> QED BY <1>2, <2>1 DEF ResumeOffer, BusyWithOffer
<1>3. CASE AskServer(s, manual)
  BY <1>3 DEF AskServer, Asked
<1> QED BY <1>1, <1>2, <1>3

LEMMA TypeStep == TypeInv /\ [Next]_vars => TypeInv'
<1> SUFFICES ASSUME TypeInv, [Next]_vars PROVE TypeInv' OBVIOUS
<1>s. state \in UpdateState BY DEF TypeInv, TypeOK
<1>1. CASE UNCHANGED vars
  BY <1>1 DEF TypeInv, TypeOK, HandleIsThere, PostponedResumes, Busy, vars
<1>2. CASE CheckOnceAtStartup
  <2>1. started' \in BOOLEAN BY <1>2 DEF CheckOnceAtStartup
  <2> QED BY <1>2, <1>s, <2>1, CheckTypes DEF CheckOnceAtStartup, TypeInv, HandleIsThere,
             PostponedResumes
<1>3. CASE Quit
  BY <1>3, FreshTypes DEF Quit, TypeInv, TypeOK
<1>4. CASE ClickCheck \/ RetryCheck
  <2>1. started' \in BOOLEAN BY <1>4 DEF ClickCheck, RetryCheck, Click, TypeInv, TypeOK
  <2>2. CASE ClickCheck
    BY <2>2, <1>s, <2>1, CheckTypes DEF ClickCheck, TypeInv, HandleIsThere, PostponedResumes
  <2>3. CASE RetryCheck
    <3>1. Idle \in UpdateState /\ Idle.update = 0 /\ Idle.phase = "idle"
      BY DEF Idle, Show, UpdateState, Phases, Details
    <3> QED BY <2>3, <3>1, <2>1, CheckTypes DEF RetryCheck
  <2> QED BY <1>4, <2>2, <2>3
<1> USE DEF TypeInv, TypeOK, HandleIsThere, PostponedResumes, UpdateState, Phases, Details,
            Busy, Show, checkVars, callOnly
<1>5. CASE CheckFails
  BY <1>5 DEF CheckFails, FailCheck, Fail, Idle
<1>6. ASSUME NEW f \in Found, CheckAnswers(f) PROVE TypeInv'
  <2>1. object' \in [Handles -> ObjectRow]
    <3>1. \A h \in Handles : [object[h] EXCEPT !.open = FALSE] \in ObjectRow
      BY ObjectTypes
    <3> QED BY <1>6, <3>1, Zenon DEF CheckAnswers
  <2> QED BY <1>6, <2>1 DEF CheckAnswers
<1>7. ASSUME NEW h \in Handles, CheckEnds(h) PROVE TypeInv'
  <2>1. CASE Newer(found)
    <3>1. object' \in [Handles -> ObjectRow] 
      <4>1. [version |-> found, bytes |-> FALSE, open |-> TRUE] \in ObjectRow
        BY <2>1, ObjectTypes, Zenon DEF Newer
      <4> QED BY <1>7, <2>1, <4>1 DEF CheckEnds
    <3>2. state' \in UpdateState /\ state'.phase = "available"
      BY <1>7, <2>1 DEF CheckEnds, Newer
    <3> QED BY <1>7, <2>1, <3>1, <3>2 DEF CheckEnds, Newer
  <2>2. CASE ~Newer(found)
    <3>1. state' \in UpdateState /\ state'.phase # "postponed" /\ state'.phase # "relaunch-ready"
          /\ state'.update = 0
      BY <1>7, <2>2 DEF CheckEnds, FailCheck, Fail, Idle, Asked
    <3> QED BY <1>7, <2>2, <3>1 DEF CheckEnds
  <2> QED BY <2>1, <2>2
<1>8. CASE Postpone
  BY <1>8 DEF Postpone, Click, Resume
<1>9. CASE Dismiss
  BY <1>9 DEF Dismiss, Click, Idle
<1>10. ASSUME NEW c \in Calls, ClickDownload(c) \/ RetryDownload(c) PROVE TypeInv'
  BY <1>10 DEF ClickDownload, RetryDownload, Click, Download, Begin, Offered, CallRow
<1>11. ASSUME NEW c \in Calls, ClickInstall(c) \/ RetryInstall(c) PROVE TypeInv'
  BY <1>11 DEF ClickInstall, RetryInstall, Click, Install, Begin, Offered, CallRow
<1>12. ASSUME NEW c \in Calls, ClickRelaunch(c) PROVE TypeInv'
  BY <1>12 DEF ClickRelaunch, Click, Begin, CallRow
<1>13. ASSUME NEW c \in Calls, DownloadEnds(c) PROVE TypeInv'
  <2>1. call[c] \in CallRow BY <1>13 DEF DownloadEnds, CallsOf
  <2>2. object' \in [Handles -> ObjectRow] 
    <3>1. call[c].handle \in Handles BY <2>1 DEF CallRow
    <3>2. [object[call[c].handle] EXCEPT !.bytes = TRUE] \in ObjectRow BY <3>1, ObjectTypes
    <3>3. CASE UNCHANGED object BY <3>3
    <3>4. CASE object' = [object EXCEPT ![call[c].handle].bytes = TRUE]
      BY <3>1, <3>2, <3>4
    <3> QED BY <1>13, <3>3, <3>4 DEF DownloadEnds
  <2>3. state' \in UpdateState /\ state'.phase # "postponed"
    BY <1>13, <2>1 DEF DownloadEnds, Fail, CallRow
  <2>4. call' \in [Calls -> CallRow \cup {NoCall}] BY <1>13 DEF DownloadEnds, Return
  <2> QED BY <1>13, <2>1, <2>2, <2>3, <2>4 DEF DownloadEnds, Return, CallsOf
<1>14. ASSUME NEW c \in Calls, ReadinessAnswers(c) PROVE TypeInv'
  BY <1>14 DEF ReadinessAnswers, CallsOf, Return, CallRow
<1>15. ASSUME NEW c \in Calls, InstallFails(c) \/ RelaunchFails(c) PROVE TypeInv'
  <2>1. overtaken' \in BOOLEAN
    <3>1. CASE InstallFails(c) BY <3>1 DEF InstallFails
    <3>2. CASE RelaunchFails(c) BY <3>2, Zenon DEF RelaunchFails
    <3> QED BY <1>15, <3>1, <3>2
  <2> QED BY <1>15, <2>1 DEF InstallFails, RelaunchFails, CallsOf, Return, Fail, CallRow
<1>16. ASSUME NEW c \in Calls, InstallReturns(c) PROVE TypeInv'
  <2>1. disk' \in Versions BY <1>16, CalledVersion DEF InstallReturns, CallsOf
  <2> QED BY <1>16, <2>1 DEF InstallReturns, CallsOf, Return, CallRow
<1>17. ASSUME NEW c \in Calls, InstallerExits(c) PROVE TypeInv'
  <2>1. running' \in Versions /\ disk' \in Versions
    BY <1>17, CalledVersion DEF InstallerExits, CallsOf
  <2> QED BY <1>17, <2>1, FreshTypes DEF InstallerExits
<1>18. ASSUME NEW c \in Calls, Relaunched(c) PROVE TypeInv'
  BY <1>18, FreshTypes DEF Relaunched
<1> QED
  BY <1>1, <1>2, <1>3, <1>4, <1>5, <1>6, <1>7, <1>8, <1>9, <1>10, <1>11, <1>12, <1>13,
     <1>14, <1>15, <1>16, <1>17, <1>18 DEF Next, PluginAnswers, CheckReturns

LEMMA InitTypes == Init => TypeInv
<1> SUFFICES ASSUME Init PROVE TypeInv OBVIOUS
<1>1. state \in UpdateState /\ state.update = 0 /\ state.phase = "idle"
  BY DEF Init, Idle, Show, UpdateState, Phases, Details
<1>2. call \in [Calls -> CallRow \cup {NoCall}] /\ \A c \in Calls : ~Busy(c)
  BY DEF Init, Busy
<1>3. object \in [Handles -> ObjectRow]
  BY NoObject, Zenon DEF Init
<1>4. checkIsManual \in BOOLEAN /\ started \in BOOLEAN /\ owed \in BOOLEAN
      /\ overtaken \in BOOLEAN
  BY Zenon DEF Init
<1> QED BY <1>1, <1>2, <1>3, <1>4 DEF Init, TypeInv, TypeOK, HandleIsThere, PostponedResumes

(* Every state of the coordinator is one its type allows.                  *)
THEOREM UpdaterTypes == Spec => []TypeOK
<1>1. TypeInv => TypeOK BY DEF TypeInv
<1> QED BY <1>1, InitTypes, TypeStep, PTL DEF Spec

-----------------------------------------------------------------------------
(* Versions.  What is on disk is never older than what runs, and every      *)
(* update object on offer or in the hands of a call is newer: the check     *)
(* compared it with the running version, which changes only when the        *)
(* process, and with it every object, is gone.                             *)

OnlyNewer ==
  /\ disk >= running
  /\ handle # NoHandle => object[handle].version > running
  /\ \A c \in Calls : Busy(c) => object[call[c].handle].version > running

Forward == running' >= running /\ (disk' # disk => disk' > running)

LEMMA FreshVersions ==
  ASSUME TypeInv, Fresh, running' \in Versions, running' = disk'
  PROVE  OnlyNewer'
<1>1. \A c \in Calls : ~Busy(c)' BY DEF Fresh, Busy
<1> QED BY <1>1 DEF Fresh, OnlyNewer

(* A step that leaves objects, versions and the handle alone, and whose     *)
(* calls were there before or hold the handle.                             *)
LEMMA SameVersions ==
  ASSUME TypeInv, OnlyNewer, UNCHANGED <<handle, running, disk>>,
         \A h \in Handles : object'[h].version = object[h].version,
         \A c \in Calls : Busy(c)' =>
            \/ Busy(c) /\ call'[c].handle = call[c].handle
            \/ handle # NoHandle /\ call'[c].handle = handle
  PROVE  OnlyNewer' /\ Forward
<1>1. \A c \in Calls : Busy(c) => call[c].handle \in Handles
  BY CalledVersion DEF TypeInv, CallRow
<1>2. \A c \in Calls : Busy(c)' => object'[call'[c].handle].version > running'
  BY <1>1 DEF OnlyNewer, TypeInv, TypeOK
<1> QED BY <1>2 DEF OnlyNewer, Forward, TypeInv, TypeOK

(* A call that ends, begins, or turns from the question to the install.     *)
LEMMA OneCallChanges ==
  ASSUME TypeInv, NEW c \in Calls, NEW r,
         call' = [call EXCEPT ![c] = r],
         r = NoCall \/ (r.handle = handle /\ handle # NoHandle)
                    \/ (Busy(c) /\ r.handle = call[c].handle)
  PROVE  \A d \in Calls : Busy(d)' =>
            \/ Busy(d) /\ call'[d].handle = call[d].handle
            \/ handle # NoHandle /\ call'[d].handle = handle
  BY DEF TypeInv, TypeOK, Busy

LEMMA VersionStep == TypeInv /\ OnlyNewer /\ [Next]_vars => OnlyNewer' /\ Forward
<1> SUFFICES ASSUME TypeInv, OnlyNewer, [Next]_vars PROVE OnlyNewer' /\ Forward OBVIOUS
<1>0. TypeOK /\ running \in Nat /\ disk \in Nat BY DEF TypeInv, TypeOK
<1>h. \A c \in Calls : Busy(c) => call[c] \in CallRow /\ call[c].handle \in Handles
  BY <1>0, CalledVersion DEF CallRow
<1>s. ASSUME UNCHANGED <<handle, object, call, running, disk>> PROVE OnlyNewer' /\ Forward
  <2>1. \A c \in Calls : Busy(c)' => Busy(c) /\ call'[c].handle = call[c].handle
    BY <1>s DEF Busy
  <2> QED BY <1>s, <2>1, SameVersions
<1>1. CASE UNCHANGED vars
  BY <1>1, <1>s DEF vars
<1>2. CASE CheckOnceAtStartup \/ ClickCheck \/ RetryCheck
  <2>1. UNCHANGED <<handle, object, call, running, disk>>
    BY <1>2 DEF CheckOnceAtStartup, ClickCheck, RetryCheck, Check
  <2> QED BY <2>1, <1>s
<1>3. CASE Quit
  BY <1>3, <1>0, FreshVersions DEF Quit, OnlyNewer, Forward, TypeOK
<1>4. CASE CheckFails \/ Postpone \/ Dismiss
  BY <1>4, <1>s DEF CheckFails, Postpone, Dismiss, callOnly
<1>5. ASSUME NEW f \in Found, CheckAnswers(f) PROVE OnlyNewer' /\ Forward
  <2>1. \A h \in Handles : object'[h].version = object[h].version
    <3> SUFFICES ASSUME NEW h \in Handles PROVE object'[h].version = object[h].version OBVIOUS
    <3>1. object'[h] = [object[h] EXCEPT !.open = FALSE] \/ object'[h] = object[h]
      BY <1>5 DEF CheckAnswers
    <3>2. object[h] \in ObjectRow BY <1>0 DEF TypeOK
    <3> QED BY <3>1, <3>2, Zenon DEF ObjectRow
  <2>2. UNCHANGED <<handle, call, running, disk>> BY <1>5 DEF CheckAnswers
  <2>3. \A c \in Calls : Busy(c)' => Busy(c) /\ call'[c].handle = call[c].handle
    BY <2>2 DEF Busy
  <2> QED BY <2>1, <2>2, <2>3, SameVersions
<1>6. ASSUME NEW h \in Handles, CheckEnds(h) PROVE OnlyNewer' /\ Forward
  <2>1. UNCHANGED <<call, running, disk>> BY <1>6 DEF CheckEnds
  <2>2. CASE Newer(found)
    <3>1. /\ handle' = h
          /\ object' = [object EXCEPT ![h] = [version |-> found, bytes |-> FALSE, open |-> TRUE]]
          /\ \A c \in Calls : Busy(c) => call[c].handle # h
      BY <1>6, <2>2 DEF CheckEnds
    <3>2. object'[h].version = found BY <3>1, <1>0 DEF TypeOK
    <3>3. \A g \in Handles \ {h} : object'[g] = object[g] BY <3>1, <1>0 DEF TypeOK
    <3>4. \A c \in Calls : Busy(c)' => object'[call'[c].handle].version > running'
      BY <2>1, <3>1, <3>3, <1>h DEF Busy, OnlyNewer
    <3> QED BY <2>1, <2>2, <3>1, <3>2, <3>4, <1>0 DEF Newer, OnlyNewer, Forward
  <2>3. CASE ~Newer(found)
    BY <1>6, <2>1, <2>3, <1>s DEF CheckEnds
  <2> QED BY <2>2, <2>3
<1>7. ASSUME NEW c \in Calls,
             \/ ClickDownload(c) \/ RetryDownload(c)
             \/ ClickInstall(c) \/ RetryInstall(c) \/ ClickRelaunch(c)
      PROVE  OnlyNewer' /\ Forward
  <2>1. UNCHANGED <<handle, object, running, disk>>
    BY <1>7 DEF ClickDownload, RetryDownload, ClickInstall, RetryInstall, ClickRelaunch, callOnly
  <2>2. handle # NoHandle
    BY <1>7 DEF ClickDownload, RetryDownload, ClickInstall, RetryInstall, ClickRelaunch,
                Download, Install, Offered, TypeInv, HandleIsThere
  <2>3. PICK op, s : Begin(c, op, s)
    BY <1>7, Zenon DEF ClickDownload, RetryDownload, ClickInstall, RetryInstall, ClickRelaunch,
                       Download, Install
  <2> DEFINE r == [op |-> op, handle |-> handle, update |-> s.update]
  <2>4. call' = [call EXCEPT ![c] = r] /\ r.handle = handle BY <2>3 DEF Begin
  <2> HIDE DEF r
  <2> QED BY <2>1, <2>2, <2>4, OneCallChanges, SameVersions
<1>8. ASSUME NEW c \in Calls, DownloadEnds(c) PROVE OnlyNewer' /\ Forward
  <2>1. Busy(c) BY <1>8 DEF DownloadEnds, CallsOf
  <2>2. \A h \in Handles : object'[h].version = object[h].version
    <3>1. CASE UNCHANGED object BY <3>1
    <3>2. CASE object' = [object EXCEPT ![call[c].handle].bytes = TRUE]
      <4>1. call[c].handle \in Handles BY <2>1, <1>h
      <4>2. object'[call[c].handle] = [object[call[c].handle] EXCEPT !.bytes = TRUE]
        BY <3>2, <4>1, <1>0 DEF TypeOK
      <4>3. object[call[c].handle] \in ObjectRow BY <4>1, <1>0 DEF TypeOK
      <4>4. object'[call[c].handle].version = object[call[c].handle].version
        BY <4>2, <4>3, Zenon DEF ObjectRow
      <4> QED BY <3>2, <4>1, <4>4, <1>0 DEF TypeOK
    <3> QED BY <1>8, <3>1, <3>2 DEF DownloadEnds
  <2>3. UNCHANGED <<handle, running, disk>> BY <1>8 DEF DownloadEnds
  <2>4. call' = [call EXCEPT ![c] = NoCall] BY <1>8 DEF DownloadEnds, Return
  <2> QED BY <2>2, <2>3, <2>4, OneCallChanges, SameVersions
<1>9. ASSUME NEW c \in Calls, ReadinessAnswers(c) \/ InstallFails(c) \/ RelaunchFails(c)
      PROVE  OnlyNewer' /\ Forward
  <2>1. Busy(c) BY <1>9 DEF ReadinessAnswers, InstallFails, RelaunchFails, CallsOf
  <2>2. UNCHANGED <<handle, object, running, disk>>
    BY <1>9 DEF ReadinessAnswers, InstallFails, RelaunchFails, callOnly
  <2>3. CASE call' = [call EXCEPT ![c] = NoCall]
    BY <2>2, <2>3, OneCallChanges, SameVersions
  <2>4. CASE call' = [call EXCEPT ![c].op = "install"]
    <3>1. [call[c] EXCEPT !.op = "install"].handle = call[c].handle
      BY <2>1, <1>h DEF CallRow
    <3>2. call' = [call EXCEPT ![c] = [call[c] EXCEPT !.op = "install"]] BY <2>4
    <3> QED BY <2>1, <2>2, <3>1, <3>2, OneCallChanges, SameVersions
  <2> QED BY <1>9, <2>3, <2>4 DEF ReadinessAnswers, InstallFails, RelaunchFails, Return
<1>10. ASSUME NEW c \in Calls, InstallReturns(c) PROVE OnlyNewer' /\ Forward
  <2>1. Busy(c) BY <1>10 DEF InstallReturns, CallsOf
  <2>2. disk' > running /\ disk' \in Versions
    BY <1>10, <2>1, <1>0, CalledVersion DEF InstallReturns, OnlyNewer
  <2>3. UNCHANGED <<handle, object, running>> BY <1>10 DEF InstallReturns
  <2>4. \A d \in Calls : Busy(d)' => Busy(d) /\ call'[d].handle = call[d].handle
    BY <1>10, <1>0 DEF InstallReturns, Return, Busy, TypeOK
  <2> QED BY <2>2, <2>3, <2>4, <1>0 DEF OnlyNewer, Forward
<1>11. ASSUME NEW c \in Calls, InstallerExits(c) PROVE OnlyNewer' /\ Forward
  <2>1. Busy(c) BY <1>11 DEF InstallerExits, CallsOf
  <2>2. disk' > running /\ running' = disk' /\ running' \in Versions
    BY <1>11, <2>1, <1>0, CalledVersion DEF InstallerExits, OnlyNewer
  <2> QED BY <1>11, <2>2, <1>0, FreshVersions DEF InstallerExits, Forward
<1>12. ASSUME NEW c \in Calls, Relaunched(c) PROVE OnlyNewer' /\ Forward
  BY <1>12, <1>0, FreshVersions DEF Relaunched, OnlyNewer, Forward, TypeOK
<1> QED
  BY <1>1, <1>2, <1>3, <1>4, <1>5, <1>6, <1>7, <1>8, <1>9, <1>10, <1>11, <1>12
     DEF Next, PluginAnswers, CheckReturns

(* The next process never runs an older version, for any number of updates, *)
(* overlapping calls and closings of the app.                              *)
THEOREM VersionsGoForward == Spec => NoDowngrade
<1>1. Init => TypeInv /\ OnlyNewer
  <2> SUFFICES ASSUME Init PROVE TypeInv /\ OnlyNewer OBVIOUS
  <2>1. \A c \in Calls : ~Busy(c) BY DEF Init, Busy
  <2> QED BY <2>1, InitTypes DEF Init, OnlyNewer
<1>2. TypeInv /\ OnlyNewer /\ [Next]_vars
        => [running' >= running /\ (disk' # disk => disk' > running)]_vars
  BY VersionStep DEF Forward
<1> QED BY <1>1, <1>2, TypeStep, VersionStep, PTL DEF Spec, NoDowngrade

-----------------------------------------------------------------------------
(* One call at a time, or relaunches only.  The phase admits no second call *)
(* but a relaunch beside a relaunch.  The invariant adds what the calls      *)
(* captured: the handle and the offer are still the current ones when they  *)
(* return.  It holds until one of several relaunches fails, which ends the  *)
(* phase the others began in.                                              *)

PhaseIsTheCall ==
  /\ (state.phase = "checking") = (checking # "no")
  /\ \A c \in Calls : Busy(c) =>
       /\ \A d \in Calls : Busy(d) => d = c \/ call[c].op = "relaunch"
       /\ state.phase \in PhasesOf(call[c].op)
  /\ state.phase = "downloading" => CallsOf("download") # {}
  /\ state.phase = "installing" => CallsOf("install") # {} \/ platform = "windows"

OfferHolds ==
  state.update # 0 =>
    /\ handle # NoHandle
    /\ object[handle].open /\ object[handle].version = state.update
    /\ DownloadedPhase(state) => object[handle].bytes

CallsHoldTheOffer ==
  \A c \in Calls : Busy(c) => call[c].handle = handle /\ call[c].update = state.update

CheckingIsBare == state.phase = "checking" => state.update = 0

Unstarted == ~started => state = Idle /\ checking = "no" /\ \A c \in Calls : ~Busy(c)

OneThing ==
  /\ PhaseIsTheCall /\ OfferHolds
  /\ CallsHoldTheOffer /\ CheckingIsBare /\ Unstarted

NoCalls == \A c \in Calls : ~Busy(c)

CallPhases == {"downloading", "downloaded", "restart-blocked", "installing", "relaunch-ready"}

(* Nothing runs in the phases that show a button, once no question is open. *)
LEMMA NothingRuns ==
  ASSUME TypeInv, PhaseIsTheCall
  PROVE  /\ state.phase \notin CallPhases => NoCalls
         /\ state.phase \in {"downloaded", "restart-blocked"} /\ CallsOf("ask") = {} => NoCalls
         /\ state.phase = "relaunch-ready" =>
              \A c \in Calls : Busy(c) => call[c].op = "relaunch"
<1> SUFFICES ASSUME NEW c \in Calls, Busy(c)
             PROVE  /\ state.phase \in CallPhases
                    /\ state.phase \in {"downloaded", "restart-blocked"} => CallsOf("ask") # {}
                    /\ state.phase = "relaunch-ready" => call[c].op = "relaunch"
  BY DEF NoCalls
<1>1. call[c].op \in {"download", "ask", "install", "relaunch"}
  BY CalledVersion DEF TypeInv, CallRow
<1>2. state.phase \in PhasesOf(call[c].op) BY DEF PhaseIsTheCall
<1>3. c \in CallsOf(call[c].op) BY DEF CallsOf
<1>4. CASE call[c].op = "download" BY <1>2, <1>4 DEF PhasesOf, CallPhases
<1>5. CASE call[c].op = "ask" BY <1>2, <1>3, <1>5 DEF PhasesOf, CallPhases
<1>6. CASE call[c].op = "install" BY <1>2, <1>6 DEF PhasesOf, CallPhases
<1>7. CASE call[c].op = "relaunch" BY <1>2, <1>3, <1>7 DEF PhasesOf, CallPhases
<1> QED BY <1>1, <1>4, <1>5, <1>6, <1>7

(* A state without calls, whose phase claims none.                         *)
LEMMA Rest ==
  ASSUME NoCalls', started' = TRUE, OfferHolds', CheckingIsBare',
         (state'.phase = "checking") = (checking' # "no"),
         state'.phase # "downloading",
         state'.phase = "installing" => platform' = "windows"
  PROVE  OneThing'
  BY DEF OneThing, NoCalls, PhaseIsTheCall, CallsHoldTheOffer, Unstarted

LEMMA FreshThing == ASSUME Fresh PROVE OneThing'
<1>1. NoCalls' BY DEF Fresh, NoCalls, Busy
<1>2. state' = Idle /\ checking' = "no" BY DEF Fresh
<1> QED BY <1>1, <1>2 DEF OneThing, NoCalls, PhaseIsTheCall, OfferHolds, CallsHoldTheOffer,
                         CheckingIsBare, Unstarted, Idle, Show

(* What an offer needs, of any state.                                      *)
Held(s) ==
  s.update # 0 =>
    /\ handle # NoHandle
    /\ object[handle].open /\ object[handle].version = s.update
    /\ DownloadedPhase(s) => object[handle].bytes

LEMMA CheckThing ==
  ASSUME TypeInv, OneThing, NEW s \in UpdateState, NEW manual \in BOOLEAN,
         s # state => s = Idle /\ checking = "no",
         NoCalls, s.phase \notin {"downloading", "installing"},
         Check(s, manual), started' = TRUE
  PROVE  OneThing'
<1>1. NoCalls' BY DEF NoCalls, Check, Busy
<1>2. UNCHANGED <<handle, object>> BY DEF Check
<1>3. Held(s) BY DEF OneThing, OfferHolds, Held, Idle, Show
<1>4. OfferHolds' <=> Held(state') BY <1>2 DEF OfferHolds, Held, DownloadedPhase
<1>5. CASE Join(s, manual)
  <2>1. s = state /\ state.phase = "checking" /\ state.update = 0 /\ checking' = checking
    BY <1>5 DEF Join, OneThing, PhaseIsTheCall, CheckingIsBare
  <2>2. state'.phase = "checking" /\ state'.update = 0 BY <1>5, <2>1 DEF Join, Show
  <2>3. OfferHolds' BY <1>4, <2>2 DEF Held
  <2> QED BY <1>1, <1>5, <2>1, <2>2, <2>3, Rest DEF Join, CheckingIsBare
<1>6. CASE ResumeOffer(s)
  <2>1. checking = "no" /\ checking' = "no" BY <1>6 DEF ResumeOffer, checkVars
  <2>2. CASE s.phase = "postponed" /\ state' = Show(s.detail, s.update, "none")
    <3>1. s = state /\ s.detail \in {"available", "downloaded"}
      BY <2>2 DEF Idle, Show, TypeInv, PostponedResumes
    <3>2. state'.phase \in {"available", "downloaded"} BY <2>2, <3>1 DEF Show
    <3>3. OfferHolds' BY <1>3, <1>4, <2>2, <3>1 DEF Held, DownloadedPhase, Show
    <3> QED BY <1>1, <2>1, <3>2, <3>3, Rest DEF CheckingIsBare
  <2>3. CASE s.phase \in BusyWithOffer /\ state' = s
    <3>1. OfferHolds' BY <1>3, <1>4, <2>3
    <3> QED BY <1>1, <2>1, <2>3, <3>1, Rest DEF CheckingIsBare, BusyWithOffer
  <2> QED BY <1>6, <2>2, <2>3 DEF ResumeOffer
<1>7. CASE AskServer(s, manual)
  <2>1. state'.phase = "checking" /\ state'.update = 0 /\ checking' = "asking"
    BY <1>7 DEF AskServer, Show
  <2>2. OfferHolds' BY <1>4, <2>1 DEF Held
  <2> QED BY <1>1, <2>1, <2>2, Rest DEF CheckingIsBare
<1> QED BY <1>5, <1>6, <1>7 DEF Check

(* A call begins where nothing runs.                                       *)
LEMMA BeginThing ==
  ASSUME TypeInv, OneThing, NoCalls, NEW c \in Calls, NEW op, NEW s, Begin(c, op, s),
         started, UNCHANGED <<platform, handle, object, checking, started>>,
         checking = "no", state'.phase \in PhasesOf(op),
         state'.phase # "checking", state'.update = s.update,
         op \in {"download", "ask"}, Held(state'),
         handle \in Handles, s.update \in Versions
  PROVE  OneThing'
<1>1. call'[c] = [op |-> op, handle |-> handle, update |-> s.update] /\ call'[c] # NoCall
  <2>1. call'[c] = [op |-> op, handle |-> handle, update |-> s.update]
    BY DEF Begin, TypeInv, TypeOK
  <2>2. [op |-> op, handle |-> handle, update |-> s.update] \in CallRow
    BY DEF CallRow
  <2> QED BY <2>1, <2>2
<1>2. \A d \in Calls : Busy(d)' => d = c
  BY DEF Begin, TypeInv, TypeOK, NoCalls, Busy
<1>3. PhaseIsTheCall'
  BY <1>1, <1>2 DEF PhaseIsTheCall, PhasesOf, CallsOf, Busy
<1>4. OfferHolds' BY DEF OfferHolds, Held, DownloadedPhase
<1>5. CallsHoldTheOffer' BY <1>1, <1>2 DEF CallsHoldTheOffer
<1> QED BY <1>3, <1>4, <1>5 DEF OneThing, CheckingIsBare, Unstarted

(* "Restart", pressed once more or for the first time.                     *)
LEMMA RelaunchThing ==
  ASSUME TypeInv, OneThing, NEW c \in Calls, ClickRelaunch(c)
  PROVE  OneThing'
<1>t. TypeOK BY DEF TypeInv
<1>1. /\ started /\ Begin(c, "relaunch", state) /\ state' = state
      /\ state.phase = "relaunch-ready"
      /\ UNCHANGED <<platform, handle, object, checking, started>>
  BY DEF ClickRelaunch, Click, callOnly
<1>2. handle \in Handles /\ state.update \in Versions
  BY <1>1, <1>t DEF TypeInv, HandleIsThere, TypeOK, UpdateState
<1> DEFINE r == [op |-> "relaunch", handle |-> handle, update |-> state.update]
<1>3. r # NoCall BY <1>2 DEF CallRow
<1>4. call' = [call EXCEPT ![c] = r] BY <1>1 DEF Begin
<1>5. call'[c] = r /\ \A d \in Calls \ {c} : call'[d] = call[d]
  BY <1>4, <1>t DEF TypeOK
<1>6. \A d \in Calls : Busy(d)' =>
        /\ call'[d].op = "relaunch"
        /\ call'[d].handle = handle /\ call'[d].update = state.update
  <2> SUFFICES ASSUME NEW d \in Calls, Busy(d)'
               PROVE  /\ call'[d].op = "relaunch"
                      /\ call'[d].handle = handle /\ call'[d].update = state.update
    OBVIOUS
  <2>1. CASE d = c BY <1>5, <2>1
  <2>2. CASE d # c
    <3>1. Busy(d) /\ call'[d] = call[d] BY <1>5, <2>2 DEF Busy
    <3> QED BY <1>1, <3>1, NothingRuns DEF OneThing, CallsHoldTheOffer
  <2> QED BY <2>1, <2>2
<1>7. PhaseIsTheCall'
  <2>1. (state'.phase = "checking") = (checking' # "no")
    BY <1>1 DEF OneThing, PhaseIsTheCall
  <2> QED BY <1>1, <1>6, <2>1 DEF PhaseIsTheCall, PhasesOf
<1>8. OfferHolds' BY <1>1 DEF OneThing, OfferHolds, DownloadedPhase
<1>9. CallsHoldTheOffer' BY <1>1, <1>6 DEF CallsHoldTheOffer
<1> QED BY <1>1, <1>7, <1>8, <1>9 DEF OneThing, CheckingIsBare, Unstarted

(* The only call returns.                                                  *)
LEMMA ReturnThing ==
  ASSUME TypeInv, OneThing, NEW c \in Calls, Busy(c), Return(c),
         \A d \in Calls : Busy(d) => d = c,
         UNCHANGED <<handle, checking, started>>,
         Held(state)', state'.phase \notin {"checking", "downloading"},
         state'.phase = "installing" => platform' = "windows"
  PROVE  OneThing'
<1>2. NoCalls' BY DEF NoCalls, Busy, Return, TypeInv, TypeOK
<1>3. started /\ checking = "no"
  <2>1. state.phase \in PhasesOf(call[c].op) /\ call[c].op \in {"download", "ask", "install", "relaunch"}
    BY CalledVersion DEF OneThing, PhaseIsTheCall, TypeInv, CallRow
  <2>2. state.phase # "checking" BY <2>1 DEF PhasesOf
  <2> QED BY <2>2 DEF OneThing, PhaseIsTheCall, Unstarted, TypeInv, TypeOK
<1>4. OfferHolds' BY DEF OfferHolds, Held
<1> QED BY <1>2, <1>3, <1>4, Rest DEF CheckingIsBare

LEMMA ThingStep ==
  ASSUME TypeInv, OneThing, ~overtaken, [Next]_vars, ~overtaken'
  PROVE  OneThing'
<1>t. TypeOK /\ TypeInv' BY TypeStep DEF TypeInv
<1>s. state \in UpdateState BY <1>t DEF TypeOK
<1>n. /\ state.phase \notin CallPhases => NoCalls
      /\ state.phase \in {"downloaded", "restart-blocked"} /\ Turn => NoCalls
  BY NothingRuns DEF OneThing, Turn
<1>p. (state.phase = "checking") = (checking # "no") BY DEF OneThing, PhaseIsTheCall
<1>o. Held(state) BY DEF OneThing, OfferHolds, Held
<1>c. ASSUME NEW c \in Calls, Busy(c)
      PROVE  /\ call[c] \in CallRow /\ call[c].handle = handle /\ call[c].update = state.update
             /\ state.phase \in PhasesOf(call[c].op) /\ started
             /\ call[c].op # "relaunch" => \A d \in Calls : Busy(d) => d = c
  BY <1>c, CalledVersion, <1>t DEF OneThing, CallsHoldTheOffer, PhaseIsTheCall, Unstarted, TypeOK
<1>1. CASE UNCHANGED vars
  BY <1>1 DEF vars, OneThing, PhaseIsTheCall, OfferHolds, CallsHoldTheOffer, CheckingIsBare,
              Unstarted, Busy, CallsOf, DownloadedPhase, Idle, Show
<1>2. CASE CheckOnceAtStartup
  <2>1. state = Idle /\ NoCalls BY <1>2 DEF CheckOnceAtStartup, OneThing, Unstarted, NoCalls
  <2>2. state.phase = "idle" BY <2>1 DEF Idle, Show
  <2>3. Check(state, FALSE) /\ started' = TRUE BY <1>2, Zenon DEF CheckOnceAtStartup
  <2>4. state.phase \notin {"downloading", "installing"} BY <2>2
  <2> QED BY <2>1, <2>3, <2>4, <1>s, CheckThing
<1>3. CASE Quit \/ \E c \in Calls : InstallerExits(c) \/ Relaunched(c)
  BY <1>3, FreshThing DEF Quit, InstallerExits, Relaunched
<1>4. CASE ClickCheck
  <2>1. /\ Turn /\ started /\ started' = TRUE
        /\ state.phase \in {"idle", "checking", "up-to-date", "postponed", "restart-blocked", "failed"}
    BY <1>4, <1>t DEF ClickCheck, Click, Buttons, TypeOK, UpdateState, Phases
  <2>2. NoCalls BY <2>1, <1>n DEF CallPhases
  <2>3. Check(state, TRUE) BY <1>4, Zenon DEF ClickCheck
  <2>4. state.phase \notin {"downloading", "installing"} BY <2>1
  <2> QED BY <2>1, <2>2, <2>3, <2>4, <1>s, CheckThing
<1>5. CASE RetryCheck
  <2>1. state.phase = "failed" /\ started' = TRUE BY <1>5, <1>t DEF RetryCheck, Click, TypeOK
  <2>2. NoCalls /\ checking = "no" BY <2>1, <1>n, <1>p DEF CallPhases
  <2>3. Idle \in UpdateState /\ Idle.phase = "idle"
    BY DEF Idle, Show, UpdateState, Phases, Details
  <2> QED BY <1>5, <2>1, <2>2, <2>3, CheckThing DEF RetryCheck
<1>6. CASE CheckFails
  <2>1. state.phase = "checking" /\ NoCalls /\ started
    BY <1>6, <1>p, <1>n, <1>t DEF CheckFails, CallPhases, OneThing, Unstarted, TypeOK
  <2>2. state'.phase \in {"failed", "idle"} /\ state'.update = 0
    BY <1>6 DEF CheckFails, FailCheck, Fail, Idle, Show
  <2>3. NoCalls' BY <1>6, <2>1 DEF CheckFails, NoCalls, Busy
  <2> QED BY <1>6, <2>1, <2>2, <2>3, Rest DEF CheckFails, OfferHolds, CheckingIsBare
<1>7. ASSUME NEW f \in Found, CheckAnswers(f) PROVE OneThing'
  <2>1. state.phase = "checking" /\ NoCalls /\ started /\ state.update = 0
    BY <1>7, <1>p, <1>n, <1>t DEF CheckAnswers, CallPhases, OneThing, Unstarted, TypeOK, CheckingIsBare
  <2>2. NoCalls' BY <1>7, <2>1 DEF CheckAnswers, NoCalls, Busy
  <2> QED BY <1>7, <2>1, <2>2, Rest DEF CheckAnswers, OfferHolds, CheckingIsBare
<1>8. ASSUME NEW h \in Handles, CheckEnds(h) PROVE OneThing'
  <2>1. state.phase = "checking" /\ NoCalls /\ started
    BY <1>8, <1>p, <1>n, <1>t DEF CheckEnds, CallPhases, OneThing, Unstarted, TypeOK
  <2>2. NoCalls' BY <1>8, <2>1 DEF CheckEnds, NoCalls, Busy
  <2>3. CASE Newer(found)
    <3>1. state' = Show("available", found, "none") /\ handle' = h
          /\ object' = [object EXCEPT ![h] = [version |-> found, bytes |-> FALSE, open |-> TRUE]]
      BY <1>8, <2>3 DEF CheckEnds
    <3>2. object'[h] = [version |-> found, bytes |-> FALSE, open |-> TRUE]
      BY <3>1, <1>t DEF TypeOK
    <3>3. OfferHolds' /\ state'.phase = "available"
      BY <3>1, <3>2 DEF OfferHolds, DownloadedPhase, Show
    <3> QED BY <1>8, <2>1, <2>2, <3>3, Rest DEF CheckEnds, CheckingIsBare
  <2>4. CASE ~Newer(found)
    <3>1. state'.phase \in {"failed", "idle", "up-to-date"} /\ state'.update = 0
      BY <1>8, <2>4 DEF CheckEnds, FailCheck, Fail, Idle, Show
    <3> QED BY <1>8, <2>1, <2>2, <3>1, Rest DEF CheckEnds, OfferHolds, CheckingIsBare
  <2> QED BY <2>3, <2>4
<1>9. CASE Postpone
  <2>1. /\ Turn /\ started /\ state.phase \in {"available", "downloaded", "restart-blocked"}
    BY <1>9, <1>t DEF Postpone, Click, Buttons, TypeOK, UpdateState, Phases
  <2>2. NoCalls /\ NoCalls' /\ checking = "no"
    BY <1>9, <2>1, <1>n, <1>p DEF CallPhases, Postpone, NoCalls, Busy
  <2>3. state'.phase = "postponed" /\ OfferHolds'
    BY <1>9, <1>o, <2>1 DEF Postpone, OfferHolds, Held, DownloadedPhase, Show, Resume, callOnly
  <2> QED BY <1>9, <2>1, <2>2, <2>3, Rest DEF Postpone, Click, callOnly, CheckingIsBare
<1>10. CASE Dismiss
  <2>1. started /\ state.phase \in {"up-to-date", "failed"} BY <1>10 DEF Dismiss, Click
  <2>2. NoCalls /\ NoCalls' /\ checking = "no"
    BY <1>10, <2>1, <1>n, <1>p DEF CallPhases, Dismiss, NoCalls, Busy
  <2>3. state'.phase = "idle" /\ OfferHolds'
    BY <1>10 DEF Dismiss, OfferHolds, Idle, Show
  <2> QED BY <1>10, <2>1, <2>2, <2>3, Rest DEF Dismiss, Click, callOnly, CheckingIsBare
<1>11. ASSUME NEW c \in Calls, ClickDownload(c) \/ RetryDownload(c) PROVE OneThing'
  <2>1. /\ started /\ state.phase \in {"available", "failed"}
        /\ UNCHANGED <<platform, handle, object, checking, started>>
    BY <1>11, <1>t DEF ClickDownload, RetryDownload, Click, Buttons, callOnly, TypeOK, UpdateState, Phases
  <2>2. NoCalls /\ checking = "no" BY <2>1, <1>n, <1>p DEF CallPhases
  <2>3. PICK s : /\ Download(c, s) /\ s.update = state.update
    BY <1>11 DEF ClickDownload, RetryDownload, Show
  <2>4. /\ Begin(c, "download", s) /\ handle # NoHandle
        /\ state' = Show("downloading", state.update, "none")
    BY <2>3 DEF Download, Offered
  <2>5. Held(state') BY <1>o, <2>4 DEF Held, DownloadedPhase, Show
  <2>6. state'.phase \in PhasesOf("download") /\ state'.phase # "checking" /\ state'.update = s.update
    BY <2>3, <2>4 DEF Show, PhasesOf
  <2>7. handle \in Handles /\ s.update \in Versions BY <2>3, <2>4, <1>t DEF TypeOK, UpdateState
  <2> QED BY <2>1, <2>2, <2>4, <2>5, <2>6, <2>7, BeginThing
<1>12. ASSUME NEW c \in Calls, ClickInstall(c) \/ RetryInstall(c) PROVE OneThing'
  <2>1. /\ started /\ Turn
        /\ \/ state.phase \in {"downloaded", "restart-blocked"}
           \/ state.phase = "failed" /\ state.detail = "install"
        /\ UNCHANGED <<platform, handle, object, checking, started>>
    BY <1>12, <1>t DEF ClickInstall, RetryInstall, Click, Install, callOnly
  <2>2. NoCalls /\ checking = "no" BY <2>1, <1>n, <1>p DEF CallPhases
  <2>3. PICK s : Install(c, s) /\ s.update = state.update
    BY <1>12 DEF ClickInstall, RetryInstall, Show
  <2>4. /\ Begin(c, "ask", s) /\ handle # NoHandle /\ state' = s
        /\ s.phase \in {"downloaded", "restart-blocked"}
    BY <2>3 DEF Install, Offered
  <2>5. Held(state') BY <1>o, <2>1, <2>3, <2>4 DEF Held, DownloadedPhase
  <2>6. state'.phase \in PhasesOf("ask") /\ state'.phase # "checking" /\ state'.update = s.update
    BY <2>3, <2>4 DEF PhasesOf
  <2>7. handle \in Handles /\ s.update \in Versions BY <2>3, <2>4, <1>t DEF TypeOK, UpdateState
  <2> QED BY <2>1, <2>2, <2>4, <2>5, <2>6, <2>7, BeginThing
<1>13. ASSUME NEW c \in Calls, ClickRelaunch(c) PROVE OneThing'
  BY <1>13, RelaunchThing
<1>14. ASSUME NEW c \in Calls, DownloadEnds(c) PROVE OneThing'
  <2>1. Busy(c) /\ Return(c) /\ UNCHANGED <<handle, checking, started>>
        /\ call[c].op = "download"
    BY <1>14 DEF DownloadEnds, CallsOf, checkVars
  <2>0. \A d \in Calls : Busy(d) => d = c BY <2>1, <1>c
  <2>2. call[c].handle = handle /\ call[c].update = state.update /\ handle \in Handles
    BY <2>1, <1>c DEF CallRow
  <2>3. CASE state' = Show("downloaded", call[c].update, "none")
             /\ object' = [object EXCEPT ![call[c].handle].bytes = TRUE]
    <3>1. object[handle] \in ObjectRow BY <2>2, <1>t DEF TypeOK
    <3>2. object'[handle] = [object[handle] EXCEPT !.bytes = TRUE] BY <2>2, <2>3, <1>t DEF TypeOK
    <3>3. object'[handle].bytes /\ object'[handle].open = object[handle].open
          /\ object'[handle].version = object[handle].version
      BY <3>1, <3>2, Zenon DEF ObjectRow
    <3>4. Held(state)' BY <1>o, <2>1, <2>2, <2>3, <3>3 DEF Held, Show
    <3> QED BY <2>0, <2>1, <2>3, <3>4, ReturnThing DEF Show
  <2>4. CASE state' = Fail("download", call[c].update) /\ UNCHANGED object
    <3>1. Held(state)' BY <1>o, <2>1, <2>2, <2>4 DEF Held, Fail, Show, DownloadedPhase
    <3> QED BY <2>0, <2>1, <2>4, <3>1, ReturnThing DEF Fail, Show
  <2> QED BY <1>14, <2>3, <2>4 DEF DownloadEnds
<1>15. ASSUME NEW c \in Calls, ReadinessAnswers(c) PROVE OneThing'
  <2>1. Busy(c) /\ call[c].op = "ask" /\ UNCHANGED callOnly
    BY <1>15 DEF ReadinessAnswers, CallsOf
  <2>2. call[c].update = state.update /\ state.phase \in {"downloaded", "restart-blocked"} /\ started
        /\ call[c] \in CallRow /\ call[c].handle = handle
        /\ \A d \in Calls : Busy(d) => d = c
    BY <2>1, <1>c DEF PhasesOf
  <2>3. CASE state' = Show("restart-blocked", call[c].update, "none") /\ Return(c)
    <3>1. Held(state)' BY <1>o, <2>1, <2>2, <2>3 DEF Held, Show, DownloadedPhase, callOnly
    <3> QED BY <2>1, <2>2, <2>3, <3>1, ReturnThing DEF Show, callOnly
  <2>4. CASE /\ state' = Show("installing", call[c].update, "none")
             /\ call' = [call EXCEPT ![c].op = "install"]
    <3>1. call'[c] = [call[c] EXCEPT !.op = "install"] BY <2>4, <1>t DEF TypeOK
    <3>2. /\ call'[c].op = "install" /\ call'[c].handle = handle /\ call'[c].update = state.update
          /\ Busy(c)'
      <4>1. [call[c] EXCEPT !.op = "install"] \in CallRow BY <2>2 DEF CallRow
      <4> QED BY <2>2, <3>1, <4>1 DEF CallRow, Busy
    <3>3. \A d \in Calls : Busy(d)' => d = c
      BY <2>2, <2>4, <1>t DEF Busy, TypeOK
    <3>4. checking' = "no" BY <2>1, <2>2, <1>p DEF callOnly
    <3>5. PhaseIsTheCall'
      BY <2>4, <3>2, <3>3, <3>4 DEF PhaseIsTheCall, PhasesOf, CallsOf, Show
    <3>6. OfferHolds' BY <1>o, <2>1, <2>2, <2>4 DEF Held, OfferHolds, DownloadedPhase, Show, callOnly
    <3> QED BY <2>1, <2>2, <2>4, <3>2, <3>3, <3>5, <3>6
            DEF OneThing, CallsHoldTheOffer, CheckingIsBare, Unstarted, Show, callOnly
  <2> QED BY <1>15, <2>3, <2>4 DEF ReadinessAnswers
<1>16. ASSUME NEW c \in Calls, InstallFails(c) \/ RelaunchFails(c) PROVE OneThing'
  <2>1. /\ Busy(c) /\ Return(c) /\ UNCHANGED <<platform, handle, object, checking, started>>
        /\ call[c].op \in {"install", "relaunch"}
        /\ state' = Fail("install", call[c].update)
    BY <1>16 DEF InstallFails, RelaunchFails, CallsOf, callOnly, checkVars
  <2>0. \A d \in Calls : Busy(d) => d = c
    <3>1. CASE InstallFails(c)
      <4>1. call[c].op = "install" BY <3>1 DEF InstallFails, CallsOf
      <4> QED BY <2>1, <4>1, <1>c
    <3>2. CASE RelaunchFails(c)
      <4>1. call[c].op = "relaunch" /\ CallsOf("relaunch") = {c}
        BY <3>2 DEF RelaunchFails, CallsOf
      <4>2. state.phase = "relaunch-ready" BY <2>1, <4>1, <1>c DEF PhasesOf
      <4>3. \A d \in Calls : Busy(d) => d \in CallsOf("relaunch")
        BY <4>2, NothingRuns DEF OneThing, CallsOf
      <4> QED BY <4>1, <4>3
    <3> QED BY <1>16, <3>1, <3>2
  <2>2. call[c].update = state.update /\ DownloadedPhase(state)
    BY <2>1, <1>c DEF PhasesOf, DownloadedPhase
  <2>3. Held(state)' BY <1>o, <2>1, <2>2 DEF Held, Fail, Show
  <2> QED BY <2>0, <2>1, <2>3, ReturnThing DEF Fail, Show
<1>17. ASSUME NEW c \in Calls, InstallReturns(c) PROVE OneThing'
  <2>1. Busy(c) /\ Return(c) /\ call[c].op = "install" /\ UNCHANGED <<platform, handle, object, checking, started>>
    BY <1>17 DEF InstallReturns, CallsOf, checkVars
  <2>2. call[c].update = state.update /\ state.phase = "installing"
        /\ \A d \in Calls : Busy(d) => d = c
    BY <2>1, <1>c DEF PhasesOf
  <2>3. CASE platform = "windows" /\ state' = state
    <3>1. Held(state)' BY <1>o, <2>1, <2>3 DEF Held, DownloadedPhase
    <3> QED BY <2>1, <2>2, <2>3, <3>1, ReturnThing
  <2>4. CASE state' = Show("relaunch-ready", call[c].update, "none")
    <3>1. Held(state)' BY <1>o, <2>1, <2>2, <2>4 DEF Held, DownloadedPhase, Show
    <3> QED BY <2>1, <2>2, <2>4, <3>1, ReturnThing DEF Show
  <2> QED BY <1>17, <2>3, <2>4 DEF InstallReturns
<1> QED
  BY <1>1, <1>2, <1>3, <1>4, <1>5, <1>6, <1>7, <1>8, <1>9, <1>10, <1>11, <1>12, <1>13,
     <1>14, <1>15, <1>16, <1>17 DEF Next, PluginAnswers, CheckReturns

LEMMA InitThing == Init => OneThing
  BY DEF Init, OneThing, PhaseIsTheCall, OfferHolds, CallsHoldTheOffer, CheckingIsBare,
         Unstarted, Idle, Show, Busy

(* Once overtaken, a process stays so; the next one starts afresh.         *)
LEMMA OvertakenStep ==
  TypeInv /\ (overtaken \/ OneThing) /\ [Next]_vars => (overtaken \/ OneThing)'
<1> SUFFICES ASSUME TypeInv, overtaken \/ OneThing, [Next]_vars, ~overtaken' PROVE OneThing'
  OBVIOUS
<1>1. CASE ~overtaken BY <1>1, ThingStep
<1>2. CASE overtaken
  <2>1. Fresh
    BY <1>2
       DEF Next, PluginAnswers, CheckReturns, vars, CheckOnceAtStartup, ClickCheck, RetryCheck,
           Check, Quit, CheckFails, CheckAnswers, CheckEnds, DownloadEnds, ReadinessAnswers,
           InstallFails, InstallReturns, InstallerExits, RelaunchFails, Relaunched, Postpone,
           Dismiss, ClickDownload, ClickInstall, ClickRelaunch, RetryDownload, RetryInstall,
           callOnly
  <2> QED BY <2>1, FreshThing
<1> QED BY <1>1, <1>2

(* The phase names what is under way, so no await's result is written over  *)
(* a state it does not belong to, unless a relaunch was overtaken.          *)
THEOREM OneCallAtATime == Spec => []PhaseTellsTheCall
<1>1. overtaken \/ OneThing => PhaseTellsTheCall
  BY DEF OneThing, PhaseIsTheCall, PhaseTellsTheCall
<1>2. Init => overtaken \/ OneThing BY InitThing
<1> QED BY <1>1, <1>2, InitTypes, TypeStep, OvertakenStep, PTL DEF Spec

(* What is offered can be acted on, unless a relaunch was overtaken.        *)
THEOREM OffersAreHeld == Spec => []OfferIsHeld
<1>1. overtaken \/ OneThing => OfferIsHeld
  BY DEF OneThing, OfferHolds, OfferIsHeld
<1>2. Init => overtaken \/ OneThing BY InitThing
<1> QED BY <1>1, <1>2, InitTypes, TypeStep, OvertakenStep, PTL DEF Spec

-----------------------------------------------------------------------------
(* Answers.  A check in flight that a click started or joined is owed an     *)
(* answer until it ends, so what it puts on screen was asked for.           *)

AskedIsOwed == checking # "no" /\ checkIsManual => owed

Verdict(s) ==
  \/ s.phase = "failed" /\ s.detail = "check"
  \/ s.phase = "up-to-date" /\ s.detail = "manual"

WasAsked == Verdict(state') => owed \/ state' = state

(* What the coordinator shows that is not the outcome of a check.          *)
LEMMA NoVerdict ==
  ASSUME NEW phase, NEW update, NEW detail,
         \/ phase \notin {"failed", "up-to-date"}
         \/ detail \notin {"check", "manual"}
  PROVE  ~Verdict(Show(phase, update, detail))
BY DEF Verdict, Show

(* A check from the current state, or from the idle one a retry puts in     *)
(* its place.                                                              *)
LEMMA CheckIsAsked ==
  ASSUME TypeInv, AskedIsOwed, NEW s \in {state, Idle}, NEW manual \in BOOLEAN, Check(s, manual)
  PROVE  AskedIsOwed' /\ WasAsked
<1>i. ~Verdict(Idle) BY NoVerdict DEF Idle
<1>1. CASE Join(s, manual)
  <2>1. AskedIsOwed' BY <1>1, Zenon DEF Join, AskedIsOwed
  <2>2. state' = s \/ ~Verdict(state') BY <1>1, NoVerdict DEF Join
  <2> QED BY <1>i, <2>1, <2>2 DEF WasAsked
<1>2. CASE ResumeOffer(s)
  <2>1. AskedIsOwed' BY <1>2 DEF ResumeOffer, checkVars, AskedIsOwed
  <2>2. state' = s \/ (s = state /\ state' = Show(s.detail, s.update, "none"))
    BY <1>2 DEF ResumeOffer, Idle, Show
  <2>3. ~Verdict(Show(s.detail, s.update, "none")) BY NoVerdict
  <2> QED BY <1>i, <2>1, <2>2, <2>3 DEF WasAsked
<1>3. CASE AskServer(s, manual)
  <2>1. AskedIsOwed' BY <1>3 DEF AskServer, AskedIsOwed
  <2>2. ~Verdict(state') BY <1>3, NoVerdict DEF AskServer
  <2> QED BY <2>1, <2>2 DEF WasAsked
<1> QED BY <1>1, <1>2, <1>3 DEF Check

LEMMA AskedStep == TypeInv /\ AskedIsOwed /\ [Next]_vars => AskedIsOwed' /\ WasAsked
<1> SUFFICES ASSUME TypeInv, AskedIsOwed, [Next]_vars PROVE AskedIsOwed' /\ WasAsked OBVIOUS
<1>i. ~Verdict(Idle) BY NoVerdict DEF Idle
<1>f. \A update : ~Verdict(Fail("download", update)) /\ ~Verdict(Fail("install", update))
  BY NoVerdict DEF Fail
(* What neither starts nor ends a check.                                   *)
<1>o. ASSUME UNCHANGED <<checkVars, owed>>, state' = state \/ ~Verdict(state')
      PROVE  AskedIsOwed' /\ WasAsked
  BY <1>o DEF checkVars, AskedIsOwed, WasAsked
<1>n. ASSUME Fresh PROVE AskedIsOwed' /\ WasAsked
  BY <1>n, <1>i DEF Fresh, AskedIsOwed, WasAsked
<1>1. CASE UNCHANGED vars
  BY <1>1, <1>o DEF vars, checkVars
<1>2. CASE CheckOnceAtStartup \/ ClickCheck \/ RetryCheck
  BY <1>2, CheckIsAsked DEF CheckOnceAtStartup, ClickCheck, RetryCheck
<1>3. CASE CheckFails
  <2>1. checking = "asking" /\ checking' = "no" /\ state' = FailCheck
    BY <1>3 DEF CheckFails
  <2>2. checkIsManual => owed BY <2>1 DEF AskedIsOwed
  <2>3. Verdict(state') => checkIsManual BY <1>i, <2>1 DEF FailCheck
  <2> QED BY <2>1, <2>2, <2>3 DEF AskedIsOwed, WasAsked
<1>4. ASSUME NEW f \in Found, CheckAnswers(f) PROVE AskedIsOwed' /\ WasAsked
  BY <1>4 DEF CheckAnswers, AskedIsOwed, WasAsked
<1>5. ASSUME NEW h \in Handles, CheckEnds(h) PROVE AskedIsOwed' /\ WasAsked
  <2>1. checking = "releasing" /\ checking' = "no" BY <1>5 DEF CheckEnds
  <2>2. checkIsManual => owed BY <2>1 DEF AskedIsOwed
  <2>3. Verdict(state') => checkIsManual
    <3>1. \/ state' = Show("available", found, "none")
          \/ state' = FailCheck
          \/ state' = Show("up-to-date", 0, Asked(checkIsManual))
      BY <1>5 DEF CheckEnds
    <3>2. ~checkIsManual => ~Verdict(FailCheck) BY <1>i DEF FailCheck
    <3>3. ~checkIsManual => ~Verdict(Show("up-to-date", 0, Asked(checkIsManual)))
      BY NoVerdict DEF Asked
    <3>4. ~Verdict(Show("available", found, "none")) BY NoVerdict
    <3> QED BY <3>1, <3>2, <3>3, <3>4
  <2> QED BY <2>1, <2>2, <2>3 DEF AskedIsOwed, WasAsked
<1>6. CASE Quit \/ \E c \in Calls : InstallerExits(c) \/ Relaunched(c)
  BY <1>6, <1>n DEF Quit, InstallerExits, Relaunched
<1>7. CASE Postpone \/ Dismiss
  <2>1. UNCHANGED <<checkVars, owed>> BY <1>7 DEF Postpone, Dismiss, callOnly, checkVars
  <2>2. ~Verdict(state') BY <1>7, <1>i, NoVerdict DEF Postpone, Dismiss
  <2> QED BY <1>o, <2>1, <2>2
<1>8. ASSUME NEW c \in Calls,
             \/ ClickDownload(c) \/ ClickInstall(c) \/ ClickRelaunch(c)
             \/ RetryDownload(c) \/ RetryInstall(c)
      PROVE  AskedIsOwed' /\ WasAsked
  <2>1. UNCHANGED <<checkVars, owed>>
    BY <1>8 DEF ClickDownload, ClickInstall, ClickRelaunch, RetryDownload, RetryInstall,
                callOnly, checkVars
  <2>2. state' = state \/ ~Verdict(state')
    BY <1>8, NoVerdict
       DEF ClickDownload, ClickInstall, ClickRelaunch, RetryDownload, RetryInstall,
           Download, Install
  <2> QED BY <1>o, <2>1, <2>2
<1>9. ASSUME NEW c \in Calls,
             \/ DownloadEnds(c) \/ ReadinessAnswers(c) \/ InstallFails(c) \/ InstallReturns(c)
             \/ RelaunchFails(c)
      PROVE  AskedIsOwed' /\ WasAsked
  <2>1. UNCHANGED <<checkVars, owed>>
    BY <1>9 DEF DownloadEnds, ReadinessAnswers, InstallFails, InstallReturns, RelaunchFails,
                callOnly, checkVars
  <2>2. state' = state \/ ~Verdict(state')
    BY <1>9, <1>f, NoVerdict
       DEF DownloadEnds, ReadinessAnswers, InstallFails, InstallReturns, RelaunchFails
  <2> QED BY <1>o, <2>1, <2>2
<1> QED
  BY <1>1, <1>2, <1>3, <1>4, <1>5, <1>6, <1>7, <1>8, <1>9 DEF Next, PluginAnswers, CheckReturns

(* A check nobody asked for never puts a failure or a verdict on screen,    *)
(* whatever clicks join it and whatever else goes on.                      *)
THEOREM ChecksAreSilent == Spec => SilentUnlessAsked
<1>1. Init => AskedIsOwed BY DEF Init, AskedIsOwed
<1>2. TypeInv /\ AskedIsOwed /\ [Next]_vars
        => [(state'.phase = "failed" /\ state'.detail = "check") \/
            (state'.phase = "up-to-date" /\ state'.detail = "manual")
              => owed \/ state' = state]_vars
  BY AskedStep DEF WasAsked, Verdict
<1> QED
  BY <1>1, <1>2, InitTypes, TypeStep, AskedStep, PTL DEF Spec, SilentUnlessAsked
=============================================================================
