----------------------------- MODULE DesktopUpdater -----------------------------
(***************************************************************************)
(* The desktop app's update coordinator (coordinator.ts) between the       *)
(* operator's buttons (UpdateNotice, the status bar) and the updater       *)
(* plugin.  Every await of the coordinator is two steps here, so clicks    *)
(* and other calls fall in between; the app may be closed at any moment    *)
(* and starts again as the version that is on disk.                        *)
(***************************************************************************)
EXTENDS Naturals, FiniteSets

CONSTANTS
  MaxVersion,     \* bound: versions 0 .. MaxVersion are ever published
  Handles,        \* the plugin's update objects
  Calls,          \* download, install and relaunch calls under way at once
  Platforms,      \* platforms a run looks at
  NoHandle, NoCall

ASSUME UpdaterAssumption ==
  /\ MaxVersion \in Nat
  /\ NoHandle \notin Handles
  /\ Platforms \subseteq {"macos", "windows"}

Versions == 0 .. MaxVersion

(* `update' is 0 when the state carries no offer: only a version newer than *)
(* the running one is ever offered.                                        *)
Phases == {"idle", "checking", "up-to-date", "available", "postponed", "downloading",
           "downloaded", "restart-blocked", "installing", "relaunch-ready", "failed"}

Details == {"none", "manual", "silent", "available", "downloaded", "check", "download",
            "install"}

UpdateState == [phase : Phases, update : Versions, detail : Details]

CallRow == [op : {"download", "ask", "install", "relaunch"},
            handle : Handles, update : Versions]

ObjectRow == [version : Versions, bytes : BOOLEAN, open : BOOLEAN]

(* What a check finds: no update (0), one with a version, or one whose       *)
(* version cannot be read.                                                 *)
Unreadable == MaxVersion + 1
Found == 0 .. Unreadable

ASSUME NoCallAssumption == \A r \in CallRow : r # NoCall

VARIABLES
  platform,     \* updater.platform
  state,        \* the coordinator's UpdateState
  handle,       \* this.handle
  object,       \* plugin objects: version, bytes on disk, not yet closed
  checking,     \* checkInFlight: "no", "asking", or "releasing" after the answer
  found,        \* what the check in flight answered
  checkIsManual,
  started,      \* automaticCheckStarted
  call,         \* downloads, readiness questions, installs, relaunches under way
  running,      \* the version this process runs, updater.currentVersion
  disk,         \* the version installed
  owed,         \* ghost: the operator asked for a check and saw no answer yet
  overtaken     \* ghost: one of several relaunches has failed while another
                \* was still to answer, and may put its failure over any state

checkVars == <<checking, found, checkIsManual>>
vars == <<platform, state, handle, object, checking, found, checkIsManual, started,
          call, running, disk, owed, overtaken>>

-----------------------------------------------------------------------------
Show(phase, update, detail) == [phase |-> phase, update |-> update, detail |-> detail]

Asked(manual) == IF manual THEN "manual" ELSE "silent"

Idle == Show("idle", 0, "none")

Fail(retry, update) == Show("failed", update, retry)

(* An automatic check that fails leaves no trace.                          *)
FailCheckLoudly == Fail("check", 0)                                   \* mutant
FailCheck == IF checkIsManual THEN Fail("check", 0) ELSE Idle

BusyWithOffer == {"available", "downloading", "downloaded", "restart-blocked",
                  "installing", "relaunch-ready"}

Busy(c) == call[c] # NoCall

CallsOf(op) == {c \in Calls : Busy(c) /\ call[c].op = op}

(* The readiness provider answers in the same turn: no other event falls    *)
(* into its question.                                                      *)
Turn == CallsOf("ask") = {}

(* What an update object found by the check is: an update, "up to date" or  *)
(* unreadable.                                                             *)
AnyVersion(v) == v \in Versions                                      \* mutant
Newer(v) == v \in Versions /\ v > running

-----------------------------------------------------------------------------
Fresh ==
  /\ state' = Idle
  /\ handle' = NoHandle
  /\ checking' = "no" /\ found' = 0 /\ checkIsManual' = FALSE
  /\ started' = FALSE
  /\ call' = [c \in Calls |-> NoCall]
  /\ object' = [h \in Handles |-> [version |-> 0, bytes |-> FALSE, open |-> FALSE]]
  /\ owed' = FALSE /\ overtaken' = FALSE
  /\ UNCHANGED platform

Init ==
  /\ platform \in Platforms
  /\ state = Idle
  /\ handle = NoHandle
  /\ checking = "no" /\ found = 0 /\ checkIsManual = FALSE
  /\ started = FALSE
  /\ call = [c \in Calls |-> NoCall]
  /\ object = [h \in Handles |-> [version |-> 0, bytes |-> FALSE, open |-> FALSE]]
  /\ running = 0 /\ disk = 0
  /\ owed = FALSE /\ overtaken = FALSE

(* The app is closed, or dies: the next process runs what is on disk.      *)
Quit ==
  /\ started /\ Turn
  /\ Fresh
  /\ running' = disk
  /\ UNCHANGED disk

-----------------------------------------------------------------------------
(* check(): joins the check in flight, brings back what is on offer, or     *)
(* asks the server.                                                        *)

JoinSilently(s, manual) ==                                            \* mutant
  /\ checking # "no"
  /\ state' = s
  /\ owed' = (owed \/ manual)
  /\ UNCHANGED checkVars

Join(s, manual) ==
  /\ checking # "no"
  /\ checkIsManual' = (checkIsManual \/ manual)
  /\ state' = IF manual /\ s.phase = "checking" THEN Show("checking", s.update, "manual") ELSE s
  /\ owed' = (owed \/ manual)
  /\ UNCHANGED <<checking, found>>

ResumeOffer(s) ==
  /\ checking = "no"
  /\ \/ s.phase = "postponed" /\ state' = Show(s.detail, s.update, "none")
     \/ s.phase \in BusyWithOffer /\ state' = s
  /\ owed' = FALSE
  /\ UNCHANGED checkVars

AskServer(s, manual) ==
  /\ checking = "no" /\ s.phase \notin BusyWithOffer \cup {"postponed"}
  /\ checking' = "asking" /\ found' = 0 /\ checkIsManual' = manual
  /\ state' = Show("checking", 0, Asked(manual))
  /\ owed' = manual

Check(s, manual) ==
  /\ \/ Join(s, manual)
     \/ ResumeOffer(s)
     \/ AskServer(s, manual)
  /\ UNCHANGED <<platform, handle, object, call, running, disk, overtaken>>

(* Once per process, when the shell is up.                                 *)
CheckOnceAtStartup ==
  /\ ~started
  /\ started' = TRUE
  /\ Check(state, FALSE)

(* updater.check() rejects.                                                *)
CheckFails ==
  /\ checking = "asking" /\ Turn
  /\ state' = FailCheck
  /\ checking' = "no" /\ owed' = (owed /\ ~checkIsManual)
  /\ UNCHANGED <<platform, handle, object, found, checkIsManual, started, call, running, disk,
                 overtaken>>

(* updater.check() resolves.  An object nobody will use is closed: the new  *)
(* one, or the one the new one replaces.                                   *)
CheckAnswers(f) ==
  /\ checking = "asking" /\ Turn
  /\ checking' = "releasing" /\ found' = f
  /\ object' = [h \in Handles |->
                  IF Newer(f) /\ h = handle THEN [object[h] EXCEPT !.open = FALSE]
                                            ELSE object[h]]
  /\ UNCHANGED <<platform, state, handle, checkIsManual, started, call, running, disk, owed,
                 overtaken>>

(* The release is over.  h: the update object the plugin handed over.      *)
CheckEnds(h) ==
  /\ checking = "releasing" /\ Turn
  /\ checking' = "no" /\ found' = 0 /\ owed' = (owed /\ ~(checkIsManual \/ Newer(found)))
  /\ IF Newer(found)
     THEN /\ h # handle /\ \A c \in Calls : Busy(c) => call[c].handle # h
          /\ handle' = h
          /\ object' = [object EXCEPT ![h] = [version |-> found, bytes |-> FALSE, open |-> TRUE]]
          /\ state' = Show("available", found, "none")
     ELSE /\ state' = IF found = Unreadable THEN FailCheck
                      ELSE Show("up-to-date", 0, Asked(checkIsManual))
          /\ UNCHANGED <<handle, object>>
  /\ UNCHANGED <<platform, checkIsManual, started, call, running, disk, overtaken>>

-----------------------------------------------------------------------------
(* The calls on an offer, seen from the state s the method reads first.     *)

Offered(s) == s.update # 0 /\ handle # NoHandle

Begin(c, op, s) ==
  /\ ~Busy(c)
  /\ call' = [call EXCEPT ![c] = [op |-> op, handle |-> handle, update |-> s.update]]

Download(c, s) ==
  /\ Offered(s) /\ s.phase \notin {"downloading", "installing"}
  /\ Begin(c, "download", s)
  /\ state' = Show("downloading", s.update, "none")

AskNothing(c, s) ==                                                   \* mutant
  /\ Offered(s) /\ s.phase \in {"downloaded", "restart-blocked"}
  /\ Begin(c, "install", s)
  /\ state' = s

Install(c, s) ==
  /\ Offered(s) /\ s.phase \in {"downloaded", "restart-blocked"}
  /\ Begin(c, "ask", s)
  /\ state' = s

callOnly == <<platform, handle, object, checking, found, checkIsManual, started, running,
              disk, overtaken>>

Return(c) == call' = [call EXCEPT ![c] = NoCall]

DownloadEnds(c) ==
  /\ c \in CallsOf("download") /\ Turn
  /\ \/ /\ state' = Show("downloaded", call[c].update, "none")
        /\ object' = [object EXCEPT ![call[c].handle].bytes = TRUE]
     \/ /\ state' = Fail("download", call[c].update)
        /\ UNCHANGED object
  /\ Return(c)
  /\ UNCHANGED <<platform, handle, checkVars, started, running, disk, owed, overtaken>>

(* The readiness answer: unsafe, unreadable, or safe.                      *)
ReadinessAnswers(c) ==
  /\ c \in CallsOf("ask")
  /\ \/ /\ state' = Show("restart-blocked", call[c].update, "none")
        /\ Return(c)
     \/ /\ state' = Show("installing", call[c].update, "none")
        /\ call' = [call EXCEPT ![c].op = "install"]
  /\ UNCHANGED <<callOnly, owed>>

InstallFails(c) ==
  /\ c \in CallsOf("install") /\ Turn
  /\ state' = Fail("install", call[c].update)
  /\ Return(c)
  /\ UNCHANGED <<callOnly, owed>>

(* The plugin installs what it has downloaded, or fails.                   *)
(* On Windows nothing is left to offer: the state stays "installing".      *)
InstallReturns(c) ==
  /\ c \in CallsOf("install") /\ Turn /\ object[call[c].handle].bytes
  /\ disk' = object[call[c].handle].version
  /\ state' = IF platform = "windows" THEN state
              ELSE Show("relaunch-ready", call[c].update, "none")
  /\ Return(c)
  /\ UNCHANGED <<platform, handle, object, checkVars, started, running, owed, overtaken>>

(* On Windows the installer closes the app itself.                         *)
InstallerExits(c) ==
  /\ c \in CallsOf("install") /\ Turn /\ platform = "windows"
  /\ object[call[c].handle].bytes
  /\ disk' = object[call[c].handle].version
  /\ running' = disk'
  /\ Fresh

(* Nothing keeps a second relaunch from starting while one is awaited: each *)
(* that fails puts its own failure on screen.                              *)
RelaunchFails(c) ==
  /\ c \in CallsOf("relaunch") /\ Turn
  /\ state' = Fail("install", call[c].update)
  /\ overtaken' = (overtaken \/ CallsOf("relaunch") # {c})
  /\ Return(c)
  /\ UNCHANGED <<platform, handle, object, checkVars, started, running, disk, owed>>

Relaunched(c) ==
  /\ c \in CallsOf("relaunch") /\ Turn
  /\ Fresh
  /\ running' = disk
  /\ UNCHANGED disk

-----------------------------------------------------------------------------
(* The operator's buttons: the notice, and the status bar's version.        *)

Buttons(phase, detail) ==
  CASE phase = "idle"            -> {"check"}
    [] phase = "checking"        -> IF detail = "silent" THEN {"check"} ELSE {}
    [] phase = "up-to-date"      -> {"check"} \cup IF detail = "manual" THEN {"dismiss"} ELSE {}
    [] phase = "available"       -> {"download", "postpone"}
    [] phase = "postponed"       -> {"check"}
    [] phase = "downloaded"      -> {"install", "postpone"}
    [] phase = "restart-blocked" -> {"install", "postpone", "check"}
    [] phase = "relaunch-ready"  -> {"relaunch"}
    [] phase = "failed"          -> {"retry", "dismiss", "check"}
    [] OTHER                     -> {}

Click(button) ==
  /\ started /\ Turn
  /\ button \in Buttons(state.phase, state.detail)
  /\ UNCHANGED started

ClickCheck == Click("check") /\ Check(state, TRUE)

ClickDownload(c) ==
  /\ Click("download") /\ Download(c, state)
  /\ UNCHANGED <<callOnly, owed>>

ClickInstall(c) ==
  /\ Click("install") /\ Install(c, state)
  /\ UNCHANGED <<callOnly, owed>>

ClickRelaunch(c) ==
  /\ Click("relaunch") /\ state.phase = "relaunch-ready"
  /\ Begin(c, "relaunch", state)
  /\ UNCHANGED <<callOnly, state, owed>>

(* What a postponed offer comes back as.                                   *)
ResumeDownloaded(phase) == "downloaded"                               \* mutant
Resume(phase) ==
  IF phase \in {"downloaded", "restart-blocked"} THEN "downloaded" ELSE "available"

Postpone ==
  /\ Click("postpone") /\ state.update # 0
  /\ state.phase \notin {"downloading", "installing", "relaunch-ready"}
  /\ state' = Show("postponed", state.update, Resume(state.phase))
  /\ UNCHANGED <<callOnly, call, owed>>

Dismiss ==
  /\ Click("dismiss") /\ state.phase \in {"up-to-date", "failed"}
  /\ state' = Idle
  /\ UNCHANGED <<callOnly, call, owed>>

RetryCheck ==
  /\ Click("retry") /\ state.phase = "failed"
  /\ state.detail = "check" \/ state.update = 0
  /\ Check(Idle, TRUE)

RetryDownload(c) ==
  /\ Click("retry") /\ state.phase = "failed"
  /\ state.detail = "download" /\ state.update # 0
  /\ Download(c, Show("available", state.update, "none"))
  /\ UNCHANGED <<callOnly, owed>>

RetryInstall(c) ==
  /\ Click("retry") /\ state.phase = "failed"
  /\ state.detail = "install" /\ state.update # 0
  /\ Install(c, Show("downloaded", state.update, "none"))
  /\ UNCHANGED <<callOnly, owed>>

-----------------------------------------------------------------------------
CheckReturns ==
  \/ CheckFails
  \/ \E f \in Found : CheckAnswers(f)
  \/ \E h \in Handles : CheckEnds(h)

PluginAnswers ==
  \/ CheckReturns
  \/ \E c \in Calls : DownloadEnds(c) \/ InstallFails(c) \/ InstallReturns(c)
                      \/ InstallerExits(c) \/ RelaunchFails(c) \/ Relaunched(c)

Next ==
  \/ CheckOnceAtStartup \/ Quit
  \/ PluginAnswers
  \/ \E c \in Calls : ReadinessAnswers(c)
  \/ ClickCheck \/ Postpone \/ Dismiss \/ RetryCheck
  \/ \E c \in Calls : ClickDownload(c) \/ ClickInstall(c) \/ ClickRelaunch(c)
                      \/ RetryDownload(c) \/ RetryInstall(c)

Spec == Init /\ [][Next]_vars

(* The server's answer to a check, and the readiness provider's, reach the  *)
(* coordinator in some turn, however often other events come first.        *)
FairSpec ==
  /\ Spec
  /\ SF_vars(CheckReturns)
  /\ WF_vars(\E c \in Calls : ReadinessAnswers(c))

-----------------------------------------------------------------------------
(* Properties                                                              *)

TypeOK ==
  /\ platform \in Platforms
  /\ state \in UpdateState
  /\ handle \in Handles \cup {NoHandle}
  /\ object \in [Handles -> ObjectRow]
  /\ checking \in {"no", "asking", "releasing"} /\ found \in Found
  /\ checkIsManual \in BOOLEAN /\ started \in BOOLEAN /\ owed \in BOOLEAN
  /\ overtaken \in BOOLEAN
  /\ call \in [Calls -> CallRow \cup {NoCall}]
  /\ running \in Versions /\ disk \in Versions

PhasesOf(op) ==
  CASE op = "download" -> {"downloading"}
    [] op = "ask"      -> {"downloaded", "restart-blocked"}
    [] op = "install"  -> {"installing"}
    [] op = "relaunch" -> {"relaunch-ready"}

(* The coordinator overwrites its state after every await, whatever it has  *)
(* become meanwhile.  That is sound because the phase names what is under   *)
(* way: "checking", "downloading" and "installing" hold exactly while a     *)
(* check, one download or one install runs, "relaunch-ready" while          *)
(* relaunches may, any number of them, and any other phase while nothing    *)
(* does (on Windows "installing" may outlive the install).  It ends when    *)
(* one of several relaunches fails and leaves the others to answer over     *)
(* whatever the operator does next.                                        *)
PhaseTellsTheCall ==
  ~overtaken =>
    /\ (state.phase = "checking") = (checking # "no")
    /\ \A c \in Calls : Busy(c) =>
         /\ \A d \in Calls : Busy(d) => d = c \/ call[c].op = "relaunch"
         /\ state.phase \in PhasesOf(call[c].op)
    /\ state.phase = "downloading" => CallsOf("download") # {}
    /\ state.phase = "installing" => CallsOf("install") # {} \/ platform = "windows"

DownloadedPhase(s) ==
  \/ s.phase \in {"downloaded", "restart-blocked", "installing", "relaunch-ready"}
  \/ s.detail \in {"downloaded", "install"}

(* What the operator is offered can be acted on: the coordinator holds an   *)
(* open plugin object of just that version, and its bytes are on disk       *)
(* whenever the state promises a finished download: through a postponement, *)
(* a blocked restart, a failed install and relaunches that fail one after   *)
(* the other.  Only the late failure of an overtaken relaunch may break it. *)
OfferIsHeld ==
  ~overtaken /\ state.update # 0 =>
    /\ handle # NoHandle
    /\ object[handle].open /\ object[handle].version = state.update
    /\ DownloadedPhase(state) => object[handle].bytes

(* No process ever runs an older version than the one before it, whatever   *)
(* the manifest offered in between and whenever the app was closed.        *)
NoDowngrade == [][running' >= running /\ (disk' # disk => disk' > running)]_vars

(* A check nobody asked for never puts a failure or a verdict on screen: a  *)
(* failed check and a visible "up to date" answer a click, also one that    *)
(* joined the automatic check late.                                        *)
SilentUnlessAsked ==
  [][(state'.phase = "failed" /\ state'.detail = "check") \/
     (state'.phase = "up-to-date" /\ state'.detail = "manual")
       => owed \/ state' = state]_vars

(* An operator who asked for a check is shown an answer (the app may be     *)
(* closed first), also when the click joined a check under way.            *)
AskedIsAnswered == owed ~> ~owed
=============================================================================
