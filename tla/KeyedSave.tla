------------------------------- MODULE KeyedSave -------------------------------
(***************************************************************************)
(* Saving one kind of Office Record under an Idempotency-Key: the drawers  *)
(* and their key store (submitKeys.ts, one scope), the network, and the    *)
(* API's idempotency middleware around a command that commits or refuses.  *)
(* Answers get lost while the server goes on, requests overtake each       *)
(* other, and retries meet reservations of requests that still run.        *)
(*                                                                         *)
(* The operator is assumed to stop entering a record once it is saved, and  *)
(* not to save it while a save of it is under way.                          *)
(***************************************************************************)
EXTENDS Naturals, Sequences, FiniteSets

CONSTANTS
  Drawers,      \* mounted forms, each with a SubmitKeySession
  Bodies,       \* request bodies: the records the operator may enter
  Jobs,         \* requests on the wire or in the server at once
  MaxKeys,      \* bound: keys ever made
  MaxHeld,      \* MAX_HELD_KEYS_PER_SCOPE
  Faults,       \* what may go wrong besides lost answers, see AllFaults
  MaxKinds,     \* bound: kinds of faults in one history
  NoBody, NoKey, NoJob, NoRow, NoDrawer

AllFaults ==
  {"crash",   \* the worker dies between its statements
   "commit",  \* the commit succeeds and its acknowledgement fails
   "auth"}    \* the auth middleware, which runs first, answers 401

ASSUME KeyedSaveAssumption ==
  /\ {MaxKeys, MaxHeld, MaxKinds} \subseteq Nat
  /\ Faults \subseteq AllFaults
  /\ NoBody \notin Bodies /\ NoDrawer \notin Drawers

Keys == 1 .. MaxKeys

Answers == {"saved", "refused", "failed", "inProgress", "conflict", "unauthorized"}

JobRow == [key : Keys, body : Bodies, drawer : Drawers \cup {NoDrawer},
           stage : {"sent", "finding", "running", "executed", "answered"},
           answer : Answers \cup {"none"}]

KeyRow == [body : Bodies, answer : {"none", "saved", "refused"}]

ASSUME AbsentAssumption ==
  /\ \A k \in Keys : k # NoKey
  /\ \A r \in JobRow : r # NoJob
  /\ \A r \in KeyRow : r # NoRow

VARIABLES
  body,      \* what a drawer's form holds
  current,   \* the session's key, SubmitKeySession.current
  waiting,   \* drawers whose save is unanswered
  pending,   \* OfficeSubmitKeys.pending of the scope, oldest first
  held,      \* HeldKey.held: the bodies the server may hold under a key
  used,      \* keys made so far
  job,       \* requests: key, body, asking drawer, stage and answer
  row,       \* idempotency_keys
  landed,    \* ghost: commands committed under a key
  copies,    \* ghost: records committed with a body
  mishaps,   \* ghost: the faults that happened
  forgotten, \* ghost: bodies of the keys let go at MaxHeld
  strayed,   \* ghost: bodies sent under another key than the one kept for them
  saved      \* bodies the operator was told are saved

storeVars  == <<pending, held, forgotten>>
clientVars == <<body, current, waiting, storeVars, used, saved, strayed>>
ghostVars  == <<landed, copies, mishaps>>
vars == <<clientVars, job, row, ghostVars>>

-----------------------------------------------------------------------------
(* The key store                                                           *)

(* keepsIdempotencyKey or isIdempotencyKeyConflict: no answer, a 5xx, still *)
(* running, or used with another body.                                     *)
UnknownOutcomeButRunning(a) == a \in {"lost", "failed", "conflict"}  \* mutant
UnknownOutcome(a) == a \in {"lost", "failed", "inProgress", "conflict"}

PendingKeys == {pending[i] : i \in DOMAIN pending}

HeldFor(b) ==
  LET hits == {i \in DOMAIN pending : b \in held[pending[i]]}
  IN  IF hits = {} THEN NoKey ELSE pending[CHOOSE i \in hits : \A n \in hits : i <= n]

Without(k) ==
  LET at == CHOOSE i \in DOMAIN pending : pending[i] = k
  IN  IF k \notin PendingKeys THEN pending
      ELSE [i \in 1 .. Len(pending) - 1 |-> pending[IF i < at THEN i ELSE i + 1]]

(* Past MaxHeld the oldest key is let go.                                  *)
Hold(k) ==
  LET list == Append(pending, k) IN
  CASE k \in PendingKeys -> UNCHANGED <<pending, forgotten>>
    [] k \notin PendingKeys /\ Len(list) <= MaxHeld ->
         pending' = list /\ UNCHANGED forgotten
    [] OTHER -> pending' = Tail(list) /\ forgotten' = forgotten \cup held'[Head(list)]

(* settle: the outcome of the drawer's last send.                          *)
Settle(d, a) ==
  LET k     == current[d]
      kept  == IF a = "conflict" THEN held[k] \ {body[d]} ELSE held[k] \cup {body[d]}
  IN  /\ waiting' = waiting \ {d}
      /\ IF UnknownOutcome(a)
         THEN /\ held' = [held EXCEPT ![k] = kept]
              /\ IF kept # {} THEN Hold(k)
                 ELSE pending' = Without(k) /\ UNCHANGED forgotten
              /\ UNCHANGED current
         ELSE /\ pending' = Without(k)
              /\ current' = [current EXCEPT ![d] = NoKey]
              /\ UNCHANGED <<held, forgotten>>
      /\ saved' = IF a = "saved" THEN saved \cup {body[d]} ELSE saved
      /\ body' = IF a = "saved" THEN [body EXCEPT ![d] = NoBody] ELSE body
      /\ UNCHANGED <<used, strayed>>

-----------------------------------------------------------------------------
Init ==
  /\ body = [d \in Drawers |-> NoBody]
  /\ current = [d \in Drawers |-> NoKey]
  /\ waiting = {}
  /\ pending = <<>>
  /\ held = [k \in Keys |-> {}]
  /\ used = 0
  /\ job = [j \in Jobs |-> NoJob]
  /\ row = [k \in Keys |-> NoRow]
  /\ landed = [k \in Keys |-> 0]
  /\ copies = [b \in Bodies |-> 0]
  /\ mishaps = {}
  /\ forgotten = {} /\ saved = {} /\ strayed = {}

-----------------------------------------------------------------------------
(* The operator and the drawers                                            *)

(* A form opens fresh, with a session of its own.                          *)
Enter(d, b) ==
  /\ body[d] = NoBody /\ b \notin saved
  /\ body' = [body EXCEPT ![d] = b]
  /\ UNCHANGED <<current, waiting, storeVars, used, saved, strayed, job, row, ghostVars>>

(* Before saving again the operator corrects the record: the session keeps  *)
(* its key, whatever the new body is.                                      *)
Edit(d, b) ==
  /\ body[d] # NoBody /\ d \notin waiting /\ b \notin saved
  /\ body' = [body EXCEPT ![d] = b]
  /\ UNCHANGED <<current, waiting, storeVars, used, saved, strayed, job, row, ghostVars>>

Close(d) ==
  /\ body[d] # NoBody /\ d \notin waiting
  /\ body' = [body EXCEPT ![d] = NoBody]
  /\ current' = [current EXCEPT ![d] = NoKey]
  /\ UNCHANGED <<waiting, storeVars, used, saved, strayed, job, row, ghostVars>>

(* next: the session's key, else one kept for this body, else a new one.   *)
KeyOfSession(d) == IF current[d] # NoKey THEN current[d] ELSE used + 1  \* mutant
KeyFor(d) ==
  CASE current[d] # NoKey -> current[d]
    [] current[d] = NoKey /\ HeldFor(body[d]) # NoKey -> HeldFor(body[d])
    [] OTHER -> used + 1

(* The session's own key wins over the one kept for the record.             *)
Strays(d) == current[d] # NoKey /\ HeldFor(body[d]) \notin {NoKey, current[d]}

Save(d, j) ==
  /\ body[d] # NoBody /\ d \notin waiting
  /\ body[d] \notin saved /\ \A o \in waiting : body[o] # body[d]
  /\ job[j] = NoJob
  /\ KeyFor(d) \in Keys
  /\ current' = [current EXCEPT ![d] = KeyFor(d)]
  /\ used' = IF KeyFor(d) > used THEN KeyFor(d) ELSE used
  /\ waiting' = waiting \cup {d}
  /\ strayed' = IF Strays(d) THEN strayed \cup {body[d]} ELSE strayed
  /\ job' = [job EXCEPT ![j] = [key |-> KeyFor(d), body |-> body[d], drawer |-> d,
                                stage |-> "sent", answer |-> "none"]]
  /\ UNCHANGED <<body, storeVars, saved, row, ghostVars>>

(* The answer arrives; or the client sees a network error and the request   *)
(* lives on without it.                                                     *)
Deliver(j) ==
  /\ job[j] # NoJob /\ job[j].stage = "answered"
  /\ IF job[j].drawer = NoDrawer THEN UNCHANGED clientVars
                                 ELSE Settle(job[j].drawer, job[j].answer)
  /\ job' = [job EXCEPT ![j] = NoJob]
  /\ UNCHANGED <<row, ghostVars>>

Drop(j) ==
  /\ job[j] # NoJob /\ job[j].drawer # NoDrawer
  /\ Settle(job[j].drawer, "lost")
  /\ job' = [job EXCEPT ![j].drawer = NoDrawer]
  /\ UNCHANGED <<row, ghostVars>>

-----------------------------------------------------------------------------
(* The server                                                              *)

At(j, stage) == job[j] # NoJob /\ job[j].stage = stage

Goes(j, stage, answer) == job' = [job EXCEPT ![j].stage = stage, ![j].answer = answer]

(* A fault happens.                                                        *)
Strikes(fault) ==
  /\ fault \in Faults
  /\ mishaps' = mishaps \cup {fault}
  /\ Cardinality(mishaps') <= MaxKinds

(* A refusal by the auth middleware is not known to the idempotency one.   *)
Unauthorize(j) ==
  /\ Strikes("auth")
  /\ At(j, "sent")
  /\ Goes(j, "answered", "unauthorized")
  /\ UNCHANGED <<clientVars, row, landed, copies>>

(* reserve: INSERT .. ON CONFLICT DO NOTHING.                              *)
Reserve(j) ==
  /\ At(j, "sent")
  /\ IF row[job[j].key] = NoRow
     THEN /\ row' = [row EXCEPT ![job[j].key] = [body |-> job[j].body, answer |-> "none"]]
          /\ Goes(j, "running", "none")
     ELSE Goes(j, "finding", "none") /\ UNCHANGED row
  /\ UNCHANGED <<clientVars, ghostVars>>

(* find, after the reservation failed: the row may be gone again.          *)
ReplayWithoutHash(r, b) ==  \* mutant
  IF r = NoRow \/ r.answer = "none" THEN "inProgress" ELSE r.answer
Replay(r, b) ==
  CASE r = NoRow -> "inProgress"
    [] r # NoRow /\ r.answer = "none" -> "inProgress"
    [] r # NoRow /\ r.answer # "none" /\ r.body # b -> "conflict"
    [] OTHER -> r.answer

Find(j) ==
  /\ At(j, "finding")
  /\ Goes(j, "answered", Replay(row[job[j].key], job[j].body))
  /\ UNCHANGED <<clientVars, row, ghostVars>>

Land(j) ==
  /\ landed' = [landed EXCEPT ![job[j].key] = @ + 1]
  /\ copies' = [copies EXCEPT ![job[j].body] = @ + 1]

(* The route's handler: its transaction commits, is refused, or throws.    *)
Commit(j) ==
  /\ At(j, "running")
  /\ Land(j)
  /\ Goes(j, "executed", "saved")
  /\ UNCHANGED <<clientVars, row, mishaps>>

RefuseCommand(j) ==
  /\ At(j, "running")
  /\ Goes(j, "executed", "refused")
  /\ UNCHANGED <<clientVars, row, ghostVars>>

Throw(j) ==
  /\ At(j, "running")
  /\ Goes(j, "executed", "failed")
  /\ UNCHANGED <<clientVars, row, ghostVars>>

CommitUnacknowledged(j) ==
  /\ Strikes("commit")
  /\ At(j, "running")
  /\ landed[job[j].key] = 0  \* bound: one lost acknowledgement per key
  /\ Land(j)
  /\ Goes(j, "executed", "failed")
  /\ UNCHANGED <<clientVars, row>>

(* complete caches a 2xx or 4xx; release forgets the key of a 5xx.         *)
ReleaseAlways(r, a) == NoRow  \* mutant
CacheAlways(r, a) == [r EXCEPT !.answer = a]  \* mutant
Concluded(r, a) == IF a = "failed" THEN NoRow ELSE [r EXCEPT !.answer = a]

Conclude(j) ==
  /\ At(j, "executed")
  /\ row' = [row EXCEPT ![job[j].key] = Concluded(@, job[j].answer)]
  /\ Goes(j, "answered", job[j].answer)
  /\ UNCHANGED <<clientVars, ghostVars>>

(* The worker is gone, and with it the answer; the client sees an error.   *)
Crash(j) ==
  /\ Strikes("crash")
  /\ \E stage \in {"sent", "finding", "running", "executed"} : At(j, stage)
  /\ Goes(j, "answered", "failed")
  /\ UNCHANGED <<clientVars, row, landed, copies>>

-----------------------------------------------------------------------------
Operator ==
  \E d \in Drawers :
     \/ \E b \in Bodies : Enter(d, b) \/ Edit(d, b)
     \/ Close(d)
     \/ \E j \in Jobs : Save(d, j)

Server(j) ==
  \/ Unauthorize(j) \/ Reserve(j) \/ Find(j)
  \/ Commit(j) \/ RefuseCommand(j) \/ Throw(j) \/ CommitUnacknowledged(j)
  \/ Conclude(j) \/ Crash(j)

Next == Operator \/ \E j \in Jobs : Deliver(j) \/ Drop(j) \/ Server(j)

Spec == Init /\ [][Next]_vars

-----------------------------------------------------------------------------
(* Properties                                                              *)

(* The types of the variables.                                             *)
TypeOK ==
  /\ body \in [Drawers -> Bodies \cup {NoBody}]
  /\ current \in [Drawers -> Keys \cup {NoKey}]
  /\ waiting \subseteq Drawers
  /\ pending \in Seq(Keys)
  /\ held \in [Keys -> SUBSET Bodies]
  /\ used \in 0 .. MaxKeys
  /\ job \in [Jobs -> JobRow \cup {NoJob}]
  /\ row \in [Keys -> KeyRow \cup {NoRow}]
  /\ landed \in [Keys -> Nat]
  /\ copies \in [Bodies -> Nat]
  /\ mishaps \subseteq Faults
  /\ \A bodies \in {forgotten, saved, strayed} : bodies \subseteq Bodies

(* A key is one command: whatever is retried, replayed, delayed or crashes, *)
(* at most one commits under it (idempotency.ts:94), unless a commit passed  *)
(* for a failure, which frees its key.                                      *)
KeyLandsOnce == "commit" \notin mishaps => \A k \in Keys : landed[k] <= 1

(* A record entered again after an unknown outcome, in its own drawer or a  *)
(* new one, is not recorded twice (submitKeys.ts:17), while only crashes     *)
(* happen (a lost commit and a 401 both cost the record its key).  Two kinds *)
(* of records are left out: those of a key let go at MaxHeld, and those that *)
(* a form with a key of its own sent although another key was kept for them. *)
BodyLandsOnce ==
  mishaps \subseteq {"crash"} => \A b \in Bodies \ (forgotten \cup strayed) : copies[b] <= 1

(* What the operator is told is saved was recorded, as entered: a replayed  *)
(* answer is never the answer of another record.                            *)
SavedMeansRecorded == \A b \in saved : copies[b] > 0

(* A record that landed and was not answered is found again: some key the   *)
(* client keeps, or has in its session, is kept for it; crashes included.   *)
LandedIsAnsweredOrHeld ==
  \A b \in Bodies \ forgotten :
    copies[b] > 0 /\ mishaps \subseteq {"crash"} =>
      \/ b \in saved
      \/ HeldFor(b) # NoKey
      \/ \E d \in waiting : body[d] = b
=============================================================================
