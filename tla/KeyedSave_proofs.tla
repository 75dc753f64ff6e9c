--------------------------- MODULE KeyedSave_proofs ---------------------------
(***************************************************************************)
(* An Idempotency-Key commits at most one command, for any number of       *)
(* drawers, records, requests and keys, whatever is lost, delayed, retried *)
(* or crashes, as long as a commit that succeeded is acknowledged; and what *)
(* the operator is told is saved was recorded, whatever happens.           *)
(*                                                                         *)
(* Then the client's side: how the key store keeps what it is given, and     *)
(* from that, that a record lands at most once however its keys change.     *)
(***************************************************************************)
EXTENDS KeyedSave, SequenceTheorems, SumLemmas

(* A request that holds the reservation of its key.                        *)
Owns(j, k) == (At(j, "running") \/ At(j, "executed")) /\ job[j].key = k

ServerTypes ==
  /\ body \in [Drawers -> Bodies \cup {NoBody}]
  /\ job \in [Jobs -> JobRow \cup {NoJob}]
  /\ row \in [Keys -> KeyRow \cup {NoRow}]
  /\ landed \in [Keys -> Nat]

OwnerReserved ==
  \A k \in Keys, j \in Jobs : Owns(j, k) => row[k] # NoRow

OneOwner ==
  \A k \in Keys, i, j \in Jobs : Owns(i, k) /\ Owns(j, k) => i = j

(* What landed is never forgotten, and its request does not run again,     *)
(* unless a commit passed for a failure.                                    *)
LandedIsReserved ==
  \A k \in Keys :
    landed[k] > 0 /\ "commit" \notin mishaps =>
      /\ row[k] # NoRow
      /\ \A j \in Jobs : Owns(j, k) => job[j].stage = "executed" /\ job[j].answer = "saved"

(* A handler that ran ended with one of three outcomes.                    *)
HandlerOutcome ==
  \A j \in Jobs : At(j, "executed") => job[j].answer \in {"saved", "refused", "failed"}

KeyInv ==
  ServerTypes /\ OwnerReserved /\ OneOwner /\ LandedIsReserved /\ HandlerOutcome /\ KeyLandsOnce

USE KeyedSaveAssumption, AbsentAssumption

LEMMA KeyInvInit == Init => KeyInv
  BY DEF Init, KeyInv, ServerTypes, OwnerReserved, OneOwner, LandedIsReserved,
         KeyLandsOnce, HandlerOutcome, Owns, At

(* A step of request j changes j's stage and answer only.                  *)
LEMMA GoesFacts ==
  ASSUME ServerTypes, NEW j \in Jobs, job[j] # NoJob,
         NEW stage \in {"sent", "finding", "running", "executed", "answered"},
         NEW answer \in Answers \cup {"none"},
         Goes(j, stage, answer)
  PROVE  /\ job' \in [Jobs -> JobRow \cup {NoJob}]
         /\ job'[j] # NoJob
         /\ job'[j].key = job[j].key /\ job[j].key \in Keys /\ job[j].body \in Bodies
         /\ job'[j].body = job[j].body /\ job'[j].drawer = job[j].drawer
         /\ job'[j].stage = stage /\ job'[j].answer = answer
         /\ \A i \in Jobs \ {j} : job'[i] = job[i]
<1>1. job[j] \in JobRow
  BY DEF ServerTypes
<1>2. job' = [job EXCEPT ![j] = [[job[j] EXCEPT !.stage = stage] EXCEPT !.answer = answer]]
  BY <1>1 DEF Goes, ServerTypes
<1>3. [[job[j] EXCEPT !.stage = stage] EXCEPT !.answer = answer] \in JobRow
  BY <1>1 DEF JobRow
<1> QED
  BY <1>1, <1>2, <1>3 DEF ServerTypes, JobRow

(* Steps of the operator and the network leave owners, rows and effects.   *)
LEMMA ClientStep ==
  ASSUME KeyInv, body' \in [Drawers -> Bodies \cup {NoBody}],
         job' \in [Jobs -> JobRow \cup {NoJob}],
         UNCHANGED <<row, landed>>, mishaps \subseteq mishaps',
         \A j \in Jobs, k \in Keys : Owns(j, k)' =>
           Owns(j, k) /\ job'[j].stage = job[j].stage /\ job'[j].answer = job[j].answer
  PROVE  KeyInv'
<1>1. ServerTypes' /\ OwnerReserved' /\ OneOwner' /\ LandedIsReserved' /\ KeyLandsOnce'
  BY DEF KeyInv, ServerTypes, OwnerReserved, OneOwner, LandedIsReserved, KeyLandsOnce
<1>2. HandlerOutcome'
  <2> SUFFICES ASSUME NEW j \in Jobs, At(j, "executed")'
               PROVE  job'[j].answer \in {"saved", "refused", "failed"}
    BY DEF HandlerOutcome
  <2>1. PICK k \in Keys : k = job'[j].key
    BY DEF At, JobRow
  <2>2. Owns(j, k)'
    BY <2>1 DEF At, Owns
  <2>3. Owns(j, k) /\ job'[j].stage = job[j].stage /\ job'[j].answer = job[j].answer
    BY <2>2
  <2> QED
    BY <2>3 DEF KeyInv, HandlerOutcome, At, Owns
<1> QED
  BY <1>1, <1>2 DEF KeyInv

LEMMA SettleBody ==
  ASSUME KeyInv, NEW d, NEW a, Settle(d, a)
  PROVE  body' \in [Drawers -> Bodies \cup {NoBody}]
  BY DEF KeyInv, ServerTypes, Settle

LEMMA KeyInvStep ==
  ASSUME KeyInv, [Next]_vars
  PROVE  KeyInv'
<1> USE DEF KeyInv
<1>1. ASSUME NEW d \in Drawers, (\E b \in Bodies : Enter(d, b) \/ Edit(d, b)) \/ Close(d)
      PROVE  KeyInv'
  <2>1. body' \in [Drawers -> Bodies \cup {NoBody}]
    BY <1>1 DEF Enter, Edit, Close, ServerTypes
  <2>2. UNCHANGED <<job, row, ghostVars>>
    BY <1>1 DEF Enter, Edit, Close
  <2> QED
    BY <2>1, <2>2, ClientStep DEF ghostVars, Owns, At, ServerTypes
<1>2. ASSUME NEW d \in Drawers, NEW j \in Jobs, Save(d, j)
      PROVE  KeyInv'
  <2> DEFINE sent == [key |-> KeyFor(d), body |-> body[d], drawer |-> d,
                      stage |-> "sent", answer |-> "none"]
  <2>1. sent \in JobRow
    BY <1>2 DEF Save, ServerTypes, JobRow
  <2>2. job' = [job EXCEPT ![j] = sent] /\ UNCHANGED <<body, row, ghostVars>>
    BY <1>2 DEF Save
  <2>3. sent.stage = "sent"
    OBVIOUS
  <2> HIDE DEF sent
  <2> QED
    BY <2>1, <2>2, <2>3, ClientStep DEF ghostVars, Owns, At, ServerTypes
<1>3. ASSUME NEW j \in Jobs, Deliver(j)
      PROVE  KeyInv'
  <2>1. body' \in [Drawers -> Bodies \cup {NoBody}]
    BY <1>3, SettleBody DEF Deliver, clientVars, ServerTypes
  <2>2. job' = [job EXCEPT ![j] = NoJob] /\ UNCHANGED <<row, ghostVars>>
    BY <1>3 DEF Deliver
  <2> QED
    BY <2>1, <2>2, ClientStep DEF ghostVars, Owns, At, ServerTypes
<1>4. ASSUME NEW j \in Jobs, Drop(j)
      PROVE  KeyInv'
  <2>1. body' \in [Drawers -> Bodies \cup {NoBody}] /\ UNCHANGED <<row, ghostVars>>
    BY <1>4, SettleBody DEF Drop
  <2>2. job[j] \in JobRow /\ job' = [job EXCEPT ![j] = [job[j] EXCEPT !.drawer = NoDrawer]]
    BY <1>4 DEF Drop, ServerTypes
  <2>3. [job[j] EXCEPT !.drawer = NoDrawer] \in JobRow
    BY <2>2 DEF JobRow
  <2>4. job' \in [Jobs -> JobRow \cup {NoJob}]
    BY <2>2, <2>3 DEF ServerTypes
  <2>5. \A i \in Jobs, k \in Keys : Owns(i, k)' =>
          Owns(i, k) /\ job'[i].stage = job[i].stage /\ job'[i].answer = job[i].answer
    BY <1>4, <2>2 DEF Owns, At, ServerTypes, JobRow, Drop
  <2> QED
    BY <2>1, <2>4, <2>5, ClientStep DEF ghostVars
<1>5. ASSUME NEW j \in Jobs, Unauthorize(j) \/ Find(j) \/ Crash(j)
      PROVE  KeyInv'
  <2>1. job[j] # NoJob /\ UNCHANGED <<body, row, landed>> /\ mishaps \subseteq mishaps'
    BY <1>5 DEF Unauthorize, Find, Crash, Strikes, At, clientVars, ghostVars
  <2>2. job[j].key \in Keys
    BY <2>1 DEF ServerTypes, JobRow
  <2>3. \E answer \in Answers : Goes(j, "answered", answer)
    BY <1>5, <2>2 DEF Unauthorize, Find, Crash, Replay, Answers, ServerTypes, KeyRow
  <2>4. /\ job' \in [Jobs -> JobRow \cup {NoJob}] /\ job'[j].stage = "answered"
        /\ \A i \in Jobs \ {j} : job'[i] = job[i]
    BY <2>1, <2>3, GoesFacts
  <2> QED
    BY <2>1, <2>4, ClientStep DEF Owns, At, ServerTypes
<1>6. ASSUME NEW j \in Jobs, Reserve(j)
      PROVE  KeyInv'
  <2>1. job[j] # NoJob /\ job[j].stage = "sent" /\ UNCHANGED <<body, ghostVars>>
    BY <1>6 DEF Reserve, At, clientVars
  <2>2. CASE row[job[j].key] # NoRow
    <3>1. Goes(j, "finding", "none") /\ UNCHANGED row
      BY <1>6, <2>2 DEF Reserve
    <3>2. /\ job' \in [Jobs -> JobRow \cup {NoJob}] /\ job'[j].stage = "finding"
          /\ \A i \in Jobs \ {j} : job'[i] = job[i]
      BY <2>1, <3>1, GoesFacts
    <3> QED
      BY <2>1, <3>1, <3>2, ClientStep DEF ghostVars, Owns, At, ServerTypes
  <2>3. CASE row[job[j].key] = NoRow
    <3>1. /\ Goes(j, "running", "none")
          /\ row' = [row EXCEPT ![job[j].key] = [body |-> job[j].body, answer |-> "none"]]
      BY <1>6, <2>3 DEF Reserve
    <3>2. /\ job' \in [Jobs -> JobRow \cup {NoJob}] /\ job'[j] # NoJob
          /\ job'[j].key = job[j].key /\ job[j].key \in Keys /\ job[j].body \in Bodies
          /\ job'[j].stage = "running"
          /\ \A i \in Jobs \ {j} : job'[i] = job[i]
      BY <2>1, <3>1, GoesFacts
    <3>3. [body |-> job[j].body, answer |-> "none"] \in KeyRow
      BY <3>2 DEF KeyRow
    <3>4. /\ row' \in [Keys -> KeyRow \cup {NoRow}] /\ row'[job[j].key] # NoRow
          /\ \A k \in Keys : row[k] # NoRow => row'[k] # NoRow
      BY <3>1, <3>2, <3>3 DEF ServerTypes
    <3>5. \A i \in Jobs, k \in Keys : Owns(i, k)' =>
            \/ i = j /\ k = job[j].key
            \/ i # j /\ Owns(i, k) /\ job'[i] = job[i]
      BY <3>2 DEF Owns, At
    <3>6. \A i \in Jobs : ~Owns(i, job[j].key)
      BY <2>3, <3>2 DEF OwnerReserved
    <3>7. "commit" \notin mishaps => landed[job[j].key] = 0
      BY <2>3, <3>2 DEF LandedIsReserved, ServerTypes
    <3>8. ServerTypes'
      BY <2>1, <3>2, <3>4 DEF ServerTypes, ghostVars
    <3>9. OwnerReserved'
      BY <3>4, <3>5 DEF OwnerReserved
    <3>10. OneOwner'
      BY <3>5, <3>6 DEF OneOwner
    <3>11. LandedIsReserved'
      BY <2>1, <3>4, <3>5, <3>7 DEF LandedIsReserved, ghostVars
    <3>12. HandlerOutcome'
      BY <3>2 DEF HandlerOutcome, At
    <3> QED
      BY <2>1, <3>8, <3>9, <3>10, <3>11, <3>12 DEF KeyLandsOnce, ghostVars
  <2> QED
    BY <2>2, <2>3
<1>7. ASSUME NEW j \in Jobs, Commit(j)
      PROVE  KeyInv'
  <2>1. /\ job[j] # NoJob /\ job[j].stage = "running" /\ UNCHANGED <<body, row>>
        /\ landed' = [landed EXCEPT ![job[j].key] = @ + 1] /\ mishaps' = mishaps
        /\ Goes(j, "executed", "saved")
    BY <1>7 DEF Commit, At, clientVars, Land
  <2>2. /\ job' \in [Jobs -> JobRow \cup {NoJob}] /\ job'[j] # NoJob
        /\ job'[j].key = job[j].key /\ job[j].key \in Keys
        /\ job'[j].stage = "executed" /\ job'[j].answer = "saved"
        /\ \A i \in Jobs \ {j} : job'[i] = job[i]
    BY <2>1, GoesFacts DEF Answers
  <2>3. Owns(j, job[j].key)
    BY <2>1 DEF Owns, At
  <2>4. "commit" \notin mishaps => landed[job[j].key] = 0
    BY <2>1, <2>2, <2>3 DEF LandedIsReserved, ServerTypes
  <2>5. \A i \in Jobs, k \in Keys : Owns(i, k)' => Owns(i, k)
    BY <2>1, <2>2 DEF Owns, At
  <2>6. \A i \in Jobs, k \in Keys : Owns(i, k)' /\ i # j => job'[i] = job[i]
    BY <2>2
  <2>7. ServerTypes'
    BY <2>1, <2>2 DEF ServerTypes
  <2>8. OwnerReserved' /\ OneOwner'
    BY <2>1, <2>5 DEF OwnerReserved, OneOwner
  <2>9. LandedIsReserved'
    <3> SUFFICES ASSUME NEW k \in Keys, landed'[k] > 0, "commit" \notin mishaps
                 PROVE  /\ row'[k] # NoRow
                        /\ \A i \in Jobs : Owns(i, k)' =>
                             job'[i].stage = "executed" /\ job'[i].answer = "saved"
      BY <2>1 DEF LandedIsReserved
    <3>1. CASE k = job[j].key
      BY <2>1, <2>2, <2>3, <2>5, <3>1 DEF OwnerReserved, OneOwner
    <3>2. CASE k # job[j].key
      <4>1. landed[k] > 0 /\ ~Owns(j, k)
        BY <2>1, <2>2, <3>2 DEF ServerTypes, Owns
      <4> QED
        BY <2>1, <2>5, <2>6, <4>1 DEF LandedIsReserved
    <3> QED
      BY <3>1, <3>2
  <2>10. KeyLandsOnce'
    BY <2>1, <2>2, <2>4 DEF KeyLandsOnce, ServerTypes
  <2>11. HandlerOutcome'
    BY <2>2 DEF HandlerOutcome, At
  <2> QED
    BY <2>7, <2>8, <2>9, <2>10, <2>11
<1>8. ASSUME NEW j \in Jobs, RefuseCommand(j) \/ Throw(j)
      PROVE  KeyInv'
  <2>1. /\ job[j] # NoJob /\ job[j].stage = "running"
        /\ UNCHANGED <<body, row, ghostVars>>
        /\ \E answer \in {"refused", "failed"} : Goes(j, "executed", answer)
    BY <1>8 DEF RefuseCommand, Throw, At, clientVars, Answers
  <2>2. /\ job' \in [Jobs -> JobRow \cup {NoJob}] /\ job'[j] # NoJob
        /\ job'[j].key = job[j].key /\ job[j].key \in Keys
        /\ job'[j].answer \in {"refused", "failed"}
        /\ \A i \in Jobs \ {j} : job'[i] = job[i]
    BY <2>1, GoesFacts DEF Answers
  <2>3. Owns(j, job[j].key) /\ ("commit" \notin mishaps => landed[job[j].key] = 0)
    BY <2>1, <2>2 DEF Owns, At, LandedIsReserved, ServerTypes
  <2>4. \A i \in Jobs, k \in Keys : Owns(i, k)' => Owns(i, k)
    BY <2>1, <2>2 DEF Owns, At
  <2>5. ServerTypes' /\ OwnerReserved' /\ OneOwner' /\ KeyLandsOnce'
    BY <2>1, <2>2, <2>4
       DEF ServerTypes, OwnerReserved, OneOwner, KeyLandsOnce, ghostVars
  <2>6. LandedIsReserved'
    BY <2>1, <2>2, <2>3, <2>4 DEF LandedIsReserved, ghostVars, Owns
  <2>7. HandlerOutcome'
    BY <2>2 DEF HandlerOutcome, At
  <2> QED
    BY <2>5, <2>6, <2>7
<1>9. ASSUME NEW j \in Jobs, Conclude(j)
      PROVE  KeyInv'
  <2>1. /\ job[j] # NoJob /\ job[j].stage = "executed"
        /\ UNCHANGED <<body, ghostVars>>
        /\ row' = [row EXCEPT ![job[j].key] = Concluded(@, job[j].answer)]
        /\ Goes(j, "answered", job[j].answer)
    BY <1>9 DEF Conclude, At, clientVars
  <2>2. job[j].answer \in {"saved", "refused", "failed"}
    BY <2>1 DEF HandlerOutcome, At
  <2>3. /\ job' \in [Jobs -> JobRow \cup {NoJob}]
        /\ job[j].key \in Keys /\ job'[j].stage = "answered"
        /\ \A i \in Jobs \ {j} : job'[i] = job[i]
    BY <2>1, <2>2, GoesFacts DEF Answers
  <2>4. Owns(j, job[j].key)
    BY <2>1 DEF Owns, At
  <2>5. \A i \in Jobs, k \in Keys : Owns(i, k)' =>
          k # job[j].key /\ Owns(i, k) /\ job'[i] = job[i]
    BY <2>3, <2>4 DEF Owns, At, OneOwner
  <2>6. row[job[j].key] \in KeyRow
    BY <2>3, <2>4 DEF OwnerReserved, ServerTypes
  <2>7. CASE job[j].answer = "failed"
    <3>1. row' = [row EXCEPT ![job[j].key] = NoRow]
      BY <2>1, <2>7 DEF Concluded
    <3>2. "commit" \notin mishaps => landed[job[j].key] = 0
      BY <2>3, <2>4, <2>7 DEF LandedIsReserved, ServerTypes
    <3> QED
      BY <2>1, <2>3, <2>5, <3>1, <3>2
      DEF ServerTypes, OwnerReserved, OneOwner, LandedIsReserved, HandlerOutcome, KeyLandsOnce,
          ghostVars, At
  <2>8. CASE job[j].answer # "failed"
    <3>1. [row[job[j].key] EXCEPT !.answer = job[j].answer] \in KeyRow
      BY <2>2, <2>6, <2>8 DEF KeyRow
    <3>2. row' = [row EXCEPT ![job[j].key] = [row[job[j].key] EXCEPT !.answer = job[j].answer]]
      BY <2>1, <2>8 DEF Concluded
    <3>3. row' \in [Keys -> KeyRow \cup {NoRow}] /\ row'[job[j].key] # NoRow
      BY <2>3, <3>1, <3>2 DEF ServerTypes
    <3>4. \A k \in Keys \ {job[j].key} : row'[k] = row[k]
      BY <3>2 DEF ServerTypes
    <3> QED
      BY <2>1, <2>3, <2>5, <3>3, <3>4
      DEF ServerTypes, OwnerReserved, OneOwner, LandedIsReserved, HandlerOutcome, KeyLandsOnce,
          ghostVars, At
  <2> QED
    BY <2>7, <2>8
<1>10. ASSUME NEW j \in Jobs, CommitUnacknowledged(j)
       PROVE  KeyInv'
  <2>1. /\ job[j] # NoJob /\ job[j].stage = "running" /\ UNCHANGED <<body, row>>
        /\ landed' = [landed EXCEPT ![job[j].key] = @ + 1] /\ "commit" \in mishaps'
        /\ Goes(j, "executed", "failed")
    BY <1>10 DEF CommitUnacknowledged, Strikes, At, clientVars, Land
  <2>2. /\ job' \in [Jobs -> JobRow \cup {NoJob}] /\ job'[j] # NoJob
        /\ job'[j].key = job[j].key /\ job[j].key \in Keys
        /\ job'[j].stage = "executed" /\ job'[j].answer = "failed"
        /\ \A i \in Jobs \ {j} : job'[i] = job[i]
    BY <2>1, GoesFacts DEF Answers
  <2>3. \A i \in Jobs, k \in Keys : Owns(i, k)' => Owns(i, k)
    BY <2>1, <2>2 DEF Owns, At
  <2>4. ServerTypes' /\ OwnerReserved' /\ OneOwner'
    BY <2>1, <2>2, <2>3 DEF ServerTypes, OwnerReserved, OneOwner
  <2>5. HandlerOutcome'
    BY <2>2 DEF HandlerOutcome, At
  <2> QED
    BY <2>1, <2>4, <2>5 DEF LandedIsReserved, KeyLandsOnce
<1>13. CASE UNCHANGED vars
  BY <1>13 DEF vars, clientVars, ghostVars, ServerTypes, OwnerReserved, OneOwner, LandedIsReserved, HandlerOutcome,
               KeyLandsOnce, Owns, At
<1>11. ASSUME Operator
       PROVE  KeyInv'
  BY <1>1, <1>2, <1>11 DEF Operator
<1>12. ASSUME NEW j \in Jobs, Server(j)
       PROVE  KeyInv'
  BY <1>5, <1>6, <1>7, <1>8, <1>9, <1>10, <1>12 DEF Server
<1> QED
  BY <1>3, <1>4, <1>11, <1>12, <1>13 DEF Next

(* The promise of the idempotency middleware (idempotency.ts:94).          *)
THEOREM OneEffectPerKey == Spec => []KeyLandsOnce
<1>1. KeyInv => KeyLandsOnce
  BY DEF KeyInv
<1> QED
  BY <1>1, KeyInvInit, KeyInvStep, PTL DEF Spec
-----------------------------------------------------------------------------
(* The other direction, which no fault breaks: nobody is told "saved" of a  *)
(* record that is not there.                                               *)

OwnerBody ==
  \A k \in Keys, j \in Jobs : Owns(j, k) => row[k] # NoRow /\ row[k].body = job[j].body

(* A drawer waits for one request, with what stands in its form.           *)
Asks(j, d) == job[j] # NoJob /\ job[j].drawer = d

AskedWaits ==
  \A j \in Jobs, d \in Drawers : Asks(j, d) => d \in waiting /\ body[d] = job[j].body

OneAsk ==
  \A i, j \in Jobs, d \in Drawers : Asks(i, d) /\ Asks(j, d) => i = j

AnswersSay ==
  \A j \in Jobs : job[j] # NoJob /\ job[j].answer = "saved" => copies[job[j].body] > 0

RowsSay ==
  \A k \in Keys : row[k] # NoRow /\ row[k].answer = "saved" => copies[row[k].body] > 0

CopiesTypes == copies \in [Bodies -> Nat] /\ waiting \subseteq Drawers /\ saved \subseteq Bodies

ServerSays == OwnerBody /\ OneOwner /\ HandlerOutcome /\ AnswersSay /\ RowsSay
ClientHears == AskedWaits /\ OneAsk /\ SavedMeansRecorded

SayInv == ServerTypes /\ CopiesTypes /\ ServerSays /\ ClientHears

LEMMA SayInvInit == Init => SayInv
BY DEF Init, SayInv, ServerTypes, CopiesTypes, ServerSays, ClientHears, OwnerBody, OneOwner,
       HandlerOutcome, AnswersSay, RowsSay, AskedWaits, OneAsk, SavedMeansRecorded, Owns, Asks, At

(* The client's steps leave the server's half, as long as requests only     *)
(* appear unanswered.                                                      *)
LEMMA ClientKeepsSaying ==
  ASSUME SayInv, UNCHANGED <<row, ghostVars>>,
         \A j \in Jobs : job'[j] # NoJob =>
           \/ job'[j].stage = "sent" /\ job'[j].answer = "none"
           \/ /\ job[j] # NoJob
              /\ job'[j].key = job[j].key /\ job'[j].body = job[j].body
              /\ job'[j].stage = job[j].stage /\ job'[j].answer = job[j].answer
  PROVE  ServerSays'
<1>1. \A j \in Jobs, k \in Keys : Owns(j, k)' => Owns(j, k) /\ job'[j].body = job[j].body
  BY DEF Owns, At
<1>2. OwnerBody' /\ OneOwner'
  BY <1>1 DEF SayInv, ServerSays, OwnerBody, OneOwner
<1>3. HandlerOutcome'
  BY DEF SayInv, ServerSays, HandlerOutcome, At
<1>4. AnswersSay' /\ RowsSay'
  BY DEF SayInv, ServerSays, AnswersSay, RowsSay, ghostVars
<1> QED BY <1>2, <1>3, <1>4 DEF ServerSays

(* The server's steps leave the client's half, as long as nothing recorded  *)
(* is lost.                                                                *)
LEMMA ServerKeepsHearing ==
  ASSUME SayInv, UNCHANGED clientVars,
         CopiesTypes', \A b \in Bodies : copies'[b] >= copies[b],
         \A j \in Jobs : job'[j] # NoJob =>
           job[j] # NoJob /\ job'[j].drawer = job[j].drawer /\ job'[j].body = job[j].body
  PROVE  ClientHears'
<1>1. AskedWaits' /\ OneAsk'
  BY DEF SayInv, ClientHears, AskedWaits, OneAsk, Asks, clientVars
<1>2. SavedMeansRecorded'
  BY DEF SayInv, ClientHears, SavedMeansRecorded, clientVars, CopiesTypes
<1> QED BY <1>1, <1>2 DEF ClientHears

LEMMA ServerStepSays == ASSUME SayInv, NEW j \in Jobs, Server(j) PROVE SayInv'
<1> USE DEF SayInv
<1>1. job[j] # NoJob /\ UNCHANGED clientVars
  BY DEF Server, Unauthorize, Reserve, Find, Commit, RefuseCommand, Throw, CommitUnacknowledged,
         Conclude, Crash, At
<1>2. job[j] \in JobRow /\ job[j].key \in Keys /\ job[j].body \in Bodies
  BY <1>1 DEF ServerTypes, JobRow
(* A request goes on to a stage at which it owns nothing.                   *)
<1>3. ASSUME UNCHANGED <<row, landed, copies>>,
             NEW stage \in {"finding", "answered"}, NEW answer \in Answers \cup {"none"},
             Goes(j, stage, answer), answer = "saved" => copies[job[j].body] > 0
      PROVE  SayInv'
  <2>1. /\ job' \in [Jobs -> JobRow \cup {NoJob}] /\ job'[j] # NoJob
        /\ job'[j].key = job[j].key /\ job'[j].body = job[j].body
        /\ job'[j].drawer = job[j].drawer /\ job'[j].stage = stage /\ job'[j].answer = answer
        /\ \A i \in Jobs \ {j} : job'[i] = job[i]
    BY <1>1, <1>3, GoesFacts
  <2>2. ServerTypes' /\ CopiesTypes'
    BY <1>1, <1>3, <2>1 DEF ServerTypes, CopiesTypes, clientVars
  <2>3. ClientHears'
    <3>1. \A i \in Jobs : job'[i] # NoJob =>
            job[i] # NoJob /\ job'[i].drawer = job[i].drawer /\ job'[i].body = job[i].body
      BY <1>1, <2>1
    <3>2. \A b \in Bodies : copies'[b] >= copies[b]
      BY <1>3 DEF CopiesTypes
    <3> QED BY <1>1, <2>2, <3>1, <3>2, ServerKeepsHearing
  <2>4. \A i \in Jobs, k \in Keys : Owns(i, k)' => i # j /\ Owns(i, k) /\ job'[i] = job[i]
    BY <2>1 DEF Owns, At
  <2>5. OwnerBody' /\ OneOwner'
    BY <1>3, <2>4 DEF ServerSays, OwnerBody, OneOwner
  <2>6. HandlerOutcome'
    BY <2>1 DEF ServerSays, HandlerOutcome, At
  <2>7. AnswersSay' /\ RowsSay'
    BY <1>3, <2>1 DEF ServerSays, AnswersSay, RowsSay
  <2> QED BY <2>2, <2>3, <2>5, <2>6, <2>7 DEF ServerSays
(* The handler ran: it landed, once more or not at all.                     *)
<1>4. ASSUME At(j, "running"), NEW answer \in {"saved", "refused", "failed"},
             Goes(j, "executed", answer), row' = row,
             \/ Land(j)
             \/ UNCHANGED ghostVars /\ answer # "saved"
      PROVE  SayInv'
  <2>1. /\ job' \in [Jobs -> JobRow \cup {NoJob}] /\ job'[j] # NoJob
        /\ job'[j].key = job[j].key /\ job'[j].body = job[j].body
        /\ job'[j].drawer = job[j].drawer /\ job'[j].stage = "executed"
        /\ job'[j].answer = answer
        /\ \A i \in Jobs \ {j} : job'[i] = job[i]
    BY <1>1, <1>4, GoesFacts DEF Answers
  <2>2. /\ copies' \in [Bodies -> Nat] /\ landed' \in [Keys -> Nat]
        /\ \A b \in Bodies : copies'[b] >= copies[b]
        /\ answer = "saved" => copies'[job[j].body] > 0
    BY <1>2, <1>4 DEF Land, ghostVars, CopiesTypes, ServerTypes
  <2>3. ServerTypes' /\ CopiesTypes'
    BY <1>1, <1>4, <2>1, <2>2 DEF ServerTypes, CopiesTypes, clientVars
  <2>4. ClientHears'
    <3>1. \A i \in Jobs : job'[i] # NoJob =>
            job[i] # NoJob /\ job'[i].drawer = job[i].drawer /\ job'[i].body = job[i].body
      BY <1>1, <2>1
    <3> QED BY <1>1, <2>2, <2>3, <3>1, ServerKeepsHearing
  <2>5. \A i \in Jobs, k \in Keys : Owns(i, k)' => Owns(i, k) /\ job'[i].body = job[i].body
    BY <1>4, <2>1 DEF Owns, At
  <2>6. OwnerBody' /\ OneOwner'
    BY <1>4, <2>5 DEF ServerSays, OwnerBody, OneOwner
  <2>7. HandlerOutcome'
    BY <2>1 DEF ServerSays, HandlerOutcome, At
  <2>8. AnswersSay'
    <3> SUFFICES ASSUME NEW i \in Jobs, job'[i] # NoJob, job'[i].answer = "saved"
                 PROVE  copies'[job'[i].body] > 0
      BY DEF AnswersSay
    <3>1. CASE i = j
      BY <2>1, <2>2, <3>1
    <3>2. CASE i # j
      <4>1. job[i] = job'[i] /\ job[i].body \in Bodies /\ copies[job[i].body] > 0
        BY <2>1, <3>2 DEF ServerSays, AnswersSay, ServerTypes, JobRow
      <4> QED BY <2>2, <4>1 DEF CopiesTypes
    <3> QED BY <3>1, <3>2
  <2>9. RowsSay'
    <3> SUFFICES ASSUME NEW k \in Keys, row[k] # NoRow, row[k].answer = "saved"
                 PROVE  copies'[row[k].body] > 0
      BY <1>4 DEF RowsSay
    <3>1. row[k].body \in Bodies /\ copies[row[k].body] > 0
      BY DEF ServerSays, RowsSay, ServerTypes, KeyRow
    <3> QED BY <2>2, <3>1 DEF CopiesTypes
  <2> QED BY <2>3, <2>4, <2>6, <2>7, <2>8, <2>9 DEF ServerSays
<1>5. CASE Unauthorize(j) \/ Find(j) \/ Crash(j)
  <2>1. UNCHANGED <<row, landed, copies>>
    BY <1>5 DEF Unauthorize, Find, Crash, ghostVars
  <2>2. CASE Unauthorize(j) \/ Crash(j)
    <3>1. \E answer \in {"unauthorized", "failed"} : Goes(j, "answered", answer)
      BY <2>2 DEF Unauthorize, Crash
    <3> QED BY <2>1, <3>1, <1>3 DEF Answers
  <2>3. CASE Find(j)
    <3> DEFINE r == row[job[j].key]
               a == Replay(r, job[j].body)
    <3>1. Goes(j, "answered", a)
      BY <2>3 DEF Find
    <3>2. r = NoRow \/ r \in KeyRow
      BY <1>2 DEF ServerTypes
    <3>3. a \in Answers
      BY <3>2 DEF Replay, Answers, KeyRow
    <3>4. a = "saved" => r # NoRow /\ r.answer = "saved" /\ r.body = job[j].body
      BY <3>2 DEF Replay, KeyRow
    <3>5. a = "saved" => copies[job[j].body] > 0
      BY <1>2, <3>4 DEF ServerSays, RowsSay
    <3> HIDE DEF a
    <3> QED BY <2>1, <3>1, <3>3, <3>5, <1>3
  <2> QED BY <1>5, <2>2, <2>3
<1>6. CASE Reserve(j)
  <2>1. At(j, "sent") /\ UNCHANGED ghostVars
    BY <1>6 DEF Reserve
  <2>2. CASE row[job[j].key] # NoRow
    <3>1. Goes(j, "finding", "none") /\ UNCHANGED row
      BY <1>6, <2>2 DEF Reserve
    <3> QED BY <2>1, <3>1, <1>3 DEF Answers, ghostVars
  <2>3. CASE row[job[j].key] = NoRow
    <3> DEFINE new == [body |-> job[j].body, answer |-> "none"]
    <3>1. /\ Goes(j, "running", "none")
          /\ row' = [row EXCEPT ![job[j].key] = new]
      BY <1>6, <2>3 DEF Reserve
    <3>2. /\ job' \in [Jobs -> JobRow \cup {NoJob}] /\ job'[j] # NoJob
          /\ job'[j].key = job[j].key /\ job'[j].body = job[j].body
          /\ job'[j].drawer = job[j].drawer /\ job'[j].stage = "running"
          /\ job'[j].answer = "none"
          /\ \A i \in Jobs \ {j} : job'[i] = job[i]
      BY <1>1, <3>1, GoesFacts
    <3>3. new \in KeyRow /\ new.body = job[j].body /\ new.answer = "none"
      BY <1>2 DEF KeyRow
    <3> HIDE DEF new
    <3>4. /\ row' \in [Keys -> KeyRow \cup {NoRow}] /\ row'[job[j].key] = new /\ new # NoRow
          /\ \A k \in Keys \ {job[j].key} : row'[k] = row[k]
      BY <1>2, <3>1, <3>3 DEF ServerTypes
    <3>5. \A i \in Jobs : ~Owns(i, job[j].key)
      BY <1>2, <2>3 DEF ServerSays, OwnerBody
    <3>6. \A i \in Jobs, k \in Keys : Owns(i, k)' =>
            \/ i = j /\ k = job[j].key
            \/ i # j /\ k # job[j].key /\ Owns(i, k) /\ job'[i] = job[i]
      BY <3>2, <3>5 DEF Owns, At
    <3>7. ServerTypes' /\ CopiesTypes'
      BY <1>1, <2>1, <3>2, <3>4 DEF ServerTypes, CopiesTypes, ghostVars, clientVars
    <3>8. ClientHears'
      <4>1. \A i \in Jobs : job'[i] # NoJob =>
              job[i] # NoJob /\ job'[i].drawer = job[i].drawer /\ job'[i].body = job[i].body
        BY <1>1, <3>2
      <4>2. \A b \in Bodies : copies'[b] >= copies[b]
        BY <2>1 DEF CopiesTypes, ghostVars
      <4> QED BY <1>1, <3>7, <4>1, <4>2, ServerKeepsHearing
    <3>9. OwnerBody'
      BY <3>2, <3>3, <3>4, <3>6 DEF ServerSays, OwnerBody
    <3>10. OneOwner'
      BY <3>6 DEF ServerSays, OneOwner
    <3>11. HandlerOutcome'
      BY <3>2 DEF ServerSays, HandlerOutcome, At
    <3>12. AnswersSay' /\ RowsSay'
      BY <2>1, <3>2, <3>3, <3>4 DEF ServerSays, AnswersSay, RowsSay, ghostVars
    <3> QED BY <3>7, <3>8, <3>9, <3>10, <3>11, <3>12 DEF ServerSays
  <2> QED BY <2>2, <2>3
<1>7. CASE Commit(j) \/ CommitUnacknowledged(j)
  <2>1. /\ At(j, "running") /\ Land(j) /\ row' = row
        /\ \E answer \in {"saved", "refused", "failed"} : Goes(j, "executed", answer)
    BY <1>7 DEF Commit, CommitUnacknowledged
  <2> QED BY <2>1, <1>4
<1>8. CASE RefuseCommand(j) \/ Throw(j)
  <2>1. /\ At(j, "running") /\ UNCHANGED <<row, ghostVars>>
        /\ \E answer \in {"refused", "failed"} : Goes(j, "executed", answer)
    BY <1>8 DEF RefuseCommand, Throw
  <2> QED BY <2>1, <1>4
<1>9. CASE Conclude(j)
  <2>1. /\ At(j, "executed") /\ UNCHANGED ghostVars
        /\ row' = [row EXCEPT ![job[j].key] = Concluded(@, job[j].answer)]
        /\ Goes(j, "answered", job[j].answer)
    BY <1>9 DEF Conclude
  <2>2. job[j].answer \in {"saved", "refused", "failed"}
    BY <2>1 DEF ServerSays, HandlerOutcome
  <2>3. /\ job' \in [Jobs -> JobRow \cup {NoJob}] /\ job'[j] # NoJob
        /\ job'[j].key = job[j].key /\ job'[j].body = job[j].body
        /\ job'[j].drawer = job[j].drawer /\ job'[j].stage = "answered"
        /\ job'[j].answer = job[j].answer
        /\ \A i \in Jobs \ {j} : job'[i] = job[i]
    BY <1>1, <2>1, <2>2, GoesFacts DEF Answers
  <2>4. Owns(j, job[j].key)
    BY <2>1 DEF Owns
  <2>5. /\ row[job[j].key] \in KeyRow /\ row[job[j].key] # NoRow
        /\ row[job[j].key].body = job[j].body
    BY <1>2, <2>4 DEF ServerSays, OwnerBody, ServerTypes
  <2> DEFINE new == Concluded(row[job[j].key], job[j].answer)
  <2>6. \/ new = NoRow
        \/ new \in KeyRow /\ new.body = job[j].body /\ new.answer = job[j].answer
    BY <2>2, <2>5 DEF Concluded, KeyRow
  <2>7. row' = [row EXCEPT ![job[j].key] = new]
    BY <2>1
  <2> HIDE DEF new
  <2>8. /\ row' \in [Keys -> KeyRow \cup {NoRow}] /\ row'[job[j].key] = new
        /\ \A k \in Keys \ {job[j].key} : row'[k] = row[k]
    BY <1>2, <2>6, <2>7 DEF ServerTypes
  <2>9. \A i \in Jobs, k \in Keys : Owns(i, k)' =>
          i # j /\ k # job[j].key /\ Owns(i, k) /\ job'[i] = job[i]
    BY <2>3, <2>4 DEF Owns, At, ServerSays, OneOwner
  <2>10. ServerTypes' /\ CopiesTypes'
    BY <1>1, <2>1, <2>3, <2>8 DEF ServerTypes, CopiesTypes, ghostVars, clientVars
  <2>11. ClientHears'
    <3>1. \A i \in Jobs : job'[i] # NoJob =>
            job[i] # NoJob /\ job'[i].drawer = job[i].drawer /\ job'[i].body = job[i].body
      BY <1>1, <2>3
    <3>2. \A b \in Bodies : copies'[b] >= copies[b]
      BY <2>1 DEF CopiesTypes, ghostVars
    <3> QED BY <1>1, <2>10, <3>1, <3>2, ServerKeepsHearing
  <2>12. OwnerBody' /\ OneOwner'
    BY <2>8, <2>9 DEF ServerSays, OwnerBody, OneOwner
  <2>13. HandlerOutcome'
    BY <2>3 DEF ServerSays, HandlerOutcome, At
  <2>14. AnswersSay'
    BY <1>1, <2>1, <2>3 DEF ServerSays, AnswersSay, ghostVars
  <2>15. RowsSay'
    <3> SUFFICES ASSUME NEW k \in Keys, row'[k] # NoRow, row'[k].answer = "saved"
                 PROVE  copies[row'[k].body] > 0
      BY <2>1 DEF RowsSay, ghostVars
    <3>1. CASE k = job[j].key
      BY <1>1, <2>6, <2>8, <3>1 DEF ServerSays, AnswersSay
    <3>2. CASE k # job[j].key
      BY <2>8, <3>2 DEF ServerSays, RowsSay
    <3> QED BY <3>1, <3>2
  <2> QED BY <2>10, <2>11, <2>12, <2>13, <2>14, <2>15 DEF ServerSays
<1> QED BY <1>5, <1>6, <1>7, <1>8, <1>9 DEF Server

LEMMA SayStep == SayInv /\ [Next]_vars => SayInv'
<1> SUFFICES ASSUME SayInv, [Next]_vars PROVE SayInv'
  OBVIOUS
<1> USE DEF SayInv
<1>1. ASSUME NEW d \in Drawers, (\E b \in Bodies : Enter(d, b) \/ Edit(d, b)) \/ Close(d)
      PROVE  SayInv'
  <2>1. /\ UNCHANGED <<job, row, ghostVars, waiting, saved>>
        /\ \E b \in Bodies \cup {NoBody} : body' = [body EXCEPT ![d] = b]
        /\ body[d] = NoBody \/ d \notin waiting
    BY <1>1 DEF Enter, Edit, Close
  <2>2. ServerTypes' /\ CopiesTypes'
    BY <2>1 DEF ServerTypes, CopiesTypes, ghostVars
  <2>3. ServerSays'
    BY <2>1, ClientKeepsSaying
  <2>4. \A j \in Jobs : ~Asks(j, d)
    <3> SUFFICES ASSUME NEW j \in Jobs, Asks(j, d) PROVE FALSE
      OBVIOUS
    <3>1. d \in waiting /\ body[d] = job[j].body
      BY DEF ClientHears, AskedWaits
    <3>2. job[j].body \in Bodies
      BY DEF Asks, ServerTypes, JobRow
    <3> QED BY <2>1, <3>1, <3>2
  <2>5. AskedWaits'
    BY <2>1, <2>4 DEF ClientHears, AskedWaits, Asks, ServerTypes
  <2>6. OneAsk' /\ SavedMeansRecorded'
    BY <2>1 DEF ClientHears, OneAsk, Asks, SavedMeansRecorded, ghostVars
  <2> QED BY <2>2, <2>3, <2>5, <2>6 DEF ClientHears
<1>2. ASSUME NEW d \in Drawers, NEW j \in Jobs, Save(d, j)
      PROVE  SayInv'
  <2> DEFINE sent == [key |-> KeyFor(d), body |-> body[d], drawer |-> d,
                      stage |-> "sent", answer |-> "none"]
  <2>1. sent \in JobRow
    BY <1>2 DEF Save, ServerTypes, JobRow
  <2>2. sent.stage = "sent" /\ sent.answer = "none" /\ sent.drawer = d /\ sent.body = body[d]
    OBVIOUS
  <2>3. /\ job' = [job EXCEPT ![j] = sent]
        /\ UNCHANGED <<body, row, ghostVars, saved>>
        /\ waiting' = waiting \cup {d} /\ d \notin waiting
    BY <1>2 DEF Save
  <2> HIDE DEF sent
  <2>4. ServerTypes' /\ CopiesTypes'
    BY <2>1, <2>3 DEF ServerTypes, CopiesTypes, ghostVars
  <2>5. ServerSays'
    BY <2>2, <2>3, ClientKeepsSaying DEF ServerTypes
  <2>6. \A i \in Jobs : ~Asks(i, d)
    BY <2>3 DEF ClientHears, AskedWaits
  <2>7. \A i \in Jobs, c \in Drawers : Asks(i, c)' => (i = j /\ c = d) \/ (i # j /\ Asks(i, c))
    BY <2>2, <2>3 DEF Asks, ServerTypes
  <2>8. AskedWaits'
    BY <2>2, <2>3, <2>7 DEF ClientHears, AskedWaits, ServerTypes
  <2>9. OneAsk'
    BY <2>6, <2>7 DEF ClientHears, OneAsk
  <2>10. SavedMeansRecorded'
    BY <2>3 DEF ClientHears, SavedMeansRecorded, ghostVars
  <2> QED BY <2>4, <2>5, <2>8, <2>9, <2>10 DEF ClientHears
<1>3. ASSUME NEW j \in Jobs, Deliver(j) PROVE SayInv'
  <2>1. job' = [job EXCEPT ![j] = NoJob] /\ UNCHANGED <<row, ghostVars>> /\ job[j] # NoJob
    BY <1>3 DEF Deliver
  <2>2. job[j] \in JobRow
    BY <2>1 DEF ServerTypes
  <2>3. ServerSays'
    BY <2>1, ClientKeepsSaying DEF ServerTypes
  <2>4. \A i \in Jobs, c \in Drawers : Asks(i, c)' => i # j /\ Asks(i, c) /\ job'[i] = job[i]
    BY <2>1 DEF Asks, ServerTypes
  <2>5. OneAsk'
    BY <2>4 DEF ClientHears, OneAsk
  <2>6. CASE job[j].drawer = NoDrawer
    <3>1. UNCHANGED clientVars
      BY <1>3, <2>6 DEF Deliver
    <3>2. ServerTypes' /\ CopiesTypes'
      BY <2>1, <3>1 DEF ServerTypes, CopiesTypes, clientVars, ghostVars
    <3>3. AskedWaits' /\ SavedMeansRecorded'
      BY <2>1, <2>4, <3>1
         DEF ClientHears, AskedWaits, SavedMeansRecorded, clientVars, ghostVars
    <3> QED BY <2>3, <2>5, <3>2, <3>3 DEF ClientHears
  <2>7. CASE job[j].drawer # NoDrawer
    <3>1. PICK d \in Drawers : d = job[j].drawer
      BY <2>2, <2>7 DEF JobRow
    <3>2. Settle(d, job[j].answer)
      BY <1>3, <2>7, <3>1 DEF Deliver
    <3>3. /\ waiting' = waiting \ {d}
          /\ saved' = IF job[j].answer = "saved" THEN saved \cup {body[d]} ELSE saved
          /\ body' = IF job[j].answer = "saved" THEN [body EXCEPT ![d] = NoBody] ELSE body
      BY <3>2 DEF Settle
    <3>4. Asks(j, d)
      BY <2>1, <3>1 DEF Asks
    <3>5. body[d] = job[j].body /\ job[j].body \in Bodies
      BY <2>2, <3>4 DEF ClientHears, AskedWaits, JobRow
    <3>6. ServerTypes' /\ CopiesTypes'
      BY <2>1, <3>3, <3>5 DEF ServerTypes, CopiesTypes, ghostVars
    <3>7. \A i \in Jobs, c \in Drawers : Asks(i, c)' => c # d
      BY <2>4, <3>4 DEF ClientHears, OneAsk
    <3>8. AskedWaits'
      BY <2>4, <3>3, <3>7 DEF ClientHears, AskedWaits, ServerTypes
    <3>9. SavedMeansRecorded'
      BY <2>1, <3>3, <3>5
         DEF ClientHears, ServerSays, AnswersSay, SavedMeansRecorded, ghostVars
    <3> QED BY <2>3, <2>5, <3>6, <3>8, <3>9 DEF ClientHears
  <2> QED BY <2>6, <2>7
<1>4. ASSUME NEW j \in Jobs, Drop(j) PROVE SayInv'
  <2>1. job[j] \in JobRow /\ job[j] # NoJob /\ job[j].drawer # NoDrawer
    BY <1>4 DEF Drop, ServerTypes
  <2>2. PICK d \in Drawers : d = job[j].drawer
    BY <2>1 DEF JobRow
  <2>3. /\ Settle(d, "lost") /\ UNCHANGED <<row, ghostVars>>
        /\ job' = [job EXCEPT ![j] = [job[j] EXCEPT !.drawer = NoDrawer]]
    BY <1>4, <2>2 DEF Drop
  <2>4. waiting' = waiting \ {d} /\ saved' = saved /\ body' = body
    BY <2>3 DEF Settle
  <2>5. [job[j] EXCEPT !.drawer = NoDrawer] \in JobRow
    BY <2>1 DEF JobRow
  <2>6. ServerTypes' /\ CopiesTypes'
    BY <2>3, <2>4, <2>5 DEF ServerTypes, CopiesTypes, ghostVars
  <2>7. /\ job'[j].drawer = NoDrawer /\ job'[j].key = job[j].key /\ job'[j].body = job[j].body
        /\ job'[j].stage = job[j].stage /\ job'[j].answer = job[j].answer
        /\ \A i \in Jobs \ {j} : job'[i] = job[i]
    BY <2>1, <2>3 DEF ServerTypes, JobRow
  <2>8. ServerSays'
    BY <2>1, <2>3, <2>7, ClientKeepsSaying
  <2>9. \A i \in Jobs, c \in Drawers : Asks(i, c)' => i # j /\ Asks(i, c) /\ job'[i] = job[i]
    BY <2>7 DEF Asks
  <2>10. Asks(j, d)
    BY <2>1, <2>2 DEF Asks
  <2>11. OneAsk'
    BY <2>9 DEF ClientHears, OneAsk
  <2>12. \A i \in Jobs, c \in Drawers : Asks(i, c)' => c # d
    BY <2>9, <2>10 DEF ClientHears, OneAsk
  <2>13. AskedWaits'
    BY <2>4, <2>9, <2>12 DEF ClientHears, AskedWaits
  <2>14. SavedMeansRecorded'
    BY <2>3, <2>4 DEF ClientHears, SavedMeansRecorded, ghostVars
  <2> QED BY <2>6, <2>8, <2>11, <2>13, <2>14 DEF ClientHears
<1>5. CASE UNCHANGED vars
  BY <1>5 DEF vars, clientVars, ghostVars, ServerTypes, CopiesTypes, ServerSays, ClientHears,
       OwnerBody, OneOwner, HandlerOutcome, AnswersSay, RowsSay, AskedWaits, OneAsk,
       SavedMeansRecorded, Owns, Asks, At
<1>6. ASSUME NEW j \in Jobs, Server(j) PROVE SayInv'
  BY <1>6, ServerStepSays
<1> QED BY <1>1, <1>2, <1>3, <1>4, <1>5, <1>6 DEF Next, Operator

(* What the operator is told is saved was recorded, whatever goes wrong:    *)
(* lost and late answers, dead workers, commits whose acknowledgement fails  *)
(* and answers of the auth middleware (submitKeys.ts:17).                   *)
THEOREM SavedIsRecorded == Spec => []SavedMeansRecorded
<1>1. SayInv => SavedMeansRecorded
  BY DEF SayInv, ClientHears
<1> QED BY <1>1, SayInvInit, SayStep, PTL DEF Spec
-----------------------------------------------------------------------------
(* What the client keeps: the key store's list, the sessions' keys and what *)
(* the requests on the wire were asked for.                                *)

LEMMA FunctionIsSeq ==
  ASSUME NEW S, NEW n \in Nat, NEW f \in [1 .. n -> S]
  PROVE  f \in Seq(S) /\ Len(f) = n
<1>1. f \in Seq(S)
  BY SeqDef, Zenon
<1>2. DOMAIN f = 1 .. n
  OBVIOUS
<1> QED
  BY <1>1, <1>2, LenProperties

ListedOnce(list) == \A m, n \in DOMAIN list : list[m] = list[n] => m = n
Listed(list) == {list[i] : i \in DOMAIN list}

(* Without takes exactly its key out of the list.                          *)
LEMMA WithoutFacts ==
  ASSUME pending \in Seq(Keys), ListedOnce(pending), NEW k, NEW list, list = Without(k)
  PROVE  list \in Seq(Keys) /\ ListedOnce(list) /\ Listed(list) = PendingKeys \ {k}
<1>1. CASE k \notin PendingKeys
  BY <1>1 DEF Without, PendingKeys, Listed
<1>2. CASE k \in PendingKeys
  <2> DEFINE at == CHOOSE i \in DOMAIN pending : pending[i] = k
             n == Len(pending)
             from(i) == IF i < at THEN i ELSE i + 1
  <2>1. n \in Nat /\ DOMAIN pending = 1 .. n
    BY LenProperties
  <2>2. at \in 1 .. n /\ pending[at] = k
    BY <1>2, <2>1 DEF PendingKeys
  <2>3. list = [i \in 1 .. n - 1 |-> pending[from(i)]]
    BY <1>2 DEF Without
  <2> HIDE DEF at, n
  <2>4. n - 1 \in Nat
    BY <2>1, <2>2
  <2>5. \A i \in 1 .. n - 1 : from(i) \in 1 .. n /\ from(i) # at
    BY <2>1, <2>2
  <2>6. \A m \in 1 .. n : m # at => \E i \in 1 .. n - 1 : from(i) = m
    <3> SUFFICES ASSUME NEW m \in 1 .. n, m # at PROVE \E i \in 1 .. n - 1 : from(i) = m
      OBVIOUS
    <3>1. CASE m < at
      BY <2>1, <2>2, <3>1
    <3>2. CASE m > at
      <4>1. m - 1 \in 1 .. n - 1 /\ from(m - 1) = m
        BY <2>1, <2>2, <3>2
      <4> QED BY <4>1
    <3> QED BY <2>1, <2>2, <3>1, <3>2
  <2>7. \A i, j \in 1 .. n - 1 : from(i) = from(j) => i = j
    BY <2>1, <2>2
  <2> HIDE DEF from
  <2>8. \A i \in 1 .. n : pending[i] \in Keys
    BY <2>1, ElementOfSeq DEF n
  <2>9. list \in [1 .. n - 1 -> Keys]
    BY <2>3, <2>5, <2>8
  <2>10. list \in Seq(Keys) /\ DOMAIN list = 1 .. n - 1
    BY <2>4, <2>9, FunctionIsSeq
  <2>11. ListedOnce(list)
    BY <2>1, <2>3, <2>5, <2>7, <2>10 DEF ListedOnce
  <2>12. Listed(list) = PendingKeys \ {k}
    <3>1. \A i \in 1 .. n - 1 : list[i] \in PendingKeys \ {k}
      BY <2>1, <2>2, <2>3, <2>5 DEF PendingKeys, ListedOnce
    <3>2. ASSUME NEW m \in 1 .. n, pending[m] # k PROVE pending[m] \in Listed(list)
      <4>1. PICK i \in 1 .. n - 1 : from(i) = m
        BY <2>2, <2>6, <3>2
      <4> QED BY <2>3, <2>10, <4>1 DEF Listed
    <3> QED BY <2>1, <2>10, <3>1, <3>2 DEF Listed, PendingKeys
  <2> QED BY <2>10, <2>11, <2>12
<1> QED BY <1>1, <1>2

(* A held key stays listed, or its records are forgotten; and so does every *)
(* other.                                                                  *)
LEMMA HoldFacts ==
  ASSUME pending \in Seq(Keys), ListedOnce(pending), NEW k \in Keys, Hold(k),
         held' \in [Keys -> SUBSET Bodies], forgotten \subseteq Bodies
  PROVE  /\ pending' \in Seq(Keys) /\ ListedOnce(pending')
         /\ forgotten \subseteq forgotten' /\ forgotten' \subseteq Bodies
         /\ \A h \in PendingKeys \cup {k} : h \in Listed(pending') \/ held'[h] \subseteq forgotten'
<1> DEFINE list == Append(pending, k)
           n == Len(pending)
<1>1. n \in Nat /\ DOMAIN pending = 1 .. n /\ \A i \in 1 .. n : pending[i] \in Keys
  BY LenProperties, ElementOfSeq
<1>2. /\ list \in Seq(Keys) /\ Len(list) = n + 1 /\ list[n + 1] = k
      /\ \A i \in 1 .. n : list[i] = pending[i]
  BY AppendProperties
<1>3. DOMAIN list = 1 .. n + 1
  BY <1>1, <1>2, LenProperties
<1>4. CASE k \in PendingKeys
  BY <1>4 DEF Hold, PendingKeys, Listed
<1>5. ASSUME k \notin PendingKeys PROVE ListedOnce(list) /\ Listed(list) = PendingKeys \cup {k}
  <2>1. \A i \in 1 .. n : list[i] # k
    BY <1>1, <1>2, <1>5 DEF PendingKeys
  <2> HIDE DEF list, n
  <2>2. ListedOnce(list)
    BY <1>1, <1>2, <1>3, <2>1 DEF ListedOnce
  <2>3. Listed(list) = PendingKeys \cup {k}
    BY <1>1, <1>2, <1>3 DEF Listed, PendingKeys
  <2> QED BY <2>2, <2>3
<1>6. CASE k \notin PendingKeys /\ n + 1 <= MaxHeld
  <2>1. pending' = list /\ forgotten' = forgotten
    BY <1>2, <1>6 DEF Hold
  <2> QED BY <1>2, <1>5, <1>6, <2>1
<1>7. CASE k \notin PendingKeys /\ ~ (n + 1 <= MaxHeld)
  <2>1. pending' = Tail(list) /\ forgotten' = forgotten \cup held'[Head(list)]
    BY <1>2, <1>7 DEF Hold
  <2>2. ListedOnce(list) /\ Listed(list) = PendingKeys \cup {k}
    BY <1>5, <1>7
  <2> HIDE DEF list, n
  <2>3. Head(list) = list[1] /\ list # <<>>
    BY <1>1, <1>2, <1>3
  <2>4. /\ Tail(list) \in Seq(Keys) /\ Len(Tail(list)) = n
        /\ \A i \in 1 .. n : Tail(list)[i] = list[i + 1]
    BY <1>1, <1>2, <2>3, HeadTailProperties
  <2>5. DOMAIN Tail(list) = 1 .. n
    BY <1>1, <2>4, LenProperties
  <2>6. ListedOnce(Tail(list))
    BY <1>1, <1>3, <2>2, <2>4, <2>5 DEF ListedOnce
  <2>7. Listed(list) \subseteq Listed(Tail(list)) \cup {list[1]}
    <3> SUFFICES ASSUME NEW i \in 1 .. n + 1, i # 1 PROVE list[i] \in Listed(Tail(list))
      BY <1>3 DEF Listed
    <3>1. i - 1 \in 1 .. n /\ (i - 1) + 1 = i
      BY <1>1
    <3> QED BY <2>4, <2>5, <3>1 DEF Listed
  <2>8. list[1] \in Keys
    BY <1>1, <1>2, <1>3, ElementOfSeq
  <2> QED BY <2>1, <2>2, <2>3, <2>4, <2>6, <2>7, <2>8
<1> QED BY <1>1, <1>2, <1>4, <1>6, <1>7

InStore(k, b) == k \in PendingKeys /\ b \in held[k]

(* HeldFor finds a key exactly for the records the store holds.            *)
LEMMA HeldForFacts ==
  ASSUME pending \in Seq(Keys), NEW b
  PROVE  /\ HeldFor(b) \in Keys \cup {NoKey}
         /\ HeldFor(b) # NoKey => InStore(HeldFor(b), b)
         /\ HeldFor(b) = NoKey => \A k : ~InStore(k, b)
<1> DEFINE hits == {i \in DOMAIN pending : b \in held[pending[i]]}
           first == CHOOSE i \in hits : \A n \in hits : i <= n
<1>1. /\ DOMAIN pending \subseteq Nat
      /\ \A i \in DOMAIN pending : pending[i] \in Keys /\ pending[i] # NoKey
  BY LenProperties, ElementOfSeq
<1>2. CASE hits = {}
  BY <1>2 DEF HeldFor, InStore, PendingKeys
<1>3. CASE hits # {}
  <2>1. \E i \in hits : \A n \in hits : i <= n
    BY <1>1, <1>3, Earliest
  <2>2. first \in hits
    BY <2>1
  <2>3. HeldFor(b) = pending[first]
    BY <1>3 DEF HeldFor
  <2> HIDE DEF first
  <2> QED BY <1>1, <2>2, <2>3 DEF InStore, PendingKeys
<1> QED BY <1>2, <1>3

StoreTypes ==
  /\ current \in [Drawers -> Keys \cup {NoKey}]
  /\ pending \in Seq(Keys)
  /\ held \in [Keys -> SUBSET Bodies]
  /\ used \in 0 .. MaxKeys
  /\ mishaps \subseteq Faults
  /\ forgotten \subseteq Bodies /\ strayed \subseteq Bodies

(* What an answer does to the store and to the drawer's session.           *)
LEMMA SettleFacts ==
  ASSUME StoreTypes, ListedOnce(pending),
         NEW d \in Drawers, current[d] \in Keys, body[d] \in Bodies, NEW a, Settle(d, a)
  PROVE  /\ current' \in [Drawers -> Keys \cup {NoKey}]
         /\ pending' \in Seq(Keys) /\ ListedOnce(pending')
         /\ held' \in [Keys -> SUBSET Bodies]
         /\ forgotten \subseteq forgotten' /\ forgotten' \subseteq Bodies
         /\ UnknownOutcome(a) =>
              /\ current' = current
              /\ \A k \in Keys \ {current[d]} : held'[k] = held[k]
              /\ held'[current[d]] \ {body[d]} = held[current[d]] \ {body[d]}
              /\ a # "conflict" => body[d] \in held'[current[d]]
              /\ \A k \in PendingKeys \cup {current[d]} :
                   k \in PendingKeys' \/ held'[k] \subseteq forgotten'
         /\ ~UnknownOutcome(a) =>
              /\ current' = [current EXCEPT ![d] = NoKey]
              /\ held' = held
              /\ PendingKeys' = PendingKeys \ {current[d]}
<1> DEFINE k == current[d]
           kept == IF a = "conflict" THEN held[k] \ {body[d]} ELSE held[k] \cup {body[d]}
<1>1. PendingKeys' = Listed(pending')
  BY DEF PendingKeys, Listed
<1>2. CASE ~UnknownOutcome(a)
  <2>1. /\ pending' = Without(k) /\ current' = [current EXCEPT ![d] = NoKey]
        /\ held' = held /\ forgotten' = forgotten
    BY <1>2 DEF Settle
  <2>2. pending' \in Seq(Keys) /\ ListedOnce(pending') /\ Listed(pending') = PendingKeys \ {k}
    BY <2>1, WithoutFacts DEF StoreTypes
  <2> QED BY <1>1, <1>2, <2>1, <2>2 DEF StoreTypes
<1>3. CASE UnknownOutcome(a)
  <2>1. held' = [held EXCEPT ![k] = kept] /\ current' = current
    BY <1>3 DEF Settle
  <2>2. /\ kept \subseteq Bodies /\ kept \ {body[d]} = held[k] \ {body[d]}
        /\ a # "conflict" => body[d] \in kept
    BY DEF StoreTypes
  <2>3. IF kept # {} THEN Hold(k) ELSE pending' = Without(k) /\ forgotten' = forgotten
    BY <1>3 DEF Settle
  <2> HIDE DEF kept
  <2>4. /\ held' \in [Keys -> SUBSET Bodies] /\ held'[k] = kept
        /\ \A h \in Keys \ {k} : held'[h] = held[h]
    BY <2>1, <2>2 DEF StoreTypes
  <2>5. CASE kept # {}
    <3>1. /\ pending' \in Seq(Keys) /\ ListedOnce(pending')
          /\ forgotten \subseteq forgotten' /\ forgotten' \subseteq Bodies
          /\ \A h \in PendingKeys \cup {k} : h \in Listed(pending') \/ held'[h] \subseteq forgotten'
      BY <2>3, <2>4, <2>5, HoldFacts DEF StoreTypes
    <3> QED BY <1>1, <1>3, <2>1, <2>2, <2>4, <3>1 DEF StoreTypes
  <2>6. CASE kept = {}
    <3>1. pending' \in Seq(Keys) /\ ListedOnce(pending') /\ Listed(pending') = PendingKeys \ {k}
      BY <2>3, <2>6, WithoutFacts DEF StoreTypes
    <3> QED BY <1>1, <1>3, <2>1, <2>2, <2>3, <2>4, <2>6, <3>1 DEF StoreTypes
  <2> QED BY <2>5, <2>6
<1> QED BY <1>2, <1>3

(* A drawer that waits has a record and a key; a form without a record has  *)
(* no key; and a drawer's request carries its session's key.               *)
WaitingHasKey == \A d \in waiting : body[d] \in Bodies /\ current[d] \in Keys
EmptyHasNoKey == \A d \in Drawers : body[d] = NoBody => current[d] = NoKey
AskedKey == \A j \in Jobs, d \in Drawers : Asks(j, d) => current[d] = job[j].key

StoreInv ==
  /\ SayInv
  /\ StoreTypes /\ ListedOnce(pending) /\ WaitingHasKey /\ EmptyHasNoKey /\ AskedKey

LEMMA StoreInvTypes == StoreInv => TypeOK
BY DEF StoreInv, SayInv, ServerTypes, CopiesTypes, StoreTypes, TypeOK

LEMMA StoreInvInit == Init => StoreInv
<1> SUFFICES ASSUME Init PROVE StoreInv
  OBVIOUS
<1>1. SayInv
  BY SayInvInit
<1>2. pending \in Seq(Keys) /\ ListedOnce(pending)
  BY DEF Init, ListedOnce
<1>3. MaxKeys \in Nat
  OBVIOUS
<1> QED
  BY <1>1, <1>2, <1>3
     DEF Init, StoreInv, StoreTypes, WaitingHasKey, EmptyHasNoKey, AskedKey, Asks

(* A step of the server moves its request on and leaves everything that     *)
(* the client has.                                                         *)
LEMMA ServerGoes ==
  ASSUME SayInv, NEW j \in Jobs, Server(j)
  PROVE  /\ UNCHANGED clientVars /\ mishaps' \subseteq mishaps \cup Faults
         /\ mishaps \subseteq mishaps'
         /\ job[j] # NoJob /\ job'[j] # NoJob
         /\ job'[j].key = job[j].key /\ job'[j].body = job[j].body
         /\ job'[j].drawer = job[j].drawer /\ job'[j].stage # "sent"
         /\ \A i \in Jobs \ {j} : job'[i] = job[i]
<1>1. /\ job[j] # NoJob /\ UNCHANGED clientVars
      /\ mishaps' \subseteq mishaps \cup Faults /\ mishaps \subseteq mishaps'
  BY DEF Server, Unauthorize, Reserve, Find, Commit, RefuseCommand, Throw, CommitUnacknowledged,
         Conclude, Crash, At, Strikes, ghostVars
<1>2. job[j].key \in Keys
  BY <1>1 DEF SayInv, ServerTypes, JobRow
<1>3. Find(j) => Replay(row[job[j].key], job[j].body) \in Answers
  BY <1>2 DEF Replay, Answers, SayInv, ServerTypes, KeyRow
<1>4. Conclude(j) => job[j].answer \in Answers
  BY DEF Conclude, SayInv, ServerSays, HandlerOutcome, Answers
<1>5. \E stage \in {"finding", "running", "executed", "answered"}, answer \in Answers \cup {"none"} :
        Goes(j, stage, answer)
  BY <1>3, <1>4
     DEF Server, Unauthorize, Reserve, Find, Commit, RefuseCommand, Throw, CommitUnacknowledged,
         Conclude, Crash, Answers
<1>6. PICK stage \in {"finding", "running", "executed", "answered"}, answer \in Answers \cup {"none"} :
        Goes(j, stage, answer)
  BY <1>5
<1> QED BY <1>1, <1>6, GoesFacts DEF SayInv

LEMMA StoreStep == StoreInv /\ [Next]_vars => StoreInv'
<1> SUFFICES ASSUME StoreInv, [Next]_vars PROVE StoreInv'
  OBVIOUS
<1> USE DEF StoreInv
<1>1. SayInv'
  BY SayStep
<1>2. ASSUME NEW d \in Drawers, NEW b \in Bodies, Enter(d, b) \/ Edit(d, b)
      PROVE  StoreInv'
  <2>1. /\ body' = [body EXCEPT ![d] = b] /\ UNCHANGED <<current, waiting, storeVars, used, job>>
        /\ UNCHANGED <<mishaps, strayed>>
    BY <1>2 DEF Enter, Edit, ghostVars
  <2>2. StoreTypes' /\ ListedOnce(pending)'
    BY <2>1 DEF StoreTypes, storeVars, ListedOnce
  <2>3. WaitingHasKey' /\ EmptyHasNoKey' /\ AskedKey'
    BY <2>1 DEF WaitingHasKey, EmptyHasNoKey, AskedKey, Asks, SayInv, ServerTypes
  <2> QED BY <1>1, <2>2, <2>3
<1>3. ASSUME NEW d \in Drawers, Close(d) PROVE StoreInv'
  <2>1. /\ body' = [body EXCEPT ![d] = NoBody] /\ current' = [current EXCEPT ![d] = NoKey]
        /\ d \notin waiting /\ UNCHANGED <<waiting, storeVars, used, job>>
        /\ UNCHANGED <<mishaps, strayed>>
    BY <1>3 DEF Close, ghostVars
  <2>2. StoreTypes' /\ ListedOnce(pending)'
    BY <2>1 DEF StoreTypes, storeVars, ListedOnce
  <2>3. \A j \in Jobs : ~Asks(j, d)
    BY <2>1 DEF SayInv, ClientHears, AskedWaits
  <2>4. WaitingHasKey' /\ EmptyHasNoKey' /\ AskedKey'
    BY <2>1, <2>3
       DEF WaitingHasKey, EmptyHasNoKey, AskedKey, Asks, SayInv, ServerTypes, CopiesTypes,
           StoreTypes
  <2> QED BY <1>1, <2>2, <2>4
<1>4. ASSUME NEW d \in Drawers, NEW j \in Jobs, Save(d, j) PROVE StoreInv'
  <2> DEFINE k == KeyFor(d)
             sent == [key |-> k, body |-> body[d], drawer |-> d, stage |-> "sent", answer |-> "none"]
  <2>1. /\ k \in Keys /\ current' = [current EXCEPT ![d] = k] /\ waiting' = waiting \cup {d}
        /\ used' = (IF k > used THEN k ELSE used)
        /\ job' = [job EXCEPT ![j] = sent]
        /\ body[d] # NoBody /\ UNCHANGED <<body, storeVars>> /\ mishaps' = mishaps
        /\ strayed' \subseteq strayed \cup {body[d]}
    BY <1>4 DEF Save, ghostVars
  <2>2. sent # NoJob /\ sent.key = k /\ sent.drawer = d /\ d \notin waiting
    <3>1. sent \in JobRow
      BY <1>4 DEF Save, JobRow, SayInv, ServerTypes
    <3> QED BY <1>4, <3>1 DEF Save
  <2> HIDE DEF k, sent
  <2>3. StoreTypes' /\ ListedOnce(pending)'
    <3>1. body[d] \in Bodies
      BY <2>1 DEF SayInv, ServerTypes
    <3> QED BY <2>1, <3>1 DEF StoreTypes, storeVars, ListedOnce, Keys
  <2>4. \A i \in Jobs : ~Asks(i, d)
    BY <2>2 DEF SayInv, ClientHears, AskedWaits
  <2>5. \A i \in Jobs, c \in Drawers : Asks(i, c)' => (i = j /\ c = d) \/ (i # j /\ c # d /\ Asks(i, c))
    BY <2>1, <2>2, <2>4 DEF Asks, SayInv, ServerTypes
  <2>6. WaitingHasKey' /\ EmptyHasNoKey'
    BY <2>1 DEF WaitingHasKey, EmptyHasNoKey, SayInv, ServerTypes, CopiesTypes, StoreTypes
  <2>7. AskedKey'
    BY <2>1, <2>2, <2>5 DEF AskedKey, SayInv, ServerTypes, StoreTypes
  <2> QED BY <1>1, <2>3, <2>6, <2>7
(* An answer, or none, for the drawer of request j.                        *)
<1>5. ASSUME NEW j \in Jobs, NEW d \in Drawers, Asks(j, d), NEW a, Settle(d, a),
             mishaps' = mishaps,
             \A i \in Jobs, c \in Drawers : Asks(i, c)' => i # j /\ Asks(i, c) /\ job'[i] = job[i]
      PROVE  StoreInv'
  <2>1. d \in waiting /\ current[d] \in Keys /\ body[d] \in Bodies
    BY <1>5 DEF SayInv, ClientHears, AskedWaits, WaitingHasKey
  <2>2. /\ waiting' = waiting \ {d} /\ UNCHANGED <<used, strayed>>
        /\ body' = IF a = "saved" THEN [body EXCEPT ![d] = NoBody] ELSE body
    BY <1>5 DEF Settle
  <2>3. StoreTypes' /\ ListedOnce(pending)'
    BY <1>5, <2>1, <2>2, SettleFacts DEF StoreTypes
  <2>4. \A c \in Drawers \ {d} : current'[c] = current[c] /\ body'[c] = body[c]
    <3>1. body'[d] \in {NoBody, body[d]} /\ \A c \in Drawers \ {d} : body'[c] = body[c]
      BY <2>2 DEF SayInv, ServerTypes
    <3>2. current' = current \/ current' = [current EXCEPT ![d] = NoKey]
      BY <1>5, <2>1, SettleFacts
    <3> QED BY <3>1, <3>2 DEF StoreTypes
  <2>5. body'[d] = NoBody => current'[d] = NoKey
    <3>1. a = "saved" => ~UnknownOutcome(a)
      BY DEF UnknownOutcome
    <3> QED BY <1>5, <2>1, <2>2, <3>1, SettleFacts DEF StoreTypes
  <2>6. \A i \in Jobs, c \in Drawers : Asks(i, c)' => c # d
    BY <1>5 DEF SayInv, ClientHears, OneAsk
  <2>7. WaitingHasKey' /\ EmptyHasNoKey'
    BY <2>2, <2>4, <2>5 DEF WaitingHasKey, EmptyHasNoKey, SayInv, CopiesTypes
  <2>8. AskedKey'
    BY <1>5, <2>4, <2>6 DEF AskedKey
  <2> QED BY <1>1, <2>3, <2>7, <2>8
<1>6. ASSUME NEW j \in Jobs, Deliver(j) PROVE StoreInv'
  <2>1. job' = [job EXCEPT ![j] = NoJob] /\ mishaps' = mishaps /\ job[j] # NoJob
    BY <1>6 DEF Deliver, ghostVars
  <2>2. \A i \in Jobs, c \in Drawers : Asks(i, c)' => i # j /\ Asks(i, c) /\ job'[i] = job[i]
    BY <2>1 DEF Asks, SayInv, ServerTypes
  <2>3. CASE job[j].drawer = NoDrawer
    <3>1. UNCHANGED clientVars
      BY <1>6, <2>3 DEF Deliver
    <3> QED
      BY <1>1, <2>1, <2>2, <3>1
         DEF clientVars, storeVars, StoreTypes, ListedOnce, WaitingHasKey, EmptyHasNoKey, AskedKey
  <2>4. CASE job[j].drawer # NoDrawer
    <3>1. PICK d \in Drawers : d = job[j].drawer
      BY <2>1, <2>4 DEF SayInv, ServerTypes, JobRow
    <3>2. Settle(d, job[j].answer) /\ Asks(j, d)
      BY <1>6, <2>1, <2>4, <3>1 DEF Deliver, Asks
    <3> QED BY <1>5, <2>1, <2>2, <3>2
  <2> QED BY <2>3, <2>4
<1>7. ASSUME NEW j \in Jobs, Drop(j) PROVE StoreInv'
  <2>1. PICK d \in Drawers : d = job[j].drawer
    BY <1>7 DEF Drop, SayInv, ServerTypes, JobRow
  <2>2. Settle(d, "lost") /\ Asks(j, d) /\ mishaps' = mishaps
    BY <1>7, <2>1 DEF Drop, Asks, ghostVars
  <2>3. \A i \in Jobs, c \in Drawers : Asks(i, c)' => i # j /\ Asks(i, c) /\ job'[i] = job[i]
    <3>1. job[j] \in JobRow /\ job' = [job EXCEPT ![j] = [job[j] EXCEPT !.drawer = NoDrawer]]
      BY <1>7 DEF Drop, SayInv, ServerTypes
    <3>2. [job[j] EXCEPT !.drawer = NoDrawer].drawer = NoDrawer
      BY <3>1 DEF JobRow
    <3> QED BY <3>1, <3>2 DEF Asks, SayInv, ServerTypes
  <2> QED BY <1>5, <2>2, <2>3
<1>8. ASSUME NEW j \in Jobs, Server(j) PROVE StoreInv'
  <2>1. /\ UNCHANGED clientVars /\ mishaps' \subseteq mishaps \cup Faults
        /\ \A i \in Jobs : job'[i] # NoJob =>
             job[i] # NoJob /\ job'[i].drawer = job[i].drawer /\ job'[i].key = job[i].key
    BY <1>8, ServerGoes
  <2> QED
    BY <1>1, <2>1
       DEF clientVars, storeVars, StoreTypes, ListedOnce, WaitingHasKey, EmptyHasNoKey, AskedKey,
           Asks
<1>9. CASE UNCHANGED vars
  BY <1>1, <1>9
     DEF vars, clientVars, storeVars, ghostVars, StoreTypes, ListedOnce, WaitingHasKey,
         EmptyHasNoKey, AskedKey, Asks
<1> QED
  BY <1>2, <1>3, <1>4, <1>6, <1>7, <1>8, <1>9 DEF Next, Operator

(* Every state is well typed: in particular an answer or its loss only      *)
(* settles a drawer that has a key, so nothing but keys enters the store    *)
(* (submitKeys.ts:88).                                                     *)
THEOREM SaveTypes == Spec => []TypeOK
BY StoreInvInit, StoreStep, StoreInvTypes, PTL DEF Spec
-----------------------------------------------------------------------------
(* A record and its keys, while nothing but crashes happens.  A key that is  *)
(* decided, by a refusal or by another record, can land a record no more;    *)
(* of the others at most one has a request on its way or a reservation.     *)

OnlyCrashes == mishaps \subseteq {"crash"}

Dead(k, b) ==
  row[k] # NoRow /\ (row[k].answer = "refused" \/ (row[k].answer = "saved" /\ row[k].body # b))

Sent(k, b) == \E j \in Jobs : At(j, "sent") /\ job[j].key = k /\ job[j].body = b
Recorded(k, b) == row[k] # NoRow /\ row[k].body = b
Awaited(k, b) == \E d \in waiting : body[d] = b /\ current[d] = k

(* The key may still land the record; or the client keeps it for the record. *)
Claims(k, b) == ~Dead(k, b) /\ (Sent(k, b) \/ Recorded(k, b))
Attached(k, b) == Claims(k, b) \/ (~Dead(k, b) /\ (b \in held[k] \/ Awaited(k, b)))

(* The operator does not know of it yet, and its key was not let go.       *)
Unknown(b) == b \notin saved /\ b \notin forgotten

(* A record that strayed may have two keys, and only that one.             *)
OneClaim ==
  \A b \in Bodies, h, k \in Keys :
    b \notin forgotten \cup strayed /\ Claims(h, b) /\ Claims(k, b) => h = k

OneKey ==
  \A b \in Bodies, h, k \in Keys :
    Unknown(b) /\ b \notin strayed /\ Attached(h, b) /\ Attached(k, b) => h = k

Findable ==
  \A b \in Bodies, k \in Keys : Unknown(b) /\ Claims(k, b) => InStore(k, b) \/ Awaited(k, b)

StillHeld ==
  \A b \in Bodies, k \in Keys : Unknown(b) /\ b \in held[k] /\ ~Dead(k, b) => k \in PendingKeys

ClientFound == OneClaim /\ OneKey /\ Findable /\ StillHeld

OwnUndecided == \A j \in Jobs, k \in Keys : Owns(j, k) => row[k].answer = "none"

AnswersKnown ==
  \A j \in Jobs : At(j, "answered") =>
    /\ job[j].answer \in {"saved", "refused", "failed", "inProgress", "conflict"}
    /\ job[j].answer = "saved" =>
         Recorded(job[j].key, job[j].body) /\ row[job[j].key].answer = "saved"
    /\ job[j].answer = "refused" => row[job[j].key] # NoRow /\ row[job[j].key].answer = "refused"
    /\ job[j].answer = "conflict" => Dead(job[j].key, job[j].body)

LandedStands == \A k \in Keys : landed[k] > 0 => row[k] # NoRow /\ row[k].answer # "refused"

CopyHasKey ==
  \A b \in Bodies : copies[b] > 0 => \E k \in Keys : landed[k] > 0 /\ Recorded(k, b)

CopiedOnce == \A b \in Bodies : b \notin forgotten \cup strayed => copies[b] <= 1

ServerFound == OwnUndecided /\ AnswersKnown /\ LandedStands /\ CopyHasKey /\ CopiedOnce

FoundInv == KeyInv /\ StoreInv /\ (OnlyCrashes => ServerFound /\ ClientFound)

LEMMA FoundInvInit == Init => FoundInv
<1> SUFFICES ASSUME Init PROVE FoundInv
  OBVIOUS
<1>1. KeyInv /\ StoreInv
  BY KeyInvInit, StoreInvInit
<1>2. ServerFound
  BY DEF Init, ServerFound, OwnUndecided, AnswersKnown, LandedStands, CopyHasKey, CopiedOnce,
         Owns, At
<1>3. \A k \in Keys, b \in Bodies : ~Attached(k, b)
  BY DEF Init, Attached, Claims, Sent, Recorded, Awaited, At
<1>4. ClientFound
  BY <1>3 DEF Init, ClientFound, OneClaim, OneKey, Findable, StillHeld, Attached
<1> QED BY <1>1, <1>2, <1>4 DEF FoundInv

(* What the server does to the rows: a decided one stands, one that landed  *)
(* stays, and a reservation is made by a request that was sent.             *)
LEMMA ServerRows ==
  ASSUME KeyInv, SayInv, OwnUndecided, NEW j \in Jobs, Server(j), "commit" \notin mishaps
  PROVE  /\ \A k \in Keys : row[k] # NoRow /\ row[k].answer # "none" => row'[k] = row[k]
         /\ \A k \in Keys : row[k] # NoRow /\ landed[k] > 0 =>
              row'[k] # NoRow /\ row'[k].body = row[k].body
         /\ \A k \in Keys, b \in Bodies : Recorded(k, b)' => Recorded(k, b) \/ Sent(k, b)
         /\ \A k \in Keys, b \in Bodies : Sent(k, b)' => Sent(k, b)
         /\ OwnUndecided'
<1> DEFINE k0 == job[j].key
<1>1. /\ job[j] # NoJob /\ job'[j] # NoJob /\ job'[j].key = job[j].key
      /\ job'[j].body = job[j].body /\ job'[j].stage # "sent"
      /\ \A i \in Jobs \ {j} : job'[i] = job[i]
  BY ServerGoes
<1>2. job[j] \in JobRow /\ k0 \in Keys /\ job[j].body \in Bodies
  BY <1>1 DEF KeyInv, ServerTypes, JobRow
<1>3. \A k \in Keys, b \in Bodies : Sent(k, b)' => Sent(k, b)
  BY <1>1 DEF Sent, At
<1>4. ASSUME row' = row, \A k \in Keys : Owns(j, k)' => Owns(j, k)
      PROVE  /\ \A k \in Keys, b \in Bodies : Recorded(k, b)' => Recorded(k, b)
             /\ OwnUndecided'
  BY <1>1, <1>4 DEF Recorded, OwnUndecided, Owns, At
<1>5. ASSUME NEW stage \in {"finding", "answered"}, NEW answer \in Answers \cup {"none"},
             Goes(j, stage, answer)
      PROVE  \A k \in Keys : ~Owns(j, k)'
  <2>1. job'[j].stage = stage
    BY <1>1, <1>5, GoesFacts DEF KeyInv
  <2> QED BY <2>1 DEF Owns, At
<1>6. CASE Unauthorize(j) \/ Crash(j)
  <2>1. row' = row /\ \E answer \in Answers : Goes(j, "answered", answer)
    BY <1>6 DEF Unauthorize, Crash, Answers
  <2> QED BY <1>3, <1>4, <1>5, <2>1
<1>7. CASE Find(j)
  <2>1. Replay(row[k0], job[j].body) \in Answers
    BY <1>2 DEF Replay, Answers, KeyInv, ServerTypes, KeyRow
  <2>2. row' = row /\ \E answer \in Answers : Goes(j, "answered", answer)
    BY <1>7, <2>1 DEF Find
  <2> QED BY <1>3, <1>4, <1>5, <2>2
<1>8. CASE Commit(j) \/ CommitUnacknowledged(j) \/ RefuseCommand(j) \/ Throw(j)
  <2>1. row' = row /\ At(j, "running")
    BY <1>8 DEF Commit, CommitUnacknowledged, RefuseCommand, Throw
  <2> QED BY <1>1, <1>3, <1>4, <2>1 DEF Owns
<1>9. CASE Reserve(j) /\ row[k0] # NoRow
  <2>1. row' = row /\ Goes(j, "finding", "none")
    BY <1>9 DEF Reserve
  <2> QED BY <1>3, <1>4, <1>5, <2>1
<1>10. CASE Reserve(j) /\ row[k0] = NoRow
  <2> DEFINE new == [body |-> job[j].body, answer |-> "none"]
  <2>1. row' = [row EXCEPT ![k0] = new] /\ At(j, "sent")
    BY <1>10 DEF Reserve
  <2>2. new.body = job[j].body /\ new.answer = "none"
    OBVIOUS
  <2> HIDE DEF new
  <2>3. row'[k0] = new /\ \A k \in Keys \ {k0} : row'[k] = row[k]
    BY <1>2, <2>1 DEF KeyInv, ServerTypes
  <2>4. Sent(k0, job[j].body)
    BY <2>1 DEF Sent
  <2>5. \A k \in Keys, b \in Bodies : Recorded(k, b)' => Recorded(k, b) \/ Sent(k, b)
    BY <2>2, <2>3, <2>4 DEF Recorded
  <2>6. OwnUndecided'
    <3> SUFFICES ASSUME NEW i \in Jobs, NEW k \in Keys, Owns(i, k)' PROVE row'[k].answer = "none"
      BY DEF OwnUndecided
    <3>1. CASE k = k0
      BY <2>2, <2>3, <3>1
    <3>2. CASE k # k0
      <4>1. i # j /\ Owns(i, k)
        BY <1>1, <3>2 DEF Owns, At
      <4> QED BY <2>3, <3>2, <4>1 DEF OwnUndecided
    <3> QED BY <3>1, <3>2
  <2> QED BY <1>3, <1>10, <2>3, <2>5, <2>6
<1>11. CASE Conclude(j)
  <2>1. /\ At(j, "executed") /\ row' = [row EXCEPT ![k0] = Concluded(row[k0], job[j].answer)]
        /\ Goes(j, "answered", job[j].answer)
    BY <1>11 DEF Conclude
  <2>2. Owns(j, k0) /\ job[j].answer \in {"saved", "refused", "failed"}
    BY <2>1 DEF Owns, KeyInv, HandlerOutcome
  <2>3. row[k0] \in KeyRow /\ row[k0].answer = "none"
    BY <1>2, <2>2 DEF KeyInv, OwnerReserved, ServerTypes, OwnUndecided
  <2> DEFINE new == Concluded(row[k0], job[j].answer)
  <2>4. \/ new = NoRow /\ job[j].answer = "failed"
        \/ new # NoRow /\ new.body = row[k0].body
    <3>1. CASE job[j].answer = "failed"
      BY <3>1 DEF Concluded
    <3>2. CASE job[j].answer # "failed"
      <4>1. new = [row[k0] EXCEPT !.answer = job[j].answer]
        BY <3>2 DEF Concluded
      <4>2. new \in KeyRow /\ new.body = row[k0].body
        BY <2>2, <2>3, <3>2, <4>1 DEF KeyRow
      <4> QED BY <4>2
    <3> QED BY <3>1, <3>2
  <2> HIDE DEF new
  <2>5. row'[k0] = new /\ \A k \in Keys \ {k0} : row'[k] = row[k]
    BY <1>2, <2>1 DEF KeyInv, ServerTypes, new
  <2>6. landed[k0] > 0 => job[j].answer = "saved"
    BY <1>2, <2>2 DEF KeyInv, LandedIsReserved
  <2>7. \A k \in Keys : ~Owns(j, k)'
    BY <1>5, <2>1, <2>2 DEF Answers
  <2>8. \A i \in Jobs, k \in Keys : Owns(i, k)' => i # j /\ k # k0 /\ Owns(i, k)
    BY <1>1, <1>2, <2>2, <2>7 DEF Owns, At, KeyInv, OneOwner
  <2>9. OwnUndecided'
    BY <2>5, <2>8 DEF OwnUndecided
  <2>10. \A k \in Keys, b \in Bodies : Recorded(k, b)' => Recorded(k, b)
    BY <2>3, <2>4, <2>5 DEF Recorded
  <2> QED BY <1>3, <2>3, <2>4, <2>5, <2>6, <2>9, <2>10
<1> QED BY <1>6, <1>7, <1>8, <1>9, <1>10, <1>11 DEF Server

LEMMA DeadStays ==
  ASSUME \A k \in Keys : row[k] # NoRow /\ row[k].answer # "none" => row'[k] = row[k]
  PROVE  \A k \in Keys, b \in Bodies : Dead(k, b) => Dead(k, b)'
BY DEF Dead

(* What the server answers is what the key's row says from then on.        *)
LEMMA ServerAnswers ==
  ASSUME KeyInv, SayInv, OwnUndecided, AnswersKnown, NEW j \in Jobs, Server(j), OnlyCrashes'
  PROVE  AnswersKnown'
<1> DEFINE k0 == job[j].key
           b0 == job[j].body
<1>1. /\ job[j] # NoJob /\ job'[j] # NoJob /\ job'[j].key = k0 /\ job'[j].body = b0
      /\ \A i \in Jobs \ {j} : job'[i] = job[i]
      /\ mishaps \subseteq mishaps'
  BY ServerGoes
<1>2. job[j] \in JobRow /\ k0 \in Keys /\ b0 \in Bodies /\ (row[k0] = NoRow \/ row[k0] \in KeyRow)
  BY <1>1 DEF KeyInv, ServerTypes, JobRow
<1>3. \A k \in Keys : row[k] # NoRow /\ row[k].answer # "none" => row'[k] = row[k]
  BY <1>1, ServerRows DEF OnlyCrashes
<1>4. ASSUME NEW i \in Jobs \ {j}, At(i, "answered")'
      PROVE  /\ job'[i].answer \in {"saved", "refused", "failed", "inProgress", "conflict"}
             /\ job'[i].answer = "saved" =>
                  Recorded(job[i].key, job[i].body)' /\ row'[job[i].key].answer = "saved"
             /\ job'[i].answer = "refused" =>
                  row'[job[i].key] # NoRow /\ row'[job[i].key].answer = "refused"
             /\ job'[i].answer = "conflict" => Dead(job[i].key, job[i].body)'
  <2>1. job'[i] = job[i] /\ At(i, "answered")
    BY <1>1, <1>4 DEF At
  <2>2. job[i].key \in Keys /\ job[i].body \in Bodies
    BY <2>1 DEF At, KeyInv, ServerTypes, JobRow
  <2>3. /\ job[i].answer \in {"saved", "refused", "failed", "inProgress", "conflict"}
        /\ job[i].answer = "saved" =>
             Recorded(job[i].key, job[i].body) /\ row[job[i].key].answer = "saved"
        /\ job[i].answer = "refused" =>
             row[job[i].key] # NoRow /\ row[job[i].key].answer = "refused"
        /\ job[i].answer = "conflict" => Dead(job[i].key, job[i].body)
    BY <2>1 DEF AnswersKnown
  <2>4. row[job[i].key] # NoRow /\ row[job[i].key].answer # "none" =>
          row'[job[i].key] = row[job[i].key]
    BY <1>3, <2>2
  <2> QED BY <2>1, <2>3, <2>4 DEF Recorded, Dead
(* What request j itself is answered.                                      *)
<1>5. ASSUME At(j, "answered")'
      PROVE  /\ job'[j].answer \in {"saved", "refused", "failed", "inProgress", "conflict"}
             /\ job'[j].answer = "saved" => Recorded(k0, b0)' /\ row'[k0].answer = "saved"
             /\ job'[j].answer = "refused" => row'[k0] # NoRow /\ row'[k0].answer = "refused"
             /\ job'[j].answer = "conflict" => Dead(k0, b0)'
  <2>1. ASSUME NEW stage \in {"finding", "running", "executed"}, NEW answer \in Answers \cup {"none"},
               Goes(j, stage, answer)
        PROVE  FALSE
    <3>1. job'[j].stage = stage
      BY <1>1, <2>1, GoesFacts DEF KeyInv
    <3> QED BY <1>5, <3>1 DEF At
  <2>2. ASSUME NEW answer \in Answers, Goes(j, "answered", answer) PROVE job'[j].answer = answer
    BY <1>1, <2>2, GoesFacts DEF KeyInv
  <2>3. CASE Unauthorize(j) \/ CommitUnacknowledged(j)
    BY <2>3 DEF Unauthorize, CommitUnacknowledged, Strikes, OnlyCrashes
  <2>4. CASE Reserve(j) \/ Commit(j) \/ RefuseCommand(j) \/ Throw(j)
    BY <2>1, <2>4 DEF Reserve, Commit, RefuseCommand, Throw, Answers
  <2>5. CASE Crash(j)
    <3>1. job'[j].answer = "failed"
      BY <2>2, <2>5 DEF Crash, Answers
    <3> QED BY <3>1
  <2>6. CASE Find(j)
    <3> DEFINE r == row[k0]
               a == Replay(r, b0)
    <3>1. a \in Answers /\ row' = row
      BY <1>2, <2>6 DEF Find, Replay, Answers, KeyRow
    <3>2. job'[j].answer = a
      BY <2>2, <2>6, <3>1 DEF Find
    <3>3. /\ a \in {"saved", "refused", "inProgress", "conflict"}
          /\ a \in {"saved", "refused"} => r # NoRow /\ r.body = b0 /\ r.answer = a
          /\ a = "conflict" => r # NoRow /\ r.answer \in {"saved", "refused"} /\ r.body # b0
      BY <1>2 DEF Replay, KeyRow
    <3> HIDE DEF a
    <3> QED BY <1>1, <3>1, <3>2, <3>3 DEF Recorded, Dead
  <2>7. CASE Conclude(j)
    <3> DEFINE a == job[j].answer
    <3>1. /\ At(j, "executed") /\ row' = [row EXCEPT ![k0] = Concluded(row[k0], a)]
          /\ Goes(j, "answered", a)
      BY <2>7 DEF Conclude
    <3>2. Owns(j, k0) /\ a \in {"saved", "refused", "failed"}
      BY <3>1 DEF Owns, KeyInv, HandlerOutcome
    <3>3. row[k0] \in KeyRow /\ row[k0] # NoRow /\ row[k0].body = b0
      BY <1>2, <3>2 DEF SayInv, ServerSays, OwnerBody
    <3>4. job'[j].answer = a
      BY <2>2, <3>1, <3>2 DEF Answers
    <3> HIDE DEF a
    <3>5. CASE a = "failed"
      BY <3>4, <3>5
    <3>6. CASE a # "failed"
      <4>1. row'[k0] = [row[k0] EXCEPT !.answer = a]
        BY <1>2, <3>1, <3>6 DEF Concluded, KeyInv, ServerTypes
      <4>2. row'[k0] \in KeyRow /\ row'[k0].body = b0 /\ row'[k0].answer = a
        BY <3>2, <3>3, <3>6, <4>1 DEF KeyRow
      <4> QED BY <1>1, <3>2, <3>4, <3>6, <4>2 DEF Recorded
    <3> QED BY <3>5, <3>6
  <2> QED BY <2>3, <2>4, <2>5, <2>6, <2>7 DEF Server
<1> QED BY <1>1, <1>4, <1>5 DEF AnswersKnown

(* A commit lands a record under the one key that claims it: no earlier     *)
(* commit can have landed it.                                              *)
LEMMA ServerLands ==
  ASSUME KeyInv, SayInv, ServerFound, OneClaim, NEW j \in Jobs, Server(j), OnlyCrashes'
  PROVE  LandedStands' /\ CopyHasKey' /\ CopiedOnce'
<1> USE DEF ServerFound
<1> DEFINE k0 == job[j].key
           b0 == job[j].body
<1>1. /\ job[j] # NoJob /\ UNCHANGED clientVars /\ mishaps \subseteq mishaps'
      /\ "commit" \notin mishaps'
  BY ServerGoes DEF OnlyCrashes
<1>2. job[j] \in JobRow /\ k0 \in Keys /\ b0 \in Bodies
  BY <1>1 DEF KeyInv, ServerTypes, JobRow
<1>3. /\ \A k \in Keys : row[k] # NoRow /\ row[k].answer # "none" => row'[k] = row[k]
      /\ \A k \in Keys : row[k] # NoRow /\ landed[k] > 0 =>
           row'[k] # NoRow /\ row'[k].body = row[k].body
  BY <1>1, ServerRows
<1>4. landed \in [Keys -> Nat] /\ copies \in [Bodies -> Nat]
  BY DEF KeyInv, ServerTypes, SayInv, CopiesTypes
<1>5. forgotten' = forgotten /\ strayed' = strayed
  BY <1>1 DEF clientVars, storeVars
<1>6. CASE Commit(j)
  <2>1. /\ At(j, "running") /\ row' = row
        /\ landed' = [landed EXCEPT ![k0] = @ + 1] /\ copies' = [copies EXCEPT ![b0] = @ + 1]
    BY <1>6 DEF Commit, Land
  <2>2. Owns(j, k0)
    BY <2>1 DEF Owns
  <2>3. row[k0] # NoRow /\ row[k0].body = b0 /\ row[k0].answer = "none" /\ landed[k0] = 0
    BY <1>1, <1>2, <1>4, <2>1, <2>2
       DEF SayInv, ServerSays, OwnerBody, OwnUndecided, KeyInv, LandedIsReserved, At
  <2>4. /\ landed'[k0] = 1 /\ copies'[b0] = copies[b0] + 1
        /\ \A k \in Keys \ {k0} : landed'[k] = landed[k]
        /\ \A b \in Bodies \ {b0} : copies'[b] = copies[b]
    BY <1>2, <1>4, <2>1, <2>3
  <2>5. LandedStands'
    BY <2>1, <2>3, <2>4 DEF LandedStands
  <2>6. CopyHasKey'
    <3> SUFFICES ASSUME NEW b \in Bodies, copies'[b] > 0
                 PROVE  \E k \in Keys : landed'[k] > 0 /\ Recorded(k, b)'
      BY DEF CopyHasKey
    <3>1. CASE b = b0
      BY <1>2, <2>1, <2>3, <2>4, <3>1 DEF Recorded
    <3>2. CASE b # b0
      <4>1. PICK k \in Keys : landed[k] > 0 /\ Recorded(k, b)
        BY <2>4, <3>2 DEF CopyHasKey
      <4>2. k # k0
        BY <2>3, <4>1
      <4> QED BY <2>1, <2>4, <4>1, <4>2 DEF Recorded
    <3> QED BY <3>1, <3>2
  <2>7. b0 \notin forgotten \cup strayed => copies[b0] = 0
    <3>1. SUFFICES ASSUME b0 \notin forgotten \cup strayed, copies[b0] # 0 PROVE FALSE
      OBVIOUS
    <3>2. PICK k \in Keys : landed[k] > 0 /\ Recorded(k, b0)
      BY <1>2, <1>4, <3>1 DEF CopyHasKey
    <3>3. Claims(k, b0)
      BY <3>2 DEF Claims, Dead, Recorded, LandedStands
    <3>4. Claims(k0, b0)
      BY <2>3 DEF Claims, Dead, Recorded
    <3>5. k = k0
      BY <1>2, <3>1, <3>3, <3>4 DEF OneClaim
    <3> QED BY <2>3, <3>2, <3>5
  <2>8. CopiedOnce'
    BY <1>2, <1>4, <1>5, <2>4, <2>7 DEF CopiedOnce
  <2> QED BY <2>5, <2>6, <2>8
<1>7. CASE ~Commit(j)
  <2>1. UNCHANGED <<landed, copies>>
    BY <1>7 DEF Server, Unauthorize, Reserve, Find, RefuseCommand, Throw, CommitUnacknowledged,
         Conclude, Crash, ghostVars, Strikes, OnlyCrashes
  <2>2. CopyHasKey'
    BY <1>3, <2>1 DEF CopyHasKey, Recorded
  <2>3. LandedStands'
    <3> SUFFICES ASSUME NEW k \in Keys, landed[k] > 0
                 PROVE  row'[k] # NoRow /\ row'[k].answer # "refused"
      BY <2>1 DEF LandedStands
    <3>1. row[k] # NoRow /\ row[k].answer # "refused" /\ row'[k] # NoRow
      BY <1>3 DEF LandedStands
    <3>2. CASE Conclude(j) /\ k = k0
      <4>1. At(j, "executed") /\ row' = [row EXCEPT ![k0] = Concluded(row[k0], job[j].answer)]
        BY <3>2 DEF Conclude
      <4>2. job[j].answer = "saved"
        BY <1>1, <3>2, <4>1 DEF KeyInv, LandedIsReserved, Owns
      <4>3. row[k0] \in KeyRow
        BY <1>2, <3>1, <3>2 DEF KeyInv, ServerTypes
      <4>4. row'[k0] = [row[k0] EXCEPT !.answer = "saved"]
        BY <1>2, <4>1, <4>2 DEF Concluded, KeyInv, ServerTypes
      <4>5. row'[k0].answer = "saved"
        BY <4>3, <4>4 DEF KeyRow
      <4> QED BY <3>1, <3>2, <4>5
    <3>3. CASE ~(Conclude(j) /\ k = k0)
      <4>1. row'[k] = row[k]
        BY <1>2, <1>7, <3>1, <3>3
           DEF Server, Unauthorize, Reserve, Find, RefuseCommand, Throw, CommitUnacknowledged,
               Conclude, Crash, KeyInv, ServerTypes
      <4> QED BY <3>1, <4>1
    <3> QED BY <3>2, <3>3
  <2>4. CopiedOnce'
    BY <1>5, <2>1 DEF CopiedOnce
  <2> QED BY <2>2, <2>3, <2>4
<1> QED BY <1>6, <1>7

(* A step after which no key claims or is attached to more than before.     *)
LEMMA NothingAttached ==
  ASSUME ClientFound, saved \subseteq saved', UNCHANGED <<storeVars, strayed>>,
         \A k \in Keys, b \in Bodies : Dead(k, b) => Dead(k, b)',
         \A k \in Keys, b \in Bodies : Claims(k, b)' => Claims(k, b),
         \A k \in Keys, b \in Bodies : Awaited(k, b)' = Awaited(k, b)
  PROVE  ClientFound'
<1>1. /\ forgotten' = forgotten /\ held' = held /\ PendingKeys' = PendingKeys
      /\ \A b \in Bodies : Unknown(b)' => Unknown(b)
      /\ \A k \in Keys, b \in Bodies : InStore(k, b)' = InStore(k, b)
  BY DEF storeVars, PendingKeys, InStore, Unknown
<1>2. \A k \in Keys, b \in Bodies : Attached(k, b)' => Attached(k, b)
  BY <1>1 DEF Attached
<1>3. OneClaim' /\ OneKey'
  BY <1>1, <1>2 DEF ClientFound, OneClaim, OneKey
<1>4. Findable'
  BY <1>1 DEF ClientFound, Findable
<1>5. StillHeld'
  BY <1>1 DEF ClientFound, StillHeld
<1> QED BY <1>3, <1>4, <1>5 DEF ClientFound

(* A step that attaches one record to one key, when that is the only key    *)
(* the record may have, or the record strays.                              *)
LEMMA OneAttached ==
  ASSUME OneClaim, OneKey, UNCHANGED <<row, saved, forgotten>>, strayed \subseteq strayed',
         NEW k \in Keys, NEW b \in Bodies, b \notin saved,
         \A h \in Keys, c \in Bodies : Claims(h, c)' => Claims(h, c) \/ (h = k /\ c = b),
         \A h \in Keys, c \in Bodies : Attached(h, c)' => Attached(h, c) \/ (h = k /\ c = b),
         Unknown(b) /\ b \notin strayed' /\ ~Dead(k, b) => \A h \in Keys : Attached(h, b) => h = k
  PROVE  OneClaim' /\ OneKey'
<1>1. /\ \A h \in Keys, c \in Bodies : Claims(h, c)' => ~Dead(h, c)
      /\ \A h \in Keys, c \in Bodies : Attached(h, c)' => ~Dead(h, c)
      /\ \A h \in Keys, c \in Bodies : Claims(h, c) => Attached(h, c)
      /\ \A c \in Bodies : Unknown(c)' = Unknown(c)
  BY DEF Claims, Attached, Dead, Unknown
<1>2. OneClaim'
  <2> SUFFICES ASSUME NEW c \in Bodies, NEW g \in Keys, NEW h \in Keys,
                      c \notin forgotten \cup strayed', Claims(g, c)', Claims(h, c)'
               PROVE  g = h
    BY DEF OneClaim
  <2>1. CASE c = b
    BY <1>1, <2>1 DEF OneClaim, Unknown
  <2>2. CASE c # b
    BY <2>2 DEF OneClaim
  <2> QED BY <2>1, <2>2
<1>3. OneKey'
  <2> SUFFICES ASSUME NEW c \in Bodies, NEW g \in Keys, NEW h \in Keys,
                      Unknown(c), c \notin strayed', Attached(g, c)', Attached(h, c)'
               PROVE  g = h
    BY <1>1 DEF OneKey
  <2>1. CASE c = b
    BY <1>1, <2>1 DEF OneKey
  <2>2. CASE c # b
    BY <2>2 DEF OneKey
  <2> QED BY <2>1, <2>2
<1> QED BY <1>2, <1>3

(* A record that no drawer waits for is in the store if a key claims it or  *)
(* holds it.                                                               *)
LEMMA FoundInStore ==
  ASSUME ClientFound, StoreTypes, NEW b \in Bodies, Unknown(b), \A o \in waiting : body[o] # b,
         NEW k \in Keys, Attached(k, b)
  PROVE  InStore(k, b) /\ HeldFor(b) # NoKey
<1>1. InStore(k, b)
  BY DEF ClientFound, Findable, StillHeld, Awaited, Attached, InStore
<1> QED BY <1>1, HeldForFacts DEF StoreTypes

(* What is written in a form that does not wait, and its session's key, do  *)
(* not matter to any key before the form is saved.                         *)
LEMMA FormFinds ==
  ASSUME StoreInv, ClientFound, NEW d \in Drawers, d \notin waiting,
         \A o \in Drawers \ {d} : body'[o] = body[o] /\ current'[o] = current[o],
         UNCHANGED <<waiting, storeVars, saved, strayed, job, row>>
  PROVE  ClientFound'
<1>1. /\ \A k \in Keys, c \in Bodies : Dead(k, c)' = Dead(k, c)
      /\ \A k \in Keys, c \in Bodies : Claims(k, c)' = Claims(k, c)
  BY DEF Dead, Claims, Sent, Recorded, At
<1>2. \A o \in waiting : body'[o] = body[o] /\ current'[o] = current[o]
  BY DEF StoreInv, SayInv, CopiesTypes
<1>3. \A k \in Keys, c \in Bodies : Awaited(k, c)' = Awaited(k, c)
  BY <1>2 DEF Awaited
<1> QED BY <1>1, <1>3, NothingAttached

LEMMA OperatorFinds ==
  ASSUME StoreInv, ClientFound, NEW d \in Drawers,
         (\E b \in Bodies : Enter(d, b) \/ Edit(d, b)) \/ Close(d)
  PROVE  ClientFound'
<1>1. /\ UNCHANGED <<waiting, storeVars, saved, strayed, job, row>>
      /\ \E b : body' = [body EXCEPT ![d] = b]
      /\ current' = current \/ current' = [current EXCEPT ![d] = NoKey]
      /\ body[d] = NoBody \/ d \notin waiting
  BY DEF Enter, Edit, Close
<1>2. \A o \in Drawers \ {d} : body'[o] = body[o] /\ current'[o] = current[o]
  BY <1>1 DEF StoreInv, SayInv, ServerTypes, StoreTypes
<1>3. d \notin waiting
  BY <1>1 DEF StoreInv, WaitingHasKey
<1> QED BY <1>1, <1>2, <1>3, FormFinds

(* A save never takes a second key for a record that another may still      *)
(* land, unless it strays: the store keeps the only key such a record has.  *)
LEMMA SaveFinds ==
  ASSUME StoreInv, ClientFound, NEW d \in Drawers, NEW j \in Jobs, Save(d, j),
         NEW b, b = body[d], NEW k, k = KeyFor(d)
  PROVE  ClientFound'
<1> DEFINE sent == [key |-> k, body |-> b, drawer |-> d, stage |-> "sent", answer |-> "none"]
<1>1. /\ b \in Bodies /\ d \notin waiting /\ b \notin saved
      /\ \A o \in waiting : body[o] # b
      /\ job[j] = NoJob /\ k \in Keys /\ k # NoKey
      /\ current' = [current EXCEPT ![d] = k] /\ waiting' = waiting \cup {d}
      /\ job' = [job EXCEPT ![j] = sent]
      /\ strayed' = (IF Strays(d) THEN strayed \cup {b} ELSE strayed)
      /\ UNCHANGED <<body, storeVars, saved, row>>
  BY DEF Save, StoreInv, SayInv, ServerTypes
<1>2. /\ current'[d] = k /\ \A o \in Drawers \ {d} : current'[o] = current[o]
      /\ waiting \subseteq Drawers /\ pending \in Seq(Keys)
  BY <1>1 DEF StoreInv, StoreTypes, SayInv, CopiesTypes
<1>3. b \in strayed' \/ HeldFor(b) \in {NoKey, k}
  BY <1>1 DEF KeyFor, Strays
<1>4. \A h \in Keys, c \in Bodies : Sent(h, c)' => Sent(h, c) \/ (h = k /\ c = b)
  <2>1. sent.key = k /\ sent.body = b
    OBVIOUS
  <2> HIDE DEF sent
  <2> QED BY <1>1, <2>1 DEF Sent, At, StoreInv, SayInv, ServerTypes
<1> HIDE DEF sent
<1>5. \A h \in Keys, c \in Bodies : Dead(h, c)' = Dead(h, c) /\ Recorded(h, c)' = Recorded(h, c)
  BY <1>1 DEF Dead, Recorded
<1>6. /\ \A h, c : InStore(h, c)' = InStore(h, c)
      /\ \A c : Unknown(c)' = Unknown(c)
      /\ held' = held /\ forgotten' = forgotten /\ PendingKeys' = PendingKeys
  BY <1>1 DEF InStore, PendingKeys, storeVars, Unknown
<1>7. /\ \A h \in Keys, c \in Bodies : Claims(h, c)' => Claims(h, c) \/ (h = k /\ c = b)
      /\ \A h \in Keys, c \in Bodies : Awaited(h, c) => Awaited(h, c)'
      /\ Awaited(k, b)'
  BY <1>1, <1>2, <1>4, <1>5 DEF Claims, Awaited
<1>8. \A h \in Keys, c \in Bodies : Awaited(h, c)' => Awaited(h, c) \/ (h = k /\ c = b)
  BY <1>1, <1>2 DEF Awaited
<1>9. \A h \in Keys, c \in Bodies : Attached(h, c)' => Attached(h, c) \/ (h = k /\ c = b)
  BY <1>5, <1>6, <1>7, <1>8 DEF Attached
<1>10. ASSUME Unknown(b), b \notin strayed', ~Dead(k, b), NEW h \in Keys, Attached(h, b) PROVE h = k
  <2>1. InStore(h, b) /\ HeldFor(b) # NoKey
    BY <1>1, <1>10, FoundInStore DEF StoreInv
  <2>2. InStore(k, b)
    BY <1>2, <1>3, <1>10, <2>1, HeldForFacts
  <2>3. Attached(k, b)
    BY <1>10, <2>2 DEF Attached, InStore
  <2> QED BY <1>1, <1>10, <2>3 DEF ClientFound, OneKey
<1>11. OneClaim' /\ OneKey'
  BY <1>1, <1>6, <1>7, <1>9, <1>10, OneAttached DEF ClientFound
<1>12. Findable'
  BY <1>6, <1>7 DEF ClientFound, Findable
<1>13. StillHeld'
  BY <1>5, <1>6 DEF ClientFound, StillHeld
<1> QED BY <1>11, <1>12, <1>13 DEF ClientFound

(* An answer, or its loss: a conflict tells that the key is another's, and   *)
(* a decision that it can land no other record.                            *)
LEMMA SettleFinds ==
  ASSUME StoreInv, ClientFound, NEW d \in waiting, NEW a, Settle(d, a), row' = row,
         NEW k \in Keys, k = current[d], NEW b \in Bodies, b = body[d],
         \A h \in Keys, c \in Bodies : Sent(h, c)' => Sent(h, c),
         a = "conflict" => Dead(k, b),
         ~UnknownOutcome(a) => \A c \in Bodies : c \in saved' \/ Dead(k, c)
  PROVE  ClientFound'
<1>1. /\ d \in Drawers /\ waiting' = waiting \ {d} /\ strayed' = strayed
      /\ saved' = IF a = "saved" THEN saved \cup {b} ELSE saved
      /\ body' = IF a = "saved" THEN [body EXCEPT ![d] = NoBody] ELSE body
  BY DEF Settle, StoreInv, SayInv, CopiesTypes
<1>2. /\ forgotten \subseteq forgotten'
      /\ UnknownOutcome(a) =>
           /\ current' = current
           /\ \A h \in Keys \ {k} : held'[h] = held[h]
           /\ held'[k] \ {b} = held[k] \ {b}
           /\ a # "conflict" => b \in held'[k]
           /\ \A h \in PendingKeys \cup {k} : h \in PendingKeys' \/ held'[h] \subseteq forgotten'
      /\ ~UnknownOutcome(a) =>
           /\ current' = [current EXCEPT ![d] = NoKey]
           /\ held' = held
           /\ PendingKeys' = PendingKeys \ {k}
  BY <1>1, SettleFacts DEF StoreInv
<1>3. UnknownOutcome(a) => a # "saved"
  BY DEF UnknownOutcome
<1>4. /\ \A o \in Drawers \ {d} : body'[o] = body[o] /\ current'[o] = current[o]
      /\ UnknownOutcome(a) => body' = body
      /\ ~UnknownOutcome(a) => current'[d] = NoKey
      /\ \A o \in Drawers : body'[o] \in Bodies => body'[o] = body[o]
      /\ waiting \subseteq Drawers
  BY <1>1, <1>2, <1>3 DEF StoreInv, StoreTypes, SayInv, ServerTypes, CopiesTypes
<1>5. /\ \A h \in Keys, c \in Bodies : Dead(h, c)' = Dead(h, c) /\ Recorded(h, c)' = Recorded(h, c)
      /\ \A h \in Keys, c \in Bodies : Claims(h, c)' => Claims(h, c)
      /\ \A c : Unknown(c)' => Unknown(c)
  BY <1>1, <1>2 DEF Dead, Recorded, Claims, Unknown
(* What the store holds it keeps, and the drawer's record is added.         *)
<1>6. ASSUME NEW h \in Keys, NEW c \in Bodies, Unknown(c)', ~Dead(h, c), InStore(h, c)
      PROVE  InStore(h, c)'
  BY <1>2, <1>6 DEF InStore, Unknown
<1>7. ASSUME Unknown(b)', ~Dead(k, b)
      PROVE  InStore(k, b)' /\ UnknownOutcome(a)
  BY <1>2, <1>7 DEF InStore, Unknown
<1>8. \A h \in Keys, c \in Bodies : c \in held'[h] => c \in held[h] \/ (h = k /\ c = b)
  BY <1>2
<1>9. \A h \in Keys, c \in Bodies : Awaited(h, c)' => Awaited(h, c)
  <2> SUFFICES ASSUME NEW h \in Keys, NEW c \in Bodies, NEW o \in waiting \ {d},
                      body'[o] = c, current'[o] = h
               PROVE  body[o] = c /\ current[o] = h
    BY <1>1 DEF Awaited
  <2> QED BY <1>4
<1>10. Awaited(k, b)
  BY <1>1 DEF Awaited
<1>11. \A h \in Keys, c \in Bodies : Attached(h, c)' => Attached(h, c)
  BY <1>5, <1>8, <1>9, <1>10 DEF Attached
<1>12. OneClaim' /\ OneKey'
  BY <1>1, <1>2, <1>5, <1>11 DEF ClientFound, OneClaim, OneKey
<1>13. Findable'
  <2> SUFFICES ASSUME NEW c \in Bodies, NEW h \in Keys, Unknown(c)', Claims(h, c)'
               PROVE  InStore(h, c)' \/ Awaited(h, c)'
    BY DEF Findable
  <2>1. ~Dead(h, c) /\ (InStore(h, c) \/ Awaited(h, c))
    BY <1>5 DEF ClientFound, Findable, Claims
  <2>2. CASE InStore(h, c)
    BY <1>6, <2>1, <2>2
  <2>3. CASE Awaited(h, c)
    <3>1. PICK o \in waiting : body[o] = c /\ current[o] = h
      BY <2>3 DEF Awaited
    <3>2. CASE o = d
      BY <1>7, <2>1, <3>1, <3>2
    <3>3. CASE o # d
      BY <1>1, <1>4, <3>1, <3>3 DEF Awaited
    <3> QED BY <3>2, <3>3
  <2> QED BY <2>1, <2>2, <2>3
<1>14. StillHeld'
  <2> SUFFICES ASSUME NEW c \in Bodies, NEW h \in Keys, Unknown(c)', c \in held'[h], ~Dead(h, c)
               PROVE  h \in PendingKeys'
    BY <1>5 DEF StillHeld
  <2>1. CASE c \in held[h]
    <3>1. InStore(h, c)
      BY <1>5, <2>1 DEF ClientFound, StillHeld, InStore
    <3> QED BY <1>6, <3>1 DEF InStore
  <2>2. CASE h = k /\ c = b
    BY <1>7, <2>2 DEF InStore
  <2> QED BY <1>8, <2>1, <2>2
<1> QED BY <1>12, <1>13, <1>14 DEF ClientFound

LEMMA ServerFinds ==
  ASSUME KeyInv, StoreInv, ServerFound, ClientFound, NEW j \in Jobs, Server(j), OnlyCrashes'
  PROVE  ServerFound' /\ ClientFound'
<1>1. SayInv
  BY DEF StoreInv
<1>2. UNCHANGED clientVars /\ mishaps \subseteq mishaps'
  BY <1>1, ServerGoes
<1>3. /\ \A k \in Keys : row[k] # NoRow /\ row[k].answer # "none" => row'[k] = row[k]
      /\ \A k \in Keys, b \in Bodies : Recorded(k, b)' => Recorded(k, b) \/ Sent(k, b)
      /\ \A k \in Keys, b \in Bodies : Sent(k, b)' => Sent(k, b)
      /\ OwnUndecided'
  BY <1>1, <1>2, ServerRows DEF ServerFound, OnlyCrashes
<1>4. ServerFound'
  BY <1>1, <1>3, ServerAnswers, ServerLands DEF ServerFound, ClientFound
<1>5. \A k \in Keys, b \in Bodies : Dead(k, b) => Dead(k, b)'
  BY <1>3, DeadStays
<1>6. \A k \in Keys, b \in Bodies : Claims(k, b)' => Claims(k, b)
  BY <1>3, <1>5 DEF Claims
<1>7. UNCHANGED <<body, current, waiting, saved, strayed, storeVars>>
  BY <1>2 DEF clientVars
<1>8. ClientFound'
  BY <1>5, <1>6, <1>7, NothingAttached DEF Awaited
<1> QED BY <1>4, <1>8

(* The client's steps leave what the server knows.                         *)
LEMMA ClientKeepsServer ==
  ASSUME SayInv, ServerFound, UNCHANGED <<row, ghostVars>>,
         forgotten \subseteq forgotten', strayed \subseteq strayed',
         \A j \in Jobs : job'[j] # NoJob =>
           \/ job'[j].stage = "sent"
           \/ /\ job[j] # NoJob
              /\ job'[j].key = job[j].key /\ job'[j].body = job[j].body
              /\ job'[j].stage = job[j].stage /\ job'[j].answer = job[j].answer
  PROVE  ServerFound'
<1>1. OwnUndecided'
  BY DEF ServerFound, OwnUndecided, Owns, At
<1>2. AnswersKnown'
  <2> SUFFICES ASSUME NEW j \in Jobs, At(j, "answered")'
               PROVE  /\ job'[j].answer \in {"saved", "refused", "failed", "inProgress", "conflict"}
                      /\ job'[j].answer = "saved" =>
                           /\ Recorded(job'[j].key, job'[j].body)
                           /\ row[job'[j].key].answer = "saved"
                      /\ job'[j].answer = "refused" =>
                           row[job'[j].key] # NoRow /\ row[job'[j].key].answer = "refused"
                      /\ job'[j].answer = "conflict" => Dead(job'[j].key, job'[j].body)
    BY DEF AnswersKnown, Recorded, Dead
  <2> QED BY DEF ServerFound, AnswersKnown, At
<1>3. LandedStands' /\ CopyHasKey' /\ CopiedOnce'
  BY DEF ServerFound, LandedStands, CopyHasKey, CopiedOnce, ghostVars, Recorded
<1> QED BY <1>1, <1>2, <1>3 DEF ServerFound

LEMMA FoundStep == FoundInv /\ [Next]_vars => FoundInv'
<1> SUFFICES ASSUME FoundInv, [Next]_vars PROVE FoundInv'
  OBVIOUS
<1> USE DEF FoundInv
<1>1. KeyInv' /\ StoreInv'
  BY KeyInvStep, StoreStep
<1>2. SUFFICES ASSUME OnlyCrashes' PROVE ServerFound' /\ ClientFound'
  BY <1>1
<1>3. ASSUME mishaps \subseteq mishaps' PROVE ServerFound /\ ClientFound
  BY <1>2, <1>3 DEF OnlyCrashes
<1>4. SayInv /\ ServerTypes
  BY DEF StoreInv, SayInv
<1>5. ASSUME NEW d \in Drawers, (\E b \in Bodies : Enter(d, b) \/ Edit(d, b)) \/ Close(d)
      PROVE  ServerFound' /\ ClientFound'
  <2>1. UNCHANGED <<storeVars, strayed, job, row, ghostVars>>
    BY <1>5 DEF Enter, Edit, Close
  <2>2. ServerFound /\ ClientFound
    BY <1>3, <2>1 DEF ghostVars
  <2>3. ServerFound'
    BY <1>4, <2>1, <2>2, ClientKeepsServer DEF storeVars
  <2>4. ClientFound'
    BY <1>5, <2>2, OperatorFinds
  <2> QED BY <2>3, <2>4
<1>6. ASSUME NEW d \in Drawers, NEW j \in Jobs, Save(d, j) PROVE ServerFound' /\ ClientFound'
  <2> DEFINE sent == [key |-> KeyFor(d), body |-> body[d], drawer |-> d,
                      stage |-> "sent", answer |-> "none"]
  <2>1. /\ job' = [job EXCEPT ![j] = sent] /\ UNCHANGED <<storeVars, row, ghostVars>>
        /\ strayed \subseteq strayed'
    BY <1>6 DEF Save
  <2>2. sent.stage = "sent"
    OBVIOUS
  <2> HIDE DEF sent
  <2>3. ServerFound /\ ClientFound
    BY <1>3, <2>1 DEF ghostVars
  <2>4. ServerFound'
    BY <1>4, <2>1, <2>2, <2>3, ClientKeepsServer DEF storeVars, ServerTypes
  <2>5. ClientFound'
    BY <1>6, <2>3, SaveFinds
  <2> QED BY <2>4, <2>5
<1>7. ASSUME NEW j \in Jobs, Deliver(j) PROVE ServerFound' /\ ClientFound'
  <2>1. /\ job' = [job EXCEPT ![j] = NoJob] /\ UNCHANGED <<row, ghostVars>>
        /\ job[j] # NoJob /\ At(j, "answered")
    BY <1>7 DEF Deliver, At
  <2>2. ServerFound /\ ClientFound
    BY <1>3, <2>1 DEF ghostVars
  <2>3. \A i \in Jobs : job'[i] # NoJob => job[i] # NoJob /\ job'[i] = job[i]
    BY <1>4, <2>1 DEF ServerTypes
  <2>4. \A h \in Keys, c \in Bodies : Sent(h, c)' => Sent(h, c)
    BY <2>3 DEF Sent, At
  <2>5. CASE job[j].drawer = NoDrawer
    <3>1. UNCHANGED clientVars
      BY <1>7, <2>5 DEF Deliver
    <3>2. ServerFound'
      BY <1>4, <2>1, <2>2, <2>3, <3>1, ClientKeepsServer DEF clientVars, storeVars
    <3>3. /\ UNCHANGED <<body, current, waiting, saved, strayed, storeVars>>
          /\ \A k \in Keys, b \in Bodies : Dead(k, b)' = Dead(k, b)
          /\ \A k \in Keys, b \in Bodies : Claims(k, b)' => Claims(k, b)
      BY <2>1, <2>4, <3>1 DEF clientVars, Dead, Claims, Recorded
    <3>4. ClientFound'
      BY <2>2, <3>3, NothingAttached DEF Awaited
    <3> QED BY <3>2, <3>4
  <2>6. CASE job[j].drawer # NoDrawer
    <3>1. PICK d \in Drawers : d = job[j].drawer
      BY <1>4, <2>1, <2>6 DEF ServerTypes, JobRow
    <3>2. Settle(d, job[j].answer) /\ Asks(j, d)
      BY <1>7, <2>1, <2>6, <3>1 DEF Deliver, Asks
    <3>3. PICK k \in Keys, b \in Bodies :
            d \in waiting /\ k = current[d] /\ b = body[d] /\ k = job[j].key /\ b = job[j].body
      BY <1>4, <3>2
         DEF SayInv, ClientHears, AskedWaits, StoreInv, WaitingHasKey, AskedKey
    <3>4. /\ job[j].answer \in {"saved", "refused", "failed", "inProgress", "conflict"}
          /\ job[j].answer = "saved" => Recorded(k, b) /\ row[k].answer = "saved"
          /\ job[j].answer = "refused" => row[k] # NoRow /\ row[k].answer = "refused"
          /\ job[j].answer = "conflict" => Dead(k, b)
      BY <2>1, <2>2, <3>3 DEF ServerFound, AnswersKnown
    <3>5. job[j].answer = "saved" => b \in saved'
      BY <3>2, <3>3 DEF Settle
    <3>6. ~UnknownOutcome(job[j].answer) => \A c \in Bodies : c \in saved' \/ Dead(k, c)
      BY <3>4, <3>5 DEF UnknownOutcome, Dead, Recorded
    <3>7. ClientFound'
      BY <2>1, <2>2, <2>4, <3>2, <3>3, <3>4, <3>6, SettleFinds
    <3>8. forgotten \subseteq forgotten' /\ strayed' = strayed
      BY <3>2, <3>3, SettleFacts DEF StoreInv, Settle
    <3>9. ServerFound'
      BY <1>4, <2>1, <2>2, <2>3, <3>8, ClientKeepsServer
    <3> QED BY <3>7, <3>9
  <2> QED BY <2>5, <2>6
<1>8. ASSUME NEW j \in Jobs, Drop(j) PROVE ServerFound' /\ ClientFound'
  <2>1. job[j] \in JobRow /\ job[j] # NoJob /\ job[j].drawer # NoDrawer
    BY <1>4, <1>8 DEF Drop, ServerTypes
  <2>2. PICK d \in Drawers : d = job[j].drawer
    BY <2>1 DEF JobRow
  <2>3. /\ Settle(d, "lost") /\ Asks(j, d) /\ UNCHANGED <<row, ghostVars>>
        /\ job' = [job EXCEPT ![j] = [job[j] EXCEPT !.drawer = NoDrawer]]
    BY <1>8, <2>1, <2>2 DEF Drop, Asks
  <2>4. \A i \in Jobs : job'[i] # NoJob =>
          /\ job[i] # NoJob
          /\ job'[i].key = job[i].key /\ job'[i].body = job[i].body
          /\ job'[i].stage = job[i].stage /\ job'[i].answer = job[i].answer
    BY <1>4, <2>1, <2>3 DEF ServerTypes, JobRow
  <2>5. \A h \in Keys, c \in Bodies : Sent(h, c)' => Sent(h, c)
    BY <2>4 DEF Sent, At
  <2>6. ServerFound /\ ClientFound
    BY <1>3, <2>3 DEF ghostVars
  <2>7. PICK k \in Keys, b \in Bodies : d \in waiting /\ k = current[d] /\ b = body[d]
    BY <1>4, <2>3 DEF SayInv, ClientHears, AskedWaits, StoreInv, WaitingHasKey
  <2>8. UnknownOutcome("lost")
    BY DEF UnknownOutcome
  <2>9. ClientFound'
    BY <2>3, <2>5, <2>6, <2>7, <2>8, SettleFinds
  <2>10. forgotten \subseteq forgotten' /\ strayed' = strayed
    BY <2>3, <2>7, SettleFacts DEF StoreInv, Settle
  <2>11. ServerFound'
    BY <1>4, <2>3, <2>4, <2>6, <2>10, ClientKeepsServer
  <2> QED BY <2>9, <2>11
<1>9. ASSUME NEW j \in Jobs, Server(j) PROVE ServerFound' /\ ClientFound'
  <2>1. mishaps \subseteq mishaps'
    BY <1>4, <1>9, ServerGoes
  <2> QED BY <1>2, <1>3, <1>9, <2>1, ServerFinds
<1>10. CASE UNCHANGED vars
  <2>1. ServerFound /\ ClientFound
    BY <1>3, <1>10 DEF vars, ghostVars
  <2>2. ServerFound'
    BY <1>4, <1>10, <2>1, ClientKeepsServer DEF vars, clientVars, storeVars
  <2>3. ClientFound'
    BY <1>10, <2>1
       DEF vars, clientVars, storeVars, ClientFound, OneClaim, OneKey, Findable, StillHeld,
           Attached, Claims, Dead, Sent, Recorded, Awaited, Unknown, InStore,
           PendingKeys, At
  <2> QED BY <2>2, <2>3
<1> QED BY <1>5, <1>6, <1>7, <1>8, <1>9, <1>10 DEF Next, Operator

(* A record lands once, however often and from whatever drawer it is sent   *)
(* again and corrected into, while only crashes happen, its key was not let *)
(* go, and no form sent it under a key of its own although another key was  *)
(* kept for it (submitKeys.ts:17).                                         *)
THEOREM OneRecordPerEntry == Spec => []BodyLandsOnce
<1>1. FoundInv => BodyLandsOnce
  BY DEF FoundInv, OnlyCrashes, ServerFound, CopiedOnce, BodyLandsOnce
<1> QED BY <1>1, FoundInvInit, FoundStep, PTL DEF Spec

(* The client never loses track of a record that landed unanswered: the     *)
(* key store would find its key again, or a drawer still waits for it       *)
(* (submitKeys.ts:88).                                                     *)
THEOREM LandedIsFound == Spec => []LandedIsAnsweredOrHeld
<1>1. ASSUME FoundInv PROVE LandedIsAnsweredOrHeld
  <2> SUFFICES ASSUME NEW b \in Bodies, b \notin forgotten, copies[b] > 0, OnlyCrashes,
                      b \notin saved
               PROVE  HeldFor(b) # NoKey \/ \E d \in waiting : body[d] = b
    BY DEF LandedIsAnsweredOrHeld, OnlyCrashes
  <2>1. PICK k \in Keys : landed[k] > 0 /\ Recorded(k, b)
    BY <1>1 DEF FoundInv, ServerFound, CopyHasKey
  <2>2. Claims(k, b)
    BY <1>1, <2>1 DEF FoundInv, ServerFound, LandedStands, Claims, Dead, Recorded
  <2>3. InStore(k, b) \/ Awaited(k, b)
    BY <1>1, <2>2 DEF FoundInv, ClientFound, Findable, Unknown
  <2> QED BY <1>1, <2>3, HeldForFacts DEF FoundInv, StoreInv, StoreTypes, Awaited
<1> QED BY <1>1, FoundInvInit, FoundStep, PTL DEF Spec
=============================================================================
