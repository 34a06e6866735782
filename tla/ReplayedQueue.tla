--------------------------- MODULE ReplayedQueue ---------------------------
(***************************************************************************)
(* The queue with an operator who replays history, as the README offers:   *)
(* UPDATE raw_events SET status = 'pending' WHERE ...  The statement is    *)
(* all there is: attempts, entity_id and locked_until of the rows stay,    *)
(* and so does everything that the canonical tables have of them.          *)
(***************************************************************************)
EXTENDS WebhookQueue

CONSTANT MaxReplays  \* bound: rows replayed

ASSUME ReplayAssumption == MaxReplays \in Nat

VARIABLES
  readAs,   \* the state in llm_response of a row that was normalized
  replays   \* rows replayed so far

replayVars == <<readAs, replays>>

ReplayInit ==
  /\ Init
  /\ readAs = [r \in RawIds |-> NoState]
  /\ replays = 0

(* WHERE names settled rows: whatever became of them, they are read anew.  *)
Replay(r) ==
  /\ status[r] \in Terminal
  /\ replays < MaxReplays
  /\ replays' = replays + 1
  /\ status' = [status EXCEPT ![r] = "pending"]
  /\ UNCHANGED <<attempts, leased, entityOf, job, history, current, faults, readAs>>

(* The settle transaction writes what was read into the row as well.       *)
WriteReading(w, r) ==
  /\ Settle(w, r) \/ SettleAnswerLost(w, r)
  /\ readAs' = [readAs EXCEPT ![r] = job[w][r].event.state]

OtherStep ==
  /\ \/ \E r \in RawIds : Receive(r) \/ LockExpires(r)
     \/ \E w \in Workers : Claim(w) \/ Refetch(w) \/ RefetchFails(w) \/ Crash(w)
     \/ \E w \in Workers, r \in RawIds :
          \/ job[w][r].phase # "settling" /\ ProcessOne(w, r)
          \/ SettleRollsBack(w, r) \/ StatusWriteFails(w, r)
  /\ UNCHANGED readAs

ReplayNext ==
  \/ \E r \in RawIds : Replay(r)
  \/ /\ OtherStep \/ \E w \in Workers, r \in RawIds : WriteReading(w, r)
     /\ UNCHANGED replays

ReplaySpec == ReplayInit /\ [][ReplayNext]_<<vars, replayVars>>

(* Fairness obliges nobody to replay anything.                             *)
FairReplaySpec == ReplaySpec /\ Fairness

-----------------------------------------------------------------------------
(* "Prompt/schema bug caused wrong outputs in production: fix prompt, ...  *)
(* worker re-processes" (README): what the canonical tables hold of a      *)
(* normalized webhook is what it was last read as.                         *)
TablesFollowReading ==
  \A r \in RawIds : status[r] = "normalized" =>
    \A e \in Entities : \A i \in DOMAIN history[e] : history[e][i].raw = r =>
      e = entityOf[r] /\ history[e][i].state = readAs[r]
=============================================================================
