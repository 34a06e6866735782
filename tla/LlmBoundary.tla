----------------------------- MODULE LlmBoundary -----------------------------
(***************************************************************************)
(* One webhook on its way through the LLM: what the two providers'         *)
(* normalize makes of a response, the JSON schema and the cross-field      *)
(* check of validateToolInput, the branches of processOne, and the         *)
(* natural_key of an event that is settled.                                *)
(*                                                                         *)
(* WebhookQueue says only that an attempt may be answered in one of five   *)
(* ways; this module says which response leads to which, and implements    *)
(* WebhookQueue for one row and one worker.  What can be wrong with a      *)
(* block of the answer is a member of Defects, one defect at a time.       *)
(*                                                                         *)
(* Anything may break off an attempt (a dead worker, a failed re-fetch, a  *)
(* failed UPDATE), except that, as for CommitAnswerReliable in             *)
(* WebhookQueue, a COMMIT whose answer was lost took no effect; and a row  *)
(* has no second worker while it has a first.                              *)
(***************************************************************************)
EXTENDS NaturalKey

CONSTANTS
  MaxAttempts,  \* config.worker.maxAttempts
  MaxFaults     \* bound: attempts broken off

ASSUME LlmAssumption == MaxAttempts \in Nat /\ MaxFaults \in Nat

VARIABLES
  provider,  \* config.llm.provider, the same for the life of a worker
  pc,        \* where processOne is; "queued" and "waiting": no worker has the row
  attempts,  \* raw_events.attempts
  output,    \* what the API returned last, NoOutput if the SDK rejected
  status,    \* raw_events.status
  response,  \* raw_events.llm_response: the attempt that wrote it, 0 for NULL
  faults,    \* attempts broken off so far
  unusable   \* history: the unusable answers so far

row == <<attempts, status, response>>
counts == <<faults, unusable>>
vars == <<provider, pc, row, output, counts, text>>

-----------------------------------------------------------------------------
(* The tool's schema.                                                      *)
SHIPMENT_STATES == {"PICKED_UP", "IN_TRANSIT", "OUT_FOR_DELIVERY", "DELIVERED"}
INVOICE_STATES == {"ISSUED", "PAID", "VOIDED", "REFUNDED"}
SHIPMENT_RANK == [PICKED_UP |-> 10, IN_TRANSIT |-> 20, OUT_FOR_DELIVERY |-> 30, DELIVERED |-> 40]
INVOICE_RANK == [ISSUED |-> 10, PAID |-> 20, VOIDED |-> 20, REFUNDED |-> 30]

(* Defects that the schema sees: a required property that is missing, a    *)
(* property of another JSON type.  Defects that only a column sees: an     *)
(* event_at that is no date, a text or an amount out of its range.         *)
SchemaDefects == {"no natural_key", "no state", "no event_at", "wrong type"}
ColumnDefects == {"no date", "out of range"}
Defects == {"none"} \cup SchemaDefects \cup ColumnDefects

Missing == [is |-> "missing", state |-> "none", defect |-> "none"]
JsonNull == [is |-> "null", state |-> "none", defect |-> "none"]

(* The block a model writes when it means one of these states: left out,   *)
(* null, faultless, with a state of its own making, or with one defect;    *)
(* and the block of the other kind: null, or worth refusing.               *)
Object(state, defect) == [is |-> "object", state |-> state, defect |-> defect]
Blocks(states) ==
  {Missing, JsonNull} \cup {Object(s, "none") : s \in states \cup {"LOST"}} \cup
  {Object(CHOOSE s \in states : TRUE, d) : d \in Defects}
Others == {JsonNull, Object("none", "wrong type")}

(* An input of the tool.  "complete": with a reasoning of at most 1000     *)
(* characters and with no property that the schema does not name.          *)
Input(is, type, confidence, complete, shipment, invoice) ==
  [is |-> is, type |-> type, confidence |-> confidence, complete |-> complete,
   shipment |-> shipment, invoice |-> invoice]
NoInput == Input("nothing", "none", "none", FALSE, Missing, Missing)

(* What is no object: falsy JSON (null, "", 0, false) or an input left     *)
(* out, and other JSON that is no object.  Where the arguments come as a   *)
(* string: a string that is no JSON, and none or the empty one.            *)
Falsy == [NoInput EXCEPT !.is = "falsy"]
Scalar == [NoInput EXCEPT !.is = "scalar"]
Garbled == [NoInput EXCEPT !.is = "garbled"]
NoArguments == [NoInput EXCEPT !.is = "no_arguments"]

Types == {"shipment", "invoice", "unclassified"}
Inputs ==
  {Falsy, Scalar, Garbled, NoArguments} \cup
  {Input("object", t, c, complete, b[1], b[2]) :
     t \in Types \cup {"return"}, c \in {"low", "high", "certain"}, complete \in BOOLEAN,
     b \in Blocks(SHIPMENT_STATES) \X Others \cup Others \X Blocks(INVOICE_STATES)}

BlockConforms(b, states) ==
  b.is = "object" => b.state \in states /\ b.defect \notin SchemaDefects

(* Ajv against the schema: both blocks are checked, whatever the type.     *)
Conforms(input) ==
  /\ input.is = "object"
  /\ input.type \in Types
  /\ input.confidence \in {"low", "medium", "high"}
  /\ input.complete
  /\ BlockConforms(input.shipment, SHIPMENT_STATES)
  /\ BlockConforms(input.invoice, INVOICE_STATES)

(* Faulty variant, used by the mutation checks only. *)
SchemaOnly(input) == Conforms(input)

validateToolInput(input) ==
  /\ Conforms(input)
  /\ input.type = "shipment" => input.shipment.is = "object"
  /\ input.type = "invoice" => input.invoice.is = "object"

-----------------------------------------------------------------------------
(* What an API returns: a body without the list of its contents, one with  *)
(* no call of the tool, or one whose first call of it has this input.      *)
NoOutput == [envelope |-> "rejected", input |-> NoInput]
Bare == [envelope |-> "bare", input |-> NoInput]
NoCall == [envelope |-> "no_call", input |-> NoInput]
Call(input) == [envelope |-> "call", input |-> input]
Outputs == {Bare, NoCall} \cup {Call(input) : input \in Inputs}

(* The result contract of client.js; input is the result or the rawInput.  *)
Ok(input) == [kind |-> "ok", input |-> input]
Failure(kind, input) == [kind |-> kind, input |-> input]
Validated(input) == IF validateToolInput(input) THEN Ok(input) ELSE Failure("schema", input)

(* providers/anthropic.js: response.content.find throws when there is no   *)
(* content, inside the try that means transport errors.                    *)
anthropicNormalize(out) ==
  CASE out.envelope \in {"rejected", "bare"} -> Failure("network", NoInput)
    [] out.envelope = "no_call" -> Failure("invocation", NoInput)
    [] out.envelope = "call" -> Validated(out.input)

(* Faulty variant, used by the mutation checks only. *)
openaiNullBlocksRefused(out) ==
  CASE out.envelope = "rejected" -> Failure("network", NoInput)
    [] out.envelope \in {"bare", "no_call"} -> Failure("invocation", NoInput)
    [] out.envelope = "call" ->
         IF JsonNull \in {out.input.shipment, out.input.invoice}
         THEN Failure("schema", out.input) ELSE Validated(out.input)

(* providers/openai.js: optional chaining finds no call in a bare body;    *)
(* arguments that JSON.parse refuses count as schema, and go along.        *)
openaiNormalize(out) ==
  CASE out.envelope = "rejected" -> Failure("network", NoInput)
    [] out.envelope \in {"bare", "no_call"} -> Failure("invocation", NoInput)
    [] out.envelope = "call" ->
         IF out.input \in {Garbled, NoArguments} THEN Failure("schema", out.input)
         ELSE Validated(out.input)

normalize(out) ==
  IF provider = "openai" THEN openaiNormalize(out) ELSE anthropicNormalize(out)

-----------------------------------------------------------------------------
Terminal == {"normalized", "unclassified", "needs_review", "dead"}
result == normalize(output)
block == IF result.input.type = "shipment" THEN result.input.shipment ELSE result.input.invoice

Init ==
  /\ provider \in {"anthropic", "openai"}
  /\ pc = "absent"
  /\ attempts = 0 /\ status = "absent" /\ response = 0
  /\ output = NoOutput
  /\ faults = 0 /\ unusable = 0
  /\ text = <<>>

(* The POST (see Ingest).                                                  *)
Receive ==
  /\ pc = "absent" /\ pc' = "queued"
  /\ status' = "pending"
  /\ UNCHANGED <<provider, attempts, output, response, counts, text>>

(* claimBatch and its re-fetch (see WebhookQueue): the row may be pending  *)
(* or still processing.                                                    *)
Claim ==
  /\ pc = "queued" /\ pc' = "claimed"
  /\ status' = "processing" /\ attempts' = attempts + 1
  /\ UNCHANGED <<provider, output, response, counts, text>>

Refetch ==
  /\ pc = "claimed" /\ pc' = "calling"
  /\ output' = NoOutput
  /\ UNCHANGED <<provider, row, counts, text>>

(* The end of a backoff, or of a lease whose owner is lost.                *)
LockExpires ==
  /\ pc = "waiting" /\ pc' = "queued"
  /\ UNCHANGED <<provider, row, output, counts, text>>

(* Every HTTP request of the SDK failed, those of its own retries included.*)
SdkRejects ==
  /\ pc = "calling" /\ pc' = "answered"
  /\ UNCHANGED <<provider, row, output, counts, text>>

(* "The model returned but its output is unusable": not what counts as an  *)
(* error of the network, and not a valid input.                            *)
Unusable ==
  /\ output # NoOutput
  /\ output = Bare => provider # "anthropic"
  /\ output.envelope = "call" => ~validateToolInput(output.input)

(* Only arguments that come as a string can be no JSON.                    *)
Responds ==
  /\ pc = "calling" /\ pc' = "answered"
  /\ output' \in {out \in Outputs : out.input \in {Garbled, NoArguments} => provider = "openai"}
  /\ UNCHANGED <<provider, row, faults, text>>
  /\ unusable' = unusable + (IF Unusable' THEN 1 ELSE 0)

-----------------------------------------------------------------------------
(* The branches of processOne, in their order.                             *)
Exhausted == attempts >= MaxAttempts

Finish(s, resp) ==
  /\ pc' = "done" /\ status' = s /\ response' = resp /\ text' = <<>>
  /\ UNCHANGED <<provider, attempts, output, counts>>

BackOff(resp) ==
  /\ pc' = "waiting" /\ status' = "pending" /\ response' = resp /\ text' = <<>>
  /\ UNCHANGED <<provider, attempts, output, counts>>

Answers(kinds) == pc = "answered" /\ result.kind \in kinds

(* Faulty variants, used by the mutation checks only. *)
EvidenceOnlyOfObjects(input) == IF input.is = "object" THEN attempts ELSE 0
RetryInvocations ==
  /\ Answers({"network", "invocation"}) /\ ~Exhausted /\ BackOff(response)

(* llmResult.rawInput || null: of what JSON.parse refuses, a string that   *)
(* is not empty.                                                           *)
Evidence(input) == IF input \in {NoInput, Falsy, NoArguments} THEN 0 ELSE attempts

RouteUnusable ==
  Answers({"schema", "invocation"}) /\ Finish("needs_review", Evidence(result.input))

DeadLetterNetwork == Answers({"network"}) /\ Exhausted /\ Finish("dead", response)

BackOffNetwork == Answers({"network"}) /\ ~Exhausted /\ BackOff(response)

MarkUnclassified ==
  /\ Answers({"ok"}) /\ result.input.type = "unclassified"
  /\ Finish("unclassified", attempts)

IsLow == result.input.confidence = "low"

(* Faulty variant, used by the mutation checks only. *)
RouteLowFirst == Answers({"ok"}) /\ IsLow /\ Finish("needs_review", attempts)

RouteLowConfidence ==
  /\ Answers({"ok"}) /\ result.input.type # "unclassified" /\ IsLow
  /\ Finish("needs_review", attempts)

Settleable == result.kind = "ok" /\ result.input.type # "unclassified" /\ ~IsLow

StartSettle ==
  /\ pc = "answered" /\ Settleable
  /\ pc' = "settling"
  /\ UNCHANGED <<provider, row, output, counts, text>>

(* applyShipmentEvent or applyInvoiceEvent can write this block: its state *)
(* has a rank, and no column refuses a value.                              *)
Ranked == block.state \in DOMAIN SHIPMENT_RANK \cup DOMAIN INVOICE_RANK
Writable == block.is = "object" /\ Ranked /\ block.defect \notin ColumnDefects

(* data.natural_key, read when the entity is looked up.                    *)
ReadKey(c) ==
  /\ pc = "settling" /\ block.is = "object"
  /\ Write(c)
  /\ UNCHANGED <<provider, pc, row, output, counts>>

Settle ==
  /\ pc = "settling" /\ Writable
  /\ Finish("normalized", attempts)

(* Any statement may fail; a block that cannot be written always does.     *)
SettleThrows ==
  /\ pc = "settling" /\ pc' = "settle_failed"
  /\ text' = <<>>
  /\ UNCHANGED <<provider, row, output, counts>>

DeadLetterSettle == pc = "settle_failed" /\ Exhausted /\ Finish("dead", attempts)

BackOffSettle == pc = "settle_failed" /\ ~Exhausted /\ BackOff(attempts)

-----------------------------------------------------------------------------
(* Whatever breaks an attempt off leaves the row as it was claimed:        *)
(* processing, and locked until its lease ends.                            *)
BreakOff ==
  /\ faults < MaxFaults /\ faults' = faults + 1
  /\ pc' = "waiting" /\ text' = <<>>
  /\ UNCHANGED <<provider, row, output, unusable>>

(* The UPDATE that ends the job fails; allSettled swallows the rejection.  *)
StatusWriteFails ==
  /\ (pc = "answered" /\ ~Settleable) \/ pc = "settle_failed"
  /\ BreakOff

(* tick throws between the commit of the claim and processOne.             *)
RefetchFails == pc = "claimed" /\ BreakOff

(* The worker dies.                                                        *)
Working == {"claimed", "calling", "answered", "settling", "settle_failed"}
Crash == pc \in Working /\ BreakOff

ProcessOne ==
  \/ SdkRejects \/ Responds
  \/ RouteUnusable \/ DeadLetterNetwork \/ BackOffNetwork
  \/ MarkUnclassified \/ RouteLowConfidence
  \/ StartSettle \/ Settle \/ SettleThrows \/ DeadLetterSettle \/ BackOffSettle

Next ==
  \/ Receive \/ Claim \/ Refetch \/ LockExpires
  \/ ProcessOne \/ \E c \in Chars : ReadKey(c)
  \/ StatusWriteFails \/ RefetchFails \/ Crash

Spec == Init /\ [][Next]_vars

-----------------------------------------------------------------------------
(* "That's why the result runs through AJV before we trust it"             *)
(* (normalizeTool.js), and low confidence goes to a human: only an event   *)
(* of a known kind and state, with every required field, with values that  *)
(* the columns take and with no low confidence gets into the canonical     *)
(* tables, whichever provider, block or retry it came through.             *)
OnlySoundEvents ==
  /\ pc \in {"settling", "settle_failed"} => block.is = "object" /\ Ranked
  /\ status = "normalized" =>
       /\ output.envelope = "call" /\ output.input.confidence \in {"medium", "high"}
       /\ \/ /\ output.input.type = "shipment"
             /\ output.input.shipment.state \in DOMAIN SHIPMENT_RANK
             /\ output.input.shipment.defect = "none"
          \/ /\ output.input.type = "invoice"
             /\ output.input.invoice.state \in DOMAIN INVOICE_RANK
             /\ output.input.invoice.defect = "none"

(* "Switch providers by setting LLM_PROVIDER. No code changes required     *)
(* anywhere" (client.js): what a model returns is judged alike whichever   *)
(* provider it comes through.  The one exception is a body without its     *)
(* list of contents, which anthropic.js takes for a network error.         *)
(* Arguments that are no JSON end as an input that Ajv refuses.            *)
ProvidersAgree ==
  anthropicNormalize(output) # openaiNormalize(output) => output = Bare

(* "Don't burn retries on this" (process.js): no branch puts a webhook     *)
(* back into the queue after an unusable answer (events that no column     *)
(* takes are not among these: they cost every attempt).  It is asked about *)
(* again only if the attempt was broken off before its needs_review was    *)
(* written, so that each unusable answer but the last one has a fault of   *)
(* its own.                                                                *)
UnusableIsNotRetried ==
  /\ status = "pending" => ~Unusable
  /\ unusable <= faults + (IF pc \in {"answered", "done"} /\ Unusable THEN 1 ELSE 0)

(* What a human reviews is what the model wrote in the attempt that ended  *)
(* the webhook, and never what an earlier attempt left behind; there is    *)
(* nothing only if there was no call, or a falsy value or no arguments in  *)
(* it.  A dead row may show the answer of an earlier attempt next to its   *)
(* network error.                                                          *)
ReviewKeepsEvidence ==
  status \in Terminal \ {"dead"} =>
    response = IF output.envelope # "call" \/ output.input \in {Falsy, NoArguments}
               THEN 0 ELSE attempts

-----------------------------------------------------------------------------
(* The row and the job as WebhookQueue sees them.                          *)
EventOf(input) ==
  [entity |-> input.type,
   state |-> IF input.type = "shipment" THEN input.shipment.state ELSE input.invoice.state]
Settled == status = "normalized"
Answer ==
  CASE result.kind = "network" -> "network"
    [] result.kind \in {"schema", "invocation"} -> "unusable"
    [] result.kind = "ok" -> IF result.input.type = "unclassified" THEN "unclassified"
                             ELSE IF IsLow THEN "low_confidence" ELSE "settling"
Phase ==
  CASE pc \in {"absent", "queued", "waiting", "done"} -> "none"
    [] pc \in {"claimed", "calling", "settling", "settle_failed"} -> pc
    [] pc = "answered" -> Answer
Rank == [s \in SHIPMENT_STATES \cup INVOICE_STATES |->
           IF s \in SHIPMENT_STATES THEN SHIPMENT_RANK[s] ELSE INVOICE_RANK[s]]

Queue == INSTANCE WebhookQueue WITH
  Entities <- {"shipment", "invoice"},
  States <- DOMAIN Rank,
  RawIds <- {1},
  NoState <- "none",
  Workers <- {"worker"},
  NoEntity <- "none",
  NoEvent <- [entity |-> "none", state |-> "none"],
  Events <- [entity : {"shipment", "invoice"}, state : DOMAIN Rank],
  BatchSize <- 1,
  MaxFaults <- MaxFaults,
  LeaseCoversProcessing <- TRUE,
  CommitAnswerReliable <- TRUE,
  faults <- faults,
  status <- <<status>>,
  attempts <- <<attempts>>,
  leased <- IF pc \in {"absent", "queued"} THEN {} ELSE {1},
  entityOf <- <<IF Settled THEN output.input.type ELSE "none">>,
  current <- [t \in {"shipment", "invoice"} |->
    IF Settled /\ output.input.type = t THEN EventOf(output.input).state ELSE "none"],
  history <- [t \in {"shipment", "invoice"} |->
    IF Settled /\ output.input.type = t
    THEN <<[raw |-> 1, state |-> EventOf(output.input).state, advanced |-> TRUE]>>
    ELSE <<>>],
  job <- [w \in {"worker"} |-> <<
    [phase |-> Phase,
     attempts |-> IF Phase \in {"none", "claimed"} THEN 0 ELSE attempts,
     event |-> IF Phase = "settling" THEN EventOf(output.input)
               ELSE [entity |-> "none", state |-> "none"]]>>]

(* What this module does to the row and to the tables is what WebhookQueue *)
(* says a worker does: each response leads to one of its five answers, and *)
(* each answer to its one statement; and what breaks an attempt off leaves *)
(* nothing behind.                                                         *)
ImplementsQueue == Queue!Spec
=============================================================================
