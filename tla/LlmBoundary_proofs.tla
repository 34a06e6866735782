------------------------ MODULE LlmBoundary_proofs ------------------------
(***************************************************************************)
(* Theorems about one webhook on its way through the LLM, for every        *)
(* response of the API in every attempt and any limit on the attempts, and *)
(* about the key of the entity it names, for every text the model writes.  *)
(***************************************************************************)
EXTENDS LlmBoundary, FiniteSetTheorems, SequenceTheorems, TLAPS

LEMMA RankFacts ==
  /\ DOMAIN SHIPMENT_RANK = SHIPMENT_STATES
  /\ DOMAIN INVOICE_RANK = INVOICE_STATES
  /\ \A s \in SHIPMENT_STATES : SHIPMENT_RANK[s] \in Nat \ {0}
  /\ \A s \in INVOICE_STATES : INVOICE_RANK[s] \in Nat \ {0}
PROOF BY DEF SHIPMENT_RANK, INVOICE_RANK, SHIPMENT_STATES, INVOICE_STATES

-----------------------------------------------------------------------------
(* What an API may return.                                                 *)
LEMMA BlockDefects ==
  ASSUME NEW states, NEW b \in Blocks(states) \cup Others
  PROVE  b.defect \in Defects
PROOF
<1>1. \A s, d : Object(s, d).defect = d
  BY DEF Object
<1>2. {"none", "wrong type"} \subseteq Defects
  BY DEF Defects, SchemaDefects
<1>3. Missing.defect = "none" /\ JsonNull.defect = "none"
  BY DEF Missing, JsonNull
<1>4. \/ b \in {Missing, JsonNull, Object("none", "wrong type")}
      \/ \E s : b = Object(s, "none")
      \/ \E s : \E d \in Defects : b = Object(s, d)
  BY DEF Blocks, Others
<1> QED BY <1>1, <1>2, <1>3, <1>4

LEMMA InputFacts ==
  ASSUME NEW input \in Inputs
  PROVE  /\ input \in {Falsy, Scalar, Garbled, NoArguments} \/ input.is = "object"
         /\ input # NoInput
         /\ input.shipment.defect \in Defects /\ input.invoice.defect \in Defects
PROOF
<1>1. CASE input \in {Falsy, Scalar, Garbled, NoArguments}
  BY <1>1 DEF Falsy, Scalar, Garbled, NoArguments, NoInput, Input, Missing, Defects
<1>2. CASE \E t \in Types \cup {"return"}, c \in {"low", "high", "certain"},
              complete \in BOOLEAN,
              b \in Blocks(SHIPMENT_STATES) \X Others \cup Others \X Blocks(INVOICE_STATES) :
             input = Input("object", t, c, complete, b[1], b[2])
  <2>1. PICK b \in Blocks(SHIPMENT_STATES) \X Others \cup Others \X Blocks(INVOICE_STATES) :
               input.is = "object" /\ input.shipment = b[1] /\ input.invoice = b[2]
    BY <1>2 DEF Input
  <2>2. input # NoInput
    BY <2>1 DEF Input, NoInput
  <2> QED BY <2>1, <2>2, BlockDefects
<1> QED BY <1>1, <1>2 DEF Inputs

LEMMA OutputFacts ==
  ASSUME NEW out \in Outputs \cup {NoOutput}
  PROVE  \/ out \in {NoOutput, Bare, NoCall}
         \/ out.envelope = "call" /\ out.input \in Inputs
PROOF BY DEF Outputs, Call

LEMMA Envelopes ==
  NoOutput.envelope = "rejected" /\ Bare.envelope = "bare" /\ NoCall.envelope = "no_call"
PROOF BY DEF NoOutput, Bare, NoCall

LEMMA NotConforming ==
  /\ Falsy.is = "falsy" /\ Scalar.is = "scalar" /\ Garbled.is = "garbled"
  /\ NoArguments.is = "no_arguments"
  /\ \A input \in {Falsy, Scalar, Garbled, NoArguments} : ~validateToolInput(input)
PROOF BY DEF Falsy, Scalar, Garbled, NoArguments, NoInput, Input, validateToolInput, Conforms

-----------------------------------------------------------------------------
(* The kind of the result says what came back, and the input goes along    *)
(* whenever there was a call.                                              *)
OutputInv == provider \in {"anthropic", "openai"} /\ output \in Outputs \cup {NoOutput}

LEMMA ResultFacts ==
  ASSUME OutputInv
  PROVE  /\ result.kind \in {"network", "invocation", "schema", "ok"}
         /\ result.kind = "network" =>
              output = NoOutput \/ (output = Bare /\ provider = "anthropic")
         /\ result.kind = "invocation" =>
              output \in {NoCall, Bare} /\ result.input = NoInput
         /\ result.kind = "schema" =>
              /\ output.envelope = "call" /\ result.input = output.input
              /\ output.input \in Inputs /\ ~validateToolInput(output.input)
         /\ result.kind = "ok" =>
              /\ output.envelope = "call" /\ result.input = output.input
              /\ output.input \in Inputs /\ validateToolInput(output.input)
PROOF
<1>1. CASE output \in {NoOutput, Bare, NoCall}
  BY <1>1, Envelopes
  DEF OutputInv, result, normalize, anthropicNormalize, openaiNormalize, Failure
<1>2. CASE output.envelope = "call" /\ output.input \in Inputs
  <2>1. Validated(output.input)
          = IF validateToolInput(output.input) THEN [kind |-> "ok", input |-> output.input]
            ELSE [kind |-> "schema", input |-> output.input]
    BY DEF Validated, Ok, Failure
  <2>2. result = Validated(output.input)
    BY <1>2, <2>1, NotConforming
    DEF OutputInv, result, normalize, anthropicNormalize, openaiNormalize, Failure
  <2> QED BY <1>2, <2>1, <2>2
<1> QED BY <1>1, <1>2, OutputFacts DEF OutputInv

(* The model returned and its output is unusable: the kinds that go to     *)
(* review.                                                                 *)
LEMMA UnusableFacts ==
  ASSUME OutputInv
  PROVE  Unusable <=> result.kind \in {"schema", "invocation"}
PROOF
<1>1. /\ result.kind \in {"network", "invocation", "schema", "ok"}
      /\ result.kind = "network" => ~Unusable
      /\ result.kind = "ok" => ~Unusable
  BY ResultFacts DEF Unusable
<1>2. result.kind = "invocation" => Unusable
  <2>1. result.kind = "invocation" /\ output = Bare => provider # "anthropic"
    BY Envelopes DEF result, normalize, anthropicNormalize, Failure
  <2> QED BY <2>1, ResultFacts, Envelopes DEF Unusable
<1>3. result.kind = "schema" => Unusable
  BY ResultFacts, Envelopes DEF Unusable
<1> QED BY <1>1, <1>2, <1>3

(* A validated event is of a known kind and state, and what the schema     *)
(* sees of it is right.                                                    *)
LEMMA ValidatedFacts ==
  ASSUME OutputInv, result.kind = "ok"
  PROVE  /\ result.input = output.input /\ output.envelope = "call"
         /\ output.input.is = "object"
         /\ output.input.type \in Types
         /\ output.input.confidence \in {"low", "medium", "high"}
         /\ output.input.type = "shipment" =>
              /\ output.input.shipment.is = "object"
              /\ output.input.shipment.state \in SHIPMENT_STATES
              /\ output.input.shipment.defect \in Defects \ SchemaDefects
         /\ output.input.type = "invoice" =>
              /\ output.input.invoice.is = "object"
              /\ output.input.invoice.state \in INVOICE_STATES
              /\ output.input.invoice.defect \in Defects \ SchemaDefects
PROOF
<1>1. /\ result.input = output.input /\ output.envelope = "call"
      /\ output.input \in Inputs /\ validateToolInput(output.input)
  BY ResultFacts
<1> QED BY <1>1, InputFacts DEF validateToolInput, Conforms, BlockConforms

(* What processOne hands to the settle transaction.                        *)
LEMMA SettleableFacts ==
  ASSUME OutputInv, Settleable
  PROVE  /\ block.is = "object" /\ Ranked
         /\ output.input.confidence \in {"medium", "high"}
         /\ output.input.type = "shipment" => block = output.input.shipment
         /\ output.input.type = "invoice" => block = output.input.invoice
         /\ output.input.type \in {"shipment", "invoice"}
PROOF
<1>1. /\ result.input = output.input /\ result.kind = "ok"
      /\ output.input.type \in {"shipment", "invoice"}
  BY ValidatedFacts DEF Settleable, Types
<1>2. output.input.confidence \in {"medium", "high"}
  BY <1>1, ValidatedFacts DEF Settleable, IsLow
<1>3. /\ output.input.type = "shipment" => block = output.input.shipment
      /\ output.input.type = "invoice" => block = output.input.invoice
  BY <1>1 DEF block
<1>4. block.is = "object" /\ block.state \in SHIPMENT_STATES \cup INVOICE_STATES
  BY <1>1, <1>3, ValidatedFacts
<1> QED BY <1>1, <1>2, <1>3, <1>4, RankFacts DEF Ranked

-----------------------------------------------------------------------------
(* The row follows the job, and each status tells what came back.          *)
RowInv ==
  /\ attempts \in Nat /\ response \in Nat /\ faults \in Nat /\ unusable \in Nat
  /\ pc \in {"absent", "queued", "waiting", "done"} \cup Working
  /\ pc = "absent" => status = "absent" /\ output = NoOutput
  /\ pc \in {"queued", "waiting"} => status \in {"pending", "processing"}
  /\ pc \in Working => status = "processing"
  /\ pc = "done" => status \in Terminal
  /\ pc = "calling" => output = NoOutput

ReadInv ==
  /\ pc \in {"settling", "settle_failed"} => Settleable
  /\ status = "normalized" => Settleable /\ Writable

BoundaryInv ==
  OutputInv /\ RowInv /\ ReadInv /\ UnusableIsNotRetried /\ ReviewKeepsEvidence

LEMMA SoundEventsFollow == OutputInv /\ ReadInv => OnlySoundEvents
PROOF
<1> SUFFICES ASSUME OutputInv, ReadInv PROVE OnlySoundEvents
  OBVIOUS
<1>1. pc \in {"settling", "settle_failed"} => block.is = "object" /\ Ranked
  BY SettleableFacts DEF ReadInv
<1>2. ASSUME status = "normalized"
      PROVE  /\ output.envelope = "call" /\ output.input.confidence \in {"medium", "high"}
             /\ \/ /\ output.input.type = "shipment"
                   /\ output.input.shipment.state \in DOMAIN SHIPMENT_RANK
                   /\ output.input.shipment.defect = "none"
                \/ /\ output.input.type = "invoice"
                   /\ output.input.invoice.state \in DOMAIN INVOICE_RANK
                   /\ output.input.invoice.defect = "none"
  <2>1. Settleable /\ result.kind = "ok" /\ block.defect \notin ColumnDefects
    BY <1>2 DEF ReadInv, Settleable, Writable
  <2>2. \A d \in Defects \ SchemaDefects : d \in ColumnDefects \/ d = "none"
    BY DEF Defects
  <2> QED BY <2>1, <2>2, SettleableFacts, ValidatedFacts, RankFacts
<1> QED BY <1>1, <1>2 DEF OnlySoundEvents

(* What was read is judged alike by both providers, but for a body without *)
(* contents.                                                               *)
LEMMA JudgedAlike == OutputInv => ProvidersAgree
PROOF
<1>1. ASSUME output.envelope = "call"
      PROVE  anthropicNormalize(output) = openaiNormalize(output)
  <2>1. output.input \in {Garbled, NoArguments} =>
          Validated(output.input) = Failure("schema", output.input)
    BY NotConforming DEF Validated
  <2> QED BY <1>1, <2>1 DEF anthropicNormalize, openaiNormalize
<1>2. \A out \in {NoOutput, NoCall} : anthropicNormalize(out) = openaiNormalize(out)
  BY Envelopes DEF anthropicNormalize, openaiNormalize
<1> QED BY <1>1, <1>2, OutputFacts DEF OutputInv, ProvidersAgree

-----------------------------------------------------------------------------
(* Steps.  Only a fetch of the row and a response change what was read.    *)
LEMMA SameOutput ==
  ASSUME UNCHANGED <<provider, output>>
  PROVE  /\ result' = result /\ (Settleable' <=> Settleable)
         /\ block' = block /\ (Writable' <=> Writable) /\ (OutputInv <=> OutputInv')
         /\ (Unusable' <=> Unusable)
PROOF
<1>1. result' = result
  BY DEF result, normalize
<1>2. block' = block
  BY <1>1 DEF block
<1> QED BY <1>1, <1>2 DEF Settleable, IsLow, Writable, Ranked, OutputInv, Unusable

Shown ==
  IF output.envelope # "call" \/ output.input \in {Falsy, NoArguments} THEN 0 ELSE attempts

LEMMA FinishStep ==
  ASSUME BoundaryInv, pc \in Working, NEW s \in Terminal, NEW resp \in Nat, Finish(s, resp),
         s = "normalized" => Settleable /\ Writable, s = "dead" \/ resp = Shown
  PROVE  BoundaryInv'
PROOF
<1>1. OutputInv' /\ ReadInv'
  BY SameOutput DEF Finish, BoundaryInv, ReadInv
<1>2. RowInv'
  BY DEF Finish, BoundaryInv, RowInv, Working, counts
<1>3. UnusableIsNotRetried'
  <2>1. unusable \in Nat /\ faults \in Nat /\ pc \notin {"done"}
    BY DEF BoundaryInv, RowInv, Working
  <2>2. unusable <= faults + (IF Unusable THEN 1 ELSE 0)
    BY <2>1 DEF BoundaryInv, UnusableIsNotRetried
  <2> QED BY <2>2, SameOutput DEF Finish, UnusableIsNotRetried, Terminal, counts
<1>4. ReviewKeepsEvidence'
  BY DEF Finish, ReviewKeepsEvidence, Shown
<1> QED BY <1>1, <1>2, <1>3, <1>4 DEF BoundaryInv

LEMMA BackOffStep ==
  ASSUME BoundaryInv, NEW resp \in Nat, BackOff(resp), ~Unusable
  PROVE  BoundaryInv'
PROOF
<1>1. OutputInv' /\ ReadInv'
  BY SameOutput DEF BackOff, BoundaryInv, ReadInv
<1>2. RowInv'
  BY DEF BackOff, BoundaryInv, RowInv, Working, counts
<1>3. UnusableIsNotRetried' /\ ReviewKeepsEvidence'
  BY SameOutput
  DEF BackOff, BoundaryInv, UnusableIsNotRetried, ReviewKeepsEvidence, Terminal, counts
<1> QED BY <1>1, <1>2, <1>3 DEF BoundaryInv

(* An attempt broken off pays for the answer that it had.                  *)
LEMMA BreakOffStep ==
  ASSUME BoundaryInv, pc \in Working, BreakOff
  PROVE  BoundaryInv'
PROOF
<1>1. /\ status = "processing" /\ UNCHANGED <<provider, output, attempts, status, response>>
      /\ pc' = "waiting" /\ faults' = faults + 1 /\ unusable' = unusable
      /\ faults \in Nat /\ unusable \in Nat
  BY DEF BoundaryInv, RowInv, BreakOff, row
<1>2. OutputInv' /\ ReadInv'
  BY <1>1, SameOutput DEF BoundaryInv, ReadInv
<1>3. RowInv'
  BY <1>1 DEF BoundaryInv, RowInv, Working
<1>4. UnusableIsNotRetried'
  <2>1. unusable <= faults + 1
    BY <1>1 DEF BoundaryInv, UnusableIsNotRetried
  <2> QED BY <1>1, <2>1 DEF UnusableIsNotRetried
<1>5. ReviewKeepsEvidence'
  BY <1>1 DEF ReviewKeepsEvidence, Terminal
<1> QED BY <1>2, <1>3, <1>4, <1>5 DEF BoundaryInv

LEMMA BoundaryStep == BoundaryInv /\ [Next]_vars => BoundaryInv'
PROOF
<1> SUFFICES ASSUME BoundaryInv, [Next]_vars PROVE BoundaryInv'
  OBVIOUS
<1>0. OutputInv /\ RowInv /\ ReadInv /\ UnusableIsNotRetried /\ ReviewKeepsEvidence
  BY DEF BoundaryInv
<1>a. attempts \in Nat /\ response \in Nat
  BY <1>0 DEF RowInv
(* Steps that leave the response as it is.                                 *)
<1>1. ASSUME UNCHANGED <<provider, output, response, faults, unusable>>,
             \/ UNCHANGED <<pc, status, attempts>>
             \/ Receive \/ Claim \/ LockExpires \/ SdkRejects \/ StartSettle \/ SettleThrows
      PROVE  BoundaryInv'
  <2>1. OutputInv'
    BY <1>0, <1>1, SameOutput
  <2>2. RowInv'
    BY <1>0, <1>1 DEF RowInv, Working, Receive, Claim, LockExpires, SdkRejects, StartSettle,
                      SettleThrows, row
  <2>3. ReadInv'
    <3>1. StartSettle => Settleable
      BY DEF StartSettle
    <3>2. pc' \in {"settling", "settle_failed"} => Settleable
      BY <1>0, <1>1, <3>1 DEF ReadInv, Receive, Claim, LockExpires, SdkRejects, StartSettle,
                              SettleThrows
    <3>3. status' = "normalized" => status = "normalized"
      BY <1>1 DEF Receive, Claim, LockExpires, SdkRejects, StartSettle, SettleThrows, row
    <3> QED BY <1>0, <1>1, <3>2, <3>3, SameOutput DEF ReadInv
  <2>4. UnusableIsNotRetried'
    <3>1. (Unusable' <=> Unusable) /\ (pc = "absent" \/ SdkRejects => ~Unusable)
      BY <1>0, <1>1, SameOutput DEF RowInv, SdkRejects, Unusable
    <3>2. StartSettle => ~Unusable
      BY <1>0, UnusableFacts DEF StartSettle, Settleable
    <3>3. faults \in Nat /\ unusable \in Nat
      BY <1>0 DEF RowInv
    <3>4. status' = "pending" => ~Unusable'
      BY <1>0, <1>1, <3>1 DEF UnusableIsNotRetried, Receive, Claim, LockExpires, SdkRejects,
                              StartSettle, SettleThrows, row
    <3>5. unusable <= faults + (IF pc' \in {"answered", "done"} /\ Unusable THEN 1 ELSE 0)
      BY <1>0, <1>1, <3>1, <3>2, <3>3
      DEF UnusableIsNotRetried, Receive, Claim, LockExpires, SdkRejects, StartSettle, SettleThrows
    <3> QED BY <1>1, <3>1, <3>4, <3>5 DEF UnusableIsNotRetried
  <2>5. ReviewKeepsEvidence'
    BY <1>0, <1>1 DEF ReviewKeepsEvidence, RowInv, Receive, Claim, LockExpires, SdkRejects,
                      StartSettle, SettleThrows, row, Terminal
  <2> QED BY <2>1, <2>2, <2>3, <2>4, <2>5 DEF BoundaryInv
<1>2. ASSUME Refetch \/ Responds PROVE BoundaryInv'
  <2>1. /\ pc \in Working /\ pc' \in {"calling", "answered"} /\ UNCHANGED <<provider, row>>
        /\ output' \in Outputs \cup {NoOutput} /\ (pc' = "calling" => output' = NoOutput)
    BY <1>2 DEF Refetch, Responds, Working
  <2>2. status' = "processing" /\ attempts' = attempts /\ response' = response
    BY <1>0, <2>1 DEF RowInv, row
  <2>3. /\ faults \in Nat /\ unusable \in Nat /\ unusable <= faults
        /\ faults' = faults
        /\ unusable' = IF Refetch THEN unusable ELSE unusable + (IF Unusable' THEN 1 ELSE 0)
        /\ Refetch => ~Unusable'
    BY <1>0, <1>2
    DEF RowInv, UnusableIsNotRetried, Refetch, Responds, Unusable, counts
  <2>4. UnusableIsNotRetried'
    BY <1>2, <2>2, <2>3 DEF UnusableIsNotRetried, Refetch, Responds
  <2>5. unusable' \in Nat /\ faults' \in Nat
    BY <2>3
  <2> QED BY <1>0, <2>1, <2>2, <2>4, <2>5 DEF BoundaryInv, OutputInv, RowInv, ReadInv, Working,
                                  ReviewKeepsEvidence, Terminal
<1>3. CASE RouteUnusable
  <2>1. /\ pc \in Working /\ result.kind \in {"schema", "invocation"}
        /\ Finish("needs_review", Evidence(result.input))
    BY <1>3 DEF RouteUnusable, Answers, Working
  <2>2. Evidence(result.input) = Shown
    <3>1. CASE result.kind = "invocation"
      BY <1>0, <3>1, ResultFacts, Envelopes DEF Evidence, Shown
    <3>2. CASE result.kind = "schema"
      <4>1. output.envelope = "call" /\ result.input = output.input /\ output.input # NoInput
        BY <1>0, <3>2, ResultFacts, InputFacts
      <4> QED BY <4>1 DEF Evidence, Shown
    <3> QED BY <2>1, <3>1, <3>2
  <2>3. Shown \in Nat
    BY <1>a DEF Shown
  <2> QED BY <2>1, <2>2, <2>3, FinishStep DEF Terminal
<1>4. CASE DeadLetterNetwork \/ DeadLetterSettle
  BY <1>a, <1>4, FinishStep DEF DeadLetterNetwork, DeadLetterSettle, Answers, Working, Terminal
<1>5. CASE BackOffNetwork
  BY <1>0, <1>a, <1>5, UnusableFacts, BackOffStep DEF BackOffNetwork, Answers
<1>6. CASE BackOffSettle
  <2>1. ~Unusable
    BY <1>0, <1>6, UnusableFacts DEF BackOffSettle, ReadInv, Settleable
  <2> QED BY <1>a, <1>6, <2>1, BackOffStep DEF BackOffSettle
<1>7. ASSUME result.kind = "ok" PROVE attempts = Shown
  BY <1>0, <1>7, ValidatedFacts, NotConforming DEF Shown
<1>8. CASE MarkUnclassified \/ RouteLowConfidence
  BY <1>a, <1>7, <1>8, FinishStep
  DEF MarkUnclassified, RouteLowConfidence, Answers, Working, Terminal
<1>9. CASE Settle
  <2>1. Settleable /\ Writable /\ pc \in Working /\ Finish("normalized", attempts)
    BY <1>0, <1>9 DEF Settle, ReadInv, Working
  <2> QED BY <1>a, <1>7, <2>1, FinishStep DEF Terminal, Settleable
<1>10. ASSUME \/ UNCHANGED vars \/ Receive \/ Claim \/ LockExpires \/ SdkRejects \/ StartSettle
              \/ SettleThrows \/ \E c \in Chars : ReadKey(c)
       PROVE  BoundaryInv'
  BY <1>1, <1>10 DEF vars, row, counts, Receive, Claim, LockExpires, SdkRejects, StartSettle,
                     SettleThrows, ReadKey
<1>11. CASE StatusWriteFails \/ RefetchFails \/ Crash
  BY <1>11, BreakOffStep DEF StatusWriteFails, RefetchFails, Crash, Working
<1> QED BY <1>2, <1>3, <1>4, <1>5, <1>6, <1>8, <1>9, <1>10, <1>11 DEF Next, ProcessOne

LEMMA BoundaryInvariant == Spec => []BoundaryInv
PROOF
<1>1. Init => BoundaryInv
  BY DEF Init, BoundaryInv, OutputInv, RowInv, ReadInv, UnusableIsNotRetried,
         ReviewKeepsEvidence, Unusable, Terminal, Working
<1> QED BY <1>1, BoundaryStep, PTL DEF Spec

(* Whatever the API returns, attempt after attempt: only an event that is  *)
(* sound in every field the program relies on reaches the tables.          *)
THEOREM OnlySoundEventsSettle == Spec => []OnlySoundEvents
PROOF
<1>1. BoundaryInv => OnlySoundEvents
  BY SoundEventsFollow DEF BoundaryInv
<1> QED BY <1>1, BoundaryInvariant, PTL

(* The providers judge a response alike, with the one exception.           *)
THEOREM ProvidersStayAlike == Spec => []ProvidersAgree
PROOF
<1>1. BoundaryInv => ProvidersAgree
  BY JudgedAlike DEF BoundaryInv
<1> QED BY <1>1, BoundaryInvariant, PTL

(* No branch of processOne retries an answer that is unusable: however     *)
(* often attempts are broken off, each such answer but the last one has a  *)
(* fault of its own.                                                       *)
THEOREM UnusableGoesToReview == Spec => []UnusableIsNotRetried
PROOF
<1>1. BoundaryInv => UnusableIsNotRetried
  BY DEF BoundaryInv
<1> QED BY <1>1, BoundaryInvariant, PTL

(* A reviewer sees the answer of the attempt that ended the webhook,       *)
(* whatever attempts were broken off before it.                            *)
THEOREM EvidenceIsOfLastAttempt == Spec => []ReviewKeepsEvidence
PROOF
<1>1. BoundaryInv => ReviewKeepsEvidence
  BY DEF BoundaryInv
<1> QED BY <1>1, BoundaryInvariant, PTL

-----------------------------------------------------------------------------
(* The queue that this row and this worker make.                           *)
Kinds == {"shipment", "invoice"}
QStatus == <<status>>
QLeased == IF pc \in {"absent", "queued"} THEN {} ELSE {1}
QEntityOf == <<IF Settled THEN output.input.type ELSE "none">>
QCurrent == [t \in Kinds |->
  IF Settled /\ output.input.type = t THEN EventOf(output.input).state ELSE "none"]
QHistory == [t \in Kinds |->
  IF Settled /\ output.input.type = t
  THEN <<[raw |-> 1, state |-> EventOf(output.input).state, advanced |-> TRUE]>>
  ELSE <<>>]
QNoEvent == [entity |-> "none", state |-> "none"]
QJobOf == [phase |-> Phase,
           attempts |-> IF Phase \in {"none", "claimed"} THEN 0 ELSE attempts,
           event |-> IF Phase = "settling" THEN EventOf(output.input) ELSE QNoEvent]
QNoJob == [phase |-> "none", attempts |-> 0, event |-> QNoEvent]
QJob(j) == [w \in {"worker"} |-> <<j>>]

LEMMA Singles ==
  /\ \A a : <<a>>[1] = a
  /\ \A a, b : [<<a>> EXCEPT ![1] = b] = <<b>>
  /\ \A a : [r \in {1} |-> a] = <<a>>
  /\ \A j, b : [QJob(j) EXCEPT !["worker"][1] = b] = QJob(b)
  /\ \A j : QJob(j)["worker"] = <<j>> /\ QJob(j)["worker"][1] = j
PROOF
<1>1. \A a : <<a>>[1] = a
  OBVIOUS
<1>2. \A a, b : [<<a>> EXCEPT ![1] = b] = <<b>>
  OBVIOUS
<1>3. \A a : [r \in {1} |-> a] = <<a>>
  OBVIOUS
<1>4. \A j, b : [QJob(j) EXCEPT !["worker"][1] = b] = QJob(b)
  BY <1>2 DEF QJob
<1> QED BY <1>1, <1>2, <1>3, <1>4 DEF QJob

LEMMA QRankFacts ==
  /\ DOMAIN Rank = SHIPMENT_STATES \cup INVOICE_STATES
  /\ \A s \in DOMAIN Rank : Rank[s] \in Nat \ {0}
PROOF BY RankFacts DEF Rank

(* A phase of its own for each thing a job can be at.                      *)
LEMMA PhaseFacts ==
  ASSUME OutputInv
  PROVE  /\ pc \in {"absent", "queued", "waiting", "done"} => Phase = "none"
         /\ pc \in {"claimed", "calling", "settling", "settle_failed"} => Phase = pc
         /\ pc = "answered" =>
              /\ Phase \in {"network", "unusable", "unclassified", "low_confidence", "settling"}
              /\ Phase = "network" <=> result.kind = "network"
              /\ Phase = "unusable" <=> result.kind \in {"schema", "invocation"}
              /\ Phase = "unclassified" <=>
                   result.kind = "ok" /\ result.input.type = "unclassified"
              /\ Phase = "low_confidence" <=>
                   result.kind = "ok" /\ result.input.type # "unclassified" /\ IsLow
              /\ Phase = "settling" <=> Settleable
PROOF
<1>1. pc # "answered" =>
        /\ pc \in {"absent", "queued", "waiting", "done"} => Phase = "none"
        /\ pc \in {"claimed", "calling", "settling", "settle_failed"} => Phase = pc
  BY DEF Phase, Answer
<1>2. CASE pc = "answered"
  <2>1. /\ result.kind \in {"network", "invocation", "schema", "ok"}
        /\ result.kind = "ok" => result.input = output.input
    BY ResultFacts
  <2> QED BY <1>2, <2>1 DEF Phase, Answer, IsLow, Settleable
<1> QED BY <1>1, <1>2

LEMMA EventFacts ==
  ASSUME OutputInv, Settleable
  PROVE  /\ EventOf(output.input) \in [entity : Kinds, state : DOMAIN Rank]
         /\ EventOf(output.input).entity = output.input.type
PROOF
<1>1. /\ output.input.type \in Kinds
      /\ output.input.type = "shipment" => output.input.shipment.state \in SHIPMENT_STATES
      /\ output.input.type = "invoice" => output.input.invoice.state \in INVOICE_STATES
  BY SettleableFacts, ValidatedFacts DEF Settleable, Kinds
<1> QED BY <1>1, QRankFacts DEF EventOf, Kinds

(* What a step does to the queue that shows the row and the job.           *)
LEMMA JobOfPhase ==
  /\ Phase = "none" => QJobOf = QNoJob
  /\ Phase = "claimed" => QJobOf = [QNoJob EXCEPT !.phase = "claimed"]
  /\ Phase \notin {"none", "claimed", "settling"} =>
       QJobOf = [phase |-> Phase, attempts |-> attempts, event |-> QNoEvent]
  /\ Phase = "settling" =>
       QJobOf = [phase |-> Phase, attempts |-> attempts, event |-> EventOf(output.input)]
PROOF BY DEF QJobOf, QNoJob

LEMMA UnsettledTables ==
  ASSUME status # "normalized"
  PROVE  /\ QEntityOf = <<"none">>
         /\ QCurrent = [t \in Kinds |-> "none"]
         /\ QHistory = [t \in Kinds |-> <<>>]
PROOF BY DEF QEntityOf, QCurrent, QHistory, Settled

LEMMA QueueInitial == Init => Queue!Init
PROOF
<1> SUFFICES ASSUME Init PROVE Queue!Init
  OBVIOUS
<1>1. pc = "absent" /\ status = "absent" /\ attempts = 0 /\ faults = 0
  BY DEF Init
<1>2. Phase = "none" /\ ~Settled
  BY <1>1 DEF Phase, Answer, Settled
<1>3. QJobOf = QNoJob
  BY <1>2, JobOfPhase
<1>4. \A a : [r \in {1} |-> a] = <<a>>
  BY Singles
<1>5. QJob(QJobOf) = [w \in {"worker"} |-> [r \in {1} |-> QNoJob]]
  BY <1>3, <1>4 DEF QJob
<1> QED BY <1>1, <1>2, <1>4, <1>5 DEF Queue!Init, Queue!LedgerInit, Queue!NoJob,
        QJob, QNoJob, QJobOf, QNoEvent

-----------------------------------------------------------------------------
(* The steps of the queue, one by one.                                     *)
LEMMA TablesStay ==
  ASSUME status # "normalized", status' # "normalized"
  PROVE  UNCHANGED <<QEntityOf, QCurrent, QHistory>>
PROOF
<1>1. /\ QEntityOf' = <<"none">>
      /\ QCurrent' = [t \in Kinds |-> "none"]
      /\ QHistory' = [t \in Kinds |-> <<>>]
  BY DEF QEntityOf, QCurrent, QHistory, Settled
<1> QED BY <1>1, UnsettledTables

LEMMA JobEnds ==
  ASSUME pc' \in {"absent", "queued", "waiting", "done"}
  PROVE  QJob(QJobOf') = [QJob(QJobOf) EXCEPT !["worker"][1] = QNoJob]
PROOF
<1>1. Phase' = "none"
  BY DEF Phase
<1>2. QJobOf' = QNoJob
  BY <1>1 DEF QJobOf, QNoJob
<1> QED BY <1>2, Singles

LEMMA QueueFinish ==
  ASSUME BoundaryInv, pc \in Working, NEW s \in Terminal \ {"normalized"}, NEW resp,
         Finish(s, resp)
  PROVE  Queue!FinishAs("worker", 1, s)
PROOF
<1>1. status # "normalized" /\ status' # "normalized" /\ status' = s
  BY DEF Finish, BoundaryInv, RowInv
<1>2. UNCHANGED <<QEntityOf, QCurrent, QHistory>>
  BY <1>1, TablesStay
<1>3. QStatus' = [QStatus EXCEPT ![1] = s]
  BY <1>1, Singles DEF QStatus
<1>4. QJob(QJobOf') = [QJob(QJobOf) EXCEPT !["worker"][1] = QNoJob]
  BY JobEnds DEF Finish
<1>5. QLeased' = QLeased /\ attempts' = attempts /\ faults' = faults
  BY DEF Finish, QLeased, Working, counts
<1> QED BY <1>2, <1>3, <1>4, <1>5
        DEF Queue!FinishAs, Queue!EndJob, Queue!SetJob, Queue!NoJob, QEntityOf, QCurrent,
            QHistory, QStatus, QJob, QJobOf, QNoJob, QNoEvent, QLeased, Kinds

LEMMA QueueBackOff ==
  ASSUME BoundaryInv, pc \in Working, NEW resp, BackOff(resp)
  PROVE  Queue!BackOff("worker", 1)
PROOF
<1>1. status # "normalized" /\ status' # "normalized" /\ status' = "pending"
  BY DEF BackOff, BoundaryInv, RowInv
<1>2. UNCHANGED <<QEntityOf, QCurrent, QHistory>>
  BY <1>1, TablesStay
<1>3. QStatus' = [QStatus EXCEPT ![1] = "pending"]
  BY <1>1, Singles DEF QStatus
<1>4. QJob(QJobOf') = [QJob(QJobOf) EXCEPT !["worker"][1] = QNoJob]
  BY JobEnds DEF BackOff
<1>5. QLeased' = QLeased \cup {1} /\ attempts' = attempts /\ faults' = faults
  BY DEF BackOff, QLeased, Working, counts
<1> QED BY <1>2, <1>3, <1>4, <1>5
        DEF Queue!BackOff, Queue!EndJob, Queue!SetJob, Queue!NoJob, QEntityOf, QCurrent,
            QHistory, QStatus, QJob, QJobOf, QNoJob, QNoEvent, QLeased, Kinds

(* The row is in no worker's hands: an insert, and the end of a lock.      *)
LEMMA IdleStays ==
  ASSUME pc \in {"absent", "waiting"}, pc' = "queued",
         status # "normalized", status' # "normalized"
  PROVE  UNCHANGED <<QEntityOf, QCurrent, QHistory>> /\ QJobOf' = QJobOf
PROOF
<1>1. Phase = "none" /\ Phase' = "none"
  BY DEF Phase
<1> QED BY <1>1, TablesStay DEF QJobOf

LEMMA QueueReceive ==
  ASSUME BoundaryInv, Receive
  PROVE  Queue!Receive(1)
PROOF
<1>1. status = "absent" /\ status' = "pending" /\ UNCHANGED <<QEntityOf, QCurrent, QHistory, QJobOf>>
  BY IdleStays DEF BoundaryInv, RowInv, Receive
<1>2. QStatus' = [QStatus EXCEPT ![1] = "pending"] /\ QStatus[1] = "absent"
  BY <1>1, Singles DEF QStatus
<1>3. QLeased' = QLeased /\ attempts' = attempts /\ faults' = faults
  BY DEF Receive, QLeased, counts
<1> QED BY <1>1, <1>2, <1>3
        DEF Queue!Receive, QEntityOf, QCurrent, QHistory, QStatus, QJobOf, QNoEvent, QLeased,
            Kinds

LEMMA QueueLockExpires ==
  ASSUME BoundaryInv, LockExpires
  PROVE  Queue!LockExpires(1)
PROOF
<1>1. /\ status' = status /\ attempts' = attempts /\ faults' = faults
      /\ UNCHANGED <<QEntityOf, QCurrent, QHistory, QJobOf>>
  BY IdleStays DEF BoundaryInv, RowInv, LockExpires, row, counts
<1>2. QLeased = {1} /\ QLeased' = QLeased \ {1}
  BY DEF LockExpires, QLeased
<1>3. QJob(QJobOf)["worker"][1].phase = "none"
  <2>1. Phase = "none"
    BY DEF LockExpires, Phase
  <2> QED BY <2>1, Singles DEF QJobOf
<1>4. \A w \in {"worker"} : QJob(QJobOf)[w][1].phase = "none"
  BY <1>3
<1> QED BY <1>1, <1>2, <1>4
        DEF Queue!LockExpires, Queue!Busy, QEntityOf, QCurrent, QHistory, QJob, QJobOf,
            QNoEvent, QLeased, Kinds

LEMMA QueueClaim ==
  ASSUME BoundaryInv, Claim
  PROVE  Queue!Claim("worker")
PROOF
<1>1. /\ status \in {"pending", "processing"} /\ status' = "processing"
      /\ attempts' = attempts + 1 /\ pc = "queued" /\ pc' = "claimed" /\ faults' = faults
  BY DEF BoundaryInv, RowInv, Claim, counts
<1>2. UNCHANGED <<QEntityOf, QCurrent, QHistory>>
  BY <1>1, TablesStay
<1>3. Phase = "none" /\ Phase' = "claimed"
  BY <1>1 DEF Phase
<1>4. QJobOf = QNoJob /\ QJobOf' = [QNoJob EXCEPT !.phase = "claimed"]
  BY <1>3 DEF QJobOf, QNoJob
<1>5. Queue!Idle("worker")
  <2>1. QJob(QJobOf)["worker"][1].phase = "none"
    BY <1>4, Singles DEF QNoJob
  <2>2. \A r \in {1} : QJob(QJobOf)["worker"][r].phase = "none"
    BY <2>1
  <2> QED BY <2>2 DEF Queue!Idle, Queue!Busy, QJob, QJobOf, QNoEvent
<1>6. Queue!Candidates = {1}
  <2>1. QStatus[1] \in {"pending", "processing"} /\ QLeased = {}
    BY <1>1, Singles DEF QStatus, QLeased
  <2>2. {r \in {1} : QStatus[r] \in {"pending", "processing"} /\ r \notin QLeased} = {1}
    BY <2>1
  <2> QED BY <2>2 DEF Queue!Candidates, Queue!Claimable, QStatus, QLeased
<1>7. Queue!FirstBatch({1}) = {1}
  <2>1. {q \in {1} : q < 1} = {}
    OBVIOUS
  <2>2. Cardinality({q \in {1} : q < 1}) < 1
    BY <2>1, FS_EmptySet
  <2>3. \A S : Queue!Cardinality(S) = Cardinality(S)
    BY Zenon DEF Cardinality, Queue!Cardinality
  <2> QED BY <2>2, <2>3 DEF Queue!FirstBatch
<1>8. /\ QStatus' = [r \in {1} |-> IF r \in {1} THEN "processing" ELSE QStatus[r]]
      /\ <<attempts'>> = [r \in {1} |-> IF r \in {1} THEN <<attempts>>[r] + 1 ELSE <<attempts>>[r]]
  <2>1. \A r \in {1} : /\ (IF r \in {1} THEN "processing" ELSE QStatus[r]) = "processing"
                       /\ (IF r \in {1} THEN <<attempts>>[r] + 1 ELSE <<attempts>>[r])
                            = attempts + 1
    OBVIOUS
  <2> QED BY <1>1, <2>1, Singles DEF QStatus
<1>9. QLeased' = QLeased \cup {1}
  BY <1>1 DEF QLeased
<1>10. QJob(QJobOf') = [QJob(QJobOf) EXCEPT !["worker"] =
          [r \in {1} |-> IF r \in {1} THEN [QNoJob EXCEPT !.phase = "claimed"] ELSE QNoJob]]
  <2>1. [r \in {1} |-> IF r \in {1} THEN [QNoJob EXCEPT !.phase = "claimed"] ELSE QNoJob]
          = <<QJobOf'>>
    <3>1. \A r \in {1} : (IF r \in {1} THEN [QNoJob EXCEPT !.phase = "claimed"] ELSE QNoJob)
                           = QJobOf'
      BY <1>4
    <3> QED BY <3>1, Singles
  <2> QED BY <2>1 DEF QJob
<1>11. {} \in SUBSET Queue!MayBeLocked("worker") /\ Queue!Candidates \ {} = {1}
  BY <1>6
<1>12. Queue!FirstBatch(Queue!Candidates \ {}) = {1}
  BY <1>7, <1>11
<1>13. \E skipped \in SUBSET Queue!MayBeLocked("worker") :
         LET batch == Queue!FirstBatch(Queue!Candidates \ skipped) IN
         /\ batch # {}
         /\ QStatus' = [r \in {1} |-> IF r \in batch THEN "processing" ELSE QStatus[r]]
         /\ <<attempts'>> =
              [r \in {1} |-> IF r \in batch THEN <<attempts>>[r] + 1 ELSE <<attempts>>[r]]
         /\ QLeased' = QLeased \cup batch
         /\ QJob(QJobOf') = [QJob(QJobOf) EXCEPT !["worker"] =
              [r \in {1} |-> IF r \in batch THEN [QNoJob EXCEPT !.phase = "claimed"]
                             ELSE QNoJob]]
  BY <1>8, <1>9, <1>10, <1>11, <1>12, {1} # {}
<1> QED BY <1>1, <1>2, <1>5, <1>13
        DEF Queue!Claim, Queue!NoJob, QEntityOf, QCurrent, QHistory, QStatus, QJob, QJobOf,
            QNoJob, QNoEvent, QLeased, Kinds

(* While the job goes on: nothing but the record of the job changes.       *)
LEMMA RowStays ==
  ASSUME BoundaryInv, pc \in Working, pc' \in Working, status' = status, attempts' = attempts
  PROVE  /\ UNCHANGED <<QStatus, QLeased, QEntityOf, QCurrent, QHistory>>
         /\ <<attempts'>> = <<attempts>>
PROOF
<1>1. status # "normalized" /\ status' # "normalized"
  BY DEF BoundaryInv, RowInv
<1> QED BY <1>1, TablesStay DEF QStatus, QLeased, Working

LEMMA QueueRefetch ==
  ASSUME BoundaryInv, Refetch
  PROVE  Queue!Refetch("worker")
PROOF
<1>1. /\ pc = "claimed" /\ pc' = "calling" /\ status' = status /\ attempts' = attempts
      /\ faults' = faults
  BY DEF Refetch, row, counts
<1>2. /\ UNCHANGED <<QStatus, QLeased, QEntityOf, QCurrent, QHistory>>
      /\ <<attempts'>> = <<attempts>>
  BY <1>1, RowStays DEF Working
<1>3. Phase = "claimed" /\ Phase' = "calling"
  BY <1>1 DEF Phase
<1>4. QJobOf.phase = "claimed"
  BY <1>3 DEF QJobOf
<1>5. QJobOf' = [phase |-> "calling", attempts |-> attempts, event |-> QNoEvent]
  BY <1>1, <1>3 DEF QJobOf
<1>6. QJob(QJobOf') = [QJob(QJobOf) EXCEPT !["worker"] =
        [r \in {1} |-> IF QJob(QJobOf)["worker"][r].phase = "claimed"
                       THEN [phase |-> "calling", attempts |-> <<attempts>>[r],
                             event |-> QNoEvent]
                       ELSE QJob(QJobOf)["worker"][r]]]
  <2>1. [r \in {1} |-> IF QJob(QJobOf)["worker"][r].phase = "claimed"
                       THEN [phase |-> "calling", attempts |-> <<attempts>>[r],
                             event |-> QNoEvent]
                       ELSE QJob(QJobOf)["worker"][r]] = [r \in {1} |-> QJobOf']
    <3>1. QJob(QJobOf)["worker"][1].phase = "claimed" /\ <<attempts>>[1] = attempts
      BY <1>4, Singles
    <3> QED BY <1>5, <3>1
  <2>2. [r \in {1} |-> QJobOf'] = <<QJobOf'>>
    BY Singles
  <2> QED BY <2>1, <2>2 DEF QJob
<1>7. \E r \in {1} : QJob(QJobOf)["worker"][r].phase = "claimed"
  BY <1>4, Singles
<1> QED BY <1>1, <1>2, <1>6, <1>7
        DEF Queue!Refetch, Queue!queueVars, QEntityOf, QCurrent, QHistory, QStatus, QJob,
            QJobOf, QNoEvent, QLeased, Kinds

IsJob(j, phase, tries, event) == j = [phase |-> phase, attempts |-> tries, event |-> event]

LEMMA OneUpdate ==
  ASSUME NEW p, NEW a, NEW e, NEW q, NEW j, NEW k, IsJob(j, p, a, e), IsJob(k, q, a, e)
  PROVE  k = [j EXCEPT !.phase = q]
PROOF BY DEF IsJob

LEMMA TwoUpdates ==
  ASSUME NEW p, NEW a, NEW e, NEW q, NEW f, NEW j, NEW k,
         IsJob(j, p, a, e), IsJob(k, q, a, f)
  PROVE  k = [j EXCEPT !.phase = q, !.event = f]
PROOF
<1> DEFINE s == [j EXCEPT !.phase = q]
<1>1. s = [phase |-> q, attempts |-> a, event |-> e]
  BY DEF IsJob
<1>2. [j EXCEPT !.phase = q, !.event = f] = [s EXCEPT !.event = f]
  OBVIOUS
<1> HIDE DEF s
<1>3. k = [s EXCEPT !.event = f]
  BY <1>1 DEF IsJob
<1> QED BY <1>2, <1>3

(* The assignments to job[w][r] in LlmAnswers and SettleThrows.            *)
LEMMA JobAnswered ==
  ASSUME NEW p, NEW a, NEW e, NEW q, NEW j, NEW k, IsJob(j, p, a, e), IsJob(k, q, a, e)
  PROVE  QJob(k) = [QJob(j) EXCEPT !["worker"][1] = [QJob(j)["worker"][1] EXCEPT !.phase = q]]
PROOF
<1> DEFINE i == QJob(j)["worker"][1]
           b == [i EXCEPT !.phase = q]
<1>1. i = j
  BY Singles
<1> HIDE DEF i
<1>2. k = b
  BY <1>1, OneUpdate
<1> HIDE DEF b
<1>3. QJob(k) = [QJob(j) EXCEPT !["worker"][1] = b]
  BY <1>2, Singles
<1> QED BY <1>3 DEF i, b

AnsweredWell ==
  OutputInv /\ pc = "answered" =>
    /\ Phase \in {"network", "unusable", "unclassified", "low_confidence", "settling"}
    /\ Phase = "settling" => EventOf(output.input) \in [entity : Kinds, state : DOMAIN Rank]

LEMMA AnsweredNext == AnsweredWell'
PROOF
<1>1. AnsweredWell
  BY PhaseFacts, EventFacts DEF AnsweredWell
<1> QED BY <1>1, PTL

(* A response, or the failure of the SDK, is one of the five answers.      *)
LEMMA QueueAnswers ==
  ASSUME BoundaryInv, SdkRejects \/ Responds
  PROVE  Queue!LlmAnswers("worker", 1)
PROOF
<1>1. /\ pc = "calling" /\ pc' = "answered" /\ status' = status /\ attempts' = attempts
      /\ faults' = faults
  BY DEF SdkRejects, Responds, row, counts
<1>2. /\ UNCHANGED <<QStatus, QLeased, QEntityOf, QCurrent, QHistory>>
      /\ <<attempts'>> = <<attempts>>
  BY <1>1, RowStays DEF Working
<1>3. Phase = "calling" /\ QJobOf = [phase |-> "calling", attempts |-> attempts, event |-> QNoEvent]
  <2>1. Phase = "calling"
    BY <1>1 DEF Phase
  <2> QED BY <2>1, JobOfPhase
<1>4. BoundaryInv'
  BY BoundaryStep DEF Next, ProcessOne
<1>5. /\ Phase' \in {"network", "unusable", "unclassified", "low_confidence", "settling"}
      /\ Phase' = "settling" => EventOf(output.input)' \in [entity : Kinds, state : DOMAIN Rank]
  BY <1>1, <1>4, AnsweredNext DEF BoundaryInv, AnsweredWell
<1>6. CASE Phase' = "settling"
  <2>1. PICK ev \in [entity : Kinds, state : DOMAIN Rank] : ev = EventOf(output.input)'
    BY <1>5, <1>6
  <2>2. QJobOf' = [phase |-> "settling", attempts |-> attempts, event |-> ev]
    BY <1>1, <1>6, <2>1 DEF QJobOf
  <2>3. /\ IsJob(QJobOf, "calling", attempts, QNoEvent)
        /\ IsJob(QJobOf', "settling", attempts, ev)
    BY <1>3, <2>2 DEF IsJob
  <2>4. QJob(QJobOf') = [QJob(QJobOf) EXCEPT !["worker"][1] =
          [QJob(QJobOf)["worker"][1] EXCEPT !.phase = "settling", !.event = ev]]
    <3> DEFINE i == QJob(QJobOf)["worker"][1]
               b == [i EXCEPT !.phase = "settling", !.event = ev]
    <3>1. IsJob(i, "calling", attempts, QNoEvent)
      BY <2>3, Singles
    <3> HIDE DEF i
    <3>2. QJobOf' = b
      BY <2>3, <3>1, TwoUpdates
    <3> HIDE DEF b
    <3>3. QJob(QJobOf') = [QJob(QJobOf) EXCEPT !["worker"][1] = b]
      BY <3>2, Singles
    <3> QED BY <3>3 DEF i, b
  <2>5. QJob(QJobOf)["worker"][1].phase = "calling"
    BY <1>3, Singles
  <2> QED BY <1>1, <1>2, <2>1, <2>4, <2>5
          DEF Queue!LlmAnswers, Queue!SetJob, Queue!queueVars, QEntityOf, QCurrent, QHistory,
              QStatus, QJob, QJobOf, QNoEvent, QLeased, Kinds
<1>7. CASE Phase' # "settling"
  <2>1. PICK p \in {"network", "unusable", "unclassified", "low_confidence"} : p = Phase'
    BY <1>5, <1>7
  <2>2. QJobOf' = [phase |-> p, attempts |-> attempts, event |-> QNoEvent]
    BY <1>1, <1>7, <2>1 DEF QJobOf
  <2>3. /\ IsJob(QJobOf, "calling", attempts, QNoEvent)
        /\ IsJob(QJobOf', p, attempts, QNoEvent)
    BY <1>3, <2>2 DEF IsJob
  <2>4. QJob(QJobOf') = [QJob(QJobOf) EXCEPT !["worker"][1] =
          [QJob(QJobOf)["worker"][1] EXCEPT !.phase = p]]
    BY <2>3, JobAnswered
  <2>5. QJob(QJobOf)["worker"][1].phase = "calling" /\ p \in Queue!Answered \ {"settling"}
    BY <1>3, <2>1, Singles DEF Queue!Answered
  <2> QED BY <1>1, <1>2, <2>4, <2>5
          DEF Queue!LlmAnswers, Queue!SetJob, Queue!queueVars, QEntityOf, QCurrent, QHistory,
              QStatus, QJob, QJobOf, QNoEvent, QLeased, Kinds
<1> QED BY <1>6, <1>7

LEMMA QueueSettleThrows ==
  ASSUME BoundaryInv, SettleThrows
  PROVE  Queue!SettleRollsBack("worker", 1)
PROOF
<1>1. /\ pc = "settling" /\ pc' = "settle_failed" /\ status' = status /\ attempts' = attempts
      /\ faults' = faults
  BY DEF SettleThrows, row, counts
<1>2. /\ UNCHANGED <<QStatus, QLeased, QEntityOf, QCurrent, QHistory>>
      /\ <<attempts'>> = <<attempts>>
  BY <1>1, RowStays DEF Working
<1>3. Phase = "settling" /\ Phase' = "settle_failed"
  BY <1>1 DEF Phase
<1>4. /\ IsJob(QJobOf, "settling", attempts, EventOf(output.input))
      /\ IsJob(QJobOf', "settle_failed", attempts, QNoEvent)
  BY <1>1, <1>3 DEF QJobOf, IsJob
<1>5. QJob(QJobOf') = [QJob(QJobOf) EXCEPT !["worker"][1] =
        [QJob(QJobOf)["worker"][1] EXCEPT !.phase = "settle_failed", !.event = QNoEvent]]
  <2> DEFINE i == QJob(QJobOf)["worker"][1]
             b == [i EXCEPT !.phase = "settle_failed", !.event = QNoEvent]
  <2>1. IsJob(i, "settling", attempts, EventOf(output.input))
    BY <1>4, Singles
  <2> HIDE DEF i
  <2>2. QJobOf' = b
    BY <1>4, <2>1, TwoUpdates
  <2> HIDE DEF b
  <2>3. QJob(QJobOf') = [QJob(QJobOf) EXCEPT !["worker"][1] = b]
    BY <2>2, Singles
  <2> QED BY <2>3 DEF i, b
<1>6. QJob(QJobOf)["worker"][1].phase = "settling"
  BY <1>4, Singles DEF IsJob
<1> QED BY <1>1, <1>2, <1>5, <1>6
        DEF Queue!SettleRollsBack, Queue!SettleThrows, Queue!SetJob, Queue!queueVars,
            QEntityOf, QCurrent, QHistory, QStatus, QJob, QJobOf, QNoEvent, QLeased, Kinds

(* The commit: the first event of an entity that has no history.           *)
LEMMA QueueSettle ==
  ASSUME BoundaryInv, Settle
  PROVE  Queue!Settle("worker", 1)
PROOF
<1> DEFINE ev == QJob(QJobOf)["worker"][1].event
           read == [raw |-> 1, state |-> ev.state, advanced |-> TRUE]
<1>1. /\ pc = "settling" /\ pc' = "done" /\ status = "processing" /\ status' = "normalized"
      /\ attempts' = attempts /\ output' = output /\ Settleable /\ faults' = faults
  BY DEF BoundaryInv, RowInv, ReadInv, Settle, Finish, Working, counts
<1>2. /\ ev = EventOf(output.input) /\ QJob(QJobOf)["worker"][1].phase = "settling"
      /\ ev.entity \in Kinds /\ ev.state \in DOMAIN Rank /\ ev.entity = output.input.type
  <2>1. Phase = "settling"
    BY <1>1 DEF Phase
  <2>2. EventOf(output.input) \in [entity : Kinds, state : DOMAIN Rank]
        /\ EventOf(output.input).entity = output.input.type
    BY <1>1, EventFacts DEF BoundaryInv
  <2>3. QJob(QJobOf)["worker"][1] = QJobOf
    BY Singles
  <2> QED BY <2>1, <2>2, <2>3 DEF QJobOf
<1> HIDE DEF ev
<1>3. /\ QEntityOf = <<"none">> /\ QCurrent = [t \in Kinds |-> "none"]
      /\ QHistory = [t \in Kinds |-> <<>>]
  BY <1>1, UnsettledTables
<1>4. Rank[ev.state] \in Nat \ {0}
  BY <1>2, QRankFacts
<1>5. QHistory' = [QHistory EXCEPT ![ev.entity] = Append(@, read)]
  <2>1. QHistory' = [t \in Kinds |-> IF ev.entity = t THEN <<read>> ELSE <<>>]
    BY <1>1, <1>2 DEF QHistory, Settled
  <2>2. Append(<<>>, read) = <<read>>
    OBVIOUS
  <2> QED BY <1>2, <1>3, <2>1, <2>2
<1>6. QCurrent' = [QCurrent EXCEPT ![ev.entity] = ev.state]
  <2>1. QCurrent' = [t \in Kinds |-> IF ev.entity = t THEN ev.state ELSE "none"]
    BY <1>1, <1>2 DEF QCurrent, Settled
  <2> QED BY <1>2, <1>3, <2>1
<1>7. /\ QStatus' = [QStatus EXCEPT ![1] = "normalized"]
      /\ QEntityOf' = [QEntityOf EXCEPT ![1] = ev.entity]
  BY <1>1, <1>2, <1>3, Singles DEF QStatus, QEntityOf, Settled
<1>8. QJob(QJobOf') = [QJob(QJobOf) EXCEPT !["worker"][1] = QNoJob]
  BY <1>1, JobEnds
<1>9. QLeased' = QLeased
  BY <1>1 DEF QLeased
<1>10. QCurrent[ev.entity] = "none" /\ QHistory[ev.entity] = <<>>
  BY <1>2, <1>3
<1>11. ~Queue!Recorded(ev.entity, 1)
  <2>1. ~\E i \in DOMAIN QHistory[ev.entity] : QHistory[ev.entity][i].raw = 1
    BY <1>10
  <2> QED BY <2>1 DEF Queue!Recorded, QHistory, Kinds
<1>12. Queue!CurrentRank(ev.entity) = 0
  <2>1. (IF QCurrent[ev.entity] = "none" THEN 0 ELSE Rank[QCurrent[ev.entity]]) = 0
    BY <1>10
  <2> QED BY <2>1 DEF Queue!CurrentRank, QCurrent, Kinds
<1>13. Queue!Advances(ev.entity, ev.state)
  BY <1>4, <1>12 DEF Queue!Advances
<1>14. Queue!NewRow(ev.entity, 1, ev.state) = read
  <2>1. (Rank[ev.state] > Queue!CurrentRank(ev.entity)) = TRUE
    BY <1>4, <1>12
  <2> QED BY <2>1 DEF Queue!NewRow, Queue!Advances
<1>15. /\ QHistory' = [QHistory EXCEPT ![ev.entity] =
                       Append(@, Queue!NewRow(ev.entity, 1, ev.state))]
       /\ QCurrent' = IF Queue!Advances(ev.entity, ev.state)
                      THEN [QCurrent EXCEPT ![ev.entity] = ev.state] ELSE QCurrent
  BY <1>5, <1>6, <1>13, <1>14
<1> QED BY <1>1, <1>2, <1>7, <1>8, <1>9, <1>11, <1>15
        DEF Queue!Settle, Queue!CommitSettle, Queue!ApplyEvent, Queue!RecordEvent,
            Queue!EndJob, Queue!SetJob, Queue!NoJob, ev, QEntityOf, QCurrent, QHistory,
            QStatus, QJob, QJobOf, QNoJob, QNoEvent, QLeased, Kinds

(* What the guards of WebhookQueue read in the record of the job.          *)
LEMMA JobRead ==
  ASSUME pc \in {"answered", "settle_failed"}, Phase \notin {"none", "claimed"}
  PROVE  /\ QJob(QJobOf)["worker"][1].phase = Phase
         /\ Queue!Exhausted("worker", 1) <=> Exhausted
PROOF
<1>1. QJob(QJobOf)["worker"][1].phase = Phase /\ QJob(QJobOf)["worker"][1].attempts = attempts
  BY Singles DEF QJobOf
<1> QED BY <1>1 DEF Queue!Exhausted, Exhausted, QJob, QJobOf, QNoEvent, Kinds

(* The branches of processOne that end with one UPDATE of the row.         *)
LEMMA QueueBranches ==
  ASSUME BoundaryInv,
         \/ RouteUnusable \/ DeadLetterNetwork \/ BackOffNetwork
         \/ MarkUnclassified \/ RouteLowConfidence \/ DeadLetterSettle \/ BackOffSettle
  PROVE  Queue!ProcessOne("worker", 1)
PROOF
<1>1. pc \in {"answered", "settle_failed"} /\ pc \in Working
  BY DEF RouteUnusable, DeadLetterNetwork, BackOffNetwork, MarkUnclassified,
         RouteLowConfidence, DeadLetterSettle, BackOffSettle, Answers, Working
<1>2. OutputInv
  BY DEF BoundaryInv
<1>3. Phase \notin {"none", "claimed"}
  BY <1>1, <1>2, PhaseFacts
<1>4. /\ QJob(QJobOf)["worker"][1].phase = Phase
      /\ Queue!Exhausted("worker", 1) <=> Exhausted
  BY <1>1, <1>3, JobRead
<1>5. CASE RouteUnusable
  <2>1. Phase = "unusable"
    BY <1>2, <1>5, PhaseFacts DEF RouteUnusable, Answers
  <2>2. Queue!FinishAs("worker", 1, "needs_review")
    BY <1>1, <1>5, QueueFinish DEF RouteUnusable, Terminal
  <2>3. Queue!RouteUnusable("worker", 1)
    BY <1>4, <2>1, <2>2 DEF Queue!RouteUnusable, QJob, QJobOf, QNoEvent, Kinds
  <2> QED BY <2>3 DEF Queue!ProcessOne
<1>6. CASE DeadLetterNetwork
  <2>1. Phase = "network"
    BY <1>2, <1>6, PhaseFacts DEF DeadLetterNetwork, Answers
  <2>2. Queue!FinishAs("worker", 1, "dead")
    BY <1>1, <1>6, QueueFinish DEF DeadLetterNetwork, Terminal
  <2>3. Queue!DeadLetterNetwork("worker", 1)
    BY <1>4, <1>6, <2>1, <2>2
       DEF DeadLetterNetwork, Queue!DeadLetterNetwork, QJob, QJobOf, QNoEvent, Kinds
  <2> QED BY <2>3 DEF Queue!ProcessOne
<1>7. CASE BackOffNetwork
  <2>1. Phase = "network"
    BY <1>2, <1>7, PhaseFacts DEF BackOffNetwork, Answers
  <2>2. Queue!BackOff("worker", 1)
    BY <1>1, <1>7, QueueBackOff DEF BackOffNetwork
  <2>3. Queue!BackOffNetwork("worker", 1)
    BY <1>4, <1>7, <2>1, <2>2
       DEF BackOffNetwork, Queue!BackOffNetwork, QJob, QJobOf, QNoEvent, Kinds
  <2> QED BY <2>3 DEF Queue!ProcessOne
<1>8. CASE MarkUnclassified
  <2>1. Phase = "unclassified"
    BY <1>2, <1>8, PhaseFacts DEF MarkUnclassified, Answers
  <2>2. Queue!FinishAs("worker", 1, "unclassified")
    BY <1>1, <1>8, QueueFinish DEF MarkUnclassified, Terminal
  <2>3. Queue!MarkUnclassified("worker", 1)
    BY <1>4, <2>1, <2>2 DEF Queue!MarkUnclassified, QJob, QJobOf, QNoEvent, Kinds
  <2> QED BY <2>3 DEF Queue!ProcessOne
<1>9. CASE RouteLowConfidence
  <2>1. Phase = "low_confidence"
    BY <1>2, <1>9, PhaseFacts DEF RouteLowConfidence, Answers
  <2>2. Queue!FinishAs("worker", 1, "needs_review")
    BY <1>1, <1>9, QueueFinish DEF RouteLowConfidence, Terminal
  <2>3. Queue!RouteLowConfidence("worker", 1)
    BY <1>4, <2>1, <2>2 DEF Queue!RouteLowConfidence, QJob, QJobOf, QNoEvent, Kinds
  <2> QED BY <2>3 DEF Queue!ProcessOne
<1>10. CASE DeadLetterSettle
  <2>1. Phase = "settle_failed"
    BY <1>2, <1>10, PhaseFacts DEF DeadLetterSettle
  <2>2. Queue!FinishAs("worker", 1, "dead")
    BY <1>1, <1>10, QueueFinish DEF DeadLetterSettle, Terminal
  <2>3. Queue!DeadLetterSettle("worker", 1)
    BY <1>4, <1>10, <2>1, <2>2
       DEF DeadLetterSettle, Queue!DeadLetterSettle, QJob, QJobOf, QNoEvent, Kinds
  <2> QED BY <2>3 DEF Queue!ProcessOne
<1>11. CASE BackOffSettle
  <2>1. Phase = "settle_failed"
    BY <1>2, <1>11, PhaseFacts DEF BackOffSettle
  <2>2. Queue!BackOff("worker", 1)
    BY <1>1, <1>11, QueueBackOff DEF BackOffSettle
  <2>3. Queue!BackOffSettle("worker", 1)
    BY <1>4, <1>11, <2>1, <2>2
       DEF BackOffSettle, Queue!BackOffSettle, QJob, QJobOf, QNoEvent, Kinds
  <2> QED BY <2>3 DEF Queue!ProcessOne
<1> QED BY <1>5, <1>6, <1>7, <1>8, <1>9, <1>10, <1>11

(* An attempt broken off: the job is gone and the row stays.               *)
LEMMA QueueBreakOff ==
  ASSUME BoundaryInv, StatusWriteFails \/ RefetchFails \/ Crash
  PROVE  \/ Queue!StatusWriteFails("worker", 1)
         \/ Queue!RefetchFails("worker")
         \/ Queue!Crash("worker")
PROOF
<1>1. /\ pc \in Working /\ pc' = "waiting" /\ status' = status /\ attempts' = attempts
      /\ faults < MaxFaults /\ faults' = faults + 1
  BY DEF StatusWriteFails, RefetchFails, Crash, BreakOff, Working, row
<1>2. UNCHANGED <<QStatus, QLeased, QEntityOf, QCurrent, QHistory>>
  <2>1. status # "normalized" /\ status' # "normalized"
    BY <1>1 DEF BoundaryInv, RowInv
  <2> QED BY <1>1, <2>1, TablesStay DEF QStatus, QLeased, Working
<1>3. QJob(QJobOf') = [QJob(QJobOf) EXCEPT !["worker"] = [r \in {1} |-> QNoJob]]
  <2>1. QJobOf' = QNoJob
    BY <1>1 DEF QJobOf, QNoJob, Phase
  <2>2. [r \in {1} |-> QNoJob] = <<QJobOf'>>
    BY <2>1, Singles
  <2> QED BY <2>2 DEF QJob
<1>4. QJob(QJobOf)["worker"][1].phase = Phase
  BY Singles DEF QJobOf
<1>5. CASE StatusWriteFails
  <2>1. Phase \in {"network", "unusable", "unclassified", "low_confidence", "settle_failed"}
    BY <1>5, PhaseFacts DEF StatusWriteFails, BoundaryInv
  <2>2. QJob(QJobOf') = [QJob(QJobOf) EXCEPT !["worker"][1] = QNoJob]
    BY <1>1, JobEnds
  <2>3. Queue!StatusWriteFails("worker", 1)
    BY <1>1, <1>2, <1>4, <2>1, <2>2
    DEF Queue!StatusWriteFails, Queue!Fault, Queue!EndJob, Queue!SetJob, Queue!NoJob,
        Queue!queueVars, QEntityOf, QCurrent, QHistory, QStatus, QJob, QJobOf, QNoJob, QNoEvent,
        QLeased, Kinds
  <2> QED BY <2>3
<1>6. CASE RefetchFails
  <2>1. \E r \in {1} : QJob(QJobOf)["worker"][r].phase = "claimed"
    BY <1>4, <1>6 DEF RefetchFails, Phase
  <2>2. Queue!RefetchFails("worker")
    BY <1>1, <1>2, <1>3, <2>1
    DEF Queue!RefetchFails, Queue!Fault, Queue!NoJob, Queue!queueVars, QEntityOf, QCurrent,
        QHistory, QStatus, QJob, QJobOf, QNoJob, QNoEvent, QLeased, Kinds
  <2> QED BY <2>2
<1>7. CASE Crash
  <2>1. Phase # "none"
    BY <1>1, PhaseFacts DEF BoundaryInv, Working
  <2>2. ~ \A r \in {1} : ~ (QJob(QJobOf)["worker"][r].phase # "none")
    BY <1>4, <2>1
  <2>3. ~Queue!Idle("worker")
    BY <2>2 DEF Queue!Idle, Queue!Busy, QJob, QJobOf, QNoEvent
  <2>4. Queue!Crash("worker")
    BY <1>1, <1>2, <1>3, <2>3
    DEF Queue!Crash, Queue!Fault, Queue!NoJob, Queue!queueVars, QEntityOf, QCurrent,
        QHistory, QStatus, QJob, QJobOf, QNoJob, QNoEvent, QLeased, Kinds
  <2> QED BY <2>4
<1> QED BY <1>5, <1>6, <1>7

(* What the queue does not see: a step within one attempt's memory.        *)
LEMMA QueueStutters ==
  ASSUME BoundaryInv, StartSettle \/ (\E c \in Chars : ReadKey(c)) \/ UNCHANGED vars
  PROVE  UNCHANGED Queue!vars
PROOF
<1>1. /\ status' = status /\ attempts' = attempts /\ output' = output
      /\ QLeased' = QLeased /\ faults' = faults
  BY DEF StartSettle, ReadKey, vars, row, counts, QLeased
<1>2. UNCHANGED <<QEntityOf, QCurrent, QHistory>>
  BY <1>1 DEF QEntityOf, QCurrent, QHistory, Settled, EventOf
<1>3. Phase' = Phase
  <2>1. CASE StartSettle
    <3>1. pc = "answered" /\ Settleable /\ pc' = "settling"
      BY <2>1 DEF StartSettle
    <3>2. Phase = "settling"
      BY <3>1, PhaseFacts DEF BoundaryInv
    <3> QED BY <3>1, <3>2 DEF Phase
  <2>2. CASE pc' = pc /\ provider' = provider
    BY <1>1, <2>2 DEF Phase, Answer, result, normalize, IsLow, anthropicNormalize, openaiNormalize
  <2> QED BY <2>1, <2>2 DEF ReadKey, vars
<1>4. QJobOf' = QJobOf
  BY <1>1, <1>3 DEF QJobOf, EventOf
<1> QED BY <1>1, <1>2, <1>4
        DEF Queue!vars, QEntityOf, QCurrent, QHistory, QJobOf, QNoEvent, QLeased, Kinds

LEMMA QueueStep == BoundaryInv /\ [Next]_vars => [Queue!Next]_(Queue!vars)
PROOF
<1> SUFFICES ASSUME BoundaryInv, [Next]_vars PROVE [Queue!Next]_(Queue!vars)
  OBVIOUS
<1> USE DEF Queue!Next
<1>1. CASE Receive
  BY <1>1, QueueReceive
<1>2. CASE Claim
  BY <1>2, QueueClaim
<1>3. CASE Refetch
  BY <1>3, QueueRefetch
<1>4. CASE LockExpires
  BY <1>4, QueueLockExpires
<1>5. CASE SdkRejects \/ Responds
  BY <1>5, QueueAnswers DEF Queue!ProcessOne
<1>6. CASE \/ RouteUnusable \/ DeadLetterNetwork \/ BackOffNetwork
           \/ MarkUnclassified \/ RouteLowConfidence \/ DeadLetterSettle \/ BackOffSettle
  BY <1>6, QueueBranches
<1>7. CASE Settle
  BY <1>7, QueueSettle DEF Queue!ProcessOne
<1>8. CASE SettleThrows
  BY <1>8, QueueSettleThrows DEF Queue!ProcessOne
<1>9. CASE StartSettle \/ (\E c \in Chars : ReadKey(c)) \/ UNCHANGED vars
  BY <1>9, QueueStutters
<1>10. CASE StatusWriteFails \/ RefetchFails \/ Crash
  BY <1>10, QueueBreakOff
<1> QED BY <1>1, <1>2, <1>3, <1>4, <1>5, <1>6, <1>7, <1>8, <1>9, <1>10 DEF Next, ProcessOne

(* Each response leads to one of the five answers of WebhookQueue, and     *)
(* each answer to its one statement, or to none if the attempt is broken   *)
(* off, whatever the alphabet of the keys, the limit on attempts and the   *)
(* number of faults.                                                       *)
THEOREM BoundaryImplementsQueue == Spec => ImplementsQueue
PROOF
<1>1. BoundaryInv /\ [Next]_vars => [Queue!Next]_(Queue!vars)
  BY QueueStep
<1> QED BY <1>1, QueueInitial, BoundaryInvariant, PTL DEF Spec, ImplementsQueue, Queue!Spec

-----------------------------------------------------------------------------
(* canonicalizeNaturalKey, for texts of any length.  What its passes do is *)
(* said by induction over the text, here with sets of numbers: the set of  *)
(* those for which something holds is all of Nat.                          *)

LEMMA LessThan == \A x, y \in Nat : <<x, y>> \in OpToRel(<, Nat) <=> x < y
PROOF BY DEF OpToRel

LEMMA LeastOf ==
  ASSUME NEW T \in SUBSET Nat, T # {}
  PROVE  \E x \in T : \A y \in T : x <= y
PROOF
<1> DEFINE less == OpToRel(<, Nat)
<1>1. IsWellFoundedOn(less, Nat) BY NatLessThanWellFounded
<1>2. \A x, y \in Nat : <<x, y>> \in less <=> x < y BY LessThan
<1> HIDE DEF less
<1>3. PICK x \in T : \A y \in T : ~ (<<y, x>> \in less) BY <1>1, WFMin
<1>4. \A y \in T : ~ (y < x) BY <1>2, <1>3
<1> QED BY <1>4, T \subseteq Nat

LEMMA SetInduction ==
  ASSUME NEW S, 0 \in S, \A n \in Nat : n \in S => n + 1 \in S
  PROVE  Nat \subseteq S
PROOF
<1> SUFFICES ASSUME Nat \ S # {} PROVE FALSE
  OBVIOUS
<1>1. PICK x \in Nat \ S : \A y \in Nat \ S : x <= y
  BY LeastOf
<1>2. x # 0 /\ x - 1 \in Nat /\ x - 1 < x
  BY <1>1
<1>3. x - 1 \in S
  BY <1>1, <1>2
<1> QED BY <1>1, <1>2, <1>3

LEMMA MinOf ==
  ASSUME NEW T \in SUBSET Nat, T # {}
  PROVE  Min(T) \in T /\ \A y \in T : Min(T) <= y
PROOF BY LeastOf DEF Min

LEMMA MaxOf ==
  ASSUME NEW n \in Nat, NEW T \in SUBSET (1..n), T # {}
  PROVE  Max(T) \in T /\ \A y \in T : Max(T) >= y
PROOF
<1> DEFINE bounds == {m \in Nat : \A y \in T : m >= y}
<1>1. bounds \in SUBSET Nat /\ n \in bounds
  OBVIOUS
<1>2. PICK m \in bounds : \A b \in bounds : m <= b
  BY <1>1, LeastOf
<1>3. m \in T
  <2>1. SUFFICES ASSUME m \notin T PROVE FALSE
    OBVIOUS
  <2>2. m \in Nat /\ \A y \in T : y \in Nat /\ y < m
    BY <2>1
  <2>3. m # 0 /\ m - 1 \in Nat
    <3>1. PICK y \in T : y \in 1..n
      OBVIOUS
    <3> QED BY <2>2, <3>1
  <2>4. m - 1 \in bounds
    BY <2>2, <2>3
  <2> QED BY <1>2, <2>3, <2>4
<1> QED BY <1>3 DEF Max

(* The fold of CollapseColons as the sequence of its intermediate results: *)
(* it is a function on sets of positions, of which the last is taken.      *)
Kept(s, i) == IF i > 1 /\ s[i] = Colon /\ s[i - 1] = Colon THEN <<>> ELSE <<s[i]>>
Folded(s, t, iter) ==
  IF t = {} THEN <<>> ELSE iter[t \ {Max(t)}] \o Kept(s, [i \in DOMAIN s |-> i][Max(t)])
FoldOver(s) == CHOOSE iter : iter = [t \in SUBSET DOMAIN s |-> Folded(s, t, iter)]

LEMMA CollapseIsFold ==
  ASSUME NEW s PROVE CollapseColons(s) = FoldOver(s)[DOMAIN s]
PROOF BY DEF CollapseColons, FoldLeftDomain, FoldLeft, MapThenFoldSet, FoldOver, Folded, Kept

LEMMA FoldExists ==
  ASSUME NEW s, NEW n \in Nat
  PROVE  \E iter : iter = [t \in SUBSET (1..n) |-> Folded(s, t, iter)]
PROOF
<1> DEFINE Is(iter, k) == iter = [t \in SUBSET (1..k) |-> Folded(s, t, iter)]
           K == {k \in Nat : \E iter : Is(iter, k)}
<1>1. 0 \in K
  <2> DEFINE iter == [t \in SUBSET (1..0) |-> <<>>]
  <2>1. \A t \in SUBSET (1..0) : t = {}
    OBVIOUS
  <2>2. Is(iter, 0)
    BY <2>1 DEF Folded
  <2> QED BY <2>2
<1>2. ASSUME NEW k \in Nat, k \in K PROVE k + 1 \in K
  <2>1. PICK iter : Is(iter, k)
    BY <1>2
  <2> DEFINE next == [t \in SUBSET (1..(k + 1)) |-> Folded(s, t, iter)]
  <2>2. \A t \in SUBSET (1..k) : t \in SUBSET (1..(k + 1)) /\ next[t] = iter[t]
    BY <2>1
  <2>3. ASSUME NEW t \in SUBSET (1..(k + 1)), t # {} PROVE t \ {Max(t)} \in SUBSET (1..k)
    <3>1. Max(t) \in t /\ \A y \in t : Max(t) >= y
      BY <2>3, MaxOf, k + 1 \in Nat
    <3>2. ASSUME NEW y \in t \ {Max(t)} PROVE y \in 1..k
      BY <3>1, y \in 1..(k + 1), Max(t) \in 1..(k + 1)
    <3> QED BY <3>2
  <2>4. ASSUME NEW t \in SUBSET (1..(k + 1)) PROVE Folded(s, t, next) = Folded(s, t, iter)
    <3> HIDE DEF next
    <3> QED BY <2>2, <2>3 DEF Folded
  <2>5. Is(next, k + 1)
    BY <2>4
  <2> QED BY <2>5, k + 1 \in Nat
<1> HIDE DEF K
<1>3. Nat \subseteq K
  BY <1>1, <1>2, SetInduction
<1> QED BY <1>3 DEF K

LEMMA CollapseSteps ==
  ASSUME NEW s \in Seq(Chars)
  PROVE  \E done : /\ CollapseColons(s) = done[Len(s)]
                   /\ done[0] = <<>>
                   /\ \A k \in 1..Len(s) : done[k] = done[k - 1] \o Kept(s, k)
PROOF
<1> DEFINE iter == FoldOver(s)
           done == [k \in 0..Len(s) |-> iter[1..k]]
<1>1. DOMAIN s = 1..Len(s) /\ Len(s) \in Nat
  OBVIOUS
<1>2. iter = [t \in SUBSET (1..Len(s)) |-> Folded(s, t, iter)]
  BY <1>1, FoldExists DEF FoldOver
<1> HIDE DEF iter
<1>3. \A k \in 0..Len(s) : 1..k \in SUBSET (1..Len(s))
  BY <1>1
<1>4. done[0] = <<>>
  BY <1>1, <1>2, <1>3, 1..0 = {} DEF Folded
<1>5. ASSUME NEW k \in 1..Len(s) PROVE done[k] = done[k - 1] \o Kept(s, k)
  <2>1. Max(1..k) = k
    <3>1. k \in Nat /\ k \in 1..k /\ 1..k \in SUBSET (1..k)
      BY <1>1
    <3>2. Max(1..k) \in 1..k /\ \A y \in 1..k : Max(1..k) >= y
      BY <3>1, MaxOf
    <3> QED BY <3>1, <3>2
  <2>2. (1..k) \ {k} = 1..(k - 1) /\ 1..k # {}
    OBVIOUS
  <2>3. [i \in DOMAIN s |-> i][k] = k
    BY <1>1
  <2>4. iter[1..k] = Folded(s, 1..k, iter)
    BY <1>2, <1>3
  <2>5. iter[1..k] = iter[1..(k - 1)] \o Kept(s, k)
    BY <2>1, <2>2, <2>3, <2>4 DEF Folded
  <2> QED BY <2>5
<1>6. CollapseColons(s) = done[Len(s)]
  BY <1>1, CollapseIsFold DEF iter
<1> QED BY <1>4, <1>5, <1>6

(* The element of the positions K, taken in order, that is at position i;  *)
(* and c as what K selects from s.                                         *)
Place(K, i) == Cardinality({j \in K : j <= i})
Selects(c, K, s) ==
  /\ Len(c) = Cardinality(K)
  /\ \A i \in K : c[Place(K, i)] = s[i]

LEMMA PlaceFacts ==
  ASSUME NEW n \in Nat, NEW K \in SUBSET (1..n)
  PROVE  /\ IsFiniteSet(K) /\ Cardinality(K) \in Nat
         /\ \A i \in K : Place(K, i) \in 1..Cardinality(K)
         /\ \A i, j \in K : i < j => Place(K, i) < Place(K, j)
         /\ \A p \in 1..Cardinality(K) : \E i \in K : Place(K, i) = p
PROOF
<1>1. IsFiniteSet(1..n)
  BY FS_Interval
<1>2. IsFiniteSet(K) /\ Cardinality(K) \in Nat
  BY <1>1, FS_Subset, FS_CardinalityType
<1>3. ASSUME NEW i \in K PROVE Place(K, i) \in 1..Cardinality(K)
  <2> DEFINE U == {j \in K : j <= i}
  <2>1. IsFiniteSet(U) /\ Cardinality(U) \in Nat /\ Cardinality(U) <= Cardinality(K)
    BY <1>2, FS_Subset, FS_CardinalityType, U \in SUBSET K
  <2>2. U # {}
    BY i \in 1..n
  <2>3. Cardinality(U) # 0
    BY <2>1, <2>2, FS_EmptySet
  <2> QED BY <1>2, <2>1, <2>3 DEF Place
<1>4. ASSUME NEW i \in K, NEW j \in K, i < j PROVE Place(K, i) < Place(K, j)
  <2> DEFINE U == {k \in K : k <= i}
             V == {k \in K : k <= j}
  <2>1. i \in 1..n /\ j \in 1..n /\ \A k \in K : k \in 1..n
    OBVIOUS
  <2>2. U \in SUBSET V /\ j \in V /\ j \notin U
    <3>1. \A k \in K : k <= i => k <= j
      BY <1>4, <2>1
    <3>2. j <= j /\ ~ (j <= i)
      BY <1>4, <2>1
    <3> QED BY <3>1, <3>2
  <2>3. V \in SUBSET K
    OBVIOUS
  <2>4. IsFiniteSet(V)
    BY <1>2, <2>3, FS_Subset
  <2>5. Cardinality(U) <= Cardinality(V) /\ Cardinality(U) # Cardinality(V)
    BY <2>2, <2>4, FS_Subset
  <2>6. Cardinality(U) \in Nat /\ Cardinality(V) \in Nat
    BY <2>2, <2>4, FS_Subset, FS_CardinalityType
  <2> QED BY <2>5, <2>6 DEF Place
<1>5. ASSUME NEW p \in 1..Cardinality(K) PROVE \E i \in K : Place(K, i) = p
  <2> DEFINE N == 1..Cardinality(K)
             f == [i \in K |-> Place(K, i)]
  <2>1. f \in [K -> N]
    BY <1>3
  <2>2. ASSUME NEW i \in K, NEW j \in K, f[i] = f[j] PROVE i = j
    <3>1. ~ (i < j) /\ ~ (j < i)
      BY <1>3, <1>4, <2>2
    <3> QED BY <3>1, i \in 1..n, j \in 1..n
  <2>3. f \in Injection(K, N)
    BY <2>1, <2>2 DEF Injection, IsInjective
  <2>4. IsFiniteSet(N) /\ Cardinality(N) = Cardinality(K)
    BY <1>2, FS_Interval
  <2>5. f \in Surjection(K, N)
    BY <2>3, <2>4, FS_Injection
  <2> QED BY <2>5 DEF Surjection
<1> QED BY <1>2, <1>3, <1>4, <1>5

LEMMA PlaceOrder ==
  ASSUME NEW n \in Nat, NEW K \in SUBSET (1..n), NEW i \in K, NEW j \in K
  PROVE  Place(K, i) <= Place(K, j) <=> i <= j
PROOF
<1>1. i \in 1..n /\ j \in 1..n /\ Place(K, i) \in Nat /\ Place(K, j) \in Nat
  <2>1. Place(K, i) \in 1..Cardinality(K) /\ Place(K, j) \in 1..Cardinality(K)
    BY PlaceFacts
  <2> QED BY <2>1
<1>2. (i < j => Place(K, i) < Place(K, j)) /\ (j < i => Place(K, j) < Place(K, i))
  BY PlaceFacts
<1> QED BY <1>1, <1>2

LEMMA SelectsSelected ==
  ASSUME NEW n \in Nat, NEW K \in SUBSET (1..n), NEW s, NEW c, Selects(c, K, s),
         NEW M \in SUBSET (1..Cardinality(K)), NEW d, Selects(d, M, c)
  PROVE  Selects(d, {i \in K : Place(K, i) \in M}, s)
PROOF
<1> DEFINE J == {i \in K : Place(K, i) \in M}
           f == [i \in J |-> Place(K, i)]
<1>1. /\ \A i \in K : Place(K, i) \in 1..Cardinality(K)
      /\ \A p \in 1..Cardinality(K) : \E i \in K : Place(K, i) = p
      /\ IsFiniteSet(K)
  BY PlaceFacts
<1>2. \A i, j \in K : Place(K, i) <= Place(K, j) <=> i <= j
  BY PlaceOrder
<1>3. J \in SUBSET K /\ IsFiniteSet(J) /\ \A i \in K : i \in Int
  BY <1>1, FS_Subset
<1>4. f \in [J -> M] /\ \A i, j \in J : f[i] = f[j] => i = j
  <2>1. ASSUME NEW i \in J, NEW j \in J, f[i] = f[j] PROVE i = j
    <3>1. Place(K, i) <= Place(K, j) /\ Place(K, j) <= Place(K, i)
      BY <1>1, <2>1
    <3> QED BY <1>2, <1>3, <3>1
  <2> QED BY <2>1
<1>5. \A m \in M : \E i \in J : f[i] = m
  BY <1>1
<1>6. f \in Bijection(J, M)
  BY <1>4, <1>5 DEF Bijection, Injection, Surjection, IsInjective
<1>7. Cardinality(J) = Cardinality(M)
  BY <1>3, <1>6, FS_Bijection DEF ExistsBijection
<1>8. ASSUME NEW i \in J PROVE d[Place(J, i)] = s[i]
  <2> DEFINE U == {j \in J : j <= i}
             V == {m \in M : m <= f[i]}
             g == [j \in U |-> f[j]]
  <2>1. IsFiniteSet(U)
    BY <1>3, FS_Subset, U \in SUBSET J
  <2>2. \A j \in J : f[j] <= f[i] <=> j <= i
    BY <1>2
  <2>3. g \in [U -> V] /\ \A j, k \in U : g[j] = g[k] => j = k
    BY <1>4, <2>2
  <2>4. \A m \in V : \E j \in U : g[j] = m
    BY <1>5, <2>2
  <2>5. g \in Bijection(U, V)
    BY <2>3, <2>4 DEF Bijection, Injection, Surjection, IsInjective
  <2>6. Cardinality(U) = Cardinality(V)
    BY <2>1, <2>5, FS_Bijection DEF ExistsBijection
  <2>7. Place(J, i) = Place(M, f[i])
    BY <2>6 DEF Place
  <2>8. d[Place(M, f[i])] = c[f[i]] /\ c[f[i]] = s[i]
    BY <1>4 DEF Selects
  <2> QED BY <2>7, <2>8
<1>9. Len(d) = Cardinality(J)
  BY <1>7 DEF Selects
<1> QED BY <1>8, <1>9 DEF Selects

LEMMA PlaceInInterval ==
  ASSUME NEW a \in Nat \ {0}, NEW b \in Nat, NEW i \in a..b
  PROVE  Place(a..b, i) = i - a + 1
PROOF
<1>1. {j \in a..b : j <= i} = a..i
  OBVIOUS
<1>2. Cardinality(a..i) = i - a + 1
  BY FS_Interval
<1> QED BY <1>1, <1>2 DEF Place

(* The positions that StripEnds keeps.                                     *)
Inner(s, c) ==
  {i \in DOMAIN s : (\E j \in 1..i : s[j] # c) /\ (\E j \in i..Len(s) : s[j] # c)}

LEMMA StripSelects ==
  ASSUME NEW s \in Seq(Chars), NEW c
  PROVE  /\ StripEnds(s, c) \in Seq(Chars)
         /\ Selects(StripEnds(s, c), Inner(s, c), s)
         /\ \/ Inner(s, c) = {}
            \/ \E a, b \in 1..Len(s) : Inner(s, c) = a..b
PROOF
<1> DEFINE kept == {i \in DOMAIN s : s[i] # c}
           I == Inner(s, c)
<1>1. DOMAIN s = 1..Len(s) /\ Len(s) \in Nat
  OBVIOUS
<1>2. CASE kept = {}
  <2>1. I = {}
    BY <1>1, <1>2 DEF Inner
  <2>2. StripEnds(s, c) = <<>>
    BY <1>2 DEF StripEnds
  <2>3. <<>> \in Seq(Chars) /\ Len(<<>>) = 0
    OBVIOUS
  <2> QED BY <2>1, <2>2, <2>3, FS_EmptySet DEF Selects
<1>3. CASE kept # {}
  <2> DEFINE a == Min(kept)
             b == Max(kept)
  <2>1. a \in kept /\ b \in kept /\ \A j \in kept : a <= j /\ j <= b
    <3>1. kept \in SUBSET Nat /\ kept \in SUBSET (1..Len(s))
      BY <1>1
    <3>2. a \in kept /\ \A j \in kept : a <= j
      BY <1>3, <3>1, MinOf
    <3>3. b \in kept /\ \A j \in kept : b >= j
      BY <1>1, <1>3, <3>1, MaxOf
    <3> HIDE DEF a, b
    <3> QED BY <3>1, <3>2, <3>3
  <2>2. StripEnds(s, c) = SubSeq(s, a, b)
    BY <1>3 DEF StripEnds
  <2> HIDE DEF a, b
  <2>3. a \in 1..Len(s) /\ b \in 1..Len(s) /\ a <= b
    BY <1>1, <2>1
  <2>4. I = a..b
    <3>1. ASSUME NEW i \in I PROVE i \in a..b
      <4>1. i \in 1..Len(s) /\ (\E j \in 1..i : s[j] # c) /\ (\E j \in i..Len(s) : s[j] # c)
        BY <1>1 DEF Inner
      <4>2. \E j \in kept : j <= i
        BY <1>1, <4>1
      <4>3. \E j \in kept : i <= j
        BY <1>1, <4>1
      <4> QED BY <1>1, <2>1, <2>3, <4>1, <4>2, <4>3
    <3>2. ASSUME NEW i \in a..b PROVE i \in I
      <4>1. i \in 1..Len(s) /\ a \in 1..i /\ b \in i..Len(s) /\ s[a] # c /\ s[b] # c
        BY <1>1, <2>1, <2>3
      <4> QED BY <1>1, <4>1 DEF Inner
    <3> QED BY <3>1, <3>2
  <2>5. /\ SubSeq(s, a, b) \in Seq(Chars) /\ Len(SubSeq(s, a, b)) = b - a + 1
        /\ \A i \in 1..(b - a + 1) : SubSeq(s, a, b)[i] = s[a + i - 1]
    BY <2>3, <1>1, SubSeqProperties
  <2>6. Cardinality(I) = b - a + 1
    BY <2>3, <2>4, FS_Interval
  <2>7. ASSUME NEW i \in I PROVE SubSeq(s, a, b)[Place(I, i)] = s[i]
    <3>1. Place(I, i) = i - a + 1
      BY <2>3, <2>4, PlaceInInterval
    <3> QED BY <2>3, <2>4, <2>5, <3>1
  <2> QED BY <2>2, <2>3, <2>4, <2>5, <2>6, <2>7 DEF Selects
<1> QED BY <1>2, <1>3

(* The last colon of every run, and everything else.                       *)
Lasts(s, k) == {i \in 1..k : s[i] = Colon => i = k \/ s[i + 1] # Colon}

LEMMA LastsGrow ==
  ASSUME NEW s \in Seq(Chars), NEW k \in Nat, k < Len(s),
         NEW c \in Seq(Chars), Selects(c, Lasts(s, k), s)
  PROVE  /\ c \o Kept(s, k + 1) \in Seq(Chars)
         /\ Selects(c \o Kept(s, k + 1), Lasts(s, k + 1), s)
PROOF
<1> DEFINE K == Lasts(s, k)
           L == Lasts(s, k + 1)
<1>1. K \in SUBSET (1..k) /\ L \in SUBSET (1..(k + 1)) /\ k + 1 \in Nat /\ k + 1 \in 1..Len(s)
  BY DEF Lasts
<1>2. s[k + 1] \in Chars
  BY <1>1
<1>3. IsFiniteSet(K) /\ Cardinality(K) \in Nat /\ IsFiniteSet(L) /\ Cardinality(L) \in Nat
  BY <1>1, PlaceFacts
<1>4. k + 1 \in L
  BY <1>1 DEF Lasts
<1>5. Place(L, k + 1) = Cardinality(L)
  <2>1. {j \in L : j <= k + 1} = L
    BY <1>1
  <2> QED BY <2>1 DEF Place
<1>6. ASSUME NEW i \in K \cap L PROVE Place(L, i) = Place(K, i)
  <2>1. ASSUME NEW j \in 1..(k + 1), j <= i PROVE j \in K <=> j \in L
    <3>1. i \in 1..k /\ j \in 1..k
      BY <1>1, <2>1
    <3>2. CASE j < i
      BY <3>1, <3>2 DEF Lasts
    <3>3. CASE j = i
      BY <3>3
    <3> QED BY <2>1, <3>1, <3>2, <3>3
  <2>2. {j \in L : j <= i} = {j \in K : j <= i}
    BY <1>1, <2>1
  <2> QED BY <2>2 DEF Place
<1>7. \A i \in K : c[Place(K, i)] = s[i] /\ Place(K, i) \in 1..Cardinality(K)
  BY <1>1, PlaceFacts DEF Selects
<1>8. Len(c) = Cardinality(K)
  BY DEF Selects
<1>9. CASE k + 1 > 1 /\ s[k + 1] = Colon /\ s[k] = Colon
  <2>1. k \in 1..k /\ k \in K /\ k \notin L /\ (k + 1) - 1 = k
    BY <1>9 DEF Lasts
  <2>2. L = (K \ {k}) \cup {k + 1}
    <3>1. ASSUME NEW i \in 1..(k - 1) PROVE i \in K <=> i \in L
      BY <3>1 DEF Lasts
    <3> QED BY <1>1, <1>4, <2>1, <3>1
  <2>3. Cardinality(L) = Cardinality(K)
    <3>1. IsFiniteSet(K \ {k}) /\ Cardinality(K \ {k}) = Cardinality(K) - 1
      BY <1>3, <2>1, FS_RemoveElement
    <3>2. k + 1 \notin K \ {k}
      BY <1>1
    <3>3. Cardinality((K \ {k}) \cup {k + 1}) = Cardinality(K \ {k}) + 1
      BY <3>1, <3>2, FS_AddElement
    <3>4. Cardinality(L) = Cardinality((K \ {k}) \cup {k + 1})
      BY <2>2, Zenon
    <3> HIDE DEF K, L
    <3> QED BY <1>3, <3>1, <3>3, <3>4
  <2>4. Kept(s, k + 1) = <<>>
    BY <1>9, <2>1 DEF Kept
  <2>5. c \o Kept(s, k + 1) = c
    BY <2>4
  <2>6. Place(K, k) = Cardinality(K)
    <3>1. {j \in K : j <= k} = K
      BY <1>1
    <3> QED BY <3>1 DEF Place
  <2>7. c[Place(L, k + 1)] = s[k + 1]
    BY <1>5, <1>7, <1>9, <2>1, <2>3, <2>6
  <2>8. \A i \in L : c[Place(L, i)] = s[i]
    BY <1>6, <1>7, <2>2, <2>7
  <2> QED BY <1>8, <2>3, <2>5, <2>8 DEF Selects
<1>10. CASE ~ (k + 1 > 1 /\ s[k + 1] = Colon /\ s[k] = Colon)
  <2>1. Kept(s, k + 1) = <<s[k + 1]>>
    BY <1>10, (k + 1) - 1 = k DEF Kept
  <2>2. L = K \cup {k + 1}
    <3>1. ASSUME NEW i \in 1..k PROVE i \in K <=> i \in L
      <4>1. CASE i = k
        BY <1>10, <4>1 DEF Lasts
      <4>2. CASE i < k
        BY <4>2 DEF Lasts
      <4> QED BY <4>1, <4>2
    <3> QED BY <1>1, <1>4, <3>1
  <2>3. Cardinality(L) = Cardinality(K) + 1
    BY <1>1, <1>3, <2>2, FS_AddElement, k + 1 \notin K
  <2> DEFINE d == c \o <<s[k + 1]>>
  <2>4. /\ d \in Seq(Chars) /\ Len(d) = Len(c) + 1 /\ d[Len(c) + 1] = s[k + 1]
        /\ \A p \in 1..Len(c) : d[p] = c[p]
    BY <1>2
  <2> HIDE DEF d
  <2>5. d[Place(L, k + 1)] = s[k + 1]
    BY <1>5, <1>8, <2>3, <2>4
  <2>6. ASSUME NEW i \in K PROVE d[Place(L, i)] = s[i]
    BY <1>6, <1>7, <1>8, <2>2, <2>4
  <2>7. Selects(d, L, s)
    BY <1>8, <2>2, <2>3, <2>4, <2>5, <2>6 DEF Selects
  <2> QED BY <2>1, <2>4, <2>7 DEF d
<1> QED BY <1>9, <1>10

LEMMA CollapseSelects ==
  ASSUME NEW s \in Seq(Chars)
  PROVE  /\ CollapseColons(s) \in Seq(Chars)
         /\ Selects(CollapseColons(s), Lasts(s, Len(s)), s)
PROOF
<1>1. PICK done : /\ CollapseColons(s) = done[Len(s)]
                  /\ done[0] = <<>>
                  /\ \A k \in 1..Len(s) : done[k] = done[k - 1] \o Kept(s, k)
  BY CollapseSteps
<1> DEFINE Good(k) == done[k] \in Seq(Chars) /\ Selects(done[k], Lasts(s, k), s)
           S == {k \in Nat : k <= Len(s) => Good(k)}
<1>2. 0 \in S
  <2>1. Lasts(s, 0) = {}
    BY DEF Lasts
  <2>2. <<>> \in Seq(Chars) /\ Len(<<>>) = 0
    OBVIOUS
  <2> QED BY <1>1, <2>1, <2>2, FS_EmptySet DEF Selects
<1>3. ASSUME NEW k \in Nat, k \in S PROVE k + 1 \in S
  <2>1. SUFFICES ASSUME k + 1 <= Len(s) PROVE Good(k + 1)
    OBVIOUS
  <2>2. Len(s) \in Nat /\ k < Len(s) /\ k <= Len(s) /\ k + 1 \in 1..Len(s) /\ (k + 1) - 1 = k
    BY <2>1
  <2>3. Good(k)
    BY <1>3, <2>2
  <2>4. done[k + 1] = done[k] \o Kept(s, k + 1)
    BY <1>1, <2>2
  <2> QED BY <2>2, <2>3, <2>4, LastsGrow
<1> HIDE DEF S
<1>4. Nat \subseteq S
  BY <1>2, <1>3, SetInduction
<1>5. Good(Len(s))
  BY <1>4, Len(s) \in Nat, Len(s) <= Len(s) DEF S
<1> QED BY <1>1, <1>5

LEMMA LowerFacts ==
  ASSUME NEW s \in Seq(Chars)
  PROVE  /\ ToLower(s) \in Seq(Chars) /\ Len(ToLower(s)) = Len(s)
         /\ \A i \in 1..Len(s) : /\ ToLower(s)[i] = Colon <=> s[i] = Colon
                                 /\ \A r \in Seq(Chars) : \A j \in 1..Len(r) :
                                      s[i] = r[j] => ToLower(s)[i] = ToLower(r)[j]
PROOF
<1>1. /\ DOMAIN s = 1..Len(s) /\ Len(s) \in Nat /\ \A i \in 1..Len(s) : s[i] \in Chars
      /\ \A r \in Seq(Chars) : DOMAIN r = 1..Len(r)
  OBVIOUS
<1>2. \A c \in Chars : (IF c = "A" THEN "a" ELSE c) \in Chars
  BY DEF Chars, Letters
<1>3. \A i \in 1..Len(s) : ToLower(s)[i] \in Chars
  BY <1>1, <1>2 DEF ToLower
<1>4. ToLower(s) \in [1..Len(s) -> Chars]
  BY <1>1, <1>3 DEF ToLower
<1>5. ToLower(s) \in Seq(Chars) /\ Len(ToLower(s)) = Len(s)
  BY <1>1, <1>4
<1>6. \A i \in 1..Len(s) : ToLower(s)[i] = Colon <=> s[i] = Colon
  BY <1>1 DEF ToLower, Colon
<1>7. \A i \in 1..Len(s) : \A r \in Seq(Chars) : \A j \in 1..Len(r) :
        s[i] = r[j] => ToLower(s)[i] = ToLower(r)[j]
  BY <1>1 DEF ToLower
<1> QED BY <1>5, <1>6, <1>7

(* A position of K between two that hold no colon.                         *)
Between(K, s, i) ==
  /\ \E j \in K : j <= i /\ s[j] # Colon
  /\ \E j \in K : i <= j /\ s[j] # Colon

(* Where the selected elements lie among those that are no colons can be   *)
(* seen in the sequence that they are selected from.                       *)
LEMMA InnerOfSelected ==
  ASSUME NEW n \in Nat, NEW K \in SUBSET (1..n), NEW s,
         NEW c, DOMAIN c = 1..Len(c), Selects(c, K, s), NEW i \in K
  PROVE  Place(K, i) \in Inner(c, Colon) <=> Between(K, s, i)
PROOF
<1>1. /\ \A j \in K : Place(K, j) \in 1..Cardinality(K)
      /\ \A p \in 1..Cardinality(K) : \E j \in K : Place(K, j) = p
      /\ Cardinality(K) \in Nat
  BY PlaceFacts
<1>2. \A j, k \in K : Place(K, j) <= Place(K, k) <=> j <= k
  BY PlaceOrder
<1>3. DOMAIN c = 1..Cardinality(K) /\ Len(c) = Cardinality(K) /\ \A j \in K : c[Place(K, j)] = s[j]
  BY DEF Selects
<1> DEFINE p == Place(K, i)
<1>4. p \in 1..Cardinality(K)
  BY <1>1
<1>5. (\E q \in 1..p : c[q] # Colon) <=> (\E j \in K : j <= i /\ s[j] # Colon)
  <2>1. ASSUME NEW q \in 1..p, c[q] # Colon PROVE \E j \in K : j <= i /\ s[j] # Colon
    <3>1. q \in 1..Cardinality(K) /\ q <= p
      BY <1>1, <1>4
    <3> QED BY <1>1, <1>2, <1>3, <2>1, <3>1
  <2>2. ASSUME NEW j \in K, j <= i, s[j] # Colon PROVE \E q \in 1..p : c[q] # Colon
    <3>1. Place(K, j) \in 1..Cardinality(K) /\ Place(K, j) <= p /\ c[Place(K, j)] # Colon
      BY <1>1, <1>2, <1>3, <2>2
    <3>2. Place(K, j) \in 1..p
      BY <1>1, <1>4, <3>1
    <3> QED BY <3>1, <3>2
  <2> QED BY <2>1, <2>2
<1>6. (\E q \in p..Len(c) : c[q] # Colon) <=> (\E j \in K : i <= j /\ s[j] # Colon)
  <2>1. ASSUME NEW q \in p..Len(c), c[q] # Colon PROVE \E j \in K : i <= j /\ s[j] # Colon
    <3>1. q \in 1..Cardinality(K) /\ p <= q
      BY <1>1, <1>3, <1>4
    <3> QED BY <1>1, <1>2, <1>3, <2>1, <3>1
  <2>2. ASSUME NEW j \in K, i <= j, s[j] # Colon PROVE \E q \in p..Len(c) : c[q] # Colon
    <3>1. Place(K, j) \in 1..Cardinality(K) /\ p <= Place(K, j) /\ c[Place(K, j)] # Colon
      BY <1>1, <1>2, <1>3, <2>2
    <3>2. Place(K, j) \in p..Len(c)
      BY <1>1, <1>3, <1>4, <3>1
    <3> QED BY <3>1, <3>2
  <2> QED BY <2>1, <2>2
<1> QED BY <1>3, <1>4, <1>5, <1>6 DEF Inner, Between

(* What the key is made of: NaturalKey's Survives for any sequence.        *)
SurvivesIn(s, i) ==
  /\ i \in Inner(s, Space)
  /\ s[i] = Colon =>
       /\ i + 1 \in Inner(s, Space) /\ s[i + 1] # Colon
       /\ \E j \in Inner(s, Space) : j < i /\ s[j] # Colon
Survivors(s) == {i \in 1..Len(s) : SurvivesIn(s, i)}

(* Where a trimmed text has the last colon of a run.                       *)
LEMMA LastsOfTrimmed ==
  ASSUME NEW s \in Seq(Chars), NEW t, Selects(t, Inner(s, Space), ToLower(s)),
         NEW i \in Inner(s, Space)
  PROVE  Place(Inner(s, Space), i) \in Lasts(t, Len(t)) <=>
           (s[i] = Colon => i + 1 \notin Inner(s, Space) \/ s[i + 1] # Colon)
PROOF
<1> DEFINE I == Inner(s, Space)
<1>1. DOMAIN s = 1..Len(s) /\ Len(s) \in Nat
  OBVIOUS
<1>2. PICK a, b \in 1..Len(s) : I = a..b
  BY StripSelects
<1>3. a \in Nat \ {0} /\ b \in Nat /\ a <= i /\ i <= b /\ i \in Nat
  BY <1>1, <1>2
<1>4. Place(I, i) = i - a + 1
  BY <1>2, <1>3, PlaceInInterval
<1>5. Len(t) = b - a + 1
  <2>1. Cardinality(a..b) = b - a + 1
    BY <1>3, FS_Interval
  <2> QED BY <1>2, <2>1 DEF Selects
<1>6. \A j \in a..b : t[j - a + 1] = ToLower(s)[j]
  <2>1. ASSUME NEW j \in a..b PROVE t[j - a + 1] = ToLower(s)[j]
    <3>1. Place(I, j) = j - a + 1
      BY <1>2, <1>3, PlaceInInterval
    <3> QED BY <1>2, <3>1 DEF Selects
  <2> QED BY <2>1
<1>7. \A j \in a..b : t[j - a + 1] = Colon <=> s[j] = Colon
  <2>1. \A j \in a..b : j \in 1..Len(s)
    BY <1>1
  <2>2. \A j \in 1..Len(s) : ToLower(s)[j] = Colon <=> s[j] = Colon
    BY LowerFacts
  <2> QED BY <1>6, <2>1, <2>2
<1>8. i + 1 \in I <=> i - a + 1 < Len(t)
  BY <1>2, <1>3, <1>5
<1>9. i - a + 1 \in 1..Len(t) /\ (i + 1) - a + 1 = (i - a + 1) + 1
  BY <1>3, <1>5
<1>10. t[i - a + 1] = Colon <=> s[i] = Colon
  BY <1>2, <1>7
<1>11. i + 1 \in I => (t[(i - a + 1) + 1] = Colon <=> s[i + 1] = Colon)
  BY <1>2, <1>7, <1>9
<1>12. i - a + 1 = Len(t) <=> i + 1 \notin I
  BY <1>3, <1>5, <1>8
<1> QED BY <1>4, <1>9, <1>10, <1>11, <1>12 DEF Lasts

(* canonicalizeNaturalKey, for every text.                                 *)
LEMMA KeySelects ==
  ASSUME NEW s \in Seq(Chars)
  PROVE  /\ canonicalizeNaturalKey(s) \in Seq(Chars)
         /\ Selects(canonicalizeNaturalKey(s), Survivors(s), ToLower(s))
PROOF
<1> DEFINE lowered == ToLower(s)
           trimmed == StripEnds(s, Space)
           t == ToLower(trimmed)
           u == CollapseColons(t)
           I == Inner(s, Space)
           L == Lasts(t, Len(t))
           K == {i \in I : Place(I, i) \in L}
           J == {i \in K : Place(K, i) \in Inner(u, Colon)}
           n == Len(s)
           made == canonicalizeNaturalKey(s)
<1>1. n \in Nat /\ DOMAIN s = 1..n /\ I \in SUBSET (1..n)
  BY DEF Inner
<1>2. trimmed \in Seq(Chars) /\ Selects(trimmed, I, s)
  BY StripSelects
<1>3. t \in Seq(Chars) /\ Selects(t, I, lowered)
  <2>1. \A i \in I : Place(I, i) \in 1..Len(trimmed)
    BY <1>1, <1>2, PlaceFacts DEF Selects
  <2>2. \A i \in I : t[Place(I, i)] = lowered[i]
    BY <1>1, <1>2, <2>1, LowerFacts DEF Selects
  <2> QED BY <1>2, <2>2, LowerFacts DEF Selects
<1>4. u \in Seq(Chars) /\ Selects(u, L, t) /\ L \in SUBSET (1..Cardinality(I))
  BY <1>3, CollapseSelects DEF Selects, Lasts
<1>5. made \in Seq(Chars) /\ Selects(made, Inner(u, Colon), u)
  BY <1>4, StripSelects DEF canonicalizeNaturalKey
<1>6. \A i \in 1..n : lowered[i] = Colon <=> s[i] = Colon
  BY LowerFacts
<1>7. \A i \in I : Place(I, i) \in L <=> (s[i] = Colon => i + 1 \notin I \/ s[i + 1] # Colon)
  BY <1>3, LastsOfTrimmed
<1> HIDE DEF lowered, t, u, L, n, made
<1>8. Selects(u, K, lowered)
  <2>1. /\ n \in Nat /\ I \in SUBSET (1..n) /\ Selects(t, I, lowered)
        /\ L \in SUBSET (1..Cardinality(I)) /\ Selects(u, L, t)
    BY <1>1, <1>3, <1>4
  <2> HIDE DEF I
  <2> QED BY ONLY <2>1, SelectsSelected
<1>9. K \in SUBSET (1..n) /\ K \subseteq I
  BY <1>1
<1>10. \A i \in I : i \in K <=> (s[i] = Colon => i + 1 \notin I \/ s[i + 1] # Colon)
  BY <1>7
<1> HIDE DEF K
<1>11. Inner(u, Colon) \in SUBSET (1..Cardinality(K)) /\ DOMAIN u = 1..Len(u)
  BY <1>4, <1>8 DEF Inner, Selects
<1>12. Selects(made, J, lowered)
  BY <1>1, <1>5, <1>8, <1>9, <1>11, SelectsSelected
<1>13. \A i \in K : i \in J <=> Between(K, lowered, i)
  <2>1. ASSUME NEW i \in K PROVE Place(K, i) \in Inner(u, Colon) <=> Between(K, lowered, i)
    <3>1. /\ n \in Nat /\ K \in SUBSET (1..n) /\ DOMAIN u = 1..Len(u)
          /\ Selects(u, K, lowered) /\ i \in K
      BY <1>1, <1>8, <1>9, <1>11
    <3> HIDE DEF J
    <3> QED BY ONLY <3>1, InnerOfSelected
  <2> QED BY <2>1
<1>14. J \subseteq K
  OBVIOUS
<1> HIDE DEF J
<1>15. \A i \in K : i \in J <=> /\ \E j \in K : j <= i /\ s[j] # Colon
                                /\ \E j \in K : i <= j /\ s[j] # Colon
  <2>1. \A j \in K : lowered[j] # Colon <=> s[j] # Colon
    BY <1>6, <1>9
  <2> QED BY <1>13, <2>1 DEF Between
<1>16. ASSUME NEW i \in 1..n PROVE i \in J <=> SurvivesIn(s, i)
  <2>1. \A j \in I : j \in 1..n /\ (s[j] # Colon => j \in K)
    BY <1>1, <1>10
  <2>2. CASE i \notin I
    BY <1>9, <1>14, <2>2 DEF SurvivesIn
  <2>3. CASE i \in I /\ s[i] # Colon
    <3>1. i \in K /\ i <= i
      BY <2>1, <2>3
    <3> QED BY <1>15, <2>3, <3>1 DEF SurvivesIn
  <2>4. CASE i \in I /\ s[i] = Colon
    <3>1. ASSUME i \in J PROVE SurvivesIn(s, i)
      <4>1. i \in K
        BY <1>14, <3>1
      <4>2. PICK j \in K : j <= i /\ s[j] # Colon
        BY <1>15, <3>1, <4>1
      <4>3. PICK k \in K : i <= k /\ s[k] # Colon
        BY <1>15, <3>1, <4>1
      <4>4. j \in I /\ k \in I /\ j < i /\ i < k
        BY <1>9, <2>1, <2>4, <4>2, <4>3
      <4>5. PICK a, b \in 1..n : I = a..b
        BY <2>4, StripSelects DEF n
      <4>6. i + 1 \in I
        BY <2>4, <4>4, <4>5
      <4>7. s[i + 1] # Colon
        BY <1>10, <2>4, <4>1, <4>6
      <4> QED BY <2>4, <4>2, <4>4, <4>6, <4>7 DEF SurvivesIn
    <3>2. ASSUME SurvivesIn(s, i) PROVE i \in J
      <4>1. i + 1 \in I /\ s[i + 1] # Colon
        BY <2>4, <3>2 DEF SurvivesIn
      <4>2. PICK j \in I : j < i /\ s[j] # Colon
        BY <2>4, <3>2 DEF SurvivesIn
      <4>3. i \in K /\ j \in K /\ i + 1 \in K
        BY <1>10, <2>1, <2>4, <4>1, <4>2
      <4>4. j <= i /\ i <= i + 1
        BY <2>1, <4>2
      <4> QED BY <1>15, <4>1, <4>2, <4>3, <4>4
    <3> QED BY <3>1, <3>2
  <2> QED BY <2>2, <2>3, <2>4
<1>17. J = Survivors(s)
  BY <1>9, <1>14, <1>16 DEF Survivors, n
<1> QED BY <1>5, <1>12, <1>17 DEF lowered, made

LEMMA KeyOfText ==
  ASSUME text \in Seq(Chars)
  PROVE  KeyIsWhatSurvives
PROOF
<1>1. Inside = Inner(text, Space) /\ DOMAIN text = 1..Len(text)
  BY DEF Inside, Inner
<1>2. {i \in DOMAIN text : Survives(i)} = Survivors(text)
  BY <1>1 DEF Survives, Survivors, SurvivesIn
<1>3. Selects(key, Survivors(text), ToLower(text))
  BY KeySelects DEF key
<1>4. Len(key) = Cardinality(Survivors(text))
  BY <1>3 DEF Selects
<1>5. \A i \in Survivors(text) :
        key[Cardinality({j \in Survivors(text) : j <= i})] = ToLower(text)[i]
  BY <1>3 DEF Selects, Place
<1> QED BY <1>2, <1>4, <1>5 DEF KeyIsWhatSurvives

(* Two texts of which the same survives, at places in the same order, have *)
(* one key.                                                                *)
LEMMA SameSurvivors ==
  ASSUME NEW s \in Seq(Chars), NEW t \in Seq(Chars), NEW f \in [Survivors(s) -> Survivors(t)],
         \A i \in Survivors(t) : \E j \in Survivors(s) : f[j] = i,
         \A i, j \in Survivors(s) : i <= j <=> f[i] <= f[j],
         \A i \in Survivors(s) : ToLower(t)[f[i]] = ToLower(s)[i]
  PROVE  canonicalizeNaturalKey(t) = canonicalizeNaturalKey(s)
PROOF
<1> DEFINE A == Survivors(s)
           B == Survivors(t)
           a == canonicalizeNaturalKey(s)
           b == canonicalizeNaturalKey(t)
<1>1. a \in Seq(Chars) /\ b \in Seq(Chars) /\ Selects(a, A, ToLower(s)) /\ Selects(b, B, ToLower(t))
  BY KeySelects
<1> HIDE DEF a, b
<1>2. /\ Len(s) \in Nat /\ Len(t) \in Nat /\ A \in SUBSET (1..Len(s)) /\ B \in SUBSET (1..Len(t))
      /\ \A i \in A : i \in Int
  BY DEF Survivors
<1>3. /\ IsFiniteSet(A) /\ Cardinality(A) \in Nat
      /\ \A p \in 1..Cardinality(A) : \E i \in A : Place(A, i) = p
  BY <1>2, PlaceFacts
<1>4. \A i, j \in A : f[i] = f[j] => i = j
  <2>1. ASSUME NEW i \in A, NEW j \in A, f[i] = f[j] PROVE i = j
    <3>1. f[i] <= f[i]
      BY <1>2
    <3>2. i <= j /\ j <= i
      BY <2>1, <3>1
    <3> QED BY <1>2, <3>2
  <2> QED BY <2>1
<1> HIDE DEF A, B
<1>5. f \in [A -> B] /\ \A i \in B : \E j \in A : f[j] = i
  BY DEF A, B
<1>6. /\ \A i, j \in A : i <= j <=> f[i] <= f[j]
      /\ \A i \in A : ToLower(t)[f[i]] = ToLower(s)[i]
  BY DEF A, B
<1>7. f \in Bijection(A, B)
  BY <1>4, <1>5 DEF Bijection, Injection, Surjection, IsInjective
<1>8. Cardinality(B) = Cardinality(A)
  BY <1>3, <1>7, FS_Bijection DEF ExistsBijection
<1>9. ASSUME NEW i \in A PROVE Place(B, f[i]) = Place(A, i)
  <2> DEFINE U == {j \in A : j <= i}
             V == {j \in B : j <= f[i]}
             g == [j \in U |-> f[j]]
  <2>1. IsFiniteSet(U)
    BY <1>3, FS_Subset, U \in SUBSET A
  <2>2. g \in [U -> V] /\ \A j, k \in U : g[j] = g[k] => j = k
    BY <1>4, <1>5, <1>6
  <2>3. \A m \in V : \E j \in U : g[j] = m
    BY <1>5, <1>6
  <2>4. g \in Bijection(U, V)
    BY <2>2, <2>3 DEF Bijection, Injection, Surjection, IsInjective
  <2>5. Cardinality(V) = Cardinality(U)
    BY <2>1, <2>4, FS_Bijection DEF ExistsBijection
  <2> QED BY <2>5 DEF Place
<1>10. \A i \in A : b[Place(A, i)] = a[Place(A, i)]
  <2>1. ASSUME NEW i \in A PROVE b[Place(A, i)] = a[Place(A, i)]
    <3>1. f[i] \in B
      BY <1>5
    <3>2. b[Place(B, f[i])] = ToLower(t)[f[i]] /\ a[Place(A, i)] = ToLower(s)[i]
      BY <1>1, <3>1 DEF Selects
    <3> QED BY <1>6, <1>9, <3>2
  <2> QED BY <2>1
<1>11. Len(a) = Cardinality(A) /\ Len(b) = Cardinality(A)
  BY <1>1, <1>8 DEF Selects
<1>12. \A p \in 1..Len(a) : b[p] = a[p]
  BY <1>3, <1>10, <1>11
<1>13. b = a
  BY <1>1, <1>11, <1>12
<1> QED BY <1>13 DEF a, b

(* Case.                                                                   *)
LEMMA LowerSharesKey ==
  ASSUME NEW s \in Seq(Chars)
  PROVE  canonicalizeNaturalKey(ToLower(s)) = canonicalizeNaturalKey(s)
PROOF
<1> DEFINE t == ToLower(s)
           f == [i \in Survivors(s) |-> i]
<1>1. /\ t \in Seq(Chars) /\ Len(t) = Len(s) /\ Len(s) \in Nat
      /\ DOMAIN s = 1..Len(s) /\ DOMAIN t = 1..Len(s)
      /\ \A i \in 1..Len(s) : t[i] = IF s[i] = "A" THEN "a" ELSE s[i]
  <2>1. t \in Seq(Chars) /\ Len(t) = Len(s)
    BY LowerFacts
  <2>2. DOMAIN s = 1..Len(s) /\ Len(s) \in Nat
    OBVIOUS
  <2>3. \A i \in 1..Len(s) : t[i] = IF s[i] = "A" THEN "a" ELSE s[i]
    BY <2>2 DEF ToLower
  <2> HIDE DEF t
  <2> QED BY <2>1, <2>2, <2>3
<1>2. \A i \in 1..Len(s) : ToLower(t)[i] = t[i]
  BY <1>1 DEF ToLower
<1>3. \A i \in 1..Len(s) : (t[i] = Colon <=> s[i] = Colon) /\ (t[i] = Space <=> s[i] = Space)
  BY <1>1 DEF Colon, Space
<1> HIDE DEF t
<1>4. Inner(t, Space) = Inner(s, Space)
  BY <1>1, <1>3 DEF Inner
<1>5. Inner(s, Space) \in SUBSET (1..Len(s))
  BY <1>1 DEF Inner
<1>6. \A i \in 1..Len(s) : SurvivesIn(t, i) <=> SurvivesIn(s, i)
  BY <1>3, <1>4, <1>5 DEF SurvivesIn
<1>7. Survivors(t) = Survivors(s) /\ Survivors(s) \in SUBSET (1..Len(s))
  BY <1>1, <1>6 DEF Survivors
<1>8. f \in [Survivors(s) -> Survivors(t)]
  BY <1>7
<1>9. canonicalizeNaturalKey(t) = canonicalizeNaturalKey(s)
  BY <1>1, <1>2, <1>7, <1>8, SameSurvivors DEF t
<1> QED BY <1>9 DEF t

(* Where one more blank or colon says nothing: a blank before or after the *)
(* text; a colon next to a colon, or before or after a text that is not    *)
(* blank there.                                                            *)
Redundant(s, i, c) ==
  \/ c = Space /\ i \in {1, Len(s) + 1}
  \/ c = Colon /\ \/ i \in DOMAIN s /\ s[i] = Colon
                  \/ i = 1 /\ (s = <<>> \/ s[1] # Space)
                  \/ i = Len(s) + 1 /\ (s = <<>> \/ s[Len(s)] # Space)

LEMMA InsertFacts ==
  ASSUME NEW s \in Seq(Chars), NEW k \in 1..(Len(s) + 1), NEW c \in Chars
  PROVE  /\ InsertAt(s, k, c) \in Seq(Chars)
         /\ Len(InsertAt(s, k, c)) = Len(s) + 1
         /\ InsertAt(s, k, c)[k] = c
         /\ \A i \in 1..Len(s) : InsertAt(s, k, c)[IF i < k THEN i ELSE i + 1] = s[i]
PROOF
<1> DEFINE n == Len(s)
           p == SubSeq(s, 1, k - 1)
           q == SubSeq(s, k, n)
<1>1. n \in Nat /\ k \in Nat /\ 1 <= k /\ k <= n + 1
  OBVIOUS
<1>2. p \in Seq(Chars) /\ Len(p) = k - 1 /\ \A i \in 1..(k - 1) : p[i] = s[i]
  BY <1>1
<1>3. q \in Seq(Chars) /\ Len(q) = n + 1 - k /\ \A i \in 1..(n + 1 - k) : q[i] = s[k + i - 1]
  BY <1>1
<1> HIDE DEF p, q
<1> DEFINE front == p \o <<c>>
           t == front \o q
<1>4. InsertAt(s, k, c) = t
  BY DEF InsertAt, p, q
<1>5. <<c>> \in Seq(Chars) /\ Len(<<c>>) = 1 /\ <<c>>[1] = c
  OBVIOUS
<1>6. front \in Seq(Chars) /\ Len(front) = k
  BY <1>1, <1>2, <1>5
<1>7. /\ \A i \in 1..(k - 1) : front[i] = s[i]
      /\ front[k] = c
  BY <1>1, <1>2, <1>5
<1> HIDE DEF front, n
<1>8. t \in Seq(Chars) /\ Len(t) = n + 1
  <2>1. front \in Seq(Chars) /\ q \in Seq(Chars)
    BY <1>3, <1>6
  <2>2. t \in Seq(Chars) /\ Len(t) = Len(front) + Len(q)
    BY ONLY <2>1
  <2> HIDE DEF t
  <2> QED BY <1>1, <1>3, <1>6, <2>2
<1>9. \A i \in 1..k : t[i] = front[i]
  BY <1>1, <1>3, <1>6
<1>10. \A i \in (k + 1)..(n + 1) : t[i] = q[i - k]
  BY <1>1, <1>3, <1>6
<1> HIDE DEF t
<1>11. \A i \in 1..n : i >= k => t[i + 1] = s[i]
  <2>1. ASSUME NEW i \in 1..n, i >= k PROVE t[i + 1] = s[i]
    <3>0. i + 1 \in (k + 1)..(n + 1)
      BY <1>1, <2>1
    <3>1. t[i + 1] = q[(i + 1) - k] /\ (i + 1) - k \in 1..(n + 1 - k)
      BY <1>1, <1>10, <3>0
    <3>2. k + ((i + 1) - k) - 1 = i
      BY <1>1
    <3> QED BY <1>3, <3>1, <3>2
  <2> QED BY <2>1
<1>12. \A i \in 1..n : i < k => t[i] = s[i]
  <2>1. \A i \in 1..n : i < k => i \in 1..k /\ i \in 1..(k - 1)
    BY <1>1
  <2> QED BY <1>7, <1>9, <2>1
<1>13. t[k] = c
  BY <1>7, <1>9, k \in 1..k
<1>14. \A i \in 1..n : ~ (i < k) => i >= k
  BY <1>1
<1> QED BY <1>4, <1>8, <1>11, <1>12, <1>13, <1>14 DEF n

LEMMA InsertSharesKey ==
  ASSUME NEW s \in Seq(Chars), NEW k \in 1..(Len(s) + 1), NEW c \in {Space, Colon},
         Redundant(s, k, c)
  PROVE  canonicalizeNaturalKey(InsertAt(s, k, c)) = canonicalizeNaturalKey(s)
PROOF
<1> DEFINE n == Len(s)
           t == InsertAt(s, k, c)
           at == [i \in 1..n |-> IF i < k THEN i ELSE i + 1]
           f == [i \in Survivors(s) |-> at[i]]
<1>1. n \in Nat /\ DOMAIN s = 1..n /\ k \in Nat /\ 1 <= k /\ k <= n + 1 /\ c \in Chars
  BY DEF Chars
<1>2. /\ t \in Seq(Chars) /\ Len(t) = n + 1 /\ DOMAIN t = 1..(n + 1) /\ t[k] = c
      /\ \A i \in 1..n : t[at[i]] = s[i]
  BY <1>1, InsertFacts
<1> HIDE DEF t
<1>3. /\ \A i \in 1..n : at[i] \in 1..(n + 1) /\ at[i] # k
      /\ \A i, j \in 1..n : (i <= j <=> at[i] <= at[j]) /\ (i < j <=> at[i] < at[j])
  BY <1>1
<1>4. \A m \in 1..(n + 1) : m = k \/ \E i \in 1..n : at[i] = m
  <2>1. ASSUME NEW m \in 1..(n + 1), m # k PROVE \E i \in 1..n : at[i] = m
    <3>1. CASE m < k
      BY <1>1, <3>1, m \in 1..n
    <3>2. CASE m > k
      BY <1>1, <3>2, m - 1 \in 1..n, at[m - 1] = m
    <3> QED BY <1>1, <2>1, <3>1, <3>2
  <2> QED BY <2>1
<1>6. \A i \in 1..n : i + 1 \in 1..n /\ at[i] + 1 = k => i + 1 = k
  BY <1>1
<1>7. Space # Colon /\ c \in {Space, Colon}
  BY DEF Space, Colon
<1>8. /\ c = Space => k \in {1, n + 1}
      /\ c = Colon => \/ k \in 1..n /\ s[k] = Colon
                      \/ k = 1 /\ (n = 0 \/ s[1] # Space)
                      \/ k = n + 1 /\ (n = 0 \/ s[n] # Space)
  BY <1>1, <1>7 DEF Redundant
<1>9. \A i \in 1..n : i >= k <=> at[i] > k
  BY <1>1
<1>0. \A i \in 1..n : at[i] = IF i < k THEN i ELSE i + 1
  OBVIOUS
<1> HIDE DEF at, n
<1>5. \A i \in 1..n : at[i] + 1 = k \/ (i + 1 \in 1..n /\ at[i] + 1 = at[i + 1]) \/ i = n
  <2>1. ASSUME NEW i \in 1..n, i # n, at[i] + 1 # k
        PROVE  i + 1 \in 1..n /\ at[i] + 1 = at[i + 1]
    <3>1. i \in Nat /\ i + 1 \in 1..n
      BY <1>1, <2>1
    <3>2. at[i] = (IF i < k THEN i ELSE i + 1) /\ at[i + 1] = IF i + 1 < k THEN i + 1 ELSE (i + 1) + 1
      BY <1>0, <3>1
    <3>3. i < k => i + 1 # k
      BY <2>1, <3>2
    <3> QED BY <1>1, <3>1, <3>2, <3>3
  <2> QED BY <2>1
(* A blank in front or behind is outside; an added colon has a visible     *)
(* neighbour, or is alone.                                                 *)
<1>10. ASSUME NEW i \in 1..n PROVE at[i] \in Inner(t, Space) <=> i \in Inner(s, Space)
  <2>1. (\E j \in 1..at[i] : t[j] # Space) <=> (\E j \in 1..i : s[j] # Space)
    <3>1. ASSUME NEW j \in 1..i, s[j] # Space PROVE \E m \in 1..at[i] : t[m] # Space
      <4>1. j \in 1..n /\ j <= i
        BY <1>1
      <4>2. at[j] \in 1..at[i] /\ t[at[j]] # Space
        BY <1>2, <1>3, <3>1, <4>1
      <4> QED BY <4>2
    <3>2. ASSUME NEW m \in 1..at[i], t[m] # Space PROVE \E j \in 1..i : s[j] # Space
      <4>1. m \in 1..(n + 1) /\ m <= at[i]
        BY <1>1, <1>3
      <4>2. CASE m # k
        <5>1. PICK j \in 1..n : at[j] = m
          BY <1>4, <4>1, <4>2
        <5>2. j <= i /\ s[j] # Space
          BY <1>2, <1>3, <3>2, <4>1, <5>1
        <5> QED BY <5>2
      <4>3. CASE m = k
        <5>1. c = Colon /\ at[i] > k
          BY <1>2, <1>3, <1>7, <3>2, <4>1, <4>3
        <5>2. i >= k
          BY <1>9, <5>1
        <5>3. CASE k \in 1..n /\ s[k] = Colon
          BY <1>7, <5>2, <5>3, k \in 1..i
        <5>4. CASE k = 1 /\ (n = 0 \/ s[1] # Space)
          BY <1>1, <5>4, 1 \in 1..i
        <5>5. CASE k = n + 1
          BY <1>1, <5>2, <5>5
        <5> QED BY <1>8, <5>1, <5>3, <5>4, <5>5
      <4> QED BY <4>2, <4>3
    <3> QED BY <3>1, <3>2
  <2>2. (\E j \in at[i]..Len(t) : t[j] # Space) <=> (\E j \in i..Len(s) : s[j] # Space)
    <3>1. ASSUME NEW j \in i..n, s[j] # Space PROVE \E m \in at[i]..(n + 1) : t[m] # Space
      <4>1. j \in 1..n /\ i <= j
        BY <1>1
      <4>2. at[j] \in at[i]..(n + 1) /\ t[at[j]] # Space
        BY <1>1, <1>2, <1>3, <3>1, <4>1
      <4> QED BY <4>2
    <3>2. ASSUME NEW m \in at[i]..(n + 1), t[m] # Space PROVE \E j \in i..n : s[j] # Space
      <4>1. m \in 1..(n + 1) /\ at[i] <= m
        BY <1>1, <1>3
      <4>2. CASE m # k
        <5>1. PICK j \in 1..n : at[j] = m
          BY <1>4, <4>1, <4>2
        <5>2. i <= j /\ s[j] # Space
          BY <1>2, <1>3, <3>2, <4>1, <5>1
        <5> QED BY <1>1, <5>2, j \in i..n
      <4>3. CASE m = k
        <5>1. c = Colon /\ ~ (at[i] > k)
          BY <1>1, <1>2, <1>3, <1>7, <3>2, <4>1, <4>3
        <5>2. i < k
          BY <1>1, <1>9, <5>1
        <5>3. CASE k \in 1..n /\ s[k] = Colon
          BY <1>1, <1>7, <5>2, <5>3, k \in i..n
        <5>4. CASE k = 1
          BY <1>1, <5>2, <5>4
        <5>5. CASE k = n + 1 /\ (n = 0 \/ s[n] # Space)
          BY <1>1, <5>5, n \in i..n
        <5> QED BY <1>8, <5>1, <5>3, <5>4, <5>5
      <4> QED BY <4>2, <4>3
    <3> QED BY <1>2, <3>1, <3>2 DEF n
  <2> QED BY <1>1, <1>2, <1>3, <2>1, <2>2 DEF Inner
<1>11. ~ SurvivesIn(t, k)
  <2>1. CASE c = Space
    <3>1. CASE k = 1
      <4>1. \A j \in 1..k : t[j] = Space
        BY <1>2, <2>1, <3>1
      <4> QED BY <4>1 DEF SurvivesIn, Inner
    <3>2. CASE k = n + 1
      <4>1. \A j \in k..Len(t) : t[j] = Space
        BY <1>1, <1>2, <2>1, <3>2
      <4> QED BY <4>1 DEF SurvivesIn, Inner
    <3> QED BY <1>8, <2>1, <3>1, <3>2
  <2>2. CASE c = Colon
    <3>1. CASE k \in 1..n /\ s[k] = Colon
      <4>1. at[k] = k + 1
        BY <1>1, <3>1 DEF at
      <4>2. t[k + 1] = Colon
        BY <1>2, <3>1, <4>1
      <4> QED BY <1>2, <2>2, <4>2 DEF SurvivesIn
    <3>2. CASE k = 1
      <4>1. \A j \in Inner(t, Space) : ~ (j < 1)
        BY <1>1, <1>2 DEF Inner
      <4> QED BY <1>2, <2>2, <3>2, <4>1 DEF SurvivesIn
    <3>3. CASE k = n + 1
      <4>1. k + 1 \notin Inner(t, Space)
        BY <1>1, <1>2, <3>3 DEF Inner
      <4> QED BY <1>2, <2>2, <4>1 DEF SurvivesIn
    <3> QED BY <1>8, <2>2, <3>1, <3>2, <3>3
  <2> QED BY <1>7, <2>1, <2>2
<1>12. ASSUME NEW i \in 1..n PROVE SurvivesIn(t, at[i]) <=> SurvivesIn(s, i)
  <2>1. \A j \in Inner(s, Space) : j \in 1..n
    BY <1>1 DEF Inner
  <2>2. \A m \in Inner(t, Space) : m \in 1..(n + 1)
    BY <1>2 DEF Inner
  <2>3. t[at[i]] = s[i]
    BY <1>2
  <2>4. (\E m \in Inner(t, Space) : m < at[i] /\ t[m] # Colon)
          <=> (\E j \in Inner(s, Space) : j < i /\ s[j] # Colon)
    <3>1. ASSUME NEW j \in Inner(s, Space), j < i, s[j] # Colon
          PROVE  \E m \in Inner(t, Space) : m < at[i] /\ t[m] # Colon
      <4>1. at[j] \in Inner(t, Space) /\ at[j] < at[i] /\ t[at[j]] # Colon
        BY <1>2, <1>3, <1>10, <2>1, <3>1
      <4> QED BY <4>1
    <3>2. ASSUME NEW m \in Inner(t, Space), m < at[i], t[m] # Colon
          PROVE  \E j \in Inner(s, Space) : j < i /\ s[j] # Colon
      <4>1. m # k
        <5>1. SUFFICES ASSUME m = k PROVE FALSE
          OBVIOUS
        <5>2. SurvivesIn(t, k)
          BY <3>2, <5>1 DEF SurvivesIn
        <5> QED BY <1>11, <5>2
      <4>2. PICK j \in 1..n : at[j] = m
        BY <1>4, <2>2, <4>1
      <4>3. j \in Inner(s, Space) /\ j < i /\ s[j] # Colon
        BY <1>2, <1>3, <1>10, <3>2, <4>2
      <4> QED BY <4>3
    <3> QED BY <3>1, <3>2
  <2>5. s[i] = Colon =>
          ((at[i] + 1 \in Inner(t, Space) /\ t[at[i] + 1] # Colon)
             <=> (i + 1 \in Inner(s, Space) /\ s[i + 1] # Colon))
    <3>1. SUFFICES ASSUME s[i] = Colon
                   PROVE  (at[i] + 1 \in Inner(t, Space) /\ t[at[i] + 1] # Colon)
                            <=> (i + 1 \in Inner(s, Space) /\ s[i + 1] # Colon)
      OBVIOUS
    <3>2. CASE at[i] + 1 = k
      <4>1. ~ (k \in Inner(t, Space) /\ t[k] # Colon)
        BY <1>11 DEF SurvivesIn
      <4>2. ~ (i + 1 \in Inner(s, Space) /\ s[i + 1] # Colon)
        <5>1. SUFFICES ASSUME i + 1 \in 1..n, s[i + 1] # Colon, i + 1 \in Inner(s, Space) PROVE FALSE
          BY <2>1
        <5>2. k = i + 1 /\ k # 1 /\ k # n + 1
          BY <1>1, <1>6, <3>2, <5>1
        <5> QED BY <1>7, <1>8, <5>1, <5>2
      <4> QED BY <3>2, <4>1, <4>2
    <3>3. CASE i + 1 \in 1..n /\ at[i] + 1 = at[i + 1]
      BY <1>2, <1>10, <3>3
    <3>4. CASE i = n /\ at[i] + 1 # k
      <4>1. i + 1 \notin Inner(s, Space)
        BY <1>1, <2>1, <3>4
      <4>2. at[i] + 1 \notin Inner(t, Space)
        <5>1. k <= n \/ at[i] = n
          BY <1>1, <3>4 DEF at
        <5>2. at[i] = n + 1
          BY <1>1, <3>4 DEF at
        <5> QED BY <1>1, <2>2, <5>2
      <4> QED BY <4>1, <4>2
    <3> QED BY <1>5, <3>2, <3>3, <3>4
  <2> QED BY <1>10, <2>3, <2>4, <2>5 DEF SurvivesIn
<1>13. Survivors(s) \in SUBSET (1..n)
  BY DEF Survivors, n
<1>14. f \in [Survivors(s) -> Survivors(t)]
  <2>1. ASSUME NEW i \in Survivors(s) PROVE at[i] \in Survivors(t)
    BY <1>2, <1>3, <1>12, <1>13 DEF Survivors
  <2> QED BY <2>1
<1>15. \A m \in Survivors(t) : \E j \in Survivors(s) : f[j] = m
  <2>1. ASSUME NEW m \in Survivors(t) PROVE \E j \in Survivors(s) : f[j] = m
    <3>1. m \in 1..(n + 1) /\ SurvivesIn(t, m) /\ m # k
      BY <1>2, <1>11 DEF Survivors
    <3>2. PICK j \in 1..n : at[j] = m
      BY <1>4, <3>1
    <3>3. j \in Survivors(s)
      BY <1>12, <3>1, <3>2 DEF Survivors, n
    <3> QED BY <3>2, <3>3
  <2> QED BY <2>1
<1>16. \A i, j \in Survivors(s) : i <= j <=> f[i] <= f[j]
  BY <1>3, <1>13
<1>17. \A i \in Survivors(s) : ToLower(t)[f[i]] = ToLower(s)[i]
  <2>1. ASSUME NEW i \in Survivors(s) PROVE ToLower(t)[at[i]] = ToLower(s)[i]
    <3>1. i \in 1..Len(s) /\ at[i] \in 1..Len(t) /\ t[at[i]] = s[i]
      BY <1>2, <1>3, <1>13 DEF n
    <3> QED BY <1>2, <3>1, LowerFacts
  <2> QED BY <2>1
<1> HIDE DEF f
<1>18. canonicalizeNaturalKey(t) = canonicalizeNaturalKey(s)
  BY <1>2, <1>14, <1>15, <1>16, <1>17, SameSurvivors
<1> QED BY <1>18 DEF t

-----------------------------------------------------------------------------
(* The text stays a text of characters.                                    *)
TextInv == text \in Seq(Chars)

LEMMA TextInvariant == Spec => []TextInv
PROOF
<1>1. Init => TextInv
  BY DEF Init, TextInv
<1>2. TextInv /\ [Next]_vars => TextInv'
  <2> SUFFICES ASSUME TextInv, [Next]_vars PROVE TextInv'
    OBVIOUS
  <2>0. text \in Seq(Chars) /\ <<>> \in Seq(Chars)
    BY DEF TextInv
  <2>1. CASE \E c \in Chars : ReadKey(c)
    BY <2>1 DEF ReadKey, Write, TextInv
  <2>2. CASE Refetch
    <3>1. text' = text
      BY <2>2 DEF Refetch
    <3> QED BY <2>0, <3>1 DEF TextInv
  <2>3. CASE Receive \/ Claim \/ LockExpires \/ ProcessOne
    <3>1. text' \in {text, <<>>}
      BY <2>3 DEF Receive, Claim, LockExpires, ProcessOne, SdkRejects, Responds, RouteUnusable,
        DeadLetterNetwork, BackOffNetwork, MarkUnclassified, RouteLowConfidence, StartSettle,
        Settle, SettleThrows, DeadLetterSettle, BackOffSettle, Finish, BackOff
    <3> QED BY <2>0, <3>1 DEF TextInv
  <2>4. CASE UNCHANGED vars
    BY <2>4 DEF vars, TextInv
  <2>5. CASE StatusWriteFails \/ RefetchFails \/ Crash
    <3>1. text' = <<>>
      BY <2>5 DEF StatusWriteFails, RefetchFails, Crash, BreakOff
    <3> QED BY <2>0, <3>1 DEF TextInv
  <2> QED BY <2>1, <2>2, <2>3, <2>4, <2>5 DEF Next
<1> QED BY <1>1, <1>2, PTL DEF Spec

(* The key of every text a model can write, of any length, is exactly what *)
(* survives of the text: canonicalizeNaturalKey loses no letter and no     *)
(* separator between two parts, and leaves no other blank or colon behind. *)
THEOREM KeysAreWhatSurvive == Spec => []KeyIsWhatSurvives
PROOF
<1>1. TextInv => KeyIsWhatSurvives
  BY KeyOfText DEF TextInv
<1> QED BY <1>1, TextInvariant, PTL

(* Variants of one key, as identity.js lists them, meet at one entity: in  *)
(* either case, with blanks around the text, with colons before or after   *)
(* it, with colons repeated.  Each is what one step below makes of a text, *)
(* any number of times.                                                    *)
THEOREM VariantsShareKey ==
  \A s \in Seq(Chars) :
    /\ canonicalizeNaturalKey(ToLower(s)) = canonicalizeNaturalKey(s)
    /\ \A i \in 1..(Len(s) + 1), c \in {Space, Colon} :
         Redundant(s, i, c) =>
           canonicalizeNaturalKey(InsertAt(s, i, c)) = canonicalizeNaturalKey(s)
PROOF
<1> TAKE s \in Seq(Chars)
<1>1. canonicalizeNaturalKey(ToLower(s)) = canonicalizeNaturalKey(s)
  BY LowerSharesKey
<1>2. ASSUME NEW i \in 1..(Len(s) + 1), NEW c \in {Space, Colon}, Redundant(s, i, c)
      PROVE  canonicalizeNaturalKey(InsertAt(s, i, c)) = canonicalizeNaturalKey(s)
  BY <1>2, InsertSharesKey
<1> QED BY <1>1, <1>2
(* No capital; no colon at an end or next to another.                      *)
Canonical(k) ==
  \A p \in DOMAIN k :
    k[p] # "A" /\ (k[p] = Colon => p > 1 /\ p < Len(k) /\ k[p + 1] # Colon)

LEMMA NextSurvivor ==
  ASSUME NEW n \in Nat, NEW K \in SUBSET (1..n), NEW i \in K, i + 1 \in K
  PROVE  Place(K, i + 1) = Place(K, i) + 1
PROOF
<1> DEFINE upTo == {j \in K : j <= i}
<1>1. i \in Nat /\ \A j \in K : j \in Nat
  OBVIOUS
<1>2. {j \in K : j <= i + 1} = upTo \cup {i + 1} /\ i + 1 \notin upTo
  <2>1. \A j \in K : j <= i + 1 <=> j <= i \/ j = i + 1
    BY <1>1
  <2>2. ~(i + 1 <= i)
    BY <1>1
  <2> QED BY <2>1, <2>2
<1>3. IsFiniteSet(upTo) /\ Cardinality(upTo) \in Nat
  BY PlaceFacts, FS_Subset, FS_CardinalityType
<1>4. Cardinality(upTo \cup {i + 1}) = Cardinality(upTo) + 1
  BY <1>2, <1>3, FS_AddElement
<1> QED BY <1>2, <1>4 DEF Place

(* What identity.js normalizes is normalized in every key, whatever the    *)
(* text: its case, its colons at the ends, its repeated colons.            *)
THEOREM KeysAreCanonical == \A s \in Seq(Chars) : Canonical(canonicalizeNaturalKey(s))
PROOF
<1> TAKE s \in Seq(Chars)
<1> DEFINE k == canonicalizeNaturalKey(s)
           K == Survivors(s)
           n == Len(s)
           l == ToLower(s)
<1>1. k \in Seq(Chars) /\ Selects(k, K, l)
  BY KeySelects
<1>2. n \in Nat /\ K \in SUBSET (1..n) /\ DOMAIN s = 1..n
  BY DEF Survivors
<1>3. /\ Cardinality(K) \in Nat
      /\ \A i \in K : Place(K, i) \in 1..Cardinality(K)
      /\ \A i, j \in K : i < j => Place(K, i) < Place(K, j)
      /\ \A p \in 1..Cardinality(K) : \E i \in K : Place(K, i) = p
  BY <1>2, PlaceFacts
<1>4. \A i \in 1..n : (l[i] = Colon <=> s[i] = Colon) /\ l[i] # "A"
  BY <1>2 DEF ToLower, Colon
<1> HIDE DEF k, n, l
<1>5. Len(k) = Cardinality(K) /\ DOMAIN k = 1..Cardinality(K) /\ \A i \in K : k[Place(K, i)] = l[i]
  BY <1>1 DEF Selects
<1>6. ASSUME NEW i \in K, s[i] = Colon
      PROVE  /\ i + 1 \in K /\ s[i + 1] # Colon
             /\ \E j \in K : j < i
  <2>1. /\ i + 1 \in Inner(s, Space) /\ s[i + 1] # Colon
        /\ \E j \in Inner(s, Space) : j < i /\ s[j] # Colon
    BY <1>6 DEF Survivors, SurvivesIn
  <2>2. Inner(s, Space) \subseteq 1..n
    BY <1>2 DEF Inner
  <2> QED BY <2>1, <2>2 DEF Survivors, SurvivesIn, n
<1> HIDE DEF K
<1>7. ASSUME NEW p \in DOMAIN k
      PROVE  k[p] # "A" /\ (k[p] = Colon => p > 1 /\ p < Len(k) /\ k[p + 1] # Colon)
  <2>1. PICK i \in K : Place(K, i) = p
    BY <1>3, <1>5
  <2>2. k[p] = l[i] /\ i \in 1..n
    BY <1>2, <1>5, <2>1
  <2>3. ASSUME k[p] = Colon PROVE p > 1 /\ p < Len(k) /\ k[p + 1] # Colon
    <3>1. s[i] = Colon
      BY <1>4, <2>2, <2>3
    <3>2. i + 1 \in K /\ s[i + 1] # Colon
      BY <1>6, <3>1
    <3>3. PICK j \in K : j < i
      BY <1>6, <3>1
    <3>4. Place(K, i + 1) = p + 1
      BY <1>2, <2>1, <3>2, NextSurvivor
    <3>5. p + 1 \in 1..Cardinality(K) /\ k[p + 1] = l[i + 1]
      BY <1>3, <1>5, <3>2, <3>4
    <3>6. Place(K, j) \in 1..Cardinality(K) /\ Place(K, j) < p
      BY <1>3, <2>1, <3>3
    <3>7. l[i + 1] # Colon
      BY <1>2, <1>4, <3>2
    <3> QED BY <1>3, <1>5, <3>5, <3>6, <3>7
  <2> QED BY <1>4, <2>2, <2>3
<1>8. Canonical(k)
  BY <1>7 DEF Canonical
<1> QED BY <1>8 DEF k

(* A key is its own key, unless it begins or ends with a blank (which was  *)
(* next to a colon at the end of the text, and trim comes first).          *)
THEOREM KeysAreFixed ==
  \A s \in Seq(Chars) :
    LET k == canonicalizeNaturalKey(s)
    IN  (k # <<>> => k[1] # Space /\ k[Len(k)] # Space) => canonicalizeNaturalKey(k) = k
PROOF
<1> SUFFICES ASSUME NEW s \in Seq(Chars), NEW k, k = canonicalizeNaturalKey(s),
                    k # <<>> => k[1] # Space /\ k[Len(k)] # Space
             PROVE  canonicalizeNaturalKey(k) = k
  OBVIOUS
<1> DEFINE n == Len(k)
           again == canonicalizeNaturalKey(k)
<1>1. k \in Seq(Chars) /\ Canonical(k)
  BY KeySelects, KeysAreCanonical
<1>2. n \in Nat /\ DOMAIN k = 1..n /\ (k # <<>> <=> n > 0)
  BY <1>1
<1>3. again \in Seq(Chars) /\ Selects(again, Survivors(k), ToLower(k))
  BY <1>1, KeySelects
<1> HIDE DEF again
<1>4. ToLower(k) = k
  <2>1. \A i \in DOMAIN k : ToLower(k)[i] = k[i]
    BY <1>1 DEF Canonical, ToLower
  <2>2. ToLower(k) \in Seq(Chars) /\ Len(ToLower(k)) = Len(k)
    BY <1>1, LowerFacts
  <2> QED BY <1>1, <1>2, <2>1, <2>2
<1> HIDE DEF n
<1>5. Inner(k, Space) = 1..n
  <2>1. ASSUME NEW i \in 1..n
        PROVE  (\E j \in 1..i : k[j] # Space) /\ (\E j \in i..n : k[j] # Space)
    <3>1. k[1] # Space /\ k[n] # Space /\ 1 \in 1..i /\ n \in i..n
      BY <1>2, <2>1 DEF n
    <3> QED BY <3>1
  <2> QED BY <1>2, <2>1 DEF Inner, n
<1>6. ASSUME NEW i \in 1..n PROVE SurvivesIn(k, i)
  <2>1. ASSUME k[i] = Colon
        PROVE  i + 1 \in 1..n /\ k[i + 1] # Colon /\ \E j \in 1..n : j < i /\ k[j] # Colon
    <3>1. i > 1 /\ i < n /\ k[i + 1] # Colon
      BY <1>1, <1>2, <2>1 DEF Canonical, n
    <3>2. 1 \in 1..n /\ i + 1 \in 1..n
      BY <1>2, <3>1
    <3>3. k[1] # Colon
      <4>1. 1 \in DOMAIN k /\ ~(1 > 1)
        BY <1>2, <3>2
      <4> QED BY ONLY <1>1, <4>1 DEF Canonical
    <3> QED BY <3>1, <3>2, <3>3
  <2> QED BY <1>5, <2>1 DEF SurvivesIn
<1>7. Survivors(k) = 1..n
  BY <1>6 DEF Survivors, n
<1>8. Cardinality(1..n) = n /\ \A i \in 1..n : Place(1..n, i) = i
  <2>1. Cardinality(1..n) = n
    BY <1>2, FS_Interval
  <2>2. ASSUME NEW i \in 1..n PROVE Place(1..n, i) = i
    BY <1>2, PlaceInInterval, Place(1..n, i) = i - 1 + 1
  <2> QED BY <2>1, <2>2
<1>9. Len(again) = n /\ \A i \in 1..n : again[i] = k[i]
  BY <1>3, <1>4, <1>7, <1>8 DEF Selects
<1>10. again = k
  BY <1>1, <1>3, <1>9 DEF n
<1> QED BY <1>10 DEF again
=============================================================================
