-------------------------- MODULE Wsl2BridgeProofs --------------------------
(***************************************************************************)
(* Proofs about Wsl2Bridge, for every set of keys, values and goroutines:  *)
(* which responses are taken for answers, what Windows may come to hold by *)
(* helpers that answer, crash or go on after they were killed, and that    *)
(* the bridge implements RemoteContract.                                   *)
(***************************************************************************)
EXTENDS Wsl2RefinesContract, BagLemmas

-----------------------------------------------------------------------------
(* The protocol.                                                             *)

\* A result that passes for an operation is one in which the protocol answers it.
LEMMA ValidResults ==
  ASSUME NEW op \in Operations, NEW r \in Result
  PROVE  validateResult(op, r) <=> r \in ResultsFor(op)
  <1>1. /\ r = [version |-> r.version, protocols |-> r.protocols, backend |-> r.backend,
                secret |-> r.secret, length |-> r.length, deleted |-> r.deleted]
        /\ r.version \in BOOLEAN /\ r.deleted \in {"none", "yes", "no"}
        /\ r.secret # "base64" => r.length = 0
        /\ r.length \in {0} \cup {SizeOf[v] : v \in Values}
    BY DEF Result
  <1>2. CASE op = "probe"
    BY <1>1, <1>2 DEF validateResult, ResultsFor, ProbeResult, Blank
  <1>3. CASE op = "get"
    <2>1. validateResult(op, r) => r = SecretResult(r.length) /\ r.length <= maxSecretBytes
      BY <1>1, <1>3 DEF validateResult, hasProbeFields, SecretResult
    <2>2. ASSUME NEW n, n <= maxSecretBytes, r = SecretResult(n) PROVE validateResult(op, r)
      BY <1>3, <2>2 DEF validateResult, hasProbeFields, SecretResult
    <2>3. r \in ResultsFor(op) <=> \E n \in {0} \cup {SizeOf[v] : v \in Values} :
                                       n <= maxSecretBytes /\ r = SecretResult(n)
      BY <1>3, Zenon DEF ResultsFor
    <2> QED BY <1>1, <2>1, <2>2, <2>3
  <1>4. CASE op = "set"
    BY <1>1, <1>4 DEF validateResult, ResultsFor, hasProbeFields, Blank
  <1>5. CASE op = "delete"
    <2>1. \A d : DeleteResult(d) = [version |-> FALSE, protocols |-> "none", backend |-> "none",
                                    secret |-> "none", length |-> 0, deleted |-> d]
      BY Zenon DEF DeleteResult
    <2>2. validateResult(op, r) => r = DeleteResult(r.deleted) /\ r.deleted \in {"yes", "no"}
      BY <1>1, <1>5, <2>1 DEF validateResult, hasProbeFields
    <2>3. ASSUME NEW d \in {"yes", "no"}, r = DeleteResult(d) PROVE validateResult(op, r)
      BY <1>5, <2>1, <2>3 DEF validateResult, hasProbeFields
    <2> QED BY <1>5, <2>2, <2>3 DEF ResultsFor
  <1> QED BY <1>2, <1>3, <1>4, <1>5 DEF Operations

LEMMA ResultTypes ==
  /\ Blank \in Result /\ ProbeResult \in Result
  /\ \A d \in {"yes", "no"} : DeleteResult(d) \in Result
  /\ \A n \in {0} \cup {SizeOf[v] : v \in Values} : SecretResult(n) \in Result
  BY DEF Blank, ProbeResult, DeleteResult, SecretResult, Result

LEMMA ResultsForType ==
  ASSUME NEW op \in Operations
  PROVE  ResultsFor(op) \subseteq Result
  BY ResultTypes DEF ResultsFor, Operations

LEMMA SuccessesAreAnswers ==
  ASSUME NEW op \in Operations, NEW r \in Response, r.ok
  PROVE  IsAnswer(op, r) <=> r \in Answers(op)
  <1>1. r = [protocol |-> r.protocol, id |-> r.id, ok |-> r.ok, hasResult |-> r.hasResult,
             result |-> r.result, error |-> r.error, supported |-> r.supported,
             exit |-> r.exit]
    BY DEF Response
  <1>2. r.error = "none" => ~r.supported
    BY DEF Response
  <1>3. \A code : r # Failure(code)
    BY DEF Failure
  <1>4. /\ r.protocol \in BOOLEAN /\ r.id \in BOOLEAN /\ r.ok = TRUE /\ r.supported \in BOOLEAN
        /\ r.hasResult \in BOOLEAN /\ r.result \in Result
    BY DEF Response
  <1>5. validateResult(op, r.result) <=> r.result \in ResultsFor(op)
    BY <1>4, ValidResults
  <1>6. ASSUME IsAnswer(op, r) PROVE r \in Answers(op)
    <2>1. r = Success(r.result)
      BY <1>1, <1>2, <1>4, <1>6 DEF IsAnswer, Success
    <2>2. r.result \in ResultsFor(op)
      BY <1>4, <1>5, <1>6 DEF IsAnswer
    <2> QED BY <2>1, <2>2 DEF Answers
  <1>7. ASSUME r \in Answers(op) PROVE IsAnswer(op, r)
    <2>1. PICK result \in ResultsFor(op) : r = Success(result)
      BY <1>3, <1>7 DEF Answers
    <2>2. /\ r.result = result /\ r.protocol /\ r.id /\ r.hasResult /\ r.error = "none"
          /\ r.exit = 0
      BY <2>1 DEF Success
    <2> QED BY <1>4, <1>5, <2>1, <2>2 DEF IsAnswer
  <1> QED BY <1>6, <1>7

LEMMA FailuresAreAnswers ==
  ASSUME NEW op \in Operations, NEW r \in Response, ~r.ok
  PROVE  IsAnswer(op, r) <=> r \in Answers(op)
  <1>1. r = [protocol |-> r.protocol, id |-> r.id, ok |-> r.ok, hasResult |-> r.hasResult,
             result |-> r.result, error |-> r.error, supported |-> r.supported,
             exit |-> r.exit]
    BY DEF Response
  <1>2. \A result : r # Success(result)
    BY DEF Success
  <1>3. /\ r.protocol \in BOOLEAN /\ r.id \in BOOLEAN /\ r.ok = FALSE /\ r.supported \in BOOLEAN
        /\ r.hasResult \in BOOLEAN /\ (~r.hasResult => r.result = Blank)
    BY DEF Response
  <1>4. ASSUME IsAnswer(op, r) PROVE r \in Answers(op)
    <2>1. r.error \in ErrorCodes /\ r = Failure(r.error)
      BY <1>1, <1>3, <1>4 DEF IsAnswer, validateProtocolError, Failure
    <2> QED BY <2>1 DEF Answers
  <1>5. ASSUME r \in Answers(op) PROVE IsAnswer(op, r)
    <2>1. PICK code \in ErrorCodes : r = Failure(code)
      BY <1>2, <1>5 DEF Answers
    <2> QED BY <2>1 DEF Failure, IsAnswer, validateProtocolError
  <1> QED BY <1>4, <1>5

LEMMA SuccessType ==
  ASSUME NEW r \in Result
  PROVE  /\ Success(r) \in Response
         /\ Success(r).ok = TRUE /\ Success(r).exit = 0 /\ Success(r).supported = FALSE
         /\ Success(r).result = r /\ Success(r).hasResult = TRUE
  BY DEF Success, Response

LEMMA AnswersAreResponses ==
  ASSUME NEW op \in Operations
  PROVE  Answers(op) \subseteq Response
  <1>1. ASSUME NEW code \in ErrorCodes PROVE Failure(code) \in Response
    BY ResultTypes DEF Failure, Response
  <1>2. ASSUME NEW r \in ResultsFor(op) PROVE Success(r) \in Response
    BY ResultsForType, SuccessType
  <1> QED BY <1>1, <1>2 DEF Answers

LEMMA TakenAreAnswers ==
  ASSUME NEW op \in Operations
  PROVE  Taken[op] = Answers(op)
  <1>1. \A r \in Response : IsAnswer(op, r) <=> r \in Answers(op)
    <2>1. \A r \in Response : r.ok \in BOOLEAN
      BY DEF Response
    <2> QED BY <2>1, SuccessesAreAnswers, FailuresAreAnswers
  <1>2. Taken[op] = {r \in Response : IsAnswer(op, r)}
    BY DEF Taken
  <1> QED BY <1>1, <1>2, AnswersAreResponses

-----------------------------------------------------------------------------
(* What Windows holds.                                                       *)

\* Values that Windows can hold, and requests that Set has measured.
Fitting == {v \in Values : SizeOf[v] <= maxSecretBytes}
Measured == {q \in Requests : ~TooLarge(q)}

\* No request that is too long reaches a helper, one that has been killed
\* included.
BridgeInv ==
    /\ store \in [Keys -> Fitting \cup {None}]
    /\ DOMAIN orphans \subseteq Measured
    /\ pc \in [Threads -> {"idle", "invoke", "run", "return"}]
    /\ req \in [Threads -> Requests \cup {NoRequest}]
    /\ \A t \in Threads : pc[t] \in {"invoke", "run"} => req[t] \in Measured

LEMMA MeasuredRequest ==
  ASSUME NEW q \in Measured
  PROVE  /\ q \in Requests /\ q.key \in Keys
         /\ q.val \in Fitting \cup {None}
  <1>1. \A v \in Values : SizeOf[v] \in Nat
    BY Wsl2BridgeAssumption
  <1> QED BY <1>1 DEF Measured, TooLarge, Requests, Fitting, maxSecretBytes

LEMMA BridgeInvNext == BridgeInv /\ [Next]_vars => BridgeInv'
  <1> SUFFICES ASSUME BridgeInv, [Next]_vars PROVE BridgeInv'
    OBVIOUS
  <1> USE DEF Go
  <1>1. ASSUME NEW t \in Threads, Call(t) PROVE BridgeInv'
    <2>1. PICK q \in Requests : /\ req' = [req EXCEPT ![t] = q]
                                /\ \/ pc' = [pc EXCEPT ![t] = "return"]
                                   \/ ~TooLarge(q) /\ pc' = [pc EXCEPT ![t] = "invoke"]
      BY <1>1 DEF Call
    <2> QED BY <1>1, <2>1 DEF Call, BridgeInv, Measured, TooLarge
  <1>2. ASSUME NEW t \in Threads, StartHelper(t) PROVE BridgeInv'
    BY <1>2 DEF StartHelper, BridgeInv, Measured, TooLarge
  <1>3. ASSUME NEW t \in Threads, HelperExecutes(t) PROVE BridgeInv'
    <2>1. req[t] \in Measured
      BY <1>3 DEF HelperExecutes, BridgeInv
    <2>2. store' \in [Keys -> Fitting \cup {None}]
      BY <1>3, <2>1, MeasuredRequest DEF HelperExecutes, BridgeInv
    <2> QED BY <1>3, <2>2 DEF HelperExecutes, BridgeInv, Measured, TooLarge
  <1>4. ASSUME NEW t \in Threads, HelperEnds(t) PROVE BridgeInv'
    BY <1>4 DEF HelperEnds, BridgeInv, Measured, TooLarge
  <1>5. ASSUME NEW t \in Threads, HelperKilled(t) PROVE BridgeInv'
    <2>1. req[t] \in Measured
      BY <1>5 DEF HelperKilled, BridgeInv
    <2>2. DOMAIN (orphans (+) SetToBag({req[t]})) = DOMAIN orphans \cup {req[t]}
      BY DEF (+), SetToBag
    <2>3. DOMAIN orphans' \subseteq Measured
      BY <1>5, <2>1, <2>2 DEF HelperKilled, BridgeInv
    <2> QED BY <1>5, <2>3 DEF HelperKilled, BridgeInv, Measured, TooLarge
  <1>6. ASSUME NEW t \in Threads, Return(t) PROVE BridgeInv'
    BY <1>6 DEF Return, BridgeInv, Measured, TooLarge
  <1>7. CASE Late
    <2>1. PICK q \in BagToSet(orphans) :
             /\ orphans' = orphans (-) SetToBag({q})
             /\ store' = [store EXCEPT ![q.key] = q.val] \/ UNCHANGED store
             /\ UNCHANGED <<pc, req>>
      BY <1>7 DEF Late
    <2>2. DOMAIN orphans' \subseteq DOMAIN orphans
      BY <2>1, BagDifference
    <2>3. q \in Measured
      BY DEF BagToSet, BridgeInv
    <2>4. store' \in [Keys -> Fitting \cup {None}]
      <3>1. CASE UNCHANGED store
        BY <3>1 DEF BridgeInv
      <3>2. CASE store' = [store EXCEPT ![q.key] = q.val]
        BY <2>3, <3>2, MeasuredRequest DEF BridgeInv
      <3> QED BY <2>1, <3>1, <3>2
    <2> QED BY <2>1, <2>2, <2>4 DEF BridgeInv, Measured, TooLarge
  <1>8. ASSUME NEW t \in Threads, Cancel(t) \/ TimerExpires(t) PROVE BridgeInv'
    BY <1>8 DEF Cancel, TimerExpires, BridgeInv, Measured, TooLarge
  <1>9. CASE UNCHANGED vars
    BY <1>9 DEF vars, BridgeInv, Measured, TooLarge
  <1> QED BY <1>1, <1>2, <1>3, <1>4, <1>5, <1>6, <1>7, <1>8, <1>9 DEF Next, Client

\* A Get accepts every secret that Windows may come to hold: Set measures a secret
\* before it hands it to anybody, a helper that goes on after it was killed included,
\* and the bound that Get puts on the response is no smaller (keyring.go: Set;
\* protocol.go: validateResult).
THEOREM StoredIsReadable == Spec => []StoredCanBeRead
  <1>1. Init => BridgeInv
    BY DEF Init, BridgeInv, EmptyBag, SetToBag, Fitting
  <1>2. BridgeInv => StoredCanBeRead
    <2> SUFFICES ASSUME BridgeInv, NEW k \in Keys, store[k] # None
                 PROVE  IsAnswer("get", Success(SecretResult(SizeOf[store[k]])))
      BY DEF StoredCanBeRead
    <2> DEFINE r == SecretResult(SizeOf[store[k]])
    <2>1. store[k] \in Values /\ SizeOf[store[k]] <= maxSecretBytes
      BY DEF BridgeInv, Fitting
    <2>2. r \in Result /\ r \in ResultsFor("get")
      <3>1. r \in Result
        BY <2>1, ResultTypes
      <3> QED BY <2>1, <3>1, Zenon DEF ResultsFor
    <2>3. "get" \in Operations /\ Success(r) \in Response /\ Success(r).ok
      BY <2>2, SuccessType DEF Operations
    <2>4. Success(r) \in Answers("get")
      BY <2>2 DEF Answers
    <2> QED BY <2>3, <2>4, SuccessesAreAnswers
  <1> QED BY <1>1, <1>2, BridgeInvNext, PTL DEF Spec

\* Whatever a helper prints, its operation accepts exactly the answers of the
\* protocol: no response to another request or operation, in another version, or
\* with a field too many or too few, is taken for one (protocol.go, client.go:
\* invoke).
THEOREM AnswersOnly == Spec => []OnlyAnswersAreTaken
  <1>1. Init => BridgeInv
    BY DEF Init, BridgeInv, EmptyBag, SetToBag, Fitting
  <1>2. BridgeInv => OnlyAnswersAreTaken
    <2> SUFFICES ASSUME BridgeInv, NEW t \in Threads, pc[t] = "run"
                 PROVE  Taken[req[t].op] = Answers(req[t].op)
      BY DEF OnlyAnswersAreTaken
    <2>1. req[t] \in Requests
      BY DEF BridgeInv, Measured
    <2>2. req[t].op \in Operations
      BY <2>1 DEF Requests, Operations
    <2> QED BY <2>2, TakenAreAnswers
  <1> QED BY <1>1, <1>2, BridgeInvNext, PTL DEF Spec

-----------------------------------------------------------------------------
(* What a goroutine knows of its helper.                                     *)

Frames == [done : BOOLEAN, answer : Values \cup {None, "ok", "notfound"}, res : Results]

\* Before the helper has executed the request there is no answer to it.
Stands(p, f) ==
    /\ p \in {"idle", "invoke"} => f = NewFrame
    /\ p = "run" /\ ~f.done => f.answer = None

HelperInv ==
    /\ IsABag(orphans) /\ BagToSet(orphans) \subseteq Requests
    /\ ctx \in [Threads -> {"live", "canceled", "expired"}]
    /\ frame \in [Threads -> Frames]
    /\ \A t \in Threads : Stands(pc[t], frame[t])
    /\ calls \in 0..MaxCalls

IInv == BridgeInv /\ HelperInv

LEMMA NewFrameType ==
  /\ NewFrame \in Frames /\ NewFrame.done = FALSE /\ NewFrame.answer = None
  /\ NewFrame.res = "none"
  BY DEF NewFrame, Frames, Results

\* A result is set; nothing else in the frame changes.
LEMMA ResultFrame ==
  ASSUME NEW f \in Frames, NEW e \in Results
  PROVE  LET g == [f EXCEPT !.res = e] IN
         g \in Frames /\ g.res = e /\ g.done = f.done /\ g.answer = f.answer
  <1> DEFINE g == [f EXCEPT !.res = e]
  <1>1. g \in Frames /\ g.res = e /\ g.answer = f.answer
    BY DEF Frames
  <1>2. g.done = f.done
    BY Zenon DEF Frames
  <1> QED BY <1>1, <1>2

-----------------------------------------------------------------------------
(* What an operation may report.                                             *)

LEMMA CategoryFacts ==
  ASSUME NEW code
  PROVE  /\ Category(code) \in Results \ {"none", "ok"}
         /\ Category(code) = "notfound" => code = "not_found"
  <1>1. Category(code) \in {"timeout", "notfound", "invalid", "unavailable", "denied",
                            "unsupported", "failure"}
    BY DEF Category
  <1>2. code # "not_found" => Category(code) # "notfound"
    BY DEF Category
  <1> QED BY <1>1, <1>2 DEF Results

LEMMA BentAreResponses ==
  ASSUME NEW a \in Response, a.exit \in {0, 1}, a.error # "none" \/ ~a.supported
  PROVE  Bent(a) \subseteq Response
  <1>1. /\ [a EXCEPT !.protocol = FALSE] \in Response
        /\ [a EXCEPT !.id = FALSE] \in Response
    BY ZenonT(60) DEF Response
  <1>2. [a EXCEPT !.ok = ~@] \in Response
    BY DEF Response
  <1>3. [a EXCEPT !.exit = 1 - @] \in Response /\ [a EXCEPT !.exit = 2] \in Response
    BY DEF Response
  <1>4. /\ [a EXCEPT !.error = "internal"] \in Response
        /\ [a EXCEPT !.error = "unknown"] \in Response
    BY DEF Response, ErrorCodes
  <1>5. /\ [a EXCEPT !.hasResult = TRUE] \in Response
        /\ [a EXCEPT !.hasResult = FALSE, !.result = Blank] \in Response
    BY ResultTypes DEF Response
  <1> QED BY <1>1, <1>2, <1>3, <1>4, <1>5 DEF Bent

LEMMA PrintsAreResponses ==
  ASSUME NEW op \in Operations
  PROVE  Prints(op) \subseteq Response
  <1>1. NoResponse \in Response
    BY ResultTypes DEF NoResponse, Response
  <1>2. \A r \in OddResults : r \in Result
    <2>1. \A v \in Values : SecretResult(SizeOf[v]) \in Result
      BY ResultTypes
    <2>2. [Blank EXCEPT !.secret = "notBase64"] \in Result
      BY DEF Blank, Result
    <2>3. [SecretResult(0) EXCEPT !.deleted = "yes"] \in Result
      BY DEF SecretResult, Result
    <2>4. /\ [ProbeResult EXCEPT !.backend = "other"] \in Result
          /\ [ProbeResult EXCEPT !.protocols = "others"] \in Result
      BY DEF ProbeResult, Result
    <2> QED BY <2>1, <2>2, <2>3, <2>4 DEF OddResults
  <1>3. {Success(r) : r \in OddResults} \subseteq Response
    BY <1>2, SuccessType
  <1>4. UNION {Answers(o) : o \in Operations} \subseteq Response
    <2>1. \A o \in Operations : Answers(o) \subseteq Response
      BY AnswersAreResponses
    <2> QED BY <2>1, Zenon
  <1>5. \A a \in Answers(op) : Bent(a) \subseteq Response
    <2>1. ASSUME NEW a \in Answers(op)
          PROVE  a \in Response /\ a.exit \in {0, 1} /\ (a.error # "none" \/ ~a.supported)
      <3>1. a \in Response
        BY AnswersAreResponses
      <3>2. CASE \E code \in ErrorCodes : a = Failure(code)
        BY <3>1, <3>2 DEF Failure, ErrorCodes
      <3>3. CASE \E r \in ResultsFor(op) : a = Success(r)
        BY <3>1, <3>3, ResultsForType, SuccessType
      <3> QED BY <3>2, <3>3 DEF Answers
    <2> QED BY <2>1, BentAreResponses
  <1>6. UNION {Bent(a) : a \in Answers(op)} \subseteq Response
    BY <1>5, Zenon
  <1> QED BY <1>1, <1>3, <1>4, <1>6, Zenon DEF Prints

\* An operation that reports success, or that there is nothing, reports what its
\* helper has found.
LEMMA ReportsTheAnswer ==
  ASSUME NEW t \in Threads, req[t] \in Requests, frame[t] \in Frames,
         Stands("run", frame[t]), NEW r \in Response, Honest(t, r)
  PROVE  /\ ResultOf(t, r) \in Results \ {"none"}
         /\ ResultOf(t, r) \in {"ok", "notfound"} =>
               /\ frame[t].done
               /\ ResultOf(t, r) = "notfound" <=> frame[t].answer = "notfound"
  <1> DEFINE op == req[t].op
  <1>1. op \in Operations
    BY DEF Requests, Operations
  <1>2. r.ok \in BOOLEAN
    BY DEF Response
  <1>3. IsAnswer(op, r) => r \in Answers(op)
    BY <1>1, <1>2, SuccessesAreAnswers, FailuresAreAnswers
  <1>4. ResultOf(t, r) \in Results \ {"none"}
    BY CategoryFacts DEF ResultOf, Results
  <1>5. ASSUME ResultOf(t, r) \in {"ok", "notfound"}
        PROVE  /\ frame[t].done
               /\ ResultOf(t, r) = "notfound" <=> frame[t].answer = "notfound"
    <2>1. /\ IsAnswer(op, r)
          /\ ResultOf(t, r) = IF ~r.ok THEN Category(r.error)
                              ELSE IF r.result.deleted = "no" THEN "notfound" ELSE "ok"
      BY <1>5 DEF ResultOf
    <2>2. IF r.ok THEN /\ frame[t].done
                       /\ (r.result.deleted = "no") = (frame[t].answer = "notfound")
          ELSE r.error = "not_found" => frame[t].answer = "notfound"
      BY <1>3, <2>1 DEF Honest
    <2>3. CASE r.ok
      BY <2>1, <2>2, <2>3
    <2>4. CASE ~r.ok
      <3>1. ResultOf(t, r) = "notfound" /\ frame[t].answer = "notfound"
        BY <1>5, <2>1, <2>2, <2>4, CategoryFacts
      <3>2. frame[t].done
        BY <3>1, Wsl2BridgeAssumption DEF Stands
      <3> QED BY <3>1, <3>2
    <2> QED BY <1>2, <2>3, <2>4
  <1> QED BY <1>4, <1>5

-----------------------------------------------------------------------------
(* The refinement.                                                           *)

\* The phase and the answer of a goroutine at p with frame f.
LocalPhase(p, f) ==
    IF p = "idle" THEN "idle"
    ELSE IF p = "return" THEN IF f.res \in {"ok", "notfound"} THEN "applied" ELSE "failed"
    ELSE IF f.done THEN "applied" ELSE "called"

LocalAnswer(p, f) ==
    IF LocalPhase(p, f) # "applied" THEN None
    ELSE IF p = "return" /\ f.res = "notfound" THEN "notfound"
    ELSE IF p = "return" /\ f.answer = "notfound" THEN "ok" ELSE f.answer

\* A step of the contract, or none.
Implemented == [Contract!RemoteNext]_(Contract!remoteVars)

LEMMA ContractFacts ==
  ASSUME NEW A, NEW B
  PROVE  /\ Contract!\sqsubseteq(A, B) <=> A \sqsubseteq B
         /\ Contract!(+)(A, B) = A (+) B /\ Contract!(-)(A, B) = A (-) B
         /\ Contract!SetToBag(A) = SetToBag(A) /\ Contract!BagToSet(A) = BagToSet(A)
         /\ Contract!EmptyBag = EmptyBag
         /\ Contract!Requests = Requests /\ Contract!NoRequest = NoRequest
  <1>1. Contract!\sqsubseteq(A, B) <=> A \sqsubseteq B
    BY Zenon DEF Contract!\sqsubseteq, \sqsubseteq
  <1>2. Contract!(+)(A, B) = A (+) B
    BY Zenon DEF Contract!(+), (+)
  <1>3. Contract!(-)(A, B) = A (-) B
    BY Zenon DEF Contract!(-), (-)
  <1>4. Contract!SetToBag(A) = SetToBag(A) /\ Contract!BagToSet(A) = BagToSet(A)
    BY Zenon DEF Contract!SetToBag, SetToBag, Contract!BagToSet, BagToSet
  <1>5. Contract!EmptyBag = EmptyBag
    BY Zenon DEF Contract!EmptyBag, EmptyBag, Contract!SetToBag, SetToBag
  <1>6. Contract!Requests = Requests /\ Contract!NoRequest = NoRequest
    BY DEF Contract!Requests, Requests, Contract!NoRequest, NoRequest
  <1> QED BY <1>1, <1>2, <1>3, <1>4, <1>5, <1>6

LEMMA MappedPhase ==
  ASSUME NEW t \in Threads
  PROVE  /\ PhaseOf[t] = LocalPhase(pc[t], frame[t])
         /\ AnswerOf[t] = LocalAnswer(pc[t], frame[t])
  BY DEF PhaseOf, AnswerOf, LocalPhase, LocalAnswer

\* The other goroutines stay where they are.
LEMMA Mapped ==
  ASSUME IInv, NEW t \in Threads, NEW p \in {"idle", "invoke", "run", "return"}, NEW f,
         Go(t, p, f)
  PROVE  /\ pc' = [pc EXCEPT ![t] = p] /\ frame' = [frame EXCEPT ![t] = f]
         /\ PhaseOf[t] = LocalPhase(pc[t], frame[t])
         /\ AnswerOf[t] = LocalAnswer(pc[t], frame[t])
         /\ PhaseOf' = [PhaseOf EXCEPT ![t] = LocalPhase(p, f)]
         /\ AnswerOf' = [AnswerOf EXCEPT ![t] = LocalAnswer(p, f)]
  <1>1. /\ pc \in [Threads -> {"idle", "invoke", "run", "return"}]
        /\ frame \in [Threads -> Frames]
    BY DEF IInv, BridgeInv, HelperInv
  <1>2. /\ pc' = [pc EXCEPT ![t] = p] /\ frame' = [frame EXCEPT ![t] = f]
        /\ pc'[t] = p /\ frame'[t] = f
        /\ \A u \in Threads \ {t} : pc'[u] = pc[u] /\ frame'[u] = frame[u]
    BY <1>1 DEF Go
  <1>3. \A u \in Threads : /\ PhaseOf[u] = LocalPhase(pc[u], frame[u])
                           /\ AnswerOf[u] = LocalAnswer(pc[u], frame[u])
    BY <1>1, MappedPhase
  <1>4. ASSUME NEW u \in Threads
        PROVE  /\ PhaseOf'[u] = LocalPhase(pc'[u], frame'[u])
               /\ AnswerOf'[u] = LocalAnswer(pc'[u], frame'[u])
    BY DEF PhaseOf, AnswerOf, LocalPhase, LocalAnswer
  <1>5. PhaseOf = [u \in Threads |-> PhaseOf[u]] /\ AnswerOf = [u \in Threads |-> AnswerOf[u]]
    BY DEF PhaseOf, AnswerOf
  <1>6. PhaseOf' = [u \in Threads |-> PhaseOf'[u]] /\ AnswerOf' = [u \in Threads |-> AnswerOf'[u]]
    BY DEF PhaseOf, AnswerOf
  <1>7. PhaseOf' = [PhaseOf EXCEPT ![t] = LocalPhase(p, f)]
    BY <1>2, <1>3, <1>4, <1>5, <1>6
  <1>8. AnswerOf' = [AnswerOf EXCEPT ![t] = LocalAnswer(p, f)]
    BY <1>2, <1>3, <1>4, <1>5, <1>6
  <1> QED BY <1>2, <1>3, <1>7, <1>8

\* A step that changes neither phase nor answer, or one that reports an error.
LEMMA StaysImplemented ==
  ASSUME IInv, NEW t \in Threads, NEW p \in {"invoke", "run", "return"}, NEW f, Go(t, p, f),
         pc[t] # "idle", UNCHANGED <<store, req>>,
         \/ /\ LocalPhase(p, f) = LocalPhase(pc[t], frame[t])
            /\ LocalAnswer(p, f) = LocalAnswer(pc[t], frame[t])
            /\ orphans' = orphans
         \/ /\ LocalPhase(p, f) = "failed" /\ pc[t] # "return"
            /\ orphans' \in {orphans, IF frame[t].done \/ req[t].op = "get" THEN orphans
                                    ELSE orphans (+) SetToBag({req[t]})}
  PROVE  Implemented
  <1>1. /\ PhaseOf[t] = LocalPhase(pc[t], frame[t])
        /\ AnswerOf[t] = LocalAnswer(pc[t], frame[t])
        /\ PhaseOf' = [PhaseOf EXCEPT ![t] = LocalPhase(p, f)]
        /\ AnswerOf' = [AnswerOf EXCEPT ![t] = LocalAnswer(p, f)]
    BY Mapped
  <1>2. PhaseOf = [u \in Threads |-> PhaseOf[u]] /\ AnswerOf = [u \in Threads |-> AnswerOf[u]]
    BY DEF PhaseOf, AnswerOf
  <1>3. CASE /\ LocalPhase(p, f) = PhaseOf[t] /\ LocalAnswer(p, f) = AnswerOf[t]
             /\ orphans' = orphans
    <2>1. PhaseOf' = PhaseOf /\ AnswerOf' = AnswerOf
      BY <1>1, <1>2, <1>3
    <2> QED BY <1>3, <2>1 DEF Implemented, Contract!remoteVars, Contract!contractVars
  <1>4. CASE /\ LocalPhase(p, f) = "failed" /\ pc[t] # "return"
             /\ orphans' \in {orphans, IF frame[t].done \/ req[t].op = "get" THEN orphans
                                     ELSE orphans (+) SetToBag({req[t]})}
    <2>1. LocalAnswer(p, f) = None
      BY <1>4 DEF LocalAnswer
    <2>2. PhaseOf[t] = IF frame[t].done THEN "applied" ELSE "called"
      BY <1>1, <1>4 DEF LocalPhase, IInv, BridgeInv
    <2>3. Contract!Fail(t)
      BY <1>1, <1>4, <2>1, <2>2 DEF Contract!Fail
    <2>4. IsABag(orphans)
      BY DEF IInv, HelperInv
    <2>5. /\ orphans \sqsubseteq orphans /\ orphans \sqsubseteq orphans (+) SetToBag({req[t]})
          /\ orphans (+) SetToBag({req[t]}) \sqsubseteq orphans (+) SetToBag({req[t]})
      BY <2>4, OneMore, BagReflexive
    <2>6. orphans' \sqsubseteq IF PhaseOf[t] = "called" /\ req[t].op # "get"
                               THEN orphans (+) SetToBag({req[t]}) ELSE orphans
      BY <1>4, <2>2, <2>5
    <2>7. Contract!RemoteFail(t)
      BY <2>3, <2>6, ContractFacts DEF Contract!RemoteFail
    <2> QED BY <2>7 DEF Implemented, Contract!RemoteNext
  <1> QED BY <1>1, <1>3, <1>4

\* What a goroutine knows stays true of it, and the others know what they knew.
LEMMA GoesOn ==
  ASSUME IInv, BridgeInv', NEW t \in Threads, NEW p \in {"idle", "invoke", "run", "return"},
         NEW f \in Frames, Go(t, p, f), Stands(p, f),
         IsABag(orphans'), BagToSet(orphans') \subseteq Requests,
         ctx' \in [Threads -> {"live", "canceled", "expired"}], calls' \in 0..MaxCalls
  PROVE  IInv'
  <1>1. /\ pc \in [Threads -> {"idle", "invoke", "run", "return"}]
        /\ frame \in [Threads -> Frames]
    BY DEF IInv, BridgeInv, HelperInv
  <1>2. /\ pc'[t] = p /\ frame'[t] = f /\ frame' \in [Threads -> Frames]
        /\ \A u \in Threads \ {t} : pc'[u] = pc[u] /\ frame'[u] = frame[u]
    BY <1>1 DEF Go
  <1>3. \A u \in Threads : Stands(pc'[u], frame'[u])
    BY <1>2 DEF IInv, HelperInv
  <1> QED BY <1>2, <1>3 DEF IInv, HelperInv

LEMMA CallSound ==
  ASSUME IInv, BridgeInv', NEW t \in Threads, Call(t)
  PROVE  IInv' /\ Implemented
  <1>1. PICK q \in Requests, p \in {"invoke", "return"}, f \in Frames :
            /\ req' = [req EXCEPT ![t] = q] /\ Go(t, p, f) /\ Stands(p, f)
            /\ LocalPhase(p, f) \in {"called", "failed"}
    <2>1. PICK q \in Requests :
            /\ req' = [req EXCEPT ![t] = q]
            /\ \/ Go(t, "invoke", NewFrame)
               \/ \E e \in {"canceled", "timeout", "invalid", "failure", "toolarge"} :
                        Go(t, "return", [NewFrame EXCEPT !.res = e])
      BY DEF Call
    <2>2. CASE Go(t, "invoke", NewFrame)
      <3>1. LocalPhase("invoke", NewFrame) = "called" /\ Stands("invoke", NewFrame)
        BY NewFrameType DEF LocalPhase, Stands
      <3> QED BY <2>1, <2>2, <3>1, NewFrameType
    <2>3. ASSUME NEW e \in {"canceled", "timeout", "invalid", "failure", "toolarge"},
                 Go(t, "return", [NewFrame EXCEPT !.res = e])
          PROVE  \E f \in Frames : Go(t, "return", f) /\ Stands("return", f)
                                   /\ LocalPhase("return", f) = "failed"
      <3> DEFINE f == [NewFrame EXCEPT !.res = e]
      <3>1. f \in Frames /\ f.res = e
        <4>1. e \in Results /\ NewFrame \in Frames
          BY NewFrameType DEF Results
        <4> QED BY <4>1 DEF Frames
      <3> HIDE DEF f
      <3>2. LocalPhase("return", f) = "failed" /\ Stands("return", f)
        BY <3>1 DEF LocalPhase, Stands
      <3> QED BY <2>3, <3>1, <3>2 DEF f
    <2> QED BY <2>1, <2>2, <2>3
  <1>2. pc[t] = "idle" /\ UNCHANGED <<store, orphans, ctx>>
    BY DEF Call
  <1>3. calls' \in 0..MaxCalls
    <2>1. calls \in 0..MaxCalls /\ calls < MaxCalls /\ calls' = calls + 1
      BY DEF Call, IInv, HelperInv
    <2> QED BY <2>1, Wsl2BridgeAssumption
  <1>4. IInv'
    <2>1. /\ IsABag(orphans') /\ BagToSet(orphans') \subseteq Requests
          /\ ctx' \in [Threads -> {"live", "canceled", "expired"}]
      BY <1>2 DEF IInv, HelperInv
    <2> QED BY <1>1, <1>3, <2>1, GoesOn
  <1>5. /\ PhaseOf[t] = LocalPhase(pc[t], frame[t])
        /\ AnswerOf[t] = LocalAnswer(pc[t], frame[t])
        /\ PhaseOf' = [PhaseOf EXCEPT ![t] = LocalPhase(p, f)]
        /\ AnswerOf' = [AnswerOf EXCEPT ![t] = LocalAnswer(p, f)]
    BY <1>1, Mapped
  <1>6. PhaseOf[t] = "idle" /\ AnswerOf[t] = None /\ LocalAnswer(p, f) = None
    BY <1>1, <1>2, <1>5 DEF LocalPhase, LocalAnswer
  <1>7. AnswerOf' = AnswerOf
    BY <1>5, <1>6 DEF AnswerOf
  <1>8. Contract!Call(t)
    BY <1>1, <1>2, <1>5, <1>6, <1>7, ContractFacts DEF Contract!Call
  <1> QED BY <1>2, <1>4, <1>8 DEF Implemented, Contract!RemoteNext

LEMMA StartHelperSound ==
  ASSUME IInv, BridgeInv', NEW t \in Threads, StartHelper(t)
  PROVE  IInv' /\ Implemented
  <1> DEFINE f == frame[t]
  <1>1. /\ pc[t] = "invoke" /\ UNCHANGED <<store, orphans, req, ctx, calls>>
        /\ f \in Frames /\ f = NewFrame
    BY DEF StartHelper, IInv, HelperInv, Stands
  <1>2. /\ IsABag(orphans') /\ BagToSet(orphans') \subseteq Requests
        /\ ctx' \in [Threads -> {"live", "canceled", "expired"}] /\ calls' \in 0..MaxCalls
    BY <1>1 DEF IInv, HelperInv
  <1>3. CASE Go(t, "run", f)
    <2>1. Stands("run", f)
      BY <1>1, NewFrameType DEF Stands
    <2>2. /\ LocalPhase("run", f) = LocalPhase(pc[t], f)
          /\ LocalAnswer("run", f) = LocalAnswer(pc[t], f)
      BY <1>1 DEF LocalPhase, LocalAnswer
    <2> QED BY <1>1, <1>2, <1>3, <2>1, <2>2, GoesOn, StaysImplemented
  <1>4. ASSUME NEW e \in {"canceled", "timeout", "unavailable"},
               Go(t, "return", [f EXCEPT !.res = e])
        PROVE  IInv' /\ Implemented
    <2> DEFINE g == [f EXCEPT !.res = e]
    <2>1. g \in Frames /\ g.res = e
      <3>1. e \in Results
        BY DEF Results
      <3> QED BY <1>1, <3>1 DEF Frames
    <2>2. Go(t, "return", g)
      BY <1>4
    <2> HIDE DEF g
    <2>3. Stands("return", g) /\ LocalPhase("return", g) = "failed"
      BY <2>1 DEF Stands, LocalPhase
    <2>4. IInv'
      BY <1>2, <2>1, <2>2, <2>3, GoesOn
    <2>5. Implemented
      BY <1>1, <2>2, <2>3, StaysImplemented
    <2> QED BY <2>4, <2>5
  <1>5. \/ Go(t, "run", f)
        \/ \E e \in {"canceled", "timeout", "unavailable"} : Go(t, "return", [f EXCEPT !.res = e])
    <2> DEFINE e == CASE ctx[t] = "canceled" -> "canceled"
                      [] ctx[t] = "expired" -> "timeout"
                      [] OTHER -> "unavailable"
    <2>1. Go(t, "run", f) \/ Go(t, "return", [f EXCEPT !.res = e])
      BY Zenon DEF StartHelper
    <2>2. e \in {"canceled", "timeout", "unavailable"}
      OBVIOUS
    <2> HIDE DEF e
    <2> QED BY <2>1, <2>2
  <1> QED BY <1>3, <1>4, <1>5

LEMMA HelperExecutesSound ==
  ASSUME IInv, BridgeInv', NEW t \in Threads, HelperExecutes(t)
  PROVE  IInv' /\ Implemented
  <1> DEFINE q == req[t]
             f == frame[t]
             a == IF q.op = "set" THEN "ok" ELSE IF store[q.key] = None THEN "notfound"
                  ELSE IF q.op = "get" THEN store[q.key] ELSE "ok"
             h == [f EXCEPT !.done = TRUE]
             g == [h EXCEPT !.answer = a]
  <1>1. /\ pc[t] = "run" /\ ~f.done /\ UNCHANGED <<orphans, req, ctx, calls>>
        /\ store' = IF q.op = "get" THEN store ELSE [store EXCEPT ![q.key] = q.val]
        /\ Go(t, "run", g)
    BY DEF HelperExecutes
  <1>2. /\ f \in Frames /\ q \in Requests /\ q.key \in Keys
        /\ store \in [Keys -> Values \cup {None}]
    BY <1>1 DEF IInv, BridgeInv, HelperInv, Measured, Requests, Fitting
  <1>3. a \in Values \cup {None, "ok", "notfound"}
    BY <1>2
  <1> HIDE DEF a
  <1>4. h \in Frames /\ h.done = TRUE
    BY <1>2, ZenonT(60) DEF Frames
  <1> HIDE DEF h
  <1>5. g \in Frames /\ g.answer = a
    BY <1>3, <1>4 DEF Frames
  <1>6. g.done = TRUE
    BY <1>4, Zenon DEF Frames
  <1> HIDE DEF g
  <1>7. IInv'
    <2>1. /\ IsABag(orphans') /\ BagToSet(orphans') \subseteq Requests
          /\ ctx' \in [Threads -> {"live", "canceled", "expired"}] /\ calls' \in 0..MaxCalls
      BY <1>1 DEF IInv, HelperInv
    <2>2. Stands("run", g)
      BY <1>6 DEF Stands
    <2> QED BY <1>1, <1>5, <2>1, <2>2, GoesOn
  <1>8. /\ PhaseOf[t] = LocalPhase(pc[t], f)
        /\ PhaseOf' = [PhaseOf EXCEPT ![t] = LocalPhase("run", g)]
        /\ AnswerOf' = [AnswerOf EXCEPT ![t] = LocalAnswer("run", g)]
    BY <1>1, Mapped
  <1>9. PhaseOf[t] = "called" /\ LocalPhase("run", g) = "applied" /\ LocalAnswer("run", g) = a
    <2>1. LocalPhase("run", g) = "applied"
      BY <1>6 DEF LocalPhase
    <2> QED BY <1>1, <1>5, <1>8, <2>1 DEF LocalPhase, LocalAnswer
  <1>10. PhaseOf' = [u \in Threads |-> IF u \in {} \cup {t} THEN "applied" ELSE PhaseOf[u]]
    BY <1>8, <1>9 DEF PhaseOf
  <1>11. AnswerOf' = [u \in Threads |->
                    IF u \in {} THEN "notfound"
                    ELSE IF u # t THEN AnswerOf[u]
                    ELSE IF q.op # "set" /\ store[q.key] = None THEN "notfound"
                    ELSE IF q.op = "get" THEN store[q.key] ELSE "ok"]
    <2>1. AnswerOf' = [AnswerOf EXCEPT ![t] = a]
      BY <1>8, <1>9
    <2>2. a = IF q.op # "set" /\ store[q.key] = None THEN "notfound"
              ELSE IF q.op = "get" THEN store[q.key] ELSE "ok"
      BY <1>2 DEF a
    <2> QED BY <2>1, <2>2 DEF AnswerOf
  <1>12. Contract!\sqsubseteq(orphans', orphans)
    BY <1>1, BagReflexive, ContractFacts DEF IInv, HelperInv
  <1>13. Contract!Miss({}, q)
    BY DEF Contract!Miss, Contract!MissAny
  <1>14. Contract!RemoteTake(t, {})
    BY <1>1, <1>9, <1>10, <1>11, <1>12, <1>13 DEF Contract!RemoteTake
  <1>15. {} \in SUBSET Threads
    OBVIOUS
  <1> QED BY <1>7, <1>14, <1>15 DEF Implemented, Contract!RemoteNext

\* The helper's result is an error, or what the helper has answered.
LEMMA EndsImplemented ==
  ASSUME IInv, BridgeInv', NEW t \in Threads, pc[t] = "run", NEW e \in Results,
         NEW g \in Frames, g.res = e, g.done = frame[t].done, g.answer = frame[t].answer,
         Go(t, "return", g), UNCHANGED <<store, req, ctx, calls>>,
         e \in {"ok", "notfound"} =>
             frame[t].done /\ (e = "notfound" <=> frame[t].answer = "notfound"),
         e \in {"ok", "notfound"} => orphans' = orphans,
         orphans' \in {orphans, IF frame[t].done \/ req[t].op = "get" THEN orphans
                                ELSE orphans (+) SetToBag({req[t]})},
         IsABag(orphans'), BagToSet(orphans') \subseteq Requests
  PROVE  IInv' /\ Implemented
  <1> DEFINE f == frame[t]
  <1>1. Stands("return", g)
    BY DEF Stands
  <1>2. /\ ctx' \in [Threads -> {"live", "canceled", "expired"}] /\ calls' \in 0..MaxCalls
    BY DEF IInv, HelperInv
  <1>3. IInv'
    BY <1>1, <1>2, GoesOn
  <1>4. CASE e \in {"ok", "notfound"}
    <2>1. LocalPhase("return", g) = "applied" /\ LocalPhase(pc[t], f) = "applied"
      BY <1>4 DEF LocalPhase
    <2>2. LocalAnswer(pc[t], f) = f.answer
      BY <2>1 DEF LocalAnswer
    <2>3. LocalAnswer("return", g) = IF e = "notfound" THEN "notfound"
                                     ELSE IF f.answer = "notfound" THEN "ok" ELSE f.answer
      BY <2>1 DEF LocalAnswer
    <2>4. LocalAnswer("return", g) = LocalAnswer(pc[t], f)
      BY <1>4, <2>2, <2>3
    <2> QED BY <1>3, <1>4, <2>1, <2>4, StaysImplemented
  <1>5. CASE e \notin {"ok", "notfound"}
    <2>1. LocalPhase("return", g) = "failed"
      BY <1>5 DEF LocalPhase
    <2> QED BY <1>3, <2>1, StaysImplemented
  <1> QED BY <1>4, <1>5

LEMMA HelperEndsSound ==
  ASSUME IInv, BridgeInv', NEW t \in Threads, HelperEnds(t)
  PROVE  IInv' /\ Implemented
  <1> DEFINE f == frame[t]
  <1>1. pc[t] = "run" /\ UNCHANGED <<store, orphans, req, ctx, calls>>
    BY DEF HelperEnds
  <1>2. f \in Frames /\ Stands("run", f) /\ req[t] \in Requests
    BY <1>1 DEF IInv, BridgeInv, HelperInv, Measured
  <1>3. PICK r \in Prints(req[t].op) :
            Honest(t, r) /\ Go(t, "return", [f EXCEPT !.res = ResultOf(t, r)])
    BY Zenon DEF HelperEnds
  <1> DEFINE e == ResultOf(t, r)
             g == [f EXCEPT !.res = e]
  <1>4. r \in Response
    BY <1>2, PrintsAreResponses DEF Requests, Operations
  <1>5. /\ e \in Results
        /\ e \in {"ok", "notfound"} => f.done /\ (e = "notfound" <=> f.answer = "notfound")
    BY <1>2, <1>3, <1>4, ReportsTheAnswer
  <1>6. Go(t, "return", g)
    BY <1>3
  <1> HIDE DEF e
  <1>7. g \in Frames /\ g.res = e /\ g.done = f.done /\ g.answer = f.answer
    <2>1. g \in Frames /\ g.res = e /\ g.answer = f.answer
      BY <1>2, <1>5 DEF Frames
    <2>2. g.done = f.done
      BY <1>2, Zenon DEF Frames
    <2> QED BY <2>1, <2>2
  <1> HIDE DEF g
  <1>8. IsABag(orphans') /\ BagToSet(orphans') \subseteq Requests
    BY <1>1 DEF IInv, HelperInv
  <1> QED BY <1>1, <1>5, <1>6, <1>7, <1>8, EndsImplemented

LEMMA HelperKilledSound ==
  ASSUME IInv, BridgeInv', NEW t \in Threads, HelperKilled(t)
  PROVE  IInv' /\ Implemented
  <1> DEFINE f == frame[t]
             e == ResultOf(t, NoResponse)
             g == [f EXCEPT !.res = e]
             S == orphans (+) SetToBag({req[t]})
  <1>1. /\ pc[t] = "run" /\ ctx[t] # "live" /\ UNCHANGED <<store, req, ctx, calls>>
        /\ orphans' = IF f.done \/ req[t].op = "get" THEN orphans ELSE S
        /\ Go(t, "return", g)
    BY DEF HelperKilled
  <1>2. f \in Frames /\ req[t] \in Requests
    BY <1>1 DEF IInv, BridgeInv, HelperInv, Measured
  <1>3. e \in Results /\ e \notin {"ok", "notfound"}
    <2>1. ctx[t] \in {"canceled", "expired"}
      BY <1>1 DEF IInv, HelperInv
    <2>2. e \in {"canceled", "timeout"}
      BY <2>1 DEF ResultOf
    <2> QED BY <2>2 DEF Results
  <1> HIDE DEF e
  <1>4. g \in Frames /\ g.res = e /\ g.done = f.done /\ g.answer = f.answer
    <2>1. g \in Frames /\ g.res = e /\ g.answer = f.answer
      BY <1>2, <1>3 DEF Frames
    <2>2. g.done = f.done
      BY <1>2, Zenon DEF Frames
    <2> QED BY <2>1, <2>2
  <1>5. /\ IsABag(orphans) /\ BagToSet(orphans) \subseteq Requests
    BY DEF IInv, HelperInv
  <1>6. IsABag(S) /\ BagToSet(S) = BagToSet(orphans) \cup {req[t]}
    BY <1>5, OneMore
  <1>7. orphans' \in {orphans, IF f.done \/ req[t].op = "get" THEN orphans ELSE S}
    BY <1>1
  <1>8. IsABag(orphans') /\ BagToSet(orphans') \subseteq Requests
    <2> HIDE DEF S
    <2> QED BY <1>1, <1>2, <1>5, <1>6
  <1> HIDE DEF g
  <1> QED BY <1>1, <1>3, <1>4, <1>7, <1>8, EndsImplemented

LEMMA ReturnSound ==
  ASSUME IInv, BridgeInv', NEW t \in Threads, Return(t)
  PROVE  IInv' /\ Implemented
  <1>1. /\ pc[t] = "return" /\ Go(t, "idle", NewFrame)
        /\ req' = [req EXCEPT ![t] = NoRequest] /\ ctx' = [ctx EXCEPT ![t] = "live"]
        /\ UNCHANGED <<store, orphans, calls>>
    BY DEF Return
  <1>2. Stands("idle", NewFrame)
    BY DEF Stands
  <1>3. IInv'
    <2>1. /\ IsABag(orphans') /\ BagToSet(orphans') \subseteq Requests
          /\ ctx' \in [Threads -> {"live", "canceled", "expired"}] /\ calls' \in 0..MaxCalls
      BY <1>1 DEF IInv, HelperInv
    <2> QED BY <1>1, <1>2, <2>1, NewFrameType, GoesOn
  <1>4. /\ PhaseOf[t] = LocalPhase(pc[t], frame[t])
        /\ PhaseOf' = [PhaseOf EXCEPT ![t] = LocalPhase("idle", NewFrame)]
        /\ AnswerOf' = [AnswerOf EXCEPT ![t] = LocalAnswer("idle", NewFrame)]
    BY <1>1, Mapped
  <1>5. PhaseOf' = [PhaseOf EXCEPT ![t] = "idle"] /\ AnswerOf' = [AnswerOf EXCEPT ![t] = None]
    BY <1>4 DEF LocalPhase, LocalAnswer
  <1>6. PhaseOf[t] \in {"applied", "failed"}
    BY <1>1, <1>4 DEF LocalPhase
  <1>7. Contract!Return(t)
    BY <1>1, <1>5, <1>6, ContractFacts DEF Contract!Return
  <1> QED BY <1>1, <1>3, <1>7 DEF Implemented, Contract!RemoteNext

\* What a killed helper had asked for takes effect once, or is lost.
LEMMA LateSound ==
  ASSUME IInv, BridgeInv', Late
  PROVE  IInv' /\ Implemented
  <1>1. PICK q \in BagToSet(orphans) :
          /\ orphans' = orphans (-) SetToBag({q})
          /\ store' = [store EXCEPT ![q.key] = q.val] \/ UNCHANGED store
          /\ UNCHANGED <<pc, req, ctx, frame, calls>>
    BY DEF Late
  <1>2. IsABag(orphans) /\ BagToSet(orphans) \subseteq Requests
    BY DEF IInv, HelperInv
  <1>3. /\ IsABag(orphans') /\ BagToSet(orphans') \subseteq BagToSet(orphans)
        /\ orphans' \sqsubseteq orphans
    BY <1>1, <1>2, OneLess
  <1>4. IInv'
    BY <1>1, <1>2, <1>3 DEF IInv, HelperInv
  <1>5. PhaseOf' = PhaseOf /\ AnswerOf' = AnswerOf
    BY <1>1 DEF PhaseOf, AnswerOf
  <1>6. CASE UNCHANGED store
    <2>1. Contract!\sqsubseteq(orphans', orphans)
      BY <1>3, ContractFacts
    <2>2. UNCHANGED Contract!contractVars
      BY <1>1, <1>5, <1>6 DEF Contract!contractVars
    <2> QED BY <1>4, <2>1, <2>2 DEF Implemented, Contract!RemoteNext
  <1>7. CASE store' = [store EXCEPT ![q.key] = q.val]
    <2>1. Contract!\sqsubseteq(orphans', Contract!(-)(orphans, Contract!SetToBag({q})))
      BY <1>1, <1>3, BagReflexive, ContractFacts
    <2>2. Contract!Miss({}, q)
      BY DEF Contract!Miss, Contract!MissAny
    <2>3. /\ PhaseOf = [u \in Threads |-> PhaseOf[u]]
          /\ AnswerOf = [u \in Threads |-> AnswerOf[u]]
      BY DEF PhaseOf, AnswerOf
    <2>4. /\ PhaseOf' = [u \in Threads |-> IF u \in {} THEN "applied" ELSE PhaseOf[u]]
          /\ AnswerOf' = [u \in Threads |-> IF u \in {} THEN "notfound" ELSE AnswerOf[u]]
      BY <1>5, <2>3
    <2>5. Contract!TakeLate(q, {})
      BY <1>1, <1>7, <2>1, <2>2, <2>4 DEF Contract!TakeLate
    <2>6. {} \in SUBSET Threads /\ q \in Contract!BagToSet(orphans)
      BY ContractFacts
    <2> QED BY <1>4, <2>5, <2>6 DEF Implemented, Contract!RemoteNext
  <1> QED BY <1>1, <1>6, <1>7

LEMMA ContextSound ==
  ASSUME IInv, BridgeInv', NEW t \in Threads, Cancel(t) \/ TimerExpires(t)
  PROVE  IInv' /\ Implemented
  <1>1. /\ ctx' \in {[ctx EXCEPT ![t] = "canceled"], [ctx EXCEPT ![t] = "expired"]}
        /\ UNCHANGED <<store, orphans, pc, req, frame, calls>>
    BY DEF Cancel, TimerExpires
  <1>2. IInv'
    BY <1>1 DEF IInv, HelperInv
  <1>3. PhaseOf' = PhaseOf /\ AnswerOf' = AnswerOf
    BY <1>1 DEF PhaseOf, AnswerOf
  <1> QED BY <1>1, <1>2, <1>3 DEF Implemented, Contract!remoteVars, Contract!contractVars

LEMMA InitInv == Init => IInv
  <1> SUFFICES ASSUME Init PROVE IInv
    OBVIOUS
  <1>1. BridgeInv
    BY DEF Init, BridgeInv, EmptyBag, SetToBag, Fitting
  <1>2. IsABag(orphans) /\ BagToSet(orphans) = {}
    BY DEF Init, EmptyBag, SetToBag, IsABag, BagToSet
  <1>3. calls \in 0..MaxCalls
    BY Wsl2BridgeAssumption DEF Init
  <1> QED BY <1>1, <1>2, <1>3, NewFrameType DEF Init, IInv, HelperInv, Stands

LEMMA NextSound == IInv /\ [Next]_vars => IInv' /\ Implemented
  <1> SUFFICES ASSUME IInv, [Next]_vars PROVE IInv' /\ Implemented
    OBVIOUS
  <1>1. BridgeInv'
    BY BridgeInvNext DEF IInv
  <1>2. ASSUME UNCHANGED vars PROVE IInv' /\ Implemented
    <2>1. PhaseOf' = PhaseOf /\ AnswerOf' = AnswerOf
      BY <1>2 DEF vars, PhaseOf, AnswerOf
    <2>2. IInv'
      BY <1>1, <1>2 DEF vars, IInv, HelperInv
    <2> QED BY <1>2, <2>1, <2>2 DEF vars, Implemented, Contract!remoteVars, Contract!contractVars
  <1>3. ASSUME NEW t \in Threads, Call(t) \/ Client(t) PROVE IInv' /\ Implemented
    BY <1>1, <1>3, CallSound, StartHelperSound, HelperKilledSound, ReturnSound DEF Client
  <1>4. ASSUME NEW t \in Threads, HelperExecutes(t) \/ HelperEnds(t) PROVE IInv' /\ Implemented
    BY <1>1, <1>4, HelperExecutesSound, HelperEndsSound
  <1>5. ASSUME NEW t \in Threads, Cancel(t) \/ TimerExpires(t) PROVE IInv' /\ Implemented
    BY <1>1, <1>5, ContextSound
  <1> QED BY <1>1, <1>2, <1>3, <1>4, <1>5, LateSound DEF Next

LEMMA Invariance == Spec => []IInv
  <1>1. IInv /\ [Next]_vars => IInv'
    BY NextSound
  <1> QED BY InitInv, <1>1, PTL DEF Spec

\* Every variable keeps its type, whatever the helpers print: an error code always
\* becomes one of the portable categories, and what killed helpers left behind
\* stays a bag of requests (client.go: invoke; errors.go: portableError).
THEOREM TypeCorrect == Spec => []TypeOK
  <1>1. IInv => TypeOK
    <2> SUFFICES ASSUME IInv PROVE TypeOK
      OBVIOUS
    <2>1. store \in [Keys -> Values \cup {None}]
      BY DEF IInv, BridgeInv, Fitting
    <2> QED BY <2>1 DEF IInv, BridgeInv, HelperInv, Frames, TypeOK
  <1> QED BY <1>1, Invariance, PTL

\* Every behaviour of the bridge, with helpers that crash, hang, are killed and
\* print what is no answer, is one of the linearizable map of RemoteContract: an
\* operation takes effect when its helper executes it, and only one that reported
\* an error may do so later (keyring.go and client.go of secure/wsl2).
THEOREM Implementation == Spec => ImplementsRemoteContract
  <1>1. Init => Contract!RemoteInit
    <2> SUFFICES ASSUME Init PROVE Contract!RemoteInit
      OBVIOUS
    <2>1. PhaseOf = [t \in Threads |-> "idle"]
      BY DEF Init, PhaseOf
    <2>2. AnswerOf = [t \in Threads |-> None]
      BY <2>1 DEF AnswerOf
    <2>3. store \in [Keys -> Values \cup {None, Blocked}]
      BY DEF Init
    <2> QED BY <2>1, <2>2, <2>3, ContractFacts DEF Init, Contract!RemoteInit, Contract!Init
  <1>2. IInv /\ [Next]_vars => [Contract!RemoteNext]_(Contract!remoteVars)
    BY NextSound DEF Implemented
  <1> QED BY <1>1, <1>2, Invariance, PTL DEF Spec, ImplementsRemoteContract,
                                              Contract!RemoteContractSpec
=============================================================================
