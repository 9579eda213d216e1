------------------------ MODULE SecretServiceProofs ------------------------
(***************************************************************************)
(* Proofs about SecretService, for every set of goroutines, keys, values   *)
(* and bus faults and any number of calls and faults: prompts are not      *)
(* mixed up, sessions are closed, and the client implements RemoteContract *)
(* whatever the service, the user and the bus do.                          *)
(***************************************************************************)
EXTENDS SecretRefinesContract, BagLemmas

-----------------------------------------------------------------------------
(* The inductive invariant.  Its parts are about one goroutine t that is at *)
(* p with request q and frame f.                                            *)

Answers == {"confirmed", "dismissed", "invalid"}

Frames == [at : 1..5, net : Replies, item : {"none", "live", "gone"},
           session : {"none", "open", "lost"}, prompt : {"none", "new", "shown", "done"},
           match : BOOLEAN, signals : Seq(Completions),
           conn : {"none", "open", "broken"}, res : SUBSET Categories,
           val : Values \cup {None}, done : BOOLEAN]

Length(q) == Len(Script[q.op])
StageOf(q, f) == Script[q.op][f.at]

\* Where a goroutine stands.
Place(p, q, f) ==
    /\ f.at <= Length(q)
    /\ p = "idle" => q = NoRequest
    /\ p # "idle" => q \in Requests
    /\ p \in {"idle", "connect"} => f = NewFrame
    /\ p \in {"call", "addMatch", "prompt", "wait"} => f.res = {}

\* The prompt that is on its way to the user, and the completions received.
Prompted(t, p, q, f) ==
    /\ (p = "call" /\ f.net = "prompt") \/ p \in {"addMatch", "prompt", "wait"}
          \/ (p = "removeMatch" /\ f.res = {})
          => StageOf(q, f) \in {"unlock", "unlockItem", "createItem", "deleteItem"}
    /\ f.prompt \in {"new", "shown"} =>
          /\ f.conn = "open"
          /\ (p = "call" /\ f.net = "prompt") \/ p \in {"addMatch", "prompt", "wait"}
    /\ p \in {"addMatch", "prompt", "wait", "removeMatch"} =>
          f.net \notin {"empty", "NoSuchObject"}
    /\ f.signals # <<>> => p \in {"prompt", "wait"} \/ (p = "removeMatch" /\ f.res # {})
    /\ \A i \in DOMAIN f.signals : f.signals[i][1] = t /\ f.signals[i][3] = f.at
    /\ f.signals # <<>> /\ Head(f.signals)[2] = "confirmed" /\ f.at = Length(q) => f.done

\* What an operation has done when it stands somewhere.
Effect(p, q, f) ==
    /\ f.done => /\ f.at = Length(q) /\ p # "addMatch"
                 /\ p = "call" => f.net = "ok"
                 /\ p \in {"prompt", "wait"} => f.prompt = "done" \/ f.conn = "broken"
    /\ p = "call" /\ f.net = "ok" /\ f.at = Length(q) => f.done
    /\ p = "removeMatch" /\ f.res = {} /\ f.at = Length(q) => f.done
    /\ p \in {"closeSession", "close", "return"} /\ f.res = {} => f.done
    /\ "notfound" \in f.res => ~f.done

\* The item that Get and Delete have found.
Found(p, q, f) ==
    /\ f.item # "none" =>
          q.op # "set" /\ (f.at > 2 \/ (f.at = 2 /\ p = "call" /\ f.net = "ok"))
    /\ q.op \in {"get", "delete"} /\ f.res = {} =>
          (f.at > 2 \/ (f.at = 2 /\ p = "call" /\ f.net = "ok") => f.item # "none")

\* The session that is to be closed.
CleanupReplies == {"sent", "ok", "other", "NoReply"} \cup BusFaults

Closing(p, f) ==
    /\ p = "closeSession" => f.net \in CleanupReplies /\ (f.net = "ok" => f.session # "open")
    /\ p = "close" /\ f.session = "open" => f.res \cap (CleanupErrors \cup {"ended"}) # {}

Local(t, p, q, f) ==
    /\ p \in Labels /\ q \in Requests \cup {NoRequest} /\ f \in Frames
    /\ Place(p, q, f) /\ Prompted(t, p, q, f) /\ Effect(p, q, f) /\ Found(p, q, f)
    /\ Closing(p, f)

\* The service's side: a live item has a value, and only mutations are left in
\* flight.
Service ==
    /\ store \in [Keys -> Values \cup {None}]
    /\ locked \in BOOLEAN
    /\ IsABag(orphans) /\ BagToSet(orphans) \subseteq {q \in Requests : q.op # "get"}
    /\ \A t \in Threads : frame[t].item = "live" => store[Key(t)] # None

Shape ==
    /\ pc \in [Threads -> Labels]
    /\ req \in [Threads -> Requests \cup {NoRequest}]
    /\ ctx \in [Threads -> {"live", "ended"}]
    /\ frame \in [Threads -> Frames]
    /\ calls \in 0..MaxCalls /\ faults \in 0..MaxFaults

IInv == Shape /\ Service /\ \A t \in Threads : Local(t, pc[t], req[t], frame[t])
-----------------------------------------------------------------------------
(* The scripts.                                                              *)

\* What StageOf and Length look up in the script of each operation.
LEMMA ScriptFacts ==
  ASSUME NEW q \in Requests \cup {NoRequest}, NEW f \in Frames, f.at <= Length(q)
  PROVE  /\ q.op \in {"get", "set", "delete", "none"} /\ Length(q) \in 1..5
         /\ f.at \in 1..Length(q)
         /\ q.op = "get" => Length(q) = 5
         /\ q.op = "set" => Length(q) = 3
         /\ q.op = "delete" => Length(q) = 4
         /\ q.op = "none" => Length(q) = 1
         /\ StageOf(q, f) = "unlock" <=>
               (q.op \in {"get", "delete"} /\ f.at = 1) \/ (q.op = "set" /\ f.at = 2)
         /\ StageOf(q, f) = "find" <=> q.op \in {"get", "delete"} /\ f.at = 2
         /\ StageOf(q, f) = "unlockItem" <=> q.op \in {"get", "delete"} /\ f.at = 3
         /\ StageOf(q, f) = "openSession" <=>
               (q.op = "get" /\ f.at = 4) \/ (q.op = "set" /\ f.at = 1)
         /\ StageOf(q, f) = "getSecret" <=> q.op = "get" /\ f.at = 5
         /\ StageOf(q, f) = "createItem" <=> q.op = "set" /\ f.at = 3
         /\ StageOf(q, f) = "deleteItem" <=> q.op = "delete" /\ f.at = 4
         /\ StageOf(q, f) = "none" <=> q.op = "none"
  <1>1. q.op \in {"get", "set", "delete", "none"}
    BY DEF Requests, NoRequest
  <1>2. /\ Script.get = <<"unlock", "find", "unlockItem", "openSession", "getSecret">>
        /\ Script.set = <<"openSession", "unlock", "createItem">>
        /\ Script.delete = <<"unlock", "find", "unlockItem", "deleteItem">>
        /\ Script.none = <<"none">>
    BY DEF Script
  <1>3. /\ Len(Script.get) = 5 /\ Len(Script.set) = 3 /\ Len(Script.delete) = 4
        /\ Len(Script.none) = 1
    BY <1>2
  <1>4. f.at \in 1..5
    BY DEF Frames
  <1>5. CASE q.op = "get"
    <2>1. Length(q) = 5 /\ Script[q.op] = <<"unlock", "find", "unlockItem", "openSession", "getSecret">>
      BY <1>2, <1>3, <1>5 DEF Length
    <2> QED BY <1>4, <1>5, <2>1 DEF StageOf
  <1>6. CASE q.op = "set"
    <2>1. Length(q) = 3 /\ Script[q.op] = <<"openSession", "unlock", "createItem">>
      BY <1>2, <1>3, <1>6 DEF Length
    <2>2. f.at \in 1..3
      BY <1>4, <2>1
    <2> QED BY <2>2, <1>6, <2>1 DEF StageOf
  <1>7. CASE q.op = "delete"
    <2>1. Length(q) = 4 /\ Script[q.op] = <<"unlock", "find", "unlockItem", "deleteItem">>
      BY <1>2, <1>3, <1>7 DEF Length
    <2>2. f.at \in 1..4
      BY <1>4, <2>1
    <2> QED BY <2>2, <1>7, <2>1 DEF StageOf
  <1>8. CASE q.op = "none"
    <2>1. Length(q) = 1 /\ Script[q.op] = <<"none">>
      BY <1>2, <1>3, <1>8 DEF Length
    <2>2. f.at = 1
      BY <1>4, <2>1
    <2> QED BY <2>2, <1>8, <2>1 DEF StageOf
  <1> QED BY <1>1, <1>5, <1>6, <1>7, <1>8

-----------------------------------------------------------------------------
(* The phase and the answer that the refinement gives a goroutine.           *)

LocalPhase(p, f) ==
    IF p = "idle" THEN "idle"
    ELSE IF f.res # {} THEN IF "notfound" \in f.res THEN "applied" ELSE "failed"
    ELSE IF f.done \/ f.net \in {"empty", "NoSuchObject"} THEN "applied"
    ELSE IF f.conn = "broken" THEN "failed"
    ELSE IF f.item = "gone" THEN "applied" ELSE "called"

LocalAnswer(p, q, f) ==
    IF LocalPhase(p, f) # "applied" THEN None
    ELSE IF ~f.done THEN "notfound"
    ELSE IF q.op = "get" THEN f.val ELSE "ok"

\* A step of t to p and f leaves its operation where it stood, or fails it.
Stays(t, p, f) ==
    \/ /\ LocalPhase(p, f) = LocalPhase(pc[t], frame[t])
       /\ LocalAnswer(p, req[t], f) = LocalAnswer(pc[t], req[t], frame[t])
    \/ LocalPhase(p, f) = "failed"

\* Only t moves.
Moves(t, p, q, f) ==
    /\ pc' = [pc EXCEPT ![t] = p]
    /\ req' = [req EXCEPT ![t] = q]
    /\ frame' = [frame EXCEPT ![t] = f]

\* What a client's step of t comes to.
Steps(t) ==
    \E p \in Labels \ {"idle"}, f \in Frames :
        /\ Moves(t, p, req[t], f)
        /\ Local(t, p, req[t], f)
        /\ f.item \in {"none", frame[t].item}
        /\ Stays(t, p, f)

LEMMA MappedPhase ==
  ASSUME NEW t \in Threads
  PROVE  /\ PhaseOf[t] = LocalPhase(pc[t], frame[t])
         /\ AnswerOf[t] = LocalAnswer(pc[t], req[t], frame[t])
  BY DEF PhaseOf, AnswerOf, LocalPhase, LocalAnswer

LEMMA CleanupFacts ==
  ASSUME NEW c \in CleanupReplies \ {"ok", "sent"}
  PROVE  BusCategory(c) \in CleanupErrors /\ BusCategory(c) \in Categories \ {"notfound"}
  <1>1. c \in BusErrors
    BY SecretServiceAssumption DEF CleanupReplies, BusErrors
  <1>2. BusCategory(c) \in {"failure", "timeout", "denied", "unavailable", "toolarge",
                           "interaction"}
    BY <1>1 DEF BusCategory, BusErrors
  <1>3. CASE c = "other"
    BY <1>2, <1>3 DEF BusCategory, CleanupErrors, Categories
  <1>4. CASE c = "NoReply"
    BY <1>2, <1>4 DEF BusCategory, CleanupErrors, Categories
  <1>5. CASE c \in BusFaults
    BY <1>2, <1>5 DEF CleanupErrors, Categories
  <1> QED BY <1>3, <1>4, <1>5 DEF CleanupReplies

LEMMA ErrorFacts ==
  ASSUME NEW t \in Threads, NEW c
  PROVE  /\ BackendError(t, c) \in SUBSET Categories /\ BackendError(t, c) # {}
         /\ "notfound" \in BackendError(t, c) => Live(t) /\ c = "NoSuchObject"
         /\ Live(t) /\ c = "NoSuchObject" => BackendError(t, c) = {"notfound"}
  <1>1. CASE ~Live(t)
    <2>1. BackendError(t, c) = {"ended"}
      BY <1>1 DEF BackendError
    <2> QED BY <1>1, <2>1 DEF Categories
  <1>2. CASE Live(t) /\ c = "NoSuchObject"
    <2>1. BackendError(t, c) = {"notfound"}
      BY <1>2 DEF BackendError, BusCategory
    <2> QED BY <1>2, <2>1 DEF Categories
  <1>3. CASE Live(t) /\ c # "NoSuchObject"
    <2>1. BackendError(t, c) = {BusCategory(c)}
      BY <1>3 DEF BackendError
    <2>2. BusCategory(c) \in {"locked", "timeout", "denied", "unavailable", "toolarge",
                             "interaction", "failure"}
      BY <1>3 DEF BusCategory
    <2> QED BY <1>3, <2>1, <2>2 DEF Categories
  <1> QED BY <1>1, <1>2, <1>3

LEMMA NewFrameType == NewFrame \in Frames
  BY DEF NewFrame, Frames, Replies, BusErrors

-----------------------------------------------------------------------------
(* The client's steps.                                                       *)

LEMMA SendMoves ==
  ASSUME Shape, NEW t \in Threads, NEW label, NEW f \in Frames, UNCHANGED req
  PROVE  LET g == [f EXCEPT !.net = IF f.conn = "broken" THEN "other" ELSE "sent"] IN
         /\ g \in Frames
         /\ Send(t, label, f) => Moves(t, label, req[t], g)
         /\ Stop(t, label, f) => Moves(t, label, req[t], [f EXCEPT !.net = "none"])
         /\ [f EXCEPT !.net = "none"] \in Frames
  <1>1. req = [req EXCEPT ![t] = req[t]]
    BY DEF Shape
  <1>2. "other" \in Replies /\ "sent" \in Replies /\ "none" \in Replies
    BY DEF Replies, BusErrors
  <1> QED BY <1>1, <1>2 DEF Send, Stop, Moves, Frames

\* The operation is over, with an effect or with an error.
Over(q, f) ==
    /\ f.at <= Length(q) /\ q \in Requests
    /\ f.res = {} => /\ f.done /\ f.at = Length(q) /\ f.prompt \notin {"new", "shown"}
                     /\ f.signals = <<>>
                     /\ f.item # "none" => q.op # "set"
                     /\ q.op # "set" => f.item # "none"

LEMMA ForgetFacts ==
  ASSUME NEW f \in Frames
  PROVE  /\ Forget(f) \in Frames
         /\ Forget(f).res = f.res /\ Forget(f).session = f.session /\ Forget(f).conn = f.conn
         /\ f.res = {} => Forget(f) = f
         /\ f.res # {} => /\ Forget(f).at = 1 /\ Forget(f).item = "none"
                          /\ ~Forget(f).done /\ Forget(f).prompt = "none"
                          /\ Forget(f).signals = <<>>
  <1>1. CASE f.res = {}
    BY <1>1 DEF Forget
  <1>2. CASE f.res # {}
    <2> DEFINE h == [f EXCEPT !.at = 1, !.item = "none", !.val = None, !.done = FALSE,
                              !.prompt = "none", !.signals = <<>>]
    <2>1. Forget(f) = h
      BY <1>2 DEF Forget
    <2>2. <<>> \in Seq(Completions)
      OBVIOUS
    <2>3. h \in Frames
      <3>1. 1 \in 1..5
        OBVIOUS
      <3>2. [f EXCEPT !.at = 1, !.item = "none", !.val = None] \in Frames
        BY <3>1, ZenonT(60) DEF Frames
      <3>3. \A g \in Frames : [g EXCEPT !.done = FALSE, !.prompt = "none"] \in Frames
        BY ZenonT(60) DEF Frames
      <3>4. \A g \in Frames : [g EXCEPT !.signals = <<>>] \in Frames
        BY <2>2 DEF Frames
      <3> QED BY <3>2, <3>3, <3>4
    <2>4. /\ h.res = f.res /\ h.session = f.session /\ h.conn = f.conn
          /\ h.at = 1 /\ h.item = "none" /\ ~h.done /\ h.prompt = "none"
          /\ h.signals = <<>>
      BY DEF Frames
    <2> QED BY <1>2, <2>1, <2>3, <2>4
  <1> QED BY <1>1, <1>2

LEMMA UnwindSteps ==
  ASSUME Shape, NEW t \in Threads, NEW f \in Frames, UNCHANGED req, Over(req[t], f),
         Unwind(t, f)
  PROVE  \E p \in {"closeSession", "close"}, g \in Frames :
            /\ Moves(t, p, req[t], g) /\ Local(t, p, req[t], g)
            /\ g.item \in {"none", f.item}
            /\ LocalPhase(p, g) = IF f.res = {} \/ "notfound" \in f.res THEN "applied" ELSE "failed"
            /\ LocalAnswer(p, req[t], g) =
                  IF f.res = {} THEN IF req[t].op = "get" THEN f.val ELSE "ok"
                  ELSE IF "notfound" \in f.res THEN "notfound" ELSE None
  <1> DEFINE q == req[t]
             h == Forget(f)
  <1>1. /\ h \in Frames /\ h.res = f.res /\ h.session = f.session /\ h.conn = f.conn
        /\ f.res = {} => h = f
        /\ f.res # {} => /\ h.at = 1 /\ h.item = "none" /\ ~h.done /\ h.prompt = "none"
                         /\ h.signals = <<>>
    BY ForgetFacts
  <1>2. /\ q.op \in {"get", "set", "delete"} /\ Length(q) \in 1..5
        /\ q.op = "get" => Length(q) = 5
        /\ q.op = "set" => Length(q) = 3
        /\ q.op = "delete" => Length(q) = 4
    BY ScriptFacts DEF Over, Requests
  <1>3. /\ h.at <= Length(q) /\ h.at \in 1..5 /\ h.done \in BOOLEAN
        /\ h.signals = <<>> /\ h.prompt \notin {"new", "shown"}
        /\ h.res = {} => h.done /\ h.at = Length(q)
        /\ h.res # {} => ~h.done
        /\ h.item # "none" => q.op # "set" /\ h.at > 2
        /\ q.op \in {"get", "delete"} /\ h.res = {} => h.item # "none"
    BY <1>1, <1>2 DEF Over, Frames
  <1> HIDE DEF h, q
  <1>4. ASSUME NEW p \in {"closeSession", "close"}, NEW net \in Replies,
               net \in {"none", "other", "sent"},
               p = "closeSession" => net # "none",
               p = "close" => h.session = "none" \/ "ended" \in h.res
        PROVE  LET g == [h EXCEPT !.net = net] IN
               /\ g \in Frames /\ Local(t, p, q, g) /\ g.item = h.item
               /\ LocalPhase(p, g) =
                    IF f.res = {} \/ "notfound" \in f.res THEN "applied" ELSE "failed"
               /\ LocalAnswer(p, q, g) =
                    IF f.res = {} THEN IF q.op = "get" THEN f.val ELSE "ok"
                    ELSE IF "notfound" \in f.res THEN "notfound" ELSE None
    <2> DEFINE g == [h EXCEPT !.net = net]
    <2>1. /\ g \in Frames /\ g.net = net /\ g.at = h.at /\ g.done = h.done
          /\ g.signals = h.signals /\ g.prompt = h.prompt /\ g.res = h.res
          /\ g.item = h.item /\ g.session = h.session /\ g.conn = h.conn /\ g.val = h.val
      BY <1>1, <1>4 DEF Frames
    <2> HIDE DEF g
    <2>2. p \in Labels /\ q \in Requests
      BY <1>4 DEF Labels, Over, q
    <2>3. Place(p, q, g)
      BY <1>3, <1>4, <2>1, <2>2 DEF Place
    <2>4. Prompted(t, p, q, g)
      <3>1. DOMAIN g.signals = {}
        BY <1>3, <2>1
      <3> QED BY <1>3, <1>4, <2>1, <3>1 DEF Prompted
    <2>5. Effect(p, q, g) /\ Found(p, q, g)
      BY <1>3, <1>4, <2>1 DEF Effect, Found
    <2>6. Closing(p, g)
      BY <1>4, <2>1 DEF Closing, CleanupReplies
    <2>7. Local(t, p, q, g)
      BY <2>1, <2>2, <2>3, <2>4, <2>5, <2>6 DEF Local
    <2>8. /\ LocalPhase(p, g) =
                IF f.res = {} \/ "notfound" \in f.res THEN "applied" ELSE "failed"
          /\ LocalAnswer(p, q, g) =
                IF f.res = {} THEN IF q.op = "get" THEN f.val ELSE "ok"
                ELSE IF "notfound" \in f.res THEN "notfound" ELSE None
      BY <1>1, <1>3, <1>4, <2>1 DEF LocalPhase, LocalAnswer
    <2> QED BY <2>1, <2>7, <2>8 DEF g
  <1>5. h.item \in {"none", f.item}
    BY <1>1
  <1>6. CASE f.session # "none" /\ "ended" \notin f.res
    <2>1. Send(t, "closeSession", h)
      BY <1>6 DEF Unwind, h
    <2> DEFINE net == IF h.conn = "broken" THEN "other" ELSE "sent"
    <2>2. Moves(t, "closeSession", q, [h EXCEPT !.net = net])
      BY <1>1, <2>1, SendMoves DEF q
    <2>3. net \in Replies /\ net \in {"other", "sent"}
      BY DEF Replies, BusErrors
    <2> HIDE DEF net
    <2> QED BY <1>4, <1>5, <2>2, <2>3 DEF q
  <1>7. CASE ~(f.session # "none" /\ "ended" \notin f.res)
    <2>1. Stop(t, "close", h)
      BY <1>7 DEF Unwind, h
    <2>2. Moves(t, "close", q, [h EXCEPT !.net = "none"])
      BY <1>1, <2>1, SendMoves DEF q
    <2>3. "none" \in Replies
      BY DEF Replies, BusErrors
    <2> QED BY <1>1, <1>4, <1>5, <1>7, <2>2, <2>3 DEF q
  <1> QED BY <1>6, <1>7

\* The next call of the script, or the end of the operation.
LEMMA ProceedSteps ==
  ASSUME Shape, NEW t \in Threads, NEW f \in Frames, UNCHANGED req, req[t] \in Requests,
         f.at <= Length(req[t]), f.res = {}, f.signals = <<>>,
         f.prompt \notin {"new", "shown"}, f.done <=> f.at = Length(req[t]),
         f.item # "none" <=> req[t].op # "set" /\ f.at >= 2,
         Proceed(t, f)
  PROVE  \E p \in {"call", "closeSession", "close"}, g \in Frames :
            /\ Moves(t, p, req[t], g) /\ Local(t, p, req[t], g)
            /\ g.item \in {"none", f.item}
            /\ LocalPhase(p, g) = IF f.done THEN "applied"
                                  ELSE IF f.conn = "broken" THEN "failed"
                                  ELSE IF f.item = "gone" THEN "applied" ELSE "called"
            /\ LocalAnswer(p, req[t], g) =
                  IF f.done THEN IF req[t].op = "get" THEN f.val ELSE "ok"
                  ELSE IF f.conn # "broken" /\ f.item = "gone" THEN "notfound" ELSE None
  <1> DEFINE q == req[t]
             h == [f EXCEPT !.at = @ + 1]
             net == IF f.conn = "broken" THEN "other" ELSE "sent"
             g == [h EXCEPT !.net = net]
  <1>1. /\ q.op \in {"get", "set", "delete"} /\ Length(q) \in 1..5 /\ f.at \in 1..5
        /\ f.done \in BOOLEAN
        /\ q.op = "get" => Length(q) = 5
        /\ q.op = "set" => Length(q) = 3
        /\ q.op = "delete" => Length(q) = 4
    BY ScriptFacts DEF Requests, Frames
  <1>2. CASE f.at < Length(q)
    <2>1. Send(t, "call", h)
      BY <1>2 DEF Proceed, Length
    <2>2. f.at + 1 \in 1..5
      BY <1>1, <1>2
    <2>3. h \in Frames
      BY <2>2 DEF Frames
    <2>4. h.conn = f.conn
      BY DEF Frames
    <2>5. Moves(t, "call", q, g) /\ g \in Frames
      BY <2>1, <2>3, <2>4, SendMoves
    <2>6. /\ g.net = net /\ g.at = f.at + 1 /\ g.done = f.done
          /\ g.signals = f.signals /\ g.prompt = f.prompt /\ g.res = f.res
          /\ g.item = f.item /\ g.session = f.session /\ g.conn = f.conn /\ g.val = f.val
      BY <2>3 DEF Frames
    <2>7. ~g.done /\ g.res = {} /\ net \in {"other", "sent"}
      <3>1. ~f.done
        BY <1>1, <1>2
      <3>2. ~g.done
        BY <2>6, <3>1, Zenon
      <3>3. g.res = {}
        BY <2>6, Zenon
      <3> QED BY <3>2, <3>3
    <2> HIDE DEF g, net, h
    <2>8. Place("call", q, g)
      BY <1>1, <1>2, <2>6, <2>7 DEF Place
    <2>9. Prompted(t, "call", q, g)
      <3>1. DOMAIN g.signals = {}
        BY <2>6
      <3> QED BY <2>6, <2>7, <3>1 DEF Prompted
    <2>10. Effect("call", q, g)
      BY <2>6, <2>7 DEF Effect
    <2>11. Found("call", q, g)
      BY <1>1, <1>2, <2>6, <2>7 DEF Found
    <2>12. Closing("call", g)
      BY DEF Closing
    <2>13. Local(t, "call", q, g)
      BY <2>5, <2>8, <2>9, <2>10, <2>11, <2>12 DEF Local, Labels
    <2>14. /\ LocalPhase("call", g) = IF f.conn = "broken" THEN "failed"
                                      ELSE IF f.item = "gone" THEN "applied" ELSE "called"
           /\ LocalAnswer("call", q, g) =
                  IF f.conn # "broken" /\ f.item = "gone" THEN "notfound" ELSE None
      BY <2>6, <2>7 DEF LocalPhase, LocalAnswer
    <2> QED BY <1>2, <2>5, <2>6, <2>7, <2>13, <2>14
  <1>3. CASE ~(f.at < Length(q))
    <2>1. Unwind(t, f)
      BY <1>3 DEF Proceed, Length
    <2>2. f.at = Length(q) /\ f.done
      BY <1>1, <1>3
    <2>3. Over(q, f)
      BY <1>1, <2>2 DEF Over
    <2> HIDE DEF g, net, h
    <2> QED BY <2>1, <2>2, <2>3, UnwindSteps
  <1> QED BY <1>2, <1>3

\* An error ends the script.
LEMMA FailSteps ==
  ASSUME IInv, NEW t \in Threads, UNCHANGED req, pc[t] # "idle",
         NEW c \in SUBSET Categories, c # {},
         NEW f \in Frames, f.res = c, f.at = frame[t].at,
         "notfound" \in c => /\ LocalPhase(pc[t], frame[t]) = "applied"
                             /\ LocalAnswer(pc[t], req[t], frame[t]) = "notfound",
         Unwind(t, f), f.item = frame[t].item
  PROVE  Steps(t)
  <1>1. Over(req[t], f)
    BY DEF IInv, Local, Place, Over
  <1>2. PICK p \in {"closeSession", "close"}, g \in Frames :
            /\ Moves(t, p, req[t], g) /\ Local(t, p, req[t], g)
            /\ g.item \in {"none", f.item}
            /\ LocalPhase(p, g) = IF f.res = {} \/ "notfound" \in f.res THEN "applied" ELSE "failed"
            /\ LocalAnswer(p, req[t], g) =
                  IF f.res = {} THEN IF req[t].op = "get" THEN f.val ELSE "ok"
                  ELSE IF "notfound" \in f.res THEN "notfound" ELSE None
    BY <1>1, UnwindSteps DEF IInv
  <1>3. Stays(t, p, g)
    BY <1>2 DEF Stays
  <1> QED BY <1>2, <1>3 DEF Steps, Labels

LEMMA FailedSteps ==
  ASSUME IInv, NEW t \in Threads, UNCHANGED req, pc[t] # "idle", NEW c, Failed(t, c),
         c = "NoSuchObject" => pc[t] = "call" /\ frame[t].net = c
  PROVE  Steps(t)
  <1> DEFINE f == [frame[t] EXCEPT !.res = BackendError(t, c)]
  <1>1. BackendError(t, c) \in SUBSET Categories /\ BackendError(t, c) # {}
    BY ErrorFacts
  <1>2. frame[t] \in Frames
    BY DEF IInv, Shape
  <1>3. f \in Frames /\ f.res = BackendError(t, c) /\ f.at = frame[t].at
        /\ f.item = frame[t].item
    BY <1>1, <1>2 DEF Frames
  <1>4. ASSUME "notfound" \in BackendError(t, c)
        PROVE  /\ LocalPhase(pc[t], frame[t]) = "applied"
               /\ LocalAnswer(pc[t], req[t], frame[t]) = "notfound"
    <2>1. c = "NoSuchObject" /\ pc[t] = "call" /\ frame[t].net = "NoSuchObject"
      BY <1>4, ErrorFacts
    <2>2. frame[t].res = {} /\ ~frame[t].done
      BY <2>1 DEF IInv, Local, Place, Effect
    <2> QED BY <2>1, <2>2 DEF LocalPhase, LocalAnswer
  <1>5. Unwind(t, f)
    BY DEF Failed
  <1> HIDE DEF f
  <1> QED BY <1>1, <1>3, <1>4, <1>5, FailSteps

LEMMA ReplySteps ==
  ASSUME IInv, NEW t \in Threads, Reply(t)
  PROVE  Steps(t)
  <1> DEFINE f == frame[t]
             q == req[t]
             c == f.net
  <1>1. /\ pc[t] = "call" /\ c \notin {"none", "sent"}
        /\ UNCHANGED <<daemonVars, req, ctx, calls, faults>>
    BY DEF Reply
  <1>2. /\ f \in Frames /\ q \in Requests /\ f.res = {} /\ f.at <= Length(q)
        /\ Local(t, pc[t], q, f)
    BY <1>1 DEF IInv, Shape, Local, Place
  <1>3. f.signals = <<>>
    BY <1>1, <1>2 DEF Local, Prompted
  <1>4. CASE c = "ok"
    <2>1. Proceed(t, f)
      BY <1>4 DEF Reply
    <2>2. f.done <=> f.at = Length(q)
      BY <1>1, <1>2, <1>4 DEF Local, Effect
    <2>3. f.prompt \notin {"new", "shown"}
      BY <1>1, <1>2, <1>4 DEF Local, Prompted
    <2>4. f.item # "none" <=> q.op # "set" /\ f.at >= 2
      BY <1>1, <1>2, <1>4 DEF Local, Found, Requests, Frames
    <2>5. Shape
      BY DEF IInv
    <2>6. PICK p \in {"call", "closeSession", "close"}, g \in Frames :
            /\ Moves(t, p, req[t], g) /\ Local(t, p, req[t], g)
            /\ g.item \in {"none", f.item}
            /\ LocalPhase(p, g) = IF f.done THEN "applied"
                                  ELSE IF f.conn = "broken" THEN "failed"
                                  ELSE IF f.item = "gone" THEN "applied" ELSE "called"
            /\ LocalAnswer(p, req[t], g) =
                  IF f.done THEN IF req[t].op = "get" THEN f.val ELSE "ok"
                  ELSE IF f.conn # "broken" /\ f.item = "gone" THEN "notfound" ELSE None
      BY <1>1, <1>2, <1>3, <2>1, <2>2, <2>3, <2>4, <2>5, ProceedSteps
    <2>7. Stays(t, p, g)
      BY <1>1, <1>2, <1>4, <2>6 DEF Stays, LocalPhase, LocalAnswer
    <2> QED BY <2>6, <2>7 DEF Steps, Labels
  <1>5. CASE c = "prompt"
    <2> DEFINE net == IF f.conn = "broken" THEN "other" ELSE "sent"
               g == [f EXCEPT !.net = net]
    <2>1. Send(t, "addMatch", f)
      BY <1>5 DEF Reply
    <2>2. Moves(t, "addMatch", q, g) /\ g \in Frames
      BY <1>1, <1>2, <2>1, SendMoves DEF IInv
    <2>3. /\ g.net = net /\ g.at = f.at /\ g.done = f.done
          /\ g.signals = f.signals /\ g.prompt = f.prompt /\ g.res = f.res
          /\ g.item = f.item /\ g.session = f.session /\ g.conn = f.conn /\ g.val = f.val
      BY <1>2 DEF Frames
    <2>4. net \in {"other", "sent"}
      OBVIOUS
    <2>5. StageOf(q, g) = StageOf(q, f)
      BY <2>3 DEF StageOf
    <2> HIDE DEF g, net
    <2>6. ~f.done
      BY <1>1, <1>2, <1>5 DEF Local, Effect
    <2>7. Place("addMatch", q, g)
      BY <1>2, <2>3 DEF Place
    <2>8. Prompted(t, "addMatch", q, g)
      <3>1. DOMAIN g.signals = {}
        BY <1>3, <2>3
      <3> QED BY <1>1, <1>2, <1>3, <1>5, <2>3, <2>4, <2>5, <3>1 DEF Local, Prompted
    <2>9. Effect("addMatch", q, g)
      BY <1>2, <2>3, <2>6, Zenon DEF Effect
    <2>10. Found("addMatch", q, g)
      <3>1. StageOf(q, f) # "find"
        BY <1>1, <1>2, <1>5 DEF Local, Prompted
      <3>2. q \in Requests \cup {NoRequest} /\ q.op # "none"
        BY <1>2 DEF Requests
      <3>3. ~(q.op \in {"get", "delete"} /\ f.at = 2)
        BY <1>2, <3>1, <3>2, ScriptFacts
      <3> QED BY <1>1, <1>2, <1>5, <2>3, <3>3 DEF Local, Found
    <2>11. Local(t, "addMatch", q, g)
      BY <1>2, <2>2, <2>7, <2>8, <2>9, <2>10 DEF Local, Labels, Closing
    <2>12. Stays(t, "addMatch", g)
      BY <1>1, <1>2, <1>5, <2>3, <2>4, <2>6 DEF Stays, LocalPhase, LocalAnswer
    <2> QED BY <2>2, <2>3, <2>11, <2>12 DEF Steps, Labels
  <1>6. CASE c = "empty"
    <2> DEFINE g == [f EXCEPT !.res = {"notfound"}]
    <2>1. Unwind(t, g)
      BY <1>6 DEF Reply
    <2>2. {"notfound"} \in SUBSET Categories
      BY DEF Categories
    <2>3. g \in Frames /\ g.res = {"notfound"} /\ g.at = f.at /\ g.item = f.item
      BY <1>2, <2>2 DEF Frames
    <2> HIDE DEF g
    <2>4. LocalPhase(pc[t], f) = "applied" /\ LocalAnswer(pc[t], q, f) = "notfound"
      <3>1. ~f.done
        BY <1>1, <1>2, <1>6 DEF Local, Effect
      <3> QED BY <1>1, <1>2, <1>6, <3>1 DEF LocalPhase, LocalAnswer
    <2> QED BY <1>1, <2>1, <2>2, <2>3, <2>4, FailSteps
  <1>7. CASE c \notin {"ok", "prompt", "empty"}
    <2>1. Failed(t, c)
      BY <1>7 DEF Reply
    <2> QED BY <1>1, <2>1, FailedSteps
  <1> QED BY <1>4, <1>5, <1>6, <1>7

\* A step of t to a label with a frame g that differs from its own in the reply,
\* the prompt, the completions and the error.
LEMMA SubscribedSteps ==
  ASSUME IInv, NEW t \in Threads, Subscribed(t)
  PROVE  Steps(t)
  <1> DEFINE f == frame[t]
             q == req[t]
             net == IF f.conn = "broken" THEN "other" ELSE "sent"
             g == [f EXCEPT !.net = net]
  <1>1. pc[t] = "addMatch" /\ UNCHANGED req
    BY DEF Subscribed
  <1>2. /\ f \in Frames /\ q \in Requests /\ f.res = {} /\ Local(t, pc[t], q, f)
        /\ ~f.done /\ f.signals = <<>> /\ f.net # "NoSuchObject" /\ f.net # "empty"
    <2>1. f \in Frames /\ q \in Requests /\ f.res = {} /\ Local(t, pc[t], q, f)
      BY <1>1 DEF IInv, Shape, Local, Place
    <2> QED BY <1>1, <2>1 DEF Local, Effect, Prompted
  <1>3. CASE f.net = "ok"
    <2>1. Send(t, "prompt", f)
      BY <1>3 DEF Subscribed
    <2>2. Moves(t, "prompt", q, g) /\ g \in Frames
      BY <1>1, <1>2, <2>1, SendMoves DEF IInv
    <2>3. /\ g.net = net /\ g.at = f.at /\ g.done = f.done
          /\ g.signals = f.signals /\ g.prompt = f.prompt /\ g.res = f.res
          /\ g.item = f.item /\ g.session = f.session /\ g.conn = f.conn /\ g.val = f.val
      BY <1>2 DEF Frames
    <2>4. net \in {"other", "sent"} /\ StageOf(q, g) = StageOf(q, f)
      BY <2>3 DEF StageOf
    <2> HIDE DEF g, net
    <2>5. Place("prompt", q, g)
      BY <1>1, <1>2, <2>3 DEF Local, Place
    <2>6. Prompted(t, "prompt", q, g)
      <3>1. DOMAIN g.signals = {}
        BY <1>2, <2>3
      <3> QED BY <1>1, <1>2, <2>3, <2>4, <3>1 DEF Local, Prompted
    <2>7. Effect("prompt", q, g)
      BY <1>2, <2>3, Zenon DEF Effect
    <2>8. Found("prompt", q, g)
      BY <1>1, <1>2, <2>3 DEF Local, Found
    <2>9. Local(t, "prompt", q, g)
      BY <1>2, <2>2, <2>5, <2>6, <2>7, <2>8 DEF Local, Labels, Closing
    <2>10. Stays(t, "prompt", g)
      BY <1>1, <1>2, <1>3, <2>3, <2>4 DEF Stays, LocalPhase, LocalAnswer
    <2> QED BY <2>2, <2>3, <2>9, <2>10 DEF Steps, Labels
  <1>4. CASE f.net # "ok"
    <2>1. Failed(t, f.net)
      BY <1>4 DEF Subscribed
    <2> QED BY <1>1, <1>2, <2>1, FailedSteps
  <1> QED BY <1>3, <1>4

\* The prompt has failed or is given up: what is left is to remove the match rule.
LEMMA GiveUpSteps ==
  ASSUME IInv, NEW t \in Threads, UNCHANGED req, pc[t] \in {"prompt", "wait"},
         NEW f \in Frames, Send(t, "removeMatch", f), f.res # {}, "notfound" \notin f.res,
         f.prompt = "none", f.signals = <<>> \/ f.signals = frame[t].signals,
         f.at = frame[t].at, f.item = frame[t].item, f.done = frame[t].done
  PROVE  Steps(t)
  <1> DEFINE q == req[t]
             net == IF f.conn = "broken" THEN "other" ELSE "sent"
             g == [f EXCEPT !.net = net]
  <1>1. Moves(t, "removeMatch", q, g) /\ g \in Frames
    BY SendMoves DEF IInv
  <1>2. /\ g.net = net /\ g.at = f.at /\ g.done = f.done
        /\ g.signals = f.signals /\ g.prompt = f.prompt /\ g.res = f.res
        /\ g.item = f.item /\ g.session = f.session /\ g.conn = f.conn /\ g.val = f.val
    BY DEF Frames
  <1>3. net \in {"other", "sent"}
    OBVIOUS
  <1> HIDE DEF g, net
  <1>4. /\ q \in Requests /\ Local(t, pc[t], q, frame[t])
        /\ frame[t].at <= Length(q)
    BY DEF IInv, Local, Place
  <1>5. Place("removeMatch", q, g)
    BY <1>2, <1>4 DEF Place
  <1>6. Prompted(t, "removeMatch", q, g)
    <2>1. CASE f.signals = <<>>
      <3>1. DOMAIN g.signals = {}
        BY <1>2, <2>1
      <3> QED BY <1>2, <1>3, <2>1, <3>1 DEF Prompted
    <2>2. CASE f.signals = frame[t].signals
      BY <1>2, <1>3, <1>4, <2>2 DEF Local, Prompted
    <2> QED BY <2>1, <2>2
  <1>7. frame[t].done => frame[t].at = Length(q)
    BY <1>4 DEF Local, Effect
  <1>8. Effect("removeMatch", q, g)
    BY <1>2, <1>7, Zenon DEF Effect
  <1>9. Found("removeMatch", q, g)
    BY <1>2, <1>4 DEF Local, Found
  <1>10. Local(t, "removeMatch", q, g)
    BY <1>1, <1>4, <1>5, <1>6, <1>8, <1>9 DEF Local, Labels, Closing
  <1>11. Stays(t, "removeMatch", g)
    BY <1>2 DEF Stays, LocalPhase
  <1> QED BY <1>1, <1>2, <1>10, <1>11 DEF Steps, Labels

LEMMA ShownSteps ==
  ASSUME IInv, NEW t \in Threads, Shown(t)
  PROVE  Steps(t)
  <1> DEFINE f == frame[t]
             q == req[t]
             g == [f EXCEPT !.net = "none"]
  <1>1. pc[t] = "prompt" /\ UNCHANGED req
    BY DEF Shown
  <1>2. /\ f \in Frames /\ q \in Requests /\ f.res = {} /\ Local(t, pc[t], q, f)
        /\ f.net # "NoSuchObject" /\ f.net # "empty"
    BY <1>1 DEF IInv, Shape, Local, Place, Prompted
  <1>3. CASE f.net = "ok"
    <2>1. Stop(t, "wait", f)
      BY <1>3 DEF Shown
    <2>2. Moves(t, "wait", q, g) /\ g \in Frames
      BY <1>1, <1>2, <2>1, SendMoves DEF IInv
    <2>3. /\ g.net = "none" /\ g.at = f.at /\ g.done = f.done
          /\ g.signals = f.signals /\ g.prompt = f.prompt /\ g.res = f.res
          /\ g.item = f.item /\ g.session = f.session /\ g.conn = f.conn /\ g.val = f.val
      BY <1>2 DEF Frames
    <2>4. StageOf(q, g) = StageOf(q, f)
      BY <2>3 DEF StageOf
    <2> HIDE DEF g
    <2>5. Place("wait", q, g)
      BY <1>1, <1>2, <2>3 DEF Local, Place
    <2>6. Prompted(t, "wait", q, g)
      BY <1>1, <1>2, <2>3, <2>4 DEF Local, Prompted
    <2>7. Effect("wait", q, g)
      BY <1>1, <1>2, <2>3 DEF Local, Effect
    <2>8. Found("wait", q, g)
      BY <1>1, <1>2, <2>3 DEF Local, Found
    <2>9. Local(t, "wait", q, g)
      BY <1>2, <2>2, <2>5, <2>6, <2>7, <2>8 DEF Local, Labels, Closing
    <2>10. Stays(t, "wait", g)
      BY <1>1, <1>2, <1>3, <2>3 DEF Stays, LocalPhase, LocalAnswer
    <2> QED BY <2>2, <2>3, <2>9, <2>10 DEF Steps, Labels
  <1>4. CASE f.net # "ok"
    <2> DEFINE e == BackendError(t, f.net)
               h == [f EXCEPT !.res = e, !.prompt = "none"]
    <2>1. Send(t, "removeMatch", h)
      BY <1>4 DEF Shown
    <2>2. e \in SUBSET Categories /\ e # {} /\ "notfound" \notin e
      BY <1>2, ErrorFacts
    <2> HIDE DEF e
    <2>3. /\ h \in Frames /\ h.res = e /\ h.prompt = "none" /\ h.signals = f.signals
          /\ h.at = f.at /\ h.item = f.item /\ h.done = f.done
      BY <1>2, <2>2 DEF Frames
    <2> HIDE DEF h
    <2> QED BY <1>1, <2>1, <2>2, <2>3, GiveUpSteps
  <1> QED BY <1>3, <1>4

LEMMA CompletedSteps ==
  ASSUME IInv, NEW t \in Threads, Completed(t)
  PROVE  Steps(t)
  <1> DEFINE f == frame[t]
             q == req[t]
             h == [f EXCEPT !.prompt = "none", !.signals = <<>>]
  <1>1. pc[t] = "wait" /\ UNCHANGED req
    BY DEF Completed
  <1>2. /\ f \in Frames /\ q \in Requests /\ f.res = {} /\ Local(t, pc[t], q, f)
        /\ f.net # "NoSuchObject" /\ f.net # "empty" /\ f.at <= Length(q)
    BY <1>1 DEF IInv, Shape, Local, Place, Prompted
  <1>3. /\ h \in Frames /\ h.prompt = "none" /\ h.signals = <<>> /\ h.at = f.at
        /\ h.item = f.item /\ h.done = f.done /\ h.res = {} /\ h.conn = f.conn
        /\ h.net = f.net /\ h.val = f.val
    <2>1. <<>> \in Seq(Completions)
      OBVIOUS
    <2> QED BY <1>2, <2>1 DEF Frames
  <1> HIDE DEF h
  <1>4. /\ \A e \in {{"interaction"}, {"failure"}, {}} : e \in SUBSET Categories
        /\ BackendError(t, "other") \in SUBSET Categories /\ BackendError(t, "other") # {}
        /\ "notfound" \notin BackendError(t, "other")
    BY ErrorFacts DEF Categories
  <1>5. ASSUME NEW e \in SUBSET Categories
        PROVE  LET g == [h EXCEPT !.res = e] IN
               /\ g \in Frames /\ g.prompt = "none" /\ g.signals = <<>> /\ g.at = f.at
               /\ g.item = f.item /\ g.done = f.done /\ g.res = e /\ g.conn = f.conn
               /\ g.net = f.net /\ g.val = f.val
    BY <1>3 DEF Frames
  <1>6. ASSUME NEW e \in SUBSET Categories, e # {}, "notfound" \notin e,
               Send(t, "removeMatch", [h EXCEPT !.res = e])
        PROVE  Steps(t)
    <2> DEFINE g == [h EXCEPT !.res = e]
    <2>1. /\ g \in Frames /\ g.prompt = "none" /\ g.signals = <<>> /\ g.at = f.at
          /\ g.item = f.item /\ g.done = f.done /\ g.res = e
      BY <1>5
    <2>2. Send(t, "removeMatch", g)
      BY <1>6
    <2> HIDE DEF g
    <2> QED BY <1>1, <1>6, <2>1, <2>2, GiveUpSteps
  <1>7. CASE f.signals # <<>> /\ Head(f.signals)[2] \in {"dismissed", "invalid"}
    <2> DEFINE e == PromptError[Head(f.signals)[2]]
    <2>1. Send(t, "removeMatch", [h EXCEPT !.res = e])
      BY <1>7 DEF Completed, h
    <2>2. e \in {{"interaction"}, {"failure"}}
      BY <1>7 DEF PromptError
    <2> HIDE DEF e, h
    <2> QED BY <1>4, <1>6, <2>1, <2>2
  <1>8. CASE f.signals = <<>>
    <2>1. Send(t, "removeMatch", [h EXCEPT !.res = BackendError(t, "other")])
      BY <1>8 DEF Completed, h
    <2> QED BY <1>4, <1>6, <2>1
  <1>9. CASE f.signals # <<>> /\ Head(f.signals)[2] \notin {"dismissed", "invalid"}
    <2> DEFINE k == [h EXCEPT !.res = {}]
               net == IF k.conn = "broken" THEN "other" ELSE "sent"
               g == [k EXCEPT !.net = net]
    <2>1. Head(f.signals)[2] = "confirmed"
      <3>1. f.signals \in Seq(Completions)
        BY <1>2 DEF Frames
      <3>2. Head(f.signals) \in Completions
        BY <1>9, <3>1
      <3> QED BY <1>9, <3>2 DEF Completions
    <2>2. PromptError[Head(f.signals)[2]] = {}
      BY <2>1 DEF PromptError
    <2>3. Send(t, "removeMatch", k)
      BY <1>9, <2>2 DEF Completed, h
    <2>4. /\ k \in Frames /\ k.prompt = "none" /\ k.signals = <<>> /\ k.at = f.at
          /\ k.item = f.item /\ k.done = f.done /\ k.res = {} /\ k.conn = f.conn
          /\ k.val = f.val
      BY <1>4, <1>5
    <2> HIDE DEF k
    <2>5. Moves(t, "removeMatch", q, g) /\ g \in Frames
      BY <1>1, <2>3, <2>4, SendMoves DEF IInv
    <2>6. /\ g.net = net /\ g.at = f.at /\ g.done = f.done
          /\ g.signals = <<>> /\ g.prompt = "none" /\ g.res = {}
          /\ g.item = f.item /\ g.conn = f.conn /\ g.val = f.val
      BY <2>4 DEF Frames
    <2>7. net \in {"other", "sent"} /\ StageOf(q, g) = StageOf(q, f)
      BY <2>6 DEF StageOf
    <2> HIDE DEF g, net
    <2>8. f.at = Length(q) => f.done
      BY <1>2, <1>9, <2>1 DEF Local, Prompted
    <2>9. Place("removeMatch", q, g)
      BY <1>2, <2>6 DEF Place
    <2>10. Prompted(t, "removeMatch", q, g)
      <3>1. DOMAIN g.signals = {}
        BY <2>6
      <3> QED BY <1>1, <1>2, <2>6, <2>7, <3>1 DEF Local, Prompted
    <2>11. Effect("removeMatch", q, g)
      <3>1. f.done => f.at = Length(q)
        BY <1>2 DEF Local, Effect
      <3> QED BY <2>6, <2>8, <3>1, Zenon DEF Effect
    <2>12. Found("removeMatch", q, g)
      BY <1>1, <1>2, <2>6 DEF Local, Found
    <2>13. Local(t, "removeMatch", q, g)
      BY <1>2, <2>5, <2>9, <2>10, <2>11, <2>12 DEF Local, Labels, Closing
    <2>14. Stays(t, "removeMatch", g)
      BY <1>1, <1>2, <2>6, <2>7 DEF Stays, LocalPhase, LocalAnswer
    <2> QED BY <2>5, <2>6, <2>13, <2>14 DEF Steps, Labels
  <1> QED BY <1>7, <1>8, <1>9

LEMMA InterruptedSteps ==
  ASSUME IInv, NEW t \in Threads, Interrupted(t)
  PROVE  Steps(t)
  <1> DEFINE h == [frame[t] EXCEPT !.res = {"ended"}, !.prompt = "none", !.signals = <<>>]
  <1>1. pc[t] \in {"connect", "call", "addMatch", "prompt", "wait"} /\ UNCHANGED req
    BY DEF Interrupted
  <1>2. frame[t] \in Frames /\ req[t] \in Requests
    BY <1>1 DEF IInv, Shape, Local, Place
  <1>3. {"ended"} \in SUBSET Categories /\ <<>> \in Seq(Completions)
    BY DEF Categories
  <1>4. /\ h \in Frames /\ h.res = {"ended"} /\ h.prompt = "none" /\ h.signals = <<>>
        /\ h.at = frame[t].at /\ h.item = frame[t].item /\ h.done = frame[t].done
        /\ h.session = frame[t].session
    BY <1>2, <1>3 DEF Frames
  <1>5. CASE pc[t] = "connect"
    <2> DEFINE g == [h EXCEPT !.net = "none"]
    <2>1. Stop(t, "return", h)
      BY <1>5 DEF Interrupted
    <2> HIDE DEF h
    <2>2. Moves(t, "return", req[t], g) /\ g \in Frames
      BY <1>1, <1>4, <2>1, SendMoves DEF IInv
    <2>3. frame[t] = NewFrame
      BY <1>5 DEF IInv, Local, Place
    <2>4. /\ g.net = "none" /\ g.res = {"ended"} /\ g.prompt = "none" /\ g.signals = <<>>
          /\ g.at = 1 /\ g.item = "none" /\ ~g.done
      <3>1. NewFrame.at = 1 /\ NewFrame.item = "none" /\ NewFrame.done = FALSE
        BY DEF NewFrame
      <3>2. /\ g.net = "none" /\ g.res = h.res /\ g.prompt = h.prompt /\ g.signals = h.signals
            /\ g.at = h.at /\ g.item = h.item /\ g.done = h.done
        BY <1>4 DEF Frames
      <3> HIDE DEF g
      <3> QED BY <1>4, <2>3, <3>1, <3>2
    <2> HIDE DEF g
    <2>5. DOMAIN g.signals = {}
      BY <2>4
    <2>6. 1 <= Length(req[t])
      BY <2>3 DEF IInv, Local, Place, NewFrame
    <2>7. Local(t, "return", req[t], g)
      <3>1. Place("return", req[t], g) /\ Prompted(t, "return", req[t], g)
        BY <1>2, <2>4, <2>5, <2>6 DEF Place, Prompted
      <3>2. Effect("return", req[t], g) /\ Found("return", req[t], g) /\ Closing("return", g)
        BY <2>4 DEF Effect, Found, Closing
      <3> QED BY <1>2, <2>2, <3>1, <3>2 DEF Local, Labels
    <2>8. Stays(t, "return", g)
      BY <2>4 DEF Stays, LocalPhase
    <2> QED BY <2>2, <2>4, <2>7, <2>8 DEF Steps, Labels
  <1>6. CASE pc[t] \in {"prompt", "wait"}
    <2>1. Send(t, "removeMatch", h)
      BY <1>6 DEF Interrupted
    <2> HIDE DEF h
    <2> QED BY <1>1, <1>4, <1>6, <2>1, GiveUpSteps
  <1>7. CASE pc[t] \in {"call", "addMatch"}
    <2>1. Unwind(t, h)
      BY <1>7 DEF Interrupted
    <2> HIDE DEF h
    <2> QED BY <1>1, <1>3, <1>4, <1>7, <2>1, FailSteps
  <1> QED BY <1>1, <1>5, <1>6, <1>7

LEMMA UnsubscribedSteps ==
  ASSUME IInv, NEW t \in Threads, Unsubscribed(t)
  PROVE  Steps(t)
  <1> DEFINE f == frame[t]
             q == req[t]
             h == [f EXCEPT !.match = FALSE]
  <1>1. pc[t] = "removeMatch" /\ UNCHANGED req
    BY DEF Unsubscribed
  <1>2. /\ f \in Frames /\ q \in Requests /\ Local(t, pc[t], q, f) /\ f.at <= Length(q)
    BY <1>1 DEF IInv, Shape, Local, Place
  <1>3. /\ h \in Frames /\ h.at = f.at /\ h.done = f.done /\ h.res = f.res
        /\ h.signals = f.signals /\ h.prompt = f.prompt /\ h.net = f.net
        /\ h.item = f.item /\ h.conn = f.conn /\ h.val = f.val
    <2>1. h \in Frames
      BY <1>2, ZenonT(60) DEF Frames
    <2> QED BY <1>2, <2>1 DEF Frames
  <1>4. CASE f.res = {}
    <2>1. Proceed(t, h)
      BY <1>3, <1>4 DEF Unsubscribed
    <2> HIDE DEF h
    <2>2. f.done <=> f.at = Length(q)
      BY <1>1, <1>2, <1>4 DEF Local, Effect
    <2>3. h.done <=> h.at = Length(q)
      BY <1>3, <2>2, Zenon
    <2>4. f.prompt \notin {"new", "shown"} /\ f.signals = <<>>
      BY <1>1, <1>2, <1>4 DEF Local, Prompted
    <2>5. f.item # "none" <=> q.op # "set" /\ f.at >= 2
      <3>1. StageOf(q, f) # "find"
        BY <1>1, <1>2, <1>4 DEF Local, Prompted
      <3>2. q \in Requests \cup {NoRequest}
        BY <1>2
      <3>3. ~(q.op \in {"get", "delete"} /\ f.at = 2)
        BY <1>2, <3>1, <3>2, ScriptFacts
      <3> QED BY <1>1, <1>2, <1>4, <3>3 DEF Local, Found, Requests, Frames
    <2>6. PICK p \in {"call", "closeSession", "close"}, g \in Frames :
            /\ Moves(t, p, q, g) /\ Local(t, p, q, g)
            /\ g.item \in {"none", h.item}
            /\ LocalPhase(p, g) = IF h.done THEN "applied"
                                  ELSE IF h.conn = "broken" THEN "failed"
                                  ELSE IF h.item = "gone" THEN "applied" ELSE "called"
            /\ LocalAnswer(p, q, g) =
                  IF h.done THEN IF q.op = "get" THEN h.val ELSE "ok"
                  ELSE IF h.conn # "broken" /\ h.item = "gone" THEN "notfound" ELSE None
      BY <1>1, <1>2, <1>3, <1>4, <2>1, <2>3, <2>4, <2>5, ProceedSteps DEF IInv
    <2>7. f.net \notin {"empty", "NoSuchObject"}
      BY <1>1, <1>2 DEF Local, Prompted
    <2>8. Stays(t, p, g)
      BY <1>1, <1>3, <1>4, <2>6, <2>7 DEF Stays, LocalPhase, LocalAnswer
    <2> QED BY <1>3, <2>6, <2>8 DEF Steps, Labels
  <1>5. CASE f.res # {}
    <2>1. Unwind(t, h)
      BY <1>3, <1>5 DEF Unsubscribed
    <2> HIDE DEF h
    <2>2. f.res \in SUBSET Categories
      BY <1>2 DEF Frames
    <2>3. ASSUME "notfound" \in f.res
          PROVE  /\ LocalPhase(pc[t], f) = "applied" /\ LocalAnswer(pc[t], q, f) = "notfound"
      <3>1. ~f.done
        BY <1>2, <2>3 DEF Local, Effect
      <3> QED BY <1>1, <1>5, <2>3, <3>1 DEF LocalPhase, LocalAnswer
    <2> QED BY <1>1, <1>3, <1>5, <2>1, <2>2, <2>3, FailSteps
  <1> QED BY <1>4, <1>5

\* The end of the operation: its session and its connection are closed.
LEMMA SessionClosedSteps ==
  ASSUME IInv, NEW t \in Threads, SessionClosed(t)
  PROVE  Steps(t)
  <1> DEFINE f == frame[t]
             q == req[t]
             e == CASE f.net = "ok"   -> {}
                    [] f.net = "sent" -> {"timeout"}
                    [] OTHER          -> {BusCategory(f.net)}
             h == [f EXCEPT !.res = @ \cup e]
             g == [h EXCEPT !.net = "none"]
  <1>1. pc[t] = "closeSession" /\ UNCHANGED req /\ Stop(t, "close", h)
    BY DEF SessionClosed
  <1>2. /\ f \in Frames /\ q \in Requests /\ Local(t, pc[t], q, f) /\ f.at <= Length(q)
    BY <1>1 DEF IInv, Shape, Local, Place
  <1>3. /\ e \in SUBSET (CleanupErrors \cap (Categories \ {"notfound"}))
        /\ f.net # "ok" => e # {}
        /\ f.net = "ok" => e = {}
    <2>1. f.net \in CleanupReplies
      BY <1>1, <1>2 DEF Local, Closing
    <2>2. CASE f.net = "ok"
      BY <2>2
    <2>3. CASE f.net = "sent"
      <3>1. e = {"timeout"}
        BY <2>3
      <3> QED BY <2>3, <3>1 DEF CleanupErrors, Categories
    <2>4. CASE f.net \notin {"ok", "sent"}
      <3>1. e = {BusCategory(f.net)}
        BY <2>4
      <3> QED BY <2>1, <2>4, <3>1, CleanupFacts
    <2> QED BY <2>2, <2>3, <2>4
  <1> HIDE DEF e
  <1>4. f.res \cup e \in SUBSET Categories
    BY <1>2, <1>3 DEF Frames
  <1>5. h \in Frames
    BY <1>2, <1>4 DEF Frames
  <1>6. Moves(t, "close", q, g) /\ g \in Frames
    BY <1>1, <1>5, SendMoves DEF IInv
  <1>7. /\ g.net = "none" /\ g.at = f.at /\ g.done = f.done /\ g.res = f.res \cup e
        /\ g.signals = f.signals /\ g.prompt = f.prompt /\ g.session = f.session
        /\ g.item = f.item /\ g.conn = f.conn /\ g.val = f.val
    BY <1>2, <1>5 DEF Frames
  <1> HIDE DEF g, h
  <1>8. f.signals = <<>> /\ f.prompt \notin {"new", "shown"}
    BY <1>1, <1>2 DEF Local, Prompted
  <1>9. Place("close", q, g) /\ Prompted(t, "close", q, g)
    <2>1. DOMAIN g.signals = {}
      BY <1>7, <1>8
    <2> QED BY <1>2, <1>7, <1>8, <2>1 DEF Place, Prompted
  <1>10. g.res = {} => f.res = {}
    BY <1>7
  <1>11. "notfound" \in g.res <=> "notfound" \in f.res
    BY <1>3, <1>7
  <1>12. Effect("close", q, g)
    <2>1. /\ f.done => f.at = Length(q)
          /\ f.res = {} => f.done
          /\ "notfound" \in f.res => ~f.done
      BY <1>1, <1>2 DEF Local, Effect
    <2> QED BY <1>7, <1>10, <1>11, <2>1, Zenon DEF Effect
  <1>13. Found("close", q, g)
    BY <1>1, <1>2, <1>7, <1>10 DEF Local, Found
  <1>14. Closing("close", g)
    BY <1>1, <1>2, <1>3, <1>7 DEF Local, Closing
  <1>15. Local(t, "close", q, g)
    BY <1>2, <1>6, <1>9, <1>12, <1>13, <1>14 DEF Local, Labels
  <1>16. Stays(t, "close", g)
    <2>1. /\ f.res = {} => f.done
          /\ "notfound" \in f.res => ~f.done
      BY <1>1, <1>2 DEF Local, Effect
    <2>2. f.done \in BOOLEAN
      BY <1>2 DEF Frames
    <2>3. CASE "notfound" \in f.res
      BY <1>1, <1>7, <1>11, <2>1, <2>3 DEF Stays, LocalPhase, LocalAnswer
    <2>4. CASE "notfound" \notin f.res /\ g.res # {}
      BY <1>11, <2>4 DEF Stays, LocalPhase
    <2>5. CASE g.res = {}
      <3>1. f.done /\ g.done
        BY <1>7, <1>10, <2>1, <2>5, Zenon
      <3>2. LocalPhase("close", g) = "applied" /\ LocalPhase(pc[t], f) = "applied"
        BY <1>1, <1>10, <2>5, <3>1 DEF LocalPhase
      <3> QED BY <1>1, <1>7, <3>1, <3>2 DEF Stays, LocalAnswer
    <2> QED BY <2>3, <2>4, <2>5
  <1> QED BY <1>6, <1>7, <1>15, <1>16 DEF Steps, Labels

LEMMA CloseSteps ==
  ASSUME IInv, NEW t \in Threads, Close(t)
  PROVE  Steps(t)
  <1> DEFINE f == frame[t]
             q == req[t]
  <1>1. pc[t] = "close" /\ UNCHANGED req
    BY DEF Close
  <1>2. PICK e \in {{}, {"failure"}} :
          Stop(t, "return", [f EXCEPT !.res = @ \cup e, !.conn = "none",
                                      !.session = "none", !.match = FALSE])
    BY DEF Close
  <1> DEFINE h == [f EXCEPT !.res = @ \cup e, !.conn = "none",
                            !.session = "none", !.match = FALSE]
             g == [h EXCEPT !.net = "none"]
  <1>3. /\ f \in Frames /\ q \in Requests /\ Local(t, pc[t], q, f) /\ f.at <= Length(q)
    BY <1>1 DEF IInv, Shape, Local, Place
  <1>4. f.res \cup e \in SUBSET Categories
    BY <1>3 DEF Frames, Categories
  <1>5. h \in Frames
    BY <1>3, <1>4, ZenonT(60) DEF Frames
  <1>6. Moves(t, "return", q, g) /\ g \in Frames
    BY <1>1, <1>2, <1>5, SendMoves DEF IInv
  <1>7. /\ g.net = "none" /\ g.at = f.at /\ g.done = f.done /\ g.res = f.res \cup e
        /\ g.signals = f.signals /\ g.prompt = f.prompt
        /\ g.item = f.item /\ g.val = f.val
    BY <1>3, <1>5 DEF Frames
  <1> HIDE DEF g, h
  <1>8. f.signals = <<>> /\ f.prompt \notin {"new", "shown"}
    BY <1>1, <1>3 DEF Local, Prompted
  <1>9. Place("return", q, g) /\ Prompted(t, "return", q, g)
    <2>1. DOMAIN g.signals = {}
      BY <1>7, <1>8
    <2> QED BY <1>3, <1>7, <1>8, <2>1 DEF Place, Prompted
  <1>10. g.res = {} => f.res = {}
    BY <1>7
  <1>11. "notfound" \in g.res <=> "notfound" \in f.res
    BY <1>7
  <1>12. /\ f.done => f.at = Length(q)
         /\ f.res = {} => f.done
         /\ "notfound" \in f.res => ~f.done
    BY <1>1, <1>3 DEF Local, Effect
  <1>13. Effect("return", q, g)
    BY <1>7, <1>10, <1>11, <1>12, Zenon DEF Effect
  <1>14. Found("return", q, g)
    BY <1>1, <1>3, <1>7, <1>10 DEF Local, Found
  <1>15. Local(t, "return", q, g)
    BY <1>3, <1>6, <1>9, <1>13, <1>14 DEF Local, Labels, Closing
  <1>16. Stays(t, "return", g)
    <2>1. CASE "notfound" \in f.res
      BY <1>1, <1>7, <1>11, <1>12, <2>1 DEF Stays, LocalPhase, LocalAnswer
    <2>2. CASE "notfound" \notin f.res /\ g.res # {}
      BY <1>11, <2>2 DEF Stays, LocalPhase
    <2>3. CASE g.res = {}
      <3>1. f.done /\ g.done
        BY <1>7, <1>10, <1>12, <2>3, Zenon
      <3>2. LocalPhase("return", g) = "applied" /\ LocalPhase(pc[t], f) = "applied"
        BY <1>1, <1>10, <2>3, <3>1 DEF LocalPhase
      <3> QED BY <1>1, <1>7, <3>1, <3>2 DEF Stays, LocalAnswer
    <2> QED BY <2>1, <2>2, <2>3
  <1> QED BY <1>6, <1>7, <1>15, <1>16 DEF Steps, Labels

\* A failure to connect ends the operation at once.
LEMMA ConnectSteps ==
  ASSUME IInv, NEW t \in Threads, Connect(t)
  PROVE  Steps(t)
  <1> DEFINE f == frame[t]
             q == req[t]
  <1>1. pc[t] = "connect" /\ UNCHANGED req
    BY DEF Connect
  <1>2. /\ f \in Frames /\ q \in Requests /\ f = NewFrame /\ f.at <= Length(q)
    BY <1>1 DEF IInv, Shape, Local, Place
  <1>3. /\ f.at = 1 /\ f.item = "none" /\ f.done = FALSE /\ f.res = {} /\ f.prompt = "none"
        /\ f.signals = <<>> /\ f.net = "none" /\ f.conn = "none" /\ f.session = "none"
    BY <1>2 DEF NewFrame
  <1>4. LocalPhase(pc[t], f) = "called" /\ LocalAnswer(pc[t], q, f) = None
    BY <1>1, <1>3 DEF LocalPhase, LocalAnswer
  <1>5. /\ q.op \in {"get", "set", "delete"} /\ Length(q) > 1
    BY <1>2, ScriptFacts DEF Requests
  <1>6. CASE Send(t, "call", [f EXCEPT !.conn = "open"])
    <2> DEFINE h == [f EXCEPT !.conn = "open"]
               g == [h EXCEPT !.net = IF h.conn = "broken" THEN "other" ELSE "sent"]
    <2>1. h \in Frames /\ h.conn = "open"
      BY <1>2 DEF Frames
    <2>2. Moves(t, "call", q, g) /\ g \in Frames
      BY <1>1, <1>6, <2>1, SendMoves DEF IInv
    <2>3. /\ g.net = "sent" /\ g.at = 1 /\ g.done = FALSE /\ g.res = {}
          /\ g.signals = <<>> /\ g.prompt = "none" /\ g.item = "none" /\ g.conn = "open"
      BY <1>2, <1>3, <2>1 DEF Frames
    <2> HIDE DEF g, h
    <2>4. DOMAIN g.signals = {}
      BY <2>3
    <2>5. Place("call", q, g) /\ Prompted(t, "call", q, g)
      BY <1>2, <1>3, <2>3, <2>4 DEF Place, Prompted
    <2>6. Effect("call", q, g) /\ Found("call", q, g)
      BY <1>5, <2>3 DEF Effect, Found
    <2>7. Local(t, "call", q, g)
      BY <1>2, <2>2, <2>5, <2>6 DEF Local, Labels, Closing
    <2>8. Stays(t, "call", g)
      BY <1>4, <2>3 DEF Stays, LocalPhase, LocalAnswer
    <2> QED BY <2>2, <2>3, <2>7, <2>8 DEF Steps, Labels
  <1>7. ASSUME NEW r \in ConnectErrors,
               Stop(t, "return", [f EXCEPT !.res = IF Live(t) THEN r ELSE {"ended"}])
        PROVE  Steps(t)
    <2> DEFINE e == IF Live(t) THEN r ELSE {"ended"}
               h == [f EXCEPT !.res = e]
               g == [h EXCEPT !.net = "none"]
    <2>2. e \in SUBSET Categories /\ e # {} /\ "notfound" \notin e
      BY DEF ConnectErrors, Categories
    <2> HIDE DEF e
    <2>3. h \in Frames
      BY <1>2, <2>2 DEF Frames
    <2>4. Stop(t, "return", h)
      BY <1>7 DEF e
    <2>5. Moves(t, "return", q, g) /\ g \in Frames
      BY <1>1, <2>3, <2>4, SendMoves DEF IInv
    <2>6. /\ g.net = "none" /\ g.at = 1 /\ g.done = FALSE /\ g.res = e
          /\ g.signals = <<>> /\ g.prompt = "none" /\ g.item = "none"
      BY <1>2, <1>3, <2>3 DEF Frames
    <2> HIDE DEF g, h
    <2>7. DOMAIN g.signals = {}
      BY <2>6
    <2>8. Place("return", q, g) /\ Prompted(t, "return", q, g)
      BY <1>2, <1>3, <2>6, <2>7 DEF Place, Prompted
    <2>9. Effect("return", q, g) /\ Found("return", q, g)
      BY <2>2, <2>6 DEF Effect, Found
    <2>10. Local(t, "return", q, g)
      BY <1>2, <2>5, <2>8, <2>9 DEF Local, Labels, Closing
    <2>11. Stays(t, "return", g)
      BY <2>2, <2>6 DEF Stays, LocalPhase
    <2> QED BY <2>5, <2>6, <2>10, <2>11 DEF Steps, Labels
  <1> QED BY <1>6, <1>7 DEF Connect

\* A client's step keeps the invariant.
LEMMA StepsInv ==
  ASSUME IInv, NEW t \in Threads, Steps(t), UNCHANGED <<store, locked, ctx, calls, faults>>,
         IsABag(orphans'), BagToSet(orphans') \subseteq {q \in Requests : q.op # "get"}
  PROVE  IInv'
  <1>1. PICK p \in Labels, f \in Frames :
            /\ Moves(t, p, req[t], f) /\ Local(t, p, req[t], f)
            /\ f.item \in {"none", frame[t].item}
    BY DEF Steps
  <1>2. /\ pc \in [Threads -> Labels] /\ frame \in [Threads -> Frames]
        /\ req \in [Threads -> Requests \cup {NoRequest}]
    BY DEF IInv, Shape
  <1>3. /\ pc'[t] = p /\ frame'[t] = f /\ req'[t] = req[t]
        /\ \A u \in Threads \ {t} : pc'[u] = pc[u] /\ frame'[u] = frame[u] /\ req'[u] = req[u]
    BY <1>1, <1>2 DEF Moves
  <1>4. Shape'
    BY <1>1, <1>2 DEF IInv, Shape, Moves
  <1>5. ASSUME NEW u \in Threads PROVE Local(u, pc'[u], req'[u], frame'[u])
    BY <1>1, <1>3 DEF IInv
  <1>6. ASSUME NEW u \in Threads, frame'[u].item = "live" PROVE store'[req'[u].key] # None
    BY <1>1, <1>3, <1>6 DEF IInv, Service, Key
  <1>7. Service'
    BY <1>6 DEF IInv, Service, Key
  <1> QED BY <1>4, <1>5, <1>7 DEF IInv

-----------------------------------------------------------------------------
(* The service's steps.                                                      *)

\* The operation of t takes effect by reading the store.
Reads(t, g) ==
    LET q == req[t] IN
    /\ LocalPhase(pc[t], frame[t]) = "called" /\ LocalPhase(pc[t], g) = "applied"
    /\ q.op = "get" \/ (q.op = "delete" /\ store[q.key] = None)
    /\ LocalAnswer(pc[t], q, g) = IF store[q.key] = None THEN "notfound" ELSE store[q.key]

\* What an answer of the service to t comes to when the store stays.
Tells(t) ==
    \E g \in Frames :
        /\ frame' = [frame EXCEPT ![t] = g]
        /\ Local(t, pc[t], req[t], g)
        /\ g.item = "live" => frame[t].item = "live" \/ store[Key(t)] # None
        /\ UNCHANGED <<store, orphans>>
        /\ Stays(t, pc[t], g) \/ Reads(t, g)

\* t waits for the reply to a call of its script.
LEMMA CallFacts ==
  ASSUME IInv, NEW t \in Threads, Serves(t, "call")
  PROVE  /\ frame[t] \in Frames /\ req[t] \in Requests /\ Local(t, "call", req[t], frame[t])
         /\ Key(t) \in Keys /\ Stage(t) = StageOf(req[t], frame[t])
         /\ frame[t].at <= Length(req[t]) /\ frame[t].at \in 1..Length(req[t])
         /\ frame[t].res = {} /\ ~frame[t].done /\ frame[t].signals = <<>>
         /\ frame[t].prompt \notin {"new", "shown"} /\ frame[t].conn = "open"
         /\ frame[t].item # "none" <=> req[t].op # "set" /\ frame[t].at > 2
         /\ LocalPhase("call", frame[t]) = IF frame[t].item = "gone" THEN "applied" ELSE "called"
         /\ LocalAnswer("call", req[t], frame[t]) =
               IF frame[t].item = "gone" THEN "notfound" ELSE None
  <1> DEFINE f == frame[t]
             q == req[t]
  <1>1. pc[t] = "call" /\ f.net = "sent" /\ f.conn = "open"
    BY DEF Serves
  <1>2. f \in Frames /\ q \in Requests /\ Local(t, "call", q, f) /\ f.at <= Length(q)
        /\ f.res = {} /\ f.at \in 1..5
    BY <1>1 DEF IInv, Shape, Local, Place, Frames
  <1>3. ~f.done
    BY <1>1, <1>2 DEF Local, Effect
  <1>4. f.signals = <<>> /\ f.prompt \notin {"new", "shown"}
    BY <1>1, <1>2 DEF Local, Prompted
  <1>5. f.item # "none" <=> q.op # "set" /\ f.at > 2
    BY <1>1, <1>2 DEF Local, Found, Requests
  <1>6. Stage(t) = StageOf(q, f)
    BY DEF Stage, StageOf
  <1>7. /\ LocalPhase("call", f) = IF f.item = "gone" THEN "applied" ELSE "called"
        /\ LocalAnswer("call", q, f) = IF f.item = "gone" THEN "notfound" ELSE None
    BY <1>1, <1>2, <1>3 DEF LocalPhase, LocalAnswer
  <1>8. f.at \in 1..Length(q)
    BY <1>2, ScriptFacts
  <1>9. Key(t) \in Keys
    BY <1>2 DEF Key, Requests
  <1> QED BY <1>1, <1>2, <1>3, <1>4, <1>5, <1>6, <1>7, <1>8, <1>9

\* The reply to a call of the script leaves everything but these fields alone.
LEMMA ReplyLocal ==
  ASSUME IInv, NEW t \in Threads, Serves(t, "call"), NEW g \in Frames,
         g.at = frame[t].at, g.res = {}, g.signals = <<>>, g.conn = "open",
         g.prompt \in {"new", "shown"} => g.net = "prompt",
         g.net = "prompt" => Stage(t) \in {"unlock", "unlockItem", "createItem", "deleteItem"},
         g.done <=> g.net = "ok" /\ g.at = Length(req[t]),
         g.item # "none" <=> req[t].op # "set" /\ (g.at > 2 \/ (g.at = 2 /\ g.net = "ok"))
  PROVE  Local(t, pc[t], req[t], g)
  <1> DEFINE f == frame[t]
             q == req[t]
  <1>1. pc[t] = "call" /\ q \in Requests /\ f.at <= Length(q)
    BY CallFacts DEF Serves
  <1>2. StageOf(q, g) = Stage(t)
    BY DEF Stage, StageOf
  <1>3. Place("call", q, g)
    BY <1>1 DEF Place
  <1>4. Prompted(t, "call", q, g)
    <2>1. DOMAIN g.signals = {}
      OBVIOUS
    <2> QED BY <1>2, <2>1 DEF Prompted
  <1>5. Effect("call", q, g)
    BY DEF Effect
  <1>6. Found("call", q, g)
    BY <1>1 DEF Found, Requests
  <1> QED BY <1>1, <1>3, <1>4, <1>5, <1>6 DEF Local, Labels, Closing

LEMMA UnlockTells ==
  ASSUME IInv, NEW t \in Threads, Serves(t, "call"), Stage(t) \in {"unlock", "unlockItem"},
         ServeUnlock(t)
  PROVE  Tells(t) /\ locked' \in BOOLEAN
  <1> DEFINE f == frame[t]
             q == req[t]
  <1>1. /\ f \in Frames /\ f.res = {} /\ f.done = FALSE /\ f.signals = <<>> /\ f.conn = "open"
        /\ f.prompt \notin {"new", "shown"} /\ q \in Requests /\ f.at <= Length(q)
        /\ f.item # "none" <=> q.op # "set" /\ f.at > 2
        /\ Stage(t) = StageOf(q, f) /\ pc[t] = "call"
        /\ LocalPhase("call", frame[t]) = IF frame[t].item = "gone" THEN "applied" ELSE "called"
        /\ LocalAnswer("call", req[t], frame[t]) =
               IF frame[t].item = "gone" THEN "notfound" ELSE None
    BY CallFacts DEF Frames, Serves
  <1>2. f.at # Length(q) /\ ~(q.op # "set" /\ f.at = 2)
    <2>1. q \in Requests \cup {NoRequest}
      BY <1>1
    <2> QED BY <1>1, <2>1, ScriptFacts
  <1>3. ASSUME NEW c \in {"ok", "NoSuchObject", "prompt"}, NEW p \in {"none", "new", "shown", "done"},
               p \in {"new", "shown"} => c = "prompt", Tell(t, Answer([f EXCEPT !.prompt = p], c)),
               c = "NoSuchObject" => f.item = "gone"
        PROVE  Tells(t)
    <2> DEFINE g == Answer([f EXCEPT !.prompt = p], c)
    <2>1. /\ g \in Frames /\ g.at = f.at /\ g.res = {} /\ g.signals = <<>> /\ g.conn = "open"
          /\ g.prompt = p /\ g.net = c /\ g.item = f.item /\ g.done = FALSE
      BY <1>1, <1>3 DEF Answer, Frames, Replies, BusErrors
    <2> HIDE DEF g
    <2>2. ~g.done
      BY <2>1
    <2>3. Local(t, pc[t], q, g)
      BY <1>1, <1>2, <1>3, <2>1, <2>2, ReplyLocal
    <2>4. Stays(t, pc[t], g)
      BY <1>1, <1>3, <2>1, <2>2 DEF Stays, LocalPhase, LocalAnswer
    <2>5. frame' = [frame EXCEPT ![t] = g] /\ UNCHANGED <<store, orphans>>
      BY <1>3 DEF Tell, g
    <2> QED BY <2>1, <2>3, <2>4, <2>5 DEF Tells
  <1>4. f = [f EXCEPT !.prompt = f.prompt]
    BY <1>1 DEF Frames
  <1>5. f.prompt \in {"none", "new", "shown", "done"}
    BY <1>1 DEF Frames
  <1>6. ASSUME Tell(t, Answer(f, "ok")) PROVE Tells(t)
    BY <1>1, <1>3, <1>4, <1>5, <1>6
  <1>7. ASSUME Tell(t, NewPrompt(f)) PROVE Tells(t)
    BY <1>3, <1>7 DEF NewPrompt
  <1>8. ASSUME Tell(t, Answer(f, "NoSuchObject")), f.item = "gone" PROVE Tells(t)
    BY <1>1, <1>3, <1>4, <1>5, <1>8
  <1>9. locked' \in BOOLEAN
    BY DEF ServeUnlock, IInv, Service
  <1> QED BY <1>6, <1>7, <1>8, <1>9 DEF ServeUnlock

LEMMA FindTells ==
  ASSUME IInv, NEW t \in Threads, Serves(t, "call"), Stage(t) = "find", ServeFind(t)
  PROVE  Tells(t)
  <1> DEFINE f == frame[t]
             q == req[t]
  <1>1. /\ f \in Frames /\ f.res = {} /\ f.done = FALSE /\ f.signals = <<>> /\ f.conn = "open"
        /\ f.prompt \notin {"new", "shown"} /\ q \in Requests /\ f.at <= Length(q)
        /\ f.item # "none" <=> q.op # "set" /\ f.at > 2
        /\ Stage(t) = StageOf(q, f) /\ pc[t] = "call" /\ f.at \in 1..5
        /\ LocalPhase("call", frame[t]) = IF frame[t].item = "gone" THEN "applied" ELSE "called"
    BY CallFacts DEF Frames, Serves
  <1>2. f.at # Length(q) /\ q.op \in {"get", "delete"} /\ f.at = 2
    <2>1. q \in Requests \cup {NoRequest}
      BY <1>1
    <2> QED BY <1>1, <2>1, ScriptFacts
  <1>3. f.item = "none"
    BY <1>1, <1>2
  <1>4. CASE store[Key(t)] = None
    <2> DEFINE g == Answer(f, "empty")
    <2>1. /\ g \in Frames /\ g.at = f.at /\ g.res = {} /\ g.signals = <<>> /\ g.conn = "open"
          /\ g.prompt = f.prompt /\ g.net = "empty" /\ g.item = f.item /\ g.done = FALSE
      BY <1>1 DEF Answer, Frames, Replies, BusErrors
    <2>2. frame' = [frame EXCEPT ![t] = g] /\ UNCHANGED <<store, orphans>>
      BY <1>4 DEF ServeFind, Tell
    <2> HIDE DEF g
    <2>3. Local(t, pc[t], q, g)
      BY <1>1, <1>2, <2>1, ReplyLocal
    <2>4. Reads(t, g)
      BY <1>1, <1>2, <1>3, <1>4, <2>1 DEF Reads, LocalPhase, LocalAnswer, Key
    <2> QED BY <2>1, <2>2, <2>3, <2>4 DEF Tells
  <1>5. CASE store[Key(t)] # None
    <2> DEFINE g == Answer([f EXCEPT !.item = "live"], "ok")
    <2>1. /\ g \in Frames /\ g.at = f.at /\ g.res = {} /\ g.signals = <<>> /\ g.conn = "open"
          /\ g.prompt = f.prompt /\ g.net = "ok" /\ g.item = "live" /\ g.done = FALSE
      BY <1>1 DEF Answer, Frames, Replies, BusErrors
    <2>2. frame' = [frame EXCEPT ![t] = g] /\ UNCHANGED <<store, orphans>>
      BY <1>5 DEF ServeFind, Tell
    <2> HIDE DEF g
    <2>3. Local(t, pc[t], q, g)
      BY <1>1, <1>2, <2>1, ReplyLocal
    <2>4. Stays(t, pc[t], g)
      BY <1>1, <1>2, <1>3, <2>1 DEF Stays, LocalPhase, LocalAnswer
    <2> QED BY <1>5, <2>1, <2>2, <2>3, <2>4 DEF Tells
  <1> QED BY <1>4, <1>5

LEMMA SessionTells ==
  ASSUME IInv, NEW t \in Threads, Serves(t, "call"), Stage(t) = "openSession",
         ServeOpenSession(t)
  PROVE  Tells(t)
  <1> DEFINE f == frame[t]
             q == req[t]
             g == Answer([f EXCEPT !.session = "open"], "ok")
  <1>1. /\ f \in Frames /\ f.res = {} /\ f.done = FALSE /\ f.signals = <<>> /\ f.conn = "open"
        /\ f.prompt \notin {"new", "shown"} /\ q \in Requests /\ f.at <= Length(q)
        /\ f.item # "none" <=> q.op # "set" /\ f.at > 2
        /\ Stage(t) = StageOf(q, f) /\ pc[t] = "call" /\ f.at \in 1..5
        /\ LocalPhase("call", f) = IF f.item = "gone" THEN "applied" ELSE "called"
        /\ LocalAnswer("call", q, f) = IF f.item = "gone" THEN "notfound" ELSE None
    BY CallFacts DEF Frames, Serves
  <1>2. f.at # Length(q) /\ ~(q.op # "set" /\ f.at = 2)
    <2>1. q \in Requests \cup {NoRequest}
      BY <1>1
    <2> QED BY <1>1, <2>1, ScriptFacts
  <1>3. /\ g \in Frames /\ g.at = f.at /\ g.res = {} /\ g.signals = <<>> /\ g.conn = "open"
        /\ g.prompt = f.prompt /\ g.net = "ok" /\ g.item = f.item /\ g.done = FALSE
    BY <1>1 DEF Answer, Frames, Replies, BusErrors
  <1>4. frame' = [frame EXCEPT ![t] = g] /\ UNCHANGED <<store, orphans>>
    BY DEF ServeOpenSession, Tell
  <1> HIDE DEF g
  <1>5. Local(t, pc[t], q, g)
    BY <1>1, <1>2, <1>3, ReplyLocal
  <1>6. Stays(t, pc[t], g)
    BY <1>1, <1>3 DEF Stays, LocalPhase, LocalAnswer
  <1> QED BY <1>3, <1>4, <1>5, <1>6 DEF Tells

\* A call of the script that gets an error, or none of its effect.
LEMMA RefusedTells ==
  ASSUME IInv, NEW t \in Threads, Serves(t, "call"),
         NEW c \in BusErrors \cup {"NoSuchObject", "IsLocked"},
         c = "NoSuchObject" => frame[t].item = "gone", Tell(t, Answer(frame[t], c))
  PROVE  Tells(t)
  <1> DEFINE f == frame[t]
             q == req[t]
             g == Answer(f, c)
  <1>1. /\ f \in Frames /\ f.res = {} /\ f.done = FALSE /\ f.signals = <<>> /\ f.conn = "open"
        /\ f.prompt \notin {"new", "shown"} /\ q \in Requests /\ f.at <= Length(q)
        /\ f.item # "none" <=> q.op # "set" /\ f.at > 2
        /\ pc[t] = "call"
        /\ LocalPhase("call", f) = IF f.item = "gone" THEN "applied" ELSE "called"
        /\ LocalAnswer("call", q, f) = IF f.item = "gone" THEN "notfound" ELSE None
    BY CallFacts DEF Frames, Serves
  <1>2. /\ g \in Frames /\ g.at = f.at /\ g.res = {} /\ g.signals = <<>> /\ g.conn = "open"
        /\ g.prompt = f.prompt /\ g.net = c /\ g.item = f.item /\ g.done = FALSE
    BY <1>1 DEF Answer, Frames, Replies, BusErrors
  <1>3. frame' = [frame EXCEPT ![t] = g] /\ UNCHANGED <<store, orphans>>
    BY DEF Tell
  <1> HIDE DEF g
  <1>4. Local(t, pc[t], q, g)
    <2>1. ~g.done /\ g.net \notin {"ok", "prompt", "empty"}
      BY <1>2 DEF BusErrors
    <2>2. g.done <=> g.net = "ok" /\ g.at = Length(q)
      BY <2>1
    <2>3. g.item # "none" <=> q.op # "set" /\ (g.at > 2 \/ (g.at = 2 /\ g.net = "ok"))
      BY <1>1, <1>2, <2>1
    <2>4. g.prompt \notin {"new", "shown"}
      BY <1>1, <1>2
    <2> QED BY <1>1, <1>2, <2>1, <2>2, <2>3, <2>4, ReplyLocal
  <1>5. Stays(t, pc[t], g)
    BY <1>1, <1>2 DEF Stays, LocalPhase, LocalAnswer, BusErrors
  <1> QED BY <1>2, <1>3, <1>4, <1>5 DEF Tells

LEMMA GetSecretTells ==
  ASSUME IInv, NEW t \in Threads, Serves(t, "call"), Stage(t) = "getSecret", ServeGetSecret(t)
  PROVE  Tells(t)
  <1> DEFINE f == frame[t]
             q == req[t]
  <1>1. /\ f \in Frames /\ f.res = {} /\ f.done = FALSE /\ f.signals = <<>> /\ f.conn = "open"
        /\ f.prompt \notin {"new", "shown"} /\ q \in Requests /\ f.at <= Length(q)
        /\ f.item # "none" <=> q.op # "set" /\ f.at > 2
        /\ Stage(t) = StageOf(q, f) /\ pc[t] = "call" /\ f.at \in 1..5 /\ Key(t) \in Keys
        /\ LocalPhase("call", frame[t]) = IF frame[t].item = "gone" THEN "applied" ELSE "called"
    BY CallFacts DEF Frames, Serves
  <1>2. f.at = Length(q) /\ q.op = "get" /\ f.at = 5
    <2>1. q \in Requests \cup {NoRequest}
      BY <1>1
    <2> QED BY <1>1, <2>1, ScriptFacts
  <1>3. CASE f.item = "gone" \/ f.session = "lost" \/ locked
    BY <1>3, RefusedTells DEF ServeGetSecret, BusErrors
  <1>4. CASE ~(f.item = "gone" \/ f.session = "lost" \/ locked)
    <2> DEFINE g == Answer([f EXCEPT !.val = store[Key(t)], !.done = TRUE], "ok")
    <2>1. f.item = "live" /\ store[Key(t)] \in Values /\ store[Key(t)] # None
      <3>1. f.item = "live"
        BY <1>1, <1>2, <1>4 DEF Frames
      <3> QED BY <1>1, <3>1 DEF IInv, Service
    <2>2. [f EXCEPT !.val = store[Key(t)]] \in Frames
      BY <1>1, <2>1 DEF Frames
    <2> DEFINE h == [f EXCEPT !.val = store[Key(t)], !.done = TRUE]
    <2>3. h \in Frames
      BY <2>2, ZenonT(60) DEF Frames
    <2>4. /\ g \in Frames /\ g.at = f.at /\ g.res = {} /\ g.signals = <<>> /\ g.conn = "open"
          /\ g.prompt = f.prompt /\ g.net = "ok" /\ g.item = f.item /\ g.done
          /\ g.val = store[Key(t)]
      <3>1. /\ h.at = f.at /\ h.res = {} /\ h.signals = <<>> /\ h.conn = "open"
            /\ h.prompt = f.prompt /\ h.item = f.item /\ h.val = store[Key(t)]
        BY <1>1 DEF Frames
      <3>2. h.done
        BY <1>1, Zenon DEF Frames
      <3>3. g = [h EXCEPT !.net = "ok"]
        BY DEF Answer
      <3> HIDE DEF h, g
      <3> QED BY <2>3, <3>1, <3>2, <3>3 DEF Frames, Replies, BusErrors
    <2>5. frame' = [frame EXCEPT ![t] = g] /\ UNCHANGED <<store, orphans>>
      BY <1>4 DEF ServeGetSecret, Tell
    <2> HIDE DEF g
    <2>6. Local(t, pc[t], q, g)
      <3>1. g.done <=> g.net = "ok" /\ g.at = Length(q)
        BY <1>2, <2>4
      <3>2. g.item # "none" <=> q.op # "set" /\ (g.at > 2 \/ (g.at = 2 /\ g.net = "ok"))
        BY <1>1, <1>2, <2>4
      <3>3. g.prompt \notin {"new", "shown"} /\ g.net # "prompt"
        BY <1>1, <2>4
      <3> QED BY <1>1, <2>4, <3>1, <3>2, <3>3, ReplyLocal
    <2>7. Reads(t, g)
      BY <1>1, <1>2, <2>1, <2>4 DEF Reads, LocalPhase, LocalAnswer, Key
    <2> QED BY <2>1, <2>4, <2>5, <2>6, <2>7 DEF Tells
  <1> QED BY <1>3, <1>4

LEMMA MutationTells ==
  ASSUME IInv, NEW t \in Threads, Serves(t, "call"), Stage(t) \in {"createItem", "deleteItem"},
         ServeMutation(t)
  PROVE  \/ Tells(t)
         \/ /\ frame[t].item # "gone"
            /\ Write(req[t], [frame EXCEPT ![t] = Answer([@ EXCEPT !.done = TRUE], "ok")],
                     orphans)
  <1> DEFINE f == frame[t]
             q == req[t]
  <1>1. /\ f \in Frames /\ f.res = {} /\ f.done = FALSE /\ f.signals = <<>> /\ f.conn = "open"
        /\ f.prompt \notin {"new", "shown"} /\ q \in Requests /\ f.at <= Length(q)
        /\ f.item # "none" <=> q.op # "set" /\ f.at > 2
        /\ Stage(t) = StageOf(q, f) /\ pc[t] = "call"
        /\ LocalPhase("call", f) = IF f.item = "gone" THEN "applied" ELSE "called"
        /\ LocalAnswer("call", q, f) = IF f.item = "gone" THEN "notfound" ELSE None
    BY CallFacts DEF Frames, Serves
  <1>2. f.at = Length(q) /\ ~(q.op # "set" /\ f.at = 2)
    <2>1. q \in Requests \cup {NoRequest}
      BY <1>1
    <2> QED BY <1>1, <2>1, ScriptFacts
  <1>3. ASSUME Tell(t, NewPrompt(f)) PROVE Tells(t)
    <2> DEFINE g == NewPrompt(f)
    <2>1. /\ g \in Frames /\ g.at = f.at /\ g.res = {} /\ g.signals = <<>> /\ g.conn = "open"
          /\ g.prompt = "new" /\ g.net = "prompt" /\ g.item = f.item /\ g.done = FALSE
      BY <1>1 DEF NewPrompt, Answer, Frames, Replies, BusErrors
    <2>2. frame' = [frame EXCEPT ![t] = g] /\ UNCHANGED <<store, orphans>>
      BY <1>3 DEF Tell
    <2> HIDE DEF g
    <2>3. ~g.done
      BY <2>1
    <2>4. Local(t, pc[t], q, g)
      BY <1>1, <1>2, <2>1, <2>3, ReplyLocal
    <2>5. Stays(t, pc[t], g)
      BY <1>1, <2>1 DEF Stays, LocalPhase, LocalAnswer
    <2> QED BY <2>1, <2>2, <2>4, <2>5 DEF Tells
  <1> QED BY <1>3, RefusedTells DEF ServeMutation, BusErrors

\* The bus and the service answer the calls that do not belong to the script.
LEMMA OtherTells ==
  ASSUME IInv, NEW t \in Threads, NEW g \in Frames,
         pc[t] \in Labels \ {"idle", "connect", "call"},
         g.at = frame[t].at, g.res = frame[t].res, g.signals = frame[t].signals,
         g.conn = frame[t].conn, g.item = frame[t].item, g.done = frame[t].done,
         g.val = frame[t].val, g.net \notin {"empty", "NoSuchObject"},
         frame[t].net \notin {"empty", "NoSuchObject"},
         g.prompt = frame[t].prompt \/ (pc[t] = "prompt" /\ frame[t].prompt = "new"),
         pc[t] = "close" => g.session = frame[t].session,
         pc[t] = "closeSession" => g.net \in CleanupReplies /\ (g.net = "ok" => g.session # "open"),
         Tell(t, g)
  PROVE  Tells(t)
  <1> DEFINE f == frame[t]
             q == req[t]
  <1>1. f \in Frames /\ q \in Requests /\ Local(t, pc[t], q, f)
    BY DEF IInv, Shape, Local, Place
  <1>2. StageOf(q, g) = StageOf(q, f)
    BY DEF StageOf
  <1>3. Place(pc[t], q, g)
    BY <1>1 DEF Local, Place
  <1>4. Prompted(t, pc[t], q, g)
    BY <1>1, <1>2 DEF Local, Prompted
  <1>5. pc[t] = "prompt" /\ f.done => f.prompt # "new"
    BY <1>1 DEF Local, Effect, Prompted
  <1>6. Effect(pc[t], q, g)
    BY <1>1, <1>5 DEF Local, Effect
  <1>7. Found(pc[t], q, g)
    BY <1>1 DEF Local, Found
  <1>8. Closing(pc[t], g)
    BY <1>1 DEF Local, Closing
  <1>9. Local(t, pc[t], q, g)
    BY <1>1, <1>3, <1>4, <1>6, <1>7, <1>8 DEF Local
  <1>10. Stays(t, pc[t], g)
    BY <1>1 DEF Stays, LocalPhase, LocalAnswer
  <1> QED BY <1>9, <1>10 DEF Tells, Tell

LEMMA ServeOtherTells ==
  ASSUME IInv, NEW t \in Threads, ServeOther(t)
  PROVE  Tells(t)
  <1> DEFINE f == frame[t]
  <1>1. f \in Frames
    BY DEF IInv, Shape
  <1>2. ASSUME Serves(t, "addMatch"), Tell(t, Answer([f EXCEPT !.match = TRUE], "ok"))
        PROVE  Tells(t)
    <2> DEFINE h == [f EXCEPT !.match = TRUE]
               g == Answer(h, "ok")
    <2>1. h \in Frames
      BY <1>1, ZenonT(60) DEF Frames
    <2>2. /\ g \in Frames /\ g.at = f.at /\ g.res = f.res /\ g.signals = f.signals
          /\ g.conn = f.conn /\ g.item = f.item /\ g.done = f.done /\ g.val = f.val
          /\ g.prompt = f.prompt /\ g.net = "ok"
      BY <1>1, <2>1 DEF Answer, Frames, Replies, BusErrors
    <2> HIDE DEF g, h
    <2>3. Tell(t, g)
      BY <1>2 DEF g, h
    <2> QED BY <1>2, <2>2, <2>3, OtherTells DEF Serves, Labels
  <1>3. ASSUME Serves(t, "removeMatch"), Tell(t, Answer([f EXCEPT !.match = FALSE], "ok"))
        PROVE  Tells(t)
    <2> DEFINE h == [f EXCEPT !.match = FALSE]
               g == Answer(h, "ok")
    <2>1. h \in Frames
      BY <1>1, ZenonT(60) DEF Frames
    <2>2. /\ g \in Frames /\ g.at = f.at /\ g.res = f.res /\ g.signals = f.signals
          /\ g.conn = f.conn /\ g.item = f.item /\ g.done = f.done /\ g.val = f.val
          /\ g.prompt = f.prompt /\ g.net = "ok"
      BY <1>1, <2>1 DEF Answer, Frames, Replies, BusErrors
    <2> HIDE DEF g, h
    <2>3. Tell(t, g)
      BY <1>3 DEF g, h
    <2> QED BY <1>3, <2>2, <2>3, OtherTells DEF Serves, Labels
  <1>4. ASSUME NEW g \in {Answer([f EXCEPT !.prompt = "shown"], "ok"), Answer(f, "other")},
               g = Answer(f, "other") \/ f.prompt = "new", Serves(t, "prompt"), Tell(t, g)
        PROVE  Tells(t)
    <2>1. /\ g \in Frames /\ g.at = f.at /\ g.res = f.res /\ g.signals = f.signals
          /\ g.conn = f.conn /\ g.item = f.item /\ g.done = f.done /\ g.val = f.val
          /\ g.net \in {"ok", "other"}
          /\ g.prompt = f.prompt \/ f.prompt = "new"
      BY <1>1, <1>4 DEF Answer, Frames, Replies, BusErrors
    <2> QED BY <1>4, <2>1, OtherTells DEF Serves, Labels
  <1>5. ASSUME NEW g \in {Answer([f EXCEPT !.session = "none"], "ok"), Answer(f, "other")},
               Serves(t, "closeSession"), Tell(t, g)
        PROVE  Tells(t)
    <2>1. /\ g \in Frames /\ g.at = f.at /\ g.res = f.res /\ g.signals = f.signals
          /\ g.conn = f.conn /\ g.item = f.item /\ g.done = f.done /\ g.val = f.val
          /\ g.net \in {"ok", "other"} /\ g.prompt = f.prompt
          /\ g.net = "ok" => g.session = "none"
      BY <1>1, <1>5 DEF Answer, Frames, Replies, BusErrors
    <2> QED BY <1>5, <2>1, OtherTells DEF Serves, Labels, CleanupReplies
  <1> QED BY <1>2, <1>3, <1>4, <1>5 DEF ServeOther

LEMMA RefuseTells ==
  ASSUME IInv, NEW t \in Threads, Refuse(t)
  PROVE  Tells(t)
  <1> DEFINE f == frame[t]
  <1>1. PICK c \in BusFaults : Tell(t, Answer(f, c))
    BY DEF Refuse
  <1>2. c \in BusErrors
    BY SecretServiceAssumption
  <1>3. PICK label \in Labels \ {"removeMatch"} : Serves(t, label)
    BY DEF Refuse
  <1>4. pc[t] = label /\ f.net = "sent" /\ f.conn = "open" /\ f \in Frames
    BY <1>3 DEF Serves, IInv, Shape
  <1>5. CASE label = "call"
    BY <1>1, <1>2, <1>3, <1>5, RefusedTells DEF BusErrors
  <1>6. CASE label # "call"
    <2> DEFINE g == Answer(f, c)
    <2>1. /\ g \in Frames /\ g.at = f.at /\ g.res = f.res /\ g.signals = f.signals
          /\ g.conn = f.conn /\ g.item = f.item /\ g.done = f.done /\ g.val = f.val
          /\ g.net = c /\ g.prompt = f.prompt /\ g.session = f.session
      BY <1>2, <1>4 DEF Answer, Frames, Replies, BusErrors
    <2>2. pc[t] \notin {"idle", "connect"}
      BY <1>4 DEF IInv, Local, Place, NewFrame
    <2> HIDE DEF g
    <2>3. Tell(t, g)
      BY <1>1 DEF g
    <2> QED BY <1>2, <1>4, <1>6, <2>1, <2>2, <2>3, OtherTells DEF BusErrors, CleanupReplies
  <1> QED BY <1>5, <1>6

-----------------------------------------------------------------------------
(* Mutations.                                                                *)

LEMMA GoneLocal ==
  ASSUME NEW t \in Threads, NEW p, NEW q \in Requests \cup {NoRequest}, NEW f \in Frames,
         NEW g, g = [f EXCEPT !.item = "gone"], Local(t, p, q, f), f.item = "live"
  PROVE  /\ g \in Frames /\ Local(t, p, q, g) /\ q.op # "set"
         /\ g.item = "gone" /\ g.res = f.res /\ g.done = f.done /\ g.net = f.net
         /\ g.conn = f.conn /\ g.val = f.val
  <1>1. /\ g \in Frames /\ g.at = f.at /\ g.net = f.net /\ g.item = "gone"
        /\ g.session = f.session /\ g.prompt = f.prompt /\ g.signals = f.signals
        /\ g.conn = f.conn /\ g.res = f.res /\ g.val = f.val /\ g.done = f.done
    BY DEF Frames
  <1>2. p \notin {"idle", "connect"}
    BY DEF Local, Place, NewFrame
  <1>3. StageOf(q, g) = StageOf(q, f)
    BY <1>1 DEF StageOf
  <1>4. Place(p, q, g)
    BY <1>1, <1>2 DEF Local, Place
  <1>5. Prompted(t, p, q, g)
    BY <1>1, <1>3 DEF Local, Prompted
  <1>6. Effect(p, q, g) /\ Closing(p, g)
    BY <1>1 DEF Local, Effect, Closing
  <1>7. Found(p, q, g) /\ q.op # "set"
    BY <1>1 DEF Local, Found
  <1> QED BY <1>1, <1>4, <1>5, <1>6, <1>7 DEF Local

\* The goroutines that have found the item of a deleted key.
Finders(k, frames) == {u \in Threads : Key(u) = k /\ frames[u].item = "live"}

LEMMA WriteFacts ==
  ASSUME IInv, NEW q \in Requests, q.op # "get", NEW frames \in [Threads -> Frames],
         \A u \in Threads : Local(u, pc[u], req[u], frames[u]),
         \A u \in Threads : frames[u].item = "live" => frame[u].item = "live",
         NEW left, IsABag(left), BagToSet(left) \subseteq {c \in Requests : c.op # "get"},
         Write(q, frames, left), UNCHANGED <<pc, req, ctx, calls>>, locked' \in BOOLEAN,
         faults' \in 0..MaxFaults
  PROVE  /\ IInv' /\ store' = [store EXCEPT ![q.key] = q.val] /\ orphans' \sqsubseteq left
         /\ \A u \in Threads \ (IF q.op = "delete" THEN Finders(q.key, frames) ELSE {}) :
               frame'[u] = frames[u]
         /\ q.op = "delete" => \A u \in Finders(q.key, frames) :
               frame'[u] = [frames[u] EXCEPT !.item = "gone"]
  <1>1. /\ store' = [store EXCEPT ![q.key] = q.val]
        /\ frame' = IF q.op = "delete" THEN Deleted(q.key, frames) ELSE frames
        /\ orphans' = IF q.op = "set" THEN left
                      ELSE [c \in {d \in DOMAIN left : d.op = "set" \/ d.key # q.key} |-> left[c]]
    BY DEF Write
  <1>2. /\ q.key \in Keys /\ q.op \in {"set", "delete"}
        /\ q.val \in Values \cup {None} /\ (q.op = "set" => q.val # None)
    BY KeyringerAssumption DEF Requests
  <1>3. \A u \in Threads \ (IF q.op = "delete" THEN Finders(q.key, frames) ELSE {}) :
               frame'[u] = frames[u]
    BY <1>1 DEF Deleted, Finders
  <1>4. q.op = "delete" => \A u \in Finders(q.key, frames) :
               frame'[u] = [frames[u] EXCEPT !.item = "gone"]
    BY <1>1 DEF Deleted, Finders
  <1>5. req \in [Threads -> Requests \cup {NoRequest}]
    BY DEF IInv, Shape
  <1>6. ASSUME NEW u \in Threads
        PROVE  /\ frame'[u] \in Frames /\ Local(u, pc[u], req[u], frame'[u])
               /\ frame'[u].item = "live" => /\ frame[u].item = "live"
                                             /\ q.op = "delete" => Key(u) # q.key
    <2>1. CASE q.op = "delete" /\ u \in Finders(q.key, frames)
      <3>1. frames[u].item = "live" /\ frames[u] \in Frames
        BY <2>1 DEF Finders
      <3>2. req[u] \in Requests \cup {NoRequest} /\ Local(u, pc[u], req[u], frames[u])
        BY <1>5
      <3>3. frame'[u] = [frames[u] EXCEPT !.item = "gone"]
        BY <1>4, <2>1
      <3>4. frame'[u] \in Frames /\ Local(u, pc[u], req[u], frame'[u]) /\ frame'[u].item = "gone"
        BY <3>1, <3>2, <3>3, GoneLocal
      <3> QED BY <2>1, <3>4
    <2>2. CASE ~(q.op = "delete" /\ u \in Finders(q.key, frames))
      <3>1. frame'[u] = frames[u]
        BY <1>3, <2>2
      <3> QED BY <2>2, <3>1 DEF Finders
    <2> QED BY <2>1, <2>2
  <1>7. frame' \in [Threads -> Frames]
    <2>1. CASE q.op = "delete"
      <3>1. frame' = Deleted(q.key, frames)
        BY <1>1, <2>1
      <3>2. frame' = [u \in Threads |-> frame'[u]]
        BY <3>1 DEF Deleted
      <3> QED BY <1>6, <3>2
    <2>2. CASE q.op # "delete"
      BY <1>1, <2>2
    <2> QED BY <2>1, <2>2
  <1>8. Shape'
    BY <1>7 DEF IInv, Shape
  <1>9. store' \in [Keys -> Values \cup {None}]
    BY <1>1, <1>2 DEF IInv, Service
  <1>10. IsABag(orphans') /\ orphans' \sqsubseteq left
         /\ BagToSet(orphans') \subseteq {c \in Requests : c.op # "get"}
    <2>1. CASE q.op = "set"
      <3>1. orphans' = left
        BY <1>1, <2>1
      <3> QED BY <3>1, BagReflexive
    <2>2. CASE q.op # "set"
      <3> DEFINE D == {d \in DOMAIN left : d.op = "set" \/ d.key # q.key}
      <3>1. orphans' = [c \in D |-> left[c]]
        BY <1>1, <2>2
      <3>2. D \in SUBSET DOMAIN left
        OBVIOUS
      <3> HIDE DEF D
      <3> QED BY <3>1, <3>2, PartOfBag DEF BagToSet
    <2> QED BY <2>1, <2>2
  <1>11. ASSUME NEW u \in Threads, frame'[u].item = "live" PROVE store'[req'[u].key] # None
    <2>1. frame[u].item = "live" /\ (q.op = "delete" => Key(u) # q.key)
      BY <1>6, <1>11
    <2>2. store[Key(u)] # None
      BY <2>1 DEF IInv, Service
    <2>3. CASE Key(u) = q.key
      BY <1>1, <1>2, <2>1, <2>3 DEF Key, IInv, Service
    <2>4. CASE Key(u) # q.key
      BY <1>1, <2>2, <2>4 DEF Key, IInv, Service
    <2> QED BY <2>3, <2>4
  <1>12. Service'
    BY <1>9, <1>10, <1>11 DEF Service, Key
  <1>13. IInv'
    BY <1>6, <1>8, <1>12 DEF IInv
  <1> QED BY <1>1, <1>3, <1>4, <1>10, <1>13

-----------------------------------------------------------------------------
(* The user's answers.                                                       *)

\* Only t hears of its prompt, by one completion more at the end of its channel.
LEMMA HeardFacts ==
  ASSUME IInv, NEW t \in Threads, NEW a \in Answers
  PROVE  \E g \in Frames :
            /\ Heard(t, a) = [frame EXCEPT ![t] = g]
            /\ g.prompt = "done" /\ g.at = frame[t].at /\ g.net = frame[t].net
            /\ g.item = frame[t].item /\ g.session = frame[t].session
            /\ g.conn = frame[t].conn /\ g.res = frame[t].res /\ g.val = frame[t].val
            /\ g.done = frame[t].done
            /\ g.signals \in {frame[t].signals, Append(frame[t].signals, <<t, a, frame[t].at>>)}
  <1> DEFINE f == frame[t]
             h == [f EXCEPT !.prompt = "done"]
             k == [h EXCEPT !.signals = Append(@, <<t, a, f.at>>)]
  <1>1. frame \in [Threads -> Frames] /\ f \in Frames
    BY DEF IInv, Shape
  <1>2. f.signals \in Seq(Completions)
    BY <1>1 DEF Frames
  <1>3. Append(f.signals, <<t, a, f.at>>) \in Seq(Completions)
    <2>1. <<t, a, f.at>> \in Completions
      BY <1>1 DEF Completions, Answers, Frames
    <2> QED BY <1>2, <2>1
  <1>4. /\ h \in Frames /\ h.prompt = "done" /\ h.at = f.at /\ h.net = f.net
        /\ h.item = f.item /\ h.session = f.session /\ h.conn = f.conn /\ h.res = f.res
        /\ h.val = f.val /\ h.done = f.done /\ h.signals = f.signals
    BY <1>1 DEF Frames
  <1> HIDE DEF h
  <1>5. /\ k \in Frames /\ k.prompt = "done" /\ k.at = f.at /\ k.net = f.net
        /\ k.item = f.item /\ k.session = f.session /\ k.conn = f.conn /\ k.res = f.res
        /\ k.val = f.val /\ k.done = f.done /\ k.signals = Append(f.signals, <<t, a, f.at>>)
    BY <1>3, <1>4 DEF Frames
  <1> DEFINE g == IF frame[t].match THEN k ELSE h
  <1>6. \A u \in Threads : (Heard(t, a))[u] = IF u = t THEN g ELSE frame[u]
    BY DEF Heard, Hears, h
  <1>7. Heard(t, a) = [u \in Threads |-> IF u = t THEN g ELSE frame[u]]
    <2>1. Heard(t, a) = [u \in Threads |-> (Heard(t, a))[u]]
      BY DEF Heard
    <2> QED BY <1>6, <2>1
  <1>8. Heard(t, a) = [frame EXCEPT ![t] = g]
    BY <1>1, <1>7
  <1>9. g \in {h, k}
    OBVIOUS
  <1> HIDE DEF g, k
  <1> QED BY <1>4, <1>5, <1>8, <1>9

LEMMA AnsweredLocal ==
  ASSUME IInv, NEW t \in Threads, frame[t].prompt = "shown", pc[t] \in {"prompt", "wait"},
         NEW a \in Answers, NEW g \in Frames,
         g.prompt = "done", g.at = frame[t].at, g.net = frame[t].net,
         g.item = frame[t].item, g.session = frame[t].session,
         g.conn = frame[t].conn, g.res = frame[t].res,
         g.signals \in {frame[t].signals, Append(frame[t].signals, <<t, a, frame[t].at>>)},
         a = "confirmed" /\ g.at = Length(req[t]) => g.done,
         g.done = frame[t].done \/ (g.done /\ g.at = Length(req[t]))
  PROVE  Local(t, pc[t], req[t], g)
  <1> DEFINE f == frame[t]
             q == req[t]
  <1>1. f \in Frames /\ q \in Requests /\ Local(t, pc[t], q, f)
    BY DEF IInv, Shape, Local, Place
  <1>2. StageOf(q, g) = StageOf(q, f)
    BY DEF StageOf
  <1>3. Place(pc[t], q, g)
    BY <1>1 DEF Local, Place
  <1>4. f.signals \in Seq(Completions)
    BY <1>1 DEF Frames
  <1>5. \A i \in DOMAIN f.signals : f.signals[i][1] = t /\ f.signals[i][3] = f.at
    BY <1>1 DEF Local, Prompted
  <1>6. \A i \in DOMAIN g.signals : g.signals[i][1] = t /\ g.signals[i][3] = g.at
    <2>1. CASE g.signals = f.signals
      BY <1>5, <2>1
    <2>2. CASE g.signals = Append(f.signals, <<t, a, f.at>>)
      <3>1. DOMAIN g.signals = 1..(Len(f.signals) + 1) /\ DOMAIN f.signals = 1..Len(f.signals)
        BY <1>4, <2>2
      <3>2. \A i \in 1..Len(f.signals) : g.signals[i] = f.signals[i]
        BY <1>4, <2>2
      <3>3. g.signals[Len(f.signals) + 1] = <<t, a, f.at>> /\ Len(f.signals) \in Nat
        BY <1>4, <2>2
      <3>4. g.at = f.at
        OBVIOUS
      <3>5. \A i \in 1..Len(f.signals) : g.signals[i][1] = t /\ g.signals[i][3] = g.at
        BY <1>5, <3>1, <3>2, <3>4
      <3>6. /\ g.signals[Len(f.signals) + 1][1] = t
            /\ g.signals[Len(f.signals) + 1][3] = g.at
        BY <3>3, <3>4
      <3>7. 1..(Len(f.signals) + 1) = (1..Len(f.signals)) \cup {Len(f.signals) + 1}
        BY <3>3
      <3> QED BY <3>1, <3>5, <3>6, <3>7
    <2> QED BY <2>1, <2>2
  <1>7. f.signals # <<>> /\ Head(f.signals)[2] = "confirmed" /\ f.at = Length(q) => f.done
    BY <1>1 DEF Local, Prompted
  <1>8. g.signals # <<>> /\ Head(g.signals)[2] = "confirmed" /\ g.at = Length(q) => g.done
    <2>1. CASE g.signals = f.signals
      BY <1>7, <2>1
    <2>2. CASE g.signals = Append(f.signals, <<t, a, f.at>>) /\ f.signals = <<>>
      <3>1. Head(g.signals) = <<t, a, f.at>>
        BY <1>4, <2>2
      <3> QED BY <3>1
    <2>3. CASE g.signals = Append(f.signals, <<t, a, f.at>>) /\ f.signals # <<>>
      <3>1. Head(g.signals) = Head(f.signals)
        BY <1>4, <2>3
      <3> QED BY <1>7, <2>3, <3>1
    <2> QED BY <2>1, <2>2, <2>3
  <1>9. Prompted(t, pc[t], q, g)
    BY <1>1, <1>2, <1>6, <1>8 DEF Local, Prompted
  <1>10. Effect(pc[t], q, g)
    <2>1. /\ f.done => f.at = Length(q)
          /\ "notfound" \notin g.res
      BY <1>1 DEF Local, Effect, Place
    <2> QED BY <2>1 DEF Effect
  <1>11. Found(pc[t], q, g)
    BY <1>1 DEF Local, Found
  <1>12. Closing(pc[t], g)
    BY DEF Closing
  <1> QED BY <1>1, <1>3, <1>9, <1>10, <1>11, <1>12 DEF Local

\* The frames after the prompt of a mutation has been confirmed.
Confirmed(t, yes) == [Heard(t, yes) EXCEPT ![t].done = TRUE]

LEMMA AnsweredTells ==
  ASSUME IInv, NEW t \in Threads, NEW no \in Answers \ {"confirmed"}, NEW yes \in Answers,
         Answered(t, no, yes), UNCHANGED <<pc, req>>
  PROVE  \/ Tells(t) /\ locked' \in BOOLEAN
         \/ /\ Stage(t) \in {"createItem", "deleteItem"} /\ frame[t].item # "gone"
            /\ locked' = FALSE /\ Write(req[t], Confirmed(t, yes), orphans)
  <1> DEFINE f == frame[t]
             q == req[t]
  <1>1. f.prompt = "shown" /\ pc[t] \in {"prompt", "wait"}
    BY DEF Answered
  <1>2. f \in Frames /\ q \in Requests /\ f.at <= Length(q)
    BY <1>1 DEF IInv, Shape, Local, Place
  <1>3. ASSUME NEW a \in Answers, frame' = Heard(t, a),
               a = "confirmed" => f.at # Length(q), UNCHANGED <<store, orphans>>
        PROVE  Tells(t)
    <2>1. PICK g \in Frames :
            /\ Heard(t, a) = [frame EXCEPT ![t] = g]
            /\ g.prompt = "done" /\ g.at = frame[t].at /\ g.net = frame[t].net
            /\ g.item = frame[t].item /\ g.session = frame[t].session
            /\ g.conn = frame[t].conn /\ g.res = frame[t].res /\ g.val = frame[t].val
            /\ g.done = frame[t].done
            /\ g.signals \in {frame[t].signals, Append(frame[t].signals, <<t, a, frame[t].at>>)}
      BY HeardFacts
    <2>2. Local(t, pc[t], req[t], g)
      BY <1>1, <1>3, <2>1, AnsweredLocal
    <2>3. Stays(t, pc[t], g)
      BY <2>1 DEF Stays, LocalPhase, LocalAnswer
    <2> QED BY <1>3, <2>1, <2>2, <2>3 DEF Tells
  <1>4. CASE frame' = Heard(t, no) /\ UNCHANGED daemonVars
    <2>1. Tells(t)
      BY <1>3, <1>4 DEF daemonVars
    <2> QED BY <1>4, <2>1 DEF daemonVars, IInv, Service
  <1>5. CASE /\ Stage(t) \in {"unlock", "unlockItem"} /\ locked' = FALSE
             /\ frame' = Heard(t, yes) /\ UNCHANGED <<store, orphans>>
    <2>1. f.at # Length(q)
      <3>1. StageOf(q, f) = Stage(t) /\ q \in Requests \cup {NoRequest}
        BY <1>2 DEF Stage, StageOf
      <3> QED BY <1>2, <1>5, <3>1, ScriptFacts
    <2> QED BY <1>3, <1>5, <2>1
  <1> QED BY <1>4, <1>5 DEF Answered, Confirmed

\* The operation of t takes effect by a mutation: this is what Write is given.
Done(t, g, frames) ==
    /\ g \in Frames /\ frames = [frame EXCEPT ![t] = g]
    /\ Local(t, pc[t], req[t], g)
    /\ g.item = frame[t].item /\ g.done /\ g.res = {}
    /\ req[t] \in Requests /\ req[t].op # "get" /\ frame[t].item # "gone"
    /\ frame[t].item # "none" <=> req[t].op # "set"
    /\ LocalPhase(pc[t], frame[t]) = "called"

LEMMA ConfirmedDone ==
  ASSUME IInv, NEW t \in Threads, frame[t].prompt = "shown", pc[t] \in {"prompt", "wait"},
         Stage(t) \in {"createItem", "deleteItem"}, frame[t].item # "gone",
         NEW yes \in Answers
  PROVE  \E g : Done(t, g, Confirmed(t, yes))
  <1> DEFINE f == frame[t]
             q == req[t]
  <1>1. /\ f \in Frames /\ q \in Requests /\ f.at <= Length(q) /\ f.res = {}
        /\ Local(t, pc[t], q, f)
    BY DEF IInv, Shape, Local, Place
  <1>2. f.at = Length(q) /\ q.op \in {"set", "delete"} /\ (q.op = "delete" => f.at > 2)
    <2>1. StageOf(q, f) = Stage(t) /\ q \in Requests \cup {NoRequest}
      BY <1>1 DEF Stage, StageOf
    <2> QED BY <1>1, <2>1, ScriptFacts
  <1>3. PICK h \in Frames :
            /\ Heard(t, yes) = [frame EXCEPT ![t] = h]
            /\ h.prompt = "done" /\ h.at = frame[t].at /\ h.net = frame[t].net
            /\ h.item = frame[t].item /\ h.session = frame[t].session
            /\ h.conn = frame[t].conn /\ h.res = frame[t].res /\ h.val = frame[t].val
            /\ h.done = frame[t].done
            /\ h.signals \in {frame[t].signals, Append(frame[t].signals, <<t, yes, frame[t].at>>)}
    BY HeardFacts
  <1> DEFINE g == [h EXCEPT !.done = TRUE]
  <1>4. g \in Frames
    BY ZenonT(60) DEF Frames
  <1>5. g.done
    BY Zenon DEF Frames
  <1>6. /\ g.prompt = "done" /\ g.at = f.at /\ g.net = f.net
        /\ g.item = f.item /\ g.session = f.session
        /\ g.conn = f.conn /\ g.res = f.res
        /\ g.signals \in {f.signals, Append(f.signals, <<t, yes, f.at>>)}
    BY <1>3 DEF Frames
  <1>7. Confirmed(t, yes) = [frame EXCEPT ![t] = g]
    <2>1. frame \in [Threads -> Frames]
      BY DEF IInv, Shape
    <2>2. (Heard(t, yes))[t] = h
      BY <1>3, <2>1
    <2>3. Confirmed(t, yes) = [Heard(t, yes) EXCEPT ![t] = g]
      BY <2>2, Zenon DEF Confirmed
    <2> HIDE DEF g
    <2> QED BY <1>3, <2>1, <2>3
  <1> HIDE DEF g
  <1>8. Local(t, pc[t], q, g)
    BY <1>2, <1>4, <1>5, <1>6, AnsweredLocal
  <1>9. LocalPhase(pc[t], f) = "called"
    <2>1. ~f.done /\ f.conn = "open" /\ f.net \notin {"empty", "NoSuchObject"}
      BY <1>1 DEF Local, Effect, Prompted
    <2> QED BY <1>1, <2>1 DEF LocalPhase
  <1>10. f.item # "none" <=> q.op # "set"
    BY <1>1, <1>2 DEF Local, Found
  <1> QED BY <1>1, <1>2, <1>4, <1>5, <1>6, <1>7, <1>8, <1>9, <1>10 DEF Done

LEMMA ServedDone ==
  ASSUME IInv, NEW t \in Threads, Serves(t, "call"), Stage(t) \in {"createItem", "deleteItem"},
         frame[t].item # "gone"
  PROVE  \E g : Done(t, g, [frame EXCEPT ![t] = Answer([@ EXCEPT !.done = TRUE], "ok")])
  <1> DEFINE f == frame[t]
             q == req[t]
             h == [f EXCEPT !.done = TRUE]
             g == Answer(h, "ok")
  <1>1. /\ f \in Frames /\ f.res = {} /\ f.signals = <<>> /\ f.conn = "open"
        /\ f.prompt \notin {"new", "shown"} /\ q \in Requests /\ f.at <= Length(q)
        /\ f.item # "none" <=> q.op # "set" /\ f.at > 2
        /\ Stage(t) = StageOf(q, f) /\ pc[t] = "call"
        /\ LocalPhase("call", f) = IF f.item = "gone" THEN "applied" ELSE "called"
    BY CallFacts DEF Serves
  <1>2. f.at = Length(q) /\ q.op \in {"set", "delete"} /\ (q.op = "delete" => f.at > 2)
    <2>1. q \in Requests \cup {NoRequest}
      BY <1>1
    <2> QED BY <1>1, <2>1, ScriptFacts
  <1>3. h \in Frames
    BY <1>1, ZenonT(60) DEF Frames
  <1>4. h.done
    BY <1>1, Zenon DEF Frames
  <1>5. /\ h.res = {} /\ h.signals = <<>> /\ h.conn = "open" /\ h.prompt = f.prompt
        /\ h.at = f.at /\ h.item = f.item
    BY <1>1 DEF Frames
  <1> HIDE DEF h
  <1>6. /\ g \in Frames /\ g.at = f.at /\ g.res = {} /\ g.signals = <<>> /\ g.conn = "open"
        /\ g.prompt = f.prompt /\ g.net = "ok" /\ g.item = f.item
    BY <1>3, <1>5 DEF Answer, Frames, Replies, BusErrors
  <1>7. g.done
    BY <1>3, <1>4, Zenon DEF Answer, Frames
  <1>8. [frame EXCEPT ![t] = Answer([@ EXCEPT !.done = TRUE], "ok")] = [frame EXCEPT ![t] = g]
    BY Zenon DEF h
  <1> HIDE DEF g
  <1>9. Local(t, pc[t], q, g)
    <2>1. g.done <=> g.net = "ok" /\ g.at = Length(q)
      BY <1>2, <1>6, <1>7
    <2>2. g.item # "none" <=> q.op # "set" /\ (g.at > 2 \/ (g.at = 2 /\ g.net = "ok"))
      <3>1. f.at \in 1..5
        BY <1>1 DEF Frames
      <3>2. q.op = "delete" => g.at > 2
        BY <1>2, <1>6
      <3> QED BY <1>1, <1>2, <1>6, <3>1, <3>2
    <2> QED BY <1>1, <1>6, <2>1, <2>2, ReplyLocal
  <1>10. f.item # "none" <=> q.op # "set"
    BY <1>1, <1>2
  <1> QED BY <1>1, <1>2, <1>6, <1>7, <1>8, <1>9, <1>10 DEF Done

-----------------------------------------------------------------------------
(* How the steps map to the contract.                                        *)

\* A step of the contract, or none.
Implemented == [Contract!RemoteNext]_(Contract!remoteVars)

LEMMA ContractFacts ==
  ASSUME NEW A, NEW B
  PROVE  /\ Contract!\sqsubseteq(A, B) <=> A \sqsubseteq B
         /\ Contract!(+)(A, B) = A (+) B /\ Contract!(-)(A, B) = A (-) B
         /\ Contract!SetToBag(A) = SetToBag(A) /\ Contract!BagToSet(A) = BagToSet(A)
         /\ Contract!EmptyBag = EmptyBag
         /\ Contract!Requests = Requests /\ Contract!NoRequest = NoRequest
  <1>1. Contract!\sqsubseteq(A, B) <=> A \sqsubseteq B
    BY Zenon DEF Contract!\sqsubseteq, \sqsubseteq
  <1>2. Contract!(+)(A, B) = A (+) B
    BY Zenon DEF Contract!(+), (+)
  <1>3. Contract!(-)(A, B) = A (-) B
    BY Zenon DEF Contract!(-), (-)
  <1>4. Contract!SetToBag(A) = SetToBag(A) /\ Contract!BagToSet(A) = BagToSet(A)
    BY Zenon DEF Contract!SetToBag, SetToBag, Contract!BagToSet, BagToSet
  <1>5. Contract!EmptyBag = EmptyBag
    BY Zenon DEF Contract!EmptyBag, EmptyBag, Contract!SetToBag, SetToBag
  <1>6. Contract!Requests = Requests /\ Contract!NoRequest = NoRequest
    BY DEF Contract!Requests, Requests, Contract!NoRequest, NoRequest
  <1> QED BY <1>1, <1>2, <1>3, <1>4, <1>5, <1>6

\* The phases and the answers after a step, goroutine by goroutine.
LEMMA MappedNext ==
  ASSUME NEW T \in SUBSET Threads,
         \A u \in Threads \ T : UNCHANGED <<pc[u], req[u], frame[u]>>
  PROVE  /\ PhaseOf = [u \in Threads |-> PhaseOf[u]]
         /\ AnswerOf = [u \in Threads |-> AnswerOf[u]]
         /\ PhaseOf' = [u \in Threads |-> PhaseOf'[u]]
         /\ AnswerOf' = [u \in Threads |-> AnswerOf'[u]]
         /\ \A u \in Threads :
               /\ PhaseOf'[u] = LocalPhase(pc'[u], frame'[u])
               /\ AnswerOf'[u] = LocalAnswer(pc'[u], req'[u], frame'[u])
         /\ \A u \in Threads \ T : PhaseOf'[u] = PhaseOf[u] /\ AnswerOf'[u] = AnswerOf[u]
  <1>1. \A u \in Threads :
               /\ PhaseOf'[u] = LocalPhase(pc'[u], frame'[u])
               /\ AnswerOf'[u] = LocalAnswer(pc'[u], req'[u], frame'[u])
    BY DEF PhaseOf, AnswerOf, LocalPhase, LocalAnswer
  <1>2. \A u \in Threads \ T :
               /\ PhaseOf[u] = LocalPhase(pc'[u], frame'[u])
               /\ AnswerOf[u] = LocalAnswer(pc'[u], req'[u], frame'[u])
    BY MappedPhase
  <1>3. /\ PhaseOf = [u \in Threads |-> PhaseOf[u]]
        /\ AnswerOf = [u \in Threads |-> AnswerOf[u]]
    BY DEF PhaseOf, AnswerOf
  <1>4. /\ PhaseOf' = [u \in Threads |-> PhaseOf'[u]]
        /\ AnswerOf' = [u \in Threads |-> AnswerOf'[u]]
    BY DEF PhaseOf, AnswerOf
  <1> QED BY <1>1, <1>2, <1>3, <1>4

\* A step that leaves the store, or lets an operation fail.
LEMMA StaysImplemented ==
  ASSUME IInv, NEW t \in Threads, pc[t] # "idle", pc'[t] # "idle",
         \A u \in Threads \ {t} : UNCHANGED <<pc[u], req[u], frame[u]>>,
         UNCHANGED <<store, req>>, Stays(t, pc'[t], frame'[t]),
         \/ orphans' = orphans
         \/ /\ LocalPhase(pc[t], frame[t]) = "called" /\ req[t].op # "get"
            /\ LocalPhase(pc'[t], frame'[t]) = "failed"
            /\ orphans' = orphans (+) SetToBag({req[t]})
  PROVE  Implemented
  <1>1. /\ PhaseOf = [u \in Threads |-> PhaseOf[u]]
        /\ AnswerOf = [u \in Threads |-> AnswerOf[u]]
        /\ PhaseOf' = [u \in Threads |-> PhaseOf'[u]]
        /\ AnswerOf' = [u \in Threads |-> AnswerOf'[u]]
        /\ PhaseOf'[t] = LocalPhase(pc'[t], frame'[t])
        /\ AnswerOf'[t] = LocalAnswer(pc'[t], req[t], frame'[t])
        /\ PhaseOf[t] = LocalPhase(pc[t], frame[t])
        /\ AnswerOf[t] = LocalAnswer(pc[t], req[t], frame[t])
        /\ \A u \in Threads \ {t} : PhaseOf'[u] = PhaseOf[u] /\ AnswerOf'[u] = AnswerOf[u]
    BY MappedNext, MappedPhase
  <1>2. IsABag(orphans)
    BY DEF IInv, Service
  <1>3. CASE PhaseOf'[t] = PhaseOf[t] /\ AnswerOf'[t] = AnswerOf[t]
    <2>1. PhaseOf' = PhaseOf /\ AnswerOf' = AnswerOf
      BY <1>1, <1>3
    <2>2. orphans' = orphans
      BY <1>1, <1>3
    <2> QED BY <2>1, <2>2 DEF Implemented, Contract!remoteVars, Contract!contractVars
  <1>4. CASE PhaseOf'[t] = "failed" /\ PhaseOf[t] \in {"called", "applied"}
    <2>1. AnswerOf'[t] = None
      BY <1>1, <1>4 DEF LocalAnswer
    <2>2. PhaseOf' = [PhaseOf EXCEPT ![t] = "failed"] /\ AnswerOf' = [AnswerOf EXCEPT ![t] = None]
      BY <1>1, <1>4, <2>1
    <2>3. Contract!Fail(t)
      BY <1>4, <2>2 DEF Contract!Fail
    <2> DEFINE left == IF PhaseOf[t] = "called" /\ req[t].op # "get"
                       THEN orphans (+) SetToBag({req[t]}) ELSE orphans
    <2>4. orphans' \sqsubseteq left
      <3>1. orphans \sqsubseteq orphans /\ orphans \sqsubseteq orphans (+) SetToBag({req[t]})
            /\ orphans (+) SetToBag({req[t]}) \sqsubseteq orphans (+) SetToBag({req[t]})
        BY <1>2, OneMore, BagReflexive
      <3> QED BY <1>1, <3>1
    <2>5. Contract!RemoteFail(t)
      BY <2>3, <2>4, ContractFacts DEF Contract!RemoteFail
    <2> QED BY <2>5 DEF Implemented, Contract!RemoteNext
  <1>5. PhaseOf[t] \in {"called", "applied", "failed"}
    BY <1>1 DEF LocalPhase
  <1>6. PhaseOf[t] = "failed" => AnswerOf[t] = None
    BY <1>1 DEF LocalAnswer
  <1>7. PhaseOf'[t] = "failed" => AnswerOf'[t] = None
    BY <1>1 DEF LocalAnswer
  <1> QED BY <1>1, <1>3, <1>4, <1>5, <1>6, <1>7 DEF Stays

LEMMA TellsSound ==
  ASSUME IInv, NEW t \in Threads, Tells(t), UNCHANGED <<pc, req, ctx, calls>>,
         locked' \in BOOLEAN, faults' \in 0..MaxFaults
  PROVE  IInv' /\ Implemented
  <1>1. PICK g \in Frames :
            /\ frame' = [frame EXCEPT ![t] = g]
            /\ Local(t, pc[t], req[t], g)
            /\ g.item = "live" => frame[t].item = "live" \/ store[Key(t)] # None
            /\ UNCHANGED <<store, orphans>>
            /\ Stays(t, pc[t], g) \/ Reads(t, g)
    BY DEF Tells
  <1>2. frame \in [Threads -> Frames]
    BY DEF IInv, Shape
  <1>3. frame'[t] = g /\ \A u \in Threads \ {t} : frame'[u] = frame[u]
    BY <1>1, <1>2
  <1>4. IInv'
    <2>1. Shape'
      BY <1>1, <1>2 DEF IInv, Shape
    <2>2. ASSUME NEW u \in Threads PROVE Local(u, pc'[u], req'[u], frame'[u])
      BY <1>1, <1>3 DEF IInv
    <2>3. ASSUME NEW u \in Threads, frame'[u].item = "live" PROVE store'[req'[u].key] # None
      BY <1>1, <1>3, <2>3 DEF IInv, Service, Key
    <2>4. Service'
      BY <1>1, <2>3 DEF IInv, Service, Key
    <2> QED BY <2>1, <2>2, <2>4 DEF IInv
  <1>5. ASSUME pc[t] # "idle", Stays(t, pc[t], g) PROVE Implemented
    BY <1>1, <1>3, <1>5, StaysImplemented
  <1>6. ASSUME pc[t] = "idle", Stays(t, pc[t], g) PROVE Implemented
    <2>1. /\ PhaseOf = [u \in Threads |-> PhaseOf[u]]
          /\ AnswerOf = [u \in Threads |-> AnswerOf[u]]
          /\ PhaseOf' = [u \in Threads |-> PhaseOf'[u]]
          /\ AnswerOf' = [u \in Threads |-> AnswerOf'[u]]
          /\ PhaseOf'[t] = LocalPhase(pc[t], g) /\ PhaseOf[t] = LocalPhase(pc[t], frame[t])
          /\ AnswerOf'[t] = LocalAnswer(pc[t], req[t], g)
          /\ AnswerOf[t] = LocalAnswer(pc[t], req[t], frame[t])
          /\ \A u \in Threads \ {t} : PhaseOf'[u] = PhaseOf[u] /\ AnswerOf'[u] = AnswerOf[u]
      BY <1>3, MappedNext, MappedPhase
    <2>2. PhaseOf' = PhaseOf /\ AnswerOf' = AnswerOf
      BY <1>6, <2>1 DEF LocalPhase, LocalAnswer
    <2> QED BY <1>1, <2>2 DEF Implemented, Contract!remoteVars, Contract!contractVars
  <1>7. ASSUME Reads(t, g) PROVE Implemented
    <2> DEFINE q == req[t]
    <2>1. /\ PhaseOf[t] = "called" /\ PhaseOf'[t] = "applied"
          /\ q.op = "get" \/ (q.op = "delete" /\ store[q.key] = None)
          /\ AnswerOf'[t] = IF store[q.key] = None THEN "notfound" ELSE store[q.key]
          /\ \A u \in Threads \ {t} : PhaseOf'[u] = PhaseOf[u] /\ AnswerOf'[u] = AnswerOf[u]
          /\ PhaseOf' = [u \in Threads |-> PhaseOf'[u]]
          /\ AnswerOf' = [u \in Threads |-> AnswerOf'[u]]
      BY <1>1, <1>3, <1>7, MappedNext, MappedPhase DEF Reads
    <2>2. q \in Requests \cup {NoRequest} /\ store \in [Keys -> Values \cup {None}]
      BY DEF IInv, Shape, Service
    <2>3. store' = IF q.op = "get" THEN store ELSE [store EXCEPT ![q.key] = q.val]
      <3>1. CASE q.op = "get"
        BY <1>1, <3>1
      <3>2. CASE q.op # "get"
        <4>1. q.op = "delete" /\ store[q.key] = None
          BY <2>1, <3>2
        <4>2. q.key \in Keys /\ q.val = None
          BY <2>2, <4>1 DEF Requests, NoRequest
        <4>3. store = [store EXCEPT ![q.key] = None]
          BY <2>2, <4>1, <4>2
        <4> QED BY <1>1, <3>2, <4>2, <4>3
      <3> QED BY <3>1, <3>2
    <2>4. PhaseOf' = [u \in Threads |-> IF u \in {} \cup {t} THEN "applied" ELSE PhaseOf[u]]
      BY <2>1
    <2>5. AnswerOf' = [u \in Threads |->
                    IF u \in {} THEN "notfound"
                    ELSE IF u # t THEN AnswerOf[u]
                    ELSE IF q.op # "set" /\ store[q.key] = None THEN "notfound"
                    ELSE IF q.op = "get" THEN store[q.key] ELSE "ok"]
      BY <2>1
    <2>6. Contract!\sqsubseteq(orphans', orphans)
      BY <1>1, BagReflexive, ContractFacts DEF IInv, Service
    <2>7. Contract!Miss({}, q)
      BY DEF Contract!Miss, Contract!MissAny
    <2>8. Contract!RemoteTake(t, {})
      BY <2>1, <2>3, <2>4, <2>5, <2>6, <2>7 DEF Contract!RemoteTake
    <2>9. {} \in SUBSET Threads
      OBVIOUS
    <2> QED BY <2>8, <2>9 DEF Implemented, Contract!RemoteNext
  <1> QED BY <1>1, <1>4, <1>5, <1>6, <1>7

\* An item that is deleted under an operation that has found it.
LEMMA GoneMapped ==
  ASSUME NEW p, NEW q, NEW f, NEW g, g.item = "gone", g.res = f.res, g.done = f.done,
         g.net = f.net, g.conn = f.conn, g.val = f.val
  PROVE  /\ LocalPhase(p, f) = "called" => LocalPhase(p, g) = "applied"
                                           /\ LocalAnswer(p, q, g) = "notfound"
         /\ LocalPhase(p, f) # "called" => LocalPhase(p, g) = LocalPhase(p, f)
                                           /\ LocalAnswer(p, q, g) = LocalAnswer(p, q, f)
  <1>1. LocalPhase(p, f) = "called" => ~f.done /\ ~g.done
    BY DEF LocalPhase
  <1>2. LocalPhase(p, f) = "called" => LocalPhase(p, g) = "applied"
    BY DEF LocalPhase
  <1>3. LocalPhase(p, f) # "called" => LocalPhase(p, g) = LocalPhase(p, f)
    BY DEF LocalPhase
  <1> QED BY <1>1, <1>2, <1>3 DEF LocalAnswer

\* The operations that a deletion makes answer "notfound".
Missed(q, frames) ==
    IF q.op = "delete"
    THEN {u \in Finders(q.key, frames) : LocalPhase(pc[u], frames[u]) = "called"} ELSE {}

\* The phases and the answers of the goroutines that only lose an item.
LEMMA WriteMapped ==
  ASSUME IInv, NEW q \in Requests, q.op # "get", NEW frames \in [Threads -> Frames],
         \A u \in Threads \ (IF q.op = "delete" THEN Finders(q.key, frames) ELSE {}) :
               frame'[u] = frames[u],
         q.op = "delete" => \A u \in Finders(q.key, frames) :
               frame'[u] = [frames[u] EXCEPT !.item = "gone"],
         UNCHANGED <<pc, req>>,
         NEW u \in Threads
  PROVE  /\ PhaseOf'[u] = IF u \in Missed(q, frames) THEN "applied" ELSE LocalPhase(pc[u], frames[u])
         /\ AnswerOf'[u] = IF u \in Missed(q, frames) THEN "notfound"
                           ELSE LocalAnswer(pc[u], req[u], frames[u])
  <1>1. /\ PhaseOf'[u] = LocalPhase(pc[u], frame'[u])
        /\ AnswerOf'[u] = LocalAnswer(pc[u], req[u], frame'[u])
    <2>1. Threads \in SUBSET Threads
      OBVIOUS
    <2>2. \A v \in Threads \ Threads : UNCHANGED <<pc[v], req[v], frame[v]>>
      OBVIOUS
    <2> QED BY <2>1, <2>2, MappedNext
  <1>2. CASE q.op = "delete" /\ u \in Finders(q.key, frames)
    <2>1. frame'[u] = [frames[u] EXCEPT !.item = "gone"] /\ frames[u] \in Frames
      BY <1>2
    <2>2. u \in Missed(q, frames) <=> LocalPhase(pc[u], frames[u]) = "called"
      BY <1>2 DEF Missed
    <2> DEFINE f == frames[u]
               g == frame'[u]
    <2>3. /\ LocalPhase(pc[u], f) = "called" => LocalPhase(pc[u], g) = "applied"
                                               /\ LocalAnswer(pc[u], req[u], g) = "notfound"
          /\ LocalPhase(pc[u], f) # "called" =>
                LocalPhase(pc[u], g) = LocalPhase(pc[u], f)
                /\ LocalAnswer(pc[u], req[u], g) = LocalAnswer(pc[u], req[u], f)
      <3>1. /\ g.item = "gone" /\ g.res = f.res /\ g.done = f.done
            /\ g.net = f.net /\ g.conn = f.conn /\ g.val = f.val
        BY <2>1 DEF Frames
      <3> HIDE DEF f, g
      <3> QED BY <3>1, GoneMapped
    <2> QED BY <1>1, <2>2, <2>3
  <1>3. CASE ~(q.op = "delete" /\ u \in Finders(q.key, frames))
    <2>1. frame'[u] = frames[u]
      BY <1>3
    <2>2. u \notin Missed(q, frames)
      BY <1>3 DEF Missed
    <2> QED BY <1>1, <2>1, <2>2
  <1> QED BY <1>2, <1>3

\* The operations that miss the item may do so.
LEMMA MissedFacts ==
  ASSUME IInv, NEW q, NEW frames, NEW T \in SUBSET Missed(q, frames),
         \A u \in T : frames[u] = frame[u]
  PROVE  T \in SUBSET Threads /\ Contract!Miss(T, q)
  <1>1. T \in SUBSET Threads
    BY DEF Missed, Finders
  <1>2. ASSUME NEW u \in T
        PROVE  /\ PhaseOf[u] = "called" /\ req[u].op # "set" /\ req[u].key = q.key
               /\ q.op = "delete"
    <2>1. q.op = "delete" /\ u \in Threads /\ Key(u) = q.key /\ frames[u].item = "live"
          /\ LocalPhase(pc[u], frames[u]) = "called"
      BY DEF Missed, Finders
    <2>2. req[u].op # "set"
      BY <2>1 DEF IInv, Local, Found
    <2> QED BY <2>1, <2>2, MappedPhase DEF Key
  <1>3. Contract!Miss(T, q)
    BY <1>2 DEF Contract!Miss, Contract!MissAny
  <1> QED BY <1>1, <1>3

\* The operation of t takes effect by its mutation.
LEMMA DoneSound ==
  ASSUME IInv, NEW t \in Threads, NEW g, NEW frames, Done(t, g, frames),
         Write(req[t], frames, orphans), locked' \in BOOLEAN,
         UNCHANGED <<pc, req, ctx, calls>>, faults' \in 0..MaxFaults
  PROVE  IInv' /\ Implemented
  <1> DEFINE q == req[t]
             T == Missed(q, frames) \ {t}
  <1>1. /\ g \in Frames /\ frames = [frame EXCEPT ![t] = g] /\ Local(t, pc[t], q, g)
        /\ g.item = frame[t].item /\ g.done /\ g.res = {} /\ q \in Requests /\ q.op # "get"
        /\ LocalPhase(pc[t], frame[t]) = "called"
    BY DEF Done
  <1>2. frame \in [Threads -> Frames] /\ IsABag(orphans)
        /\ BagToSet(orphans) \subseteq {c \in Requests : c.op # "get"}
    BY DEF IInv, Shape, Service
  <1>3. frames \in [Threads -> Frames] /\ frames[t] = g
        /\ \A u \in Threads \ {t} : frames[u] = frame[u]
    BY <1>1, <1>2
  <1>4. \A u \in Threads : Local(u, pc[u], req[u], frames[u])
    BY <1>1, <1>3 DEF IInv
  <1>5. \A u \in Threads : frames[u].item = "live" => frame[u].item = "live"
    BY <1>1, <1>3
  <1>6. /\ IInv' /\ store' = [store EXCEPT ![q.key] = q.val] /\ orphans' \sqsubseteq orphans
        /\ \A u \in Threads \ (IF q.op = "delete" THEN Finders(q.key, frames) ELSE {}) :
               frame'[u] = frames[u]
        /\ q.op = "delete" => \A u \in Finders(q.key, frames) :
               frame'[u] = [frames[u] EXCEPT !.item = "gone"]
    BY <1>1, <1>2, <1>3, <1>4, <1>5, WriteFacts
  <1>7. \A u \in Threads :
            /\ PhaseOf'[u] = IF u \in Missed(q, frames) THEN "applied"
                             ELSE LocalPhase(pc[u], frames[u])
            /\ AnswerOf'[u] = IF u \in Missed(q, frames) THEN "notfound"
                              ELSE LocalAnswer(pc[u], req[u], frames[u])
    BY <1>1, <1>3, <1>6, WriteMapped
  <1>8. \A u \in Threads \ {t} :
            LocalPhase(pc[u], frames[u]) = PhaseOf[u]
            /\ LocalAnswer(pc[u], req[u], frames[u]) = AnswerOf[u]
    BY <1>3, MappedPhase
  <1>9. LocalPhase(pc[t], g) = "applied" /\ LocalAnswer(pc[t], q, g) = "ok" /\ PhaseOf[t] = "called"
    <2>1. pc[t] # "idle" /\ PhaseOf[t] = "called"
      BY <1>1, MappedPhase DEF LocalPhase
    <2>2. LocalPhase(pc[t], g) = "applied"
      BY <1>1, <2>1 DEF LocalPhase
    <2> QED BY <1>1, <2>1, <2>2 DEF LocalAnswer
  <1>10. t \notin Missed(q, frames)
    BY <1>3, <1>9 DEF Missed
  <1>11. store[q.key] # None \/ q.op = "set"
    BY DEF Done, IInv, Shape, Service, Frames, Key
  <1>12. PhaseOf' = [u \in Threads |-> IF u \in T \cup {t} THEN "applied" ELSE PhaseOf[u]]
    <2>1. PhaseOf' = [u \in Threads |-> PhaseOf'[u]]
      BY DEF PhaseOf
    <2>2. \A u \in Threads : PhaseOf'[u] = IF u \in T \cup {t} THEN "applied" ELSE PhaseOf[u]
      BY <1>3, <1>7, <1>8, <1>9, <1>10
    <2> HIDE DEF T
    <2> QED BY <2>1, <2>2
  <1>13. AnswerOf' = [u \in Threads |->
                    IF u \in T THEN "notfound"
                    ELSE IF u # t THEN AnswerOf[u]
                    ELSE IF q.op # "set" /\ store[q.key] = None THEN "notfound"
                    ELSE IF q.op = "get" THEN store[q.key] ELSE "ok"]
    <2>1. AnswerOf' = [u \in Threads |-> AnswerOf'[u]]
      BY DEF AnswerOf
    <2>2. \A u \in Threads : AnswerOf'[u] =
                    IF u \in T THEN "notfound"
                    ELSE IF u # t THEN AnswerOf[u]
                    ELSE IF q.op # "set" /\ store[q.key] = None THEN "notfound"
                    ELSE IF q.op = "get" THEN store[q.key] ELSE "ok"
      BY <1>1, <1>3, <1>7, <1>8, <1>9, <1>10, <1>11
    <2> HIDE DEF T
    <2> QED BY <2>1, <2>2
  <1>14. T \in SUBSET Threads /\ Contract!Miss(T, q) /\ t \notin T
    <2>1. T \in SUBSET Missed(q, frames) /\ t \notin T
      OBVIOUS
    <2>2. \A u \in T : frames[u] = frame[u]
      BY <1>3 DEF Missed, Finders
    <2> HIDE DEF T
    <2> QED BY <2>1, <2>2, MissedFacts
  <1>15. Contract!\sqsubseteq(orphans', orphans)
    BY <1>6, ContractFacts
  <1> HIDE DEF T
  <1>16. Contract!RemoteTake(t, T)
    BY <1>1, <1>6, <1>9, <1>12, <1>13, <1>14, <1>15 DEF Contract!RemoteTake
  <1> QED BY <1>6, <1>14, <1>16 DEF Implemented, Contract!RemoteNext

\* A mutation takes effect after the operation that sent it has ended.
LEMMA LateSound ==
  ASSUME IInv, Late
  PROVE  IInv' /\ Implemented
  <1>1. PICK q \in BagToSet(orphans) :
            /\ \/ Write(q, frame, orphans (-) SetToBag({q}))
               \/ orphans' = orphans (-) SetToBag({q}) /\ UNCHANGED <<store, frame>>
            /\ UNCHANGED <<locked, pc, req, ctx, calls, faults>>
    BY DEF Late
  <1> DEFINE left == orphans (-) SetToBag({q})
             T == Missed(q, frame)
  <1>2. /\ frame \in [Threads -> Frames] /\ IsABag(orphans) /\ locked \in BOOLEAN
        /\ BagToSet(orphans) \subseteq {c \in Requests : c.op # "get"}
    BY DEF IInv, Shape, Service
  <1>3. IsABag(left) /\ left \sqsubseteq orphans
    BY <1>2, OneLess
  <1>4. BagToSet(left) \subseteq {c \in Requests : c.op # "get"} /\ q \in Requests /\ q.op # "get"
    BY <1>1, <1>2, <1>3 DEF BagToSet, \sqsubseteq
  <1> HIDE DEF left
  <1>5. CASE Write(q, frame, left)
    <2>1. \A u \in Threads : Local(u, pc[u], req[u], frame[u])
      BY DEF IInv
    <2>2. locked' \in BOOLEAN /\ faults' \in 0..MaxFaults
      BY <1>1, <1>2 DEF IInv, Shape
    <2>3. /\ IInv' /\ store' = [store EXCEPT ![q.key] = q.val] /\ orphans' \sqsubseteq left
          /\ \A u \in Threads \ (IF q.op = "delete" THEN Finders(q.key, frame) ELSE {}) :
                 frame'[u] = frame[u]
          /\ q.op = "delete" => \A u \in Finders(q.key, frame) :
                 frame'[u] = [frame[u] EXCEPT !.item = "gone"]
      BY <1>1, <1>2, <1>3, <1>4, <1>5, <2>1, <2>2, WriteFacts
    <2>4. \A u \in Threads :
              /\ PhaseOf'[u] = IF u \in T THEN "applied" ELSE PhaseOf[u]
              /\ AnswerOf'[u] = IF u \in T THEN "notfound" ELSE AnswerOf[u]
      <3>1. \A u \in Threads :
              /\ PhaseOf'[u] = IF u \in Missed(q, frame) THEN "applied"
                               ELSE LocalPhase(pc[u], frame[u])
              /\ AnswerOf'[u] = IF u \in Missed(q, frame) THEN "notfound"
                                ELSE LocalAnswer(pc[u], req[u], frame[u])
        BY <1>1, <1>2, <1>4, <2>3, WriteMapped
      <3>2. \A u \in Threads : /\ PhaseOf[u] = LocalPhase(pc[u], frame[u])
                               /\ AnswerOf[u] = LocalAnswer(pc[u], req[u], frame[u])
        BY MappedPhase
      <3> QED BY <3>1, <3>2
    <2> HIDE DEF T
    <2>5. PhaseOf' = [u \in Threads |-> IF u \in T THEN "applied" ELSE PhaseOf[u]]
      BY <2>4 DEF PhaseOf
    <2>6. AnswerOf' = [u \in Threads |-> IF u \in T THEN "notfound" ELSE AnswerOf[u]]
      BY <2>4 DEF AnswerOf
    <2>7. T \in SUBSET Threads /\ Contract!Miss(T, q)
      <3>1. T \in SUBSET Missed(q, frame)
        BY DEF T
      <3> QED BY <3>1, MissedFacts
    <2>8. Contract!TakeLate(q, T)
      <3>1. Contract!\sqsubseteq(orphans', Contract!(-)(orphans, Contract!SetToBag({q})))
        BY <2>3, ContractFacts DEF left
      <3> QED BY <1>1, <2>3, <2>5, <2>6, <2>7, <3>1 DEF Contract!TakeLate
    <2>9. q \in Contract!BagToSet(orphans)
      BY <1>1, ContractFacts
    <2> QED BY <2>3, <2>7, <2>8, <2>9 DEF Implemented, Contract!RemoteNext
  <1>6. CASE orphans' = left /\ UNCHANGED <<store, frame>>
    <2>1. UNCHANGED <<store, locked, pc, req, ctx, frame, calls, faults>>
      BY <1>1, <1>6
    <2>2. IInv'
      BY <1>3, <1>4, <1>6, <2>1 DEF IInv, Shape, Service, Key
    <2>3. PhaseOf' = PhaseOf /\ AnswerOf' = AnswerOf
      BY <2>1 DEF PhaseOf, AnswerOf
    <2>4. Contract!\sqsubseteq(orphans', orphans)
      BY <1>3, <1>6, ContractFacts
    <2> QED BY <2>1, <2>2, <2>3, <2>4 DEF Implemented, Contract!RemoteNext, Contract!contractVars
  <1> QED BY <1>1, <1>5, <1>6 DEF left

-----------------------------------------------------------------------------
(* The other steps.                                                          *)

\* What a goroutine is at when its mutation may be in flight.
LEMMA InFlightFacts ==
  ASSUME IInv, NEW t \in Threads, InFlight(t)
  PROVE  /\ req[t] \in Requests /\ req[t].op # "get"
         /\ LocalPhase(pc[t], frame[t]) = "called"
  <1> DEFINE f == frame[t]
             q == req[t]
  <1>1. /\ Stage(t) \in {"createItem", "deleteItem"}
        /\ f.conn = "open" /\ f.item # "gone"
        /\ \/ pc[t] = "call" /\ f.net = "sent"
           \/ pc[t] \in {"prompt", "wait"} /\ f.prompt # "done"
    BY DEF InFlight
  <1>2. q \in Requests /\ f \in Frames /\ f.at <= Length(q) /\ f.res = {}
        /\ Local(t, pc[t], q, f)
    BY <1>1 DEF IInv, Shape, Local, Place
  <1>3. q.op # "get"
    <2>1. StageOf(q, f) = Stage(t) /\ q \in Requests \cup {NoRequest}
      BY <1>2 DEF Stage, StageOf
    <2> QED BY <1>1, <1>2, <2>1, ScriptFacts
  <1>4. ~f.done
    BY <1>1, <1>2 DEF Local, Effect
  <1>5. f.net \notin {"empty", "NoSuchObject"}
    BY <1>1, <1>2 DEF Local, Prompted
  <1> QED BY <1>1, <1>2, <1>3, <1>4, <1>5 DEF LocalPhase

LEMMA OrphanedFacts ==
  ASSUME IInv, NEW t \in Threads
  PROVE  /\ IsABag(Orphaned(t))
         /\ BagToSet(Orphaned(t)) \subseteq {q \in Requests : q.op # "get"}
  <1>1. IsABag(orphans) /\ BagToSet(orphans) \subseteq {q \in Requests : q.op # "get"}
    BY DEF IInv, Service
  <1>2. CASE InFlight(t)
    <2>1. Orphaned(t) = orphans (+) SetToBag({req[t]})
      BY <1>2 DEF Orphaned
    <2>2. req[t] \in Requests /\ req[t].op # "get"
      BY <1>2, InFlightFacts
    <2> DEFINE S == orphans (+) SetToBag({req[t]})
    <2>3. IsABag(S) /\ BagToSet(S) = BagToSet(orphans) \cup {req[t]}
      BY <1>1, OneMore
    <2> HIDE DEF S
    <2>4. Orphaned(t) = S
      BY <2>1 DEF S
    <2> QED BY <1>1, <2>2, <2>3, <2>4
  <1>3. CASE ~InFlight(t)
    BY <1>1, <1>3 DEF Orphaned
  <1> QED BY <1>2, <1>3

LEMMA StepsSound ==
  ASSUME IInv, NEW t \in Threads, pc[t] # "idle", Steps(t),
         UNCHANGED <<store, locked, ctx, calls, faults>>,
         \/ orphans' = orphans
         \/ /\ orphans' = Orphaned(t)
            /\ LocalPhase(pc'[t], frame'[t]) = "failed"
  PROVE  IInv' /\ Implemented
  <1>1. PICK p \in Labels \ {"idle"}, f \in Frames :
            Moves(t, p, req[t], f) /\ Stays(t, p, f)
    BY DEF Steps
  <1>2. /\ pc \in [Threads -> Labels] /\ frame \in [Threads -> Frames]
        /\ req \in [Threads -> Requests \cup {NoRequest}]
    BY DEF IInv, Shape
  <1>3. /\ pc'[t] = p /\ frame'[t] = f /\ UNCHANGED req
        /\ \A u \in Threads \ {t} : UNCHANGED <<pc[u], req[u], frame[u]>>
    BY <1>1, <1>2 DEF Moves
  <1>4. IInv'
    <2>1. IsABag(orphans') /\ BagToSet(orphans') \subseteq {q \in Requests : q.op # "get"}
      BY OrphanedFacts DEF IInv, Service
    <2> QED BY <2>1, StepsInv
  <1>5. \/ orphans' = orphans
        \/ /\ LocalPhase(pc[t], frame[t]) = "called" /\ req[t].op # "get"
           /\ LocalPhase(pc'[t], frame'[t]) = "failed"
           /\ orphans' = orphans (+) SetToBag({req[t]})
    BY InFlightFacts DEF Orphaned
  <1>6. Stays(t, pc'[t], frame'[t]) /\ pc'[t] # "idle"
    BY <1>1, <1>3
  <1> QED BY <1>3, <1>4, <1>5, <1>6, StaysImplemented

\* An operation that is given up fails.
LEMMA InterruptedFails ==
  ASSUME IInv, NEW t \in Threads, Interrupted(t)
  PROVE  LocalPhase(pc'[t], frame'[t]) = "failed"
  <1> DEFINE f == [frame[t] EXCEPT !.res = {"ended"}, !.prompt = "none", !.signals = <<>>]
  <1>1. /\ pc \in [Threads -> Labels] /\ frame \in [Threads -> Frames]
        /\ frame[t] \in Frames
    BY DEF IInv, Shape
  <1>2. f \in Frames /\ f.res = {"ended"}
    <2>1. {"ended"} \in SUBSET Categories /\ <<>> \in Seq(Completions)
      BY DEF Categories
    <2> QED BY <1>1, <2>1 DEF Frames
  <1>3. pc[t] \in {"connect", "call", "addMatch", "prompt", "wait"}
    BY DEF Interrupted
  <1>4. /\ pc[t] = "connect" => Stop(t, "return", f)
        /\ pc[t] \in {"prompt", "wait"} => Send(t, "removeMatch", f)
        /\ pc[t] \in {"call", "addMatch"} => Unwind(t, f)
    BY <1>3 DEF Interrupted
  <1> HIDE DEF f
  <1>5. /\ Forget(f).res = {"ended"} /\ Forget(f) \in Frames
    BY <1>2, ForgetFacts
  <1>6. \A h \in Frames, c \in Replies : [h EXCEPT !.net = c].res = h.res
    BY DEF Frames
  <1>7. "none" \in Replies /\ "other" \in Replies /\ "sent" \in Replies
    BY DEF Replies, BusErrors
  <1>8. pc'[t] # "idle" /\ frame'[t].res = {"ended"}
    <2>1. ASSUME NEW label, label # "idle", NEW h \in Frames, h.res = {"ended"},
                 Stop(t, label, h) \/ Send(t, label, h)
          PROVE  pc'[t] # "idle" /\ frame'[t].res = {"ended"}
      <3>1. pc'[t] = label
        BY <1>1, <2>1 DEF Stop, Send
      <3>2. \E c \in Replies : frame'[t] = [h EXCEPT !.net = c]
        BY <1>1, <1>7, <2>1 DEF Stop, Send
      <3> QED BY <1>6, <2>1, <3>1, <3>2
    <2>2. Unwind(t, f) => Send(t, "closeSession", Forget(f)) \/ Stop(t, "close", Forget(f))
      BY DEF Unwind
    <2> QED BY <1>2, <1>3, <1>4, <1>5, <2>1, <2>2
  <1> QED BY <1>8 DEF LocalPhase

LEMMA ClientSound ==
  ASSUME IInv, NEW t \in Threads, Client(t), ~Return(t)
  PROVE  IInv' /\ Implemented
  <1>1. CASE Interrupted(t)
    <2>1. pc[t] # "idle" /\ orphans' = Orphaned(t)
          /\ UNCHANGED <<store, locked, ctx, calls, faults>>
      BY <1>1 DEF Interrupted
    <2> QED BY <1>1, <2>1, InterruptedFails, InterruptedSteps, StepsSound
  <1>2. CASE \/ Connect(t) \/ Reply(t) \/ Subscribed(t) \/ Shown(t) \/ Completed(t)
             \/ Unsubscribed(t) \/ SessionClosed(t) \/ Close(t)
    <2>1. UNCHANGED <<daemonVars, req, ctx, calls, faults>> /\ pc[t] # "idle"
      BY <1>2 DEF Connect, Reply, Subscribed, Shown, Completed, Unsubscribed, SessionClosed, Close
    <2>2. Steps(t)
      BY <1>2, ConnectSteps, ReplySteps, SubscribedSteps, ShownSteps, CompletedSteps,
         UnsubscribedSteps, SessionClosedSteps, CloseSteps
    <2> QED BY <2>1, <2>2, StepsSound DEF daemonVars
  <1> QED BY <1>1, <1>2 DEF Client

\* The prompt of t is answered, by the user or by a service that garbles it.
LEMMA AnsweredSound ==
  ASSUME IInv, NEW t \in Threads, NEW no \in Answers \ {"confirmed"}, NEW yes \in Answers,
         Answered(t, no, yes), UNCHANGED <<pc, req, ctx, calls>>, faults' \in 0..MaxFaults
  PROVE  IInv' /\ Implemented
  <1>1. frame[t].prompt = "shown" /\ pc[t] \in {"prompt", "wait"}
    BY DEF Answered
  <1>2. CASE Tells(t) /\ locked' \in BOOLEAN
    BY <1>2, TellsSound
  <1>3. CASE /\ Stage(t) \in {"createItem", "deleteItem"} /\ frame[t].item # "gone"
             /\ locked' = FALSE /\ Write(req[t], Confirmed(t, yes), orphans)
    <2>1. PICK g : Done(t, g, Confirmed(t, yes))
      BY <1>1, <1>3, ConfirmedDone
    <2> QED BY <1>3, <2>1, DoneSound
  <1> QED BY <1>2, <1>3, AnsweredTells

LEMMA ServeSound ==
  ASSUME IInv, NEW t \in Threads, Serve(t) \/ Refuse(t)
  PROVE  IInv' /\ Implemented
  <1>1. locked \in BOOLEAN /\ faults \in 0..MaxFaults
    BY DEF IInv, Service, Shape
  <1>2. CASE Refuse(t)
    <2>1. UNCHANGED <<pc, req, ctx, calls, faults, locked>>
      BY <1>2 DEF Refuse, Untouched
    <2> QED BY <1>1, <1>2, <2>1, RefuseTells, TellsSound
  <1>3. CASE ServeOther(t)
    <2>1. UNCHANGED <<pc, req, ctx, calls, faults, locked>>
      BY <1>3 DEF ServeOther, Untouched
    <2> QED BY <1>1, <1>3, <2>1, ServeOtherTells, TellsSound
  <1>4. CASE UserAnswers(t)
    <2>1. Answered(t, "dismissed", "confirmed") /\ UNCHANGED <<pc, req, ctx, calls, faults>>
      BY <1>4 DEF UserAnswers, Untouched
    <2> QED BY <1>1, <2>1, AnsweredSound DEF Answers
  <1>5. CASE ServeCall(t)
    <2>1. Serves(t, "call") /\ UNCHANGED <<pc, req, ctx, calls, faults>>
      BY <1>5 DEF ServeCall, Untouched
    <2>2. /\ Stage(t) \in {"unlock", "unlockItem"} => ServeUnlock(t)
          /\ Stage(t) = "find" => ServeFind(t)
          /\ Stage(t) = "openSession" => ServeOpenSession(t)
          /\ Stage(t) = "getSecret" => ServeGetSecret(t)
          /\ Stage(t) \in {"createItem", "deleteItem"} => ServeMutation(t)
      BY <1>5 DEF ServeCall
    <2>3. Stage(t) \in {"unlock", "unlockItem", "find", "openSession", "getSecret",
                        "createItem", "deleteItem"}
      <3>1. /\ frame[t] \in Frames /\ req[t] \in Requests /\ frame[t].at <= Length(req[t])
            /\ Stage(t) = StageOf(req[t], frame[t])
        BY <2>1, CallFacts
      <3>2. req[t].op \in {"get", "set", "delete"} /\ req[t] \in Requests \cup {NoRequest}
        BY <3>1 DEF Requests
      <3>3. frame[t].at \in 1..Length(req[t])
        BY <3>1, <3>2, ScriptFacts
      <3> QED BY <3>1, <3>2, <3>3, ScriptFacts
    <2>4. CASE Stage(t) \in {"unlock", "unlockItem"}
      BY <1>1, <2>1, <2>2, <2>4, UnlockTells, TellsSound
    <2>5. CASE Stage(t) = "find"
      <3>1. locked' = locked
        BY <2>2, <2>5 DEF ServeFind
      <3> QED BY <1>1, <2>1, <2>2, <2>5, <3>1, FindTells, TellsSound
    <2>6. CASE Stage(t) = "openSession"
      <3>1. locked' = locked
        BY <2>2, <2>6 DEF ServeOpenSession
      <3> QED BY <1>1, <2>1, <2>2, <2>6, <3>1, SessionTells, TellsSound
    <2>7. CASE Stage(t) = "getSecret"
      <3>1. locked' = locked
        BY <2>2, <2>7 DEF ServeGetSecret
      <3> QED BY <1>1, <2>1, <2>2, <2>7, <3>1, GetSecretTells, TellsSound
    <2>8. CASE Stage(t) \in {"createItem", "deleteItem"}
      <3>1. locked' = locked
        BY <2>2, <2>8 DEF ServeMutation
      <3>2. CASE Tells(t)
        BY <1>1, <2>1, <3>1, <3>2, TellsSound
      <3>3. CASE /\ frame[t].item # "gone"
                 /\ Write(req[t], [frame EXCEPT ![t] = Answer([@ EXCEPT !.done = TRUE], "ok")],
                          orphans)
        <4>1. PICK g : Done(t, g, [frame EXCEPT ![t] = Answer([@ EXCEPT !.done = TRUE], "ok")])
          BY <2>1, <2>8, <3>3, ServedDone
        <4> DEFINE frames == [frame EXCEPT ![t] = Answer([@ EXCEPT !.done = TRUE], "ok")]
        <4>2. Done(t, g, frames) /\ Write(req[t], frames, orphans)
          BY <3>3, <4>1
        <4> HIDE DEF frames
        <4> QED BY <1>1, <2>1, <3>1, <4>2, DoneSound
      <3> QED BY <2>1, <2>2, <2>8, <3>2, <3>3, MutationTells
    <2> QED BY <2>3, <2>4, <2>5, <2>6, <2>7, <2>8
  <1> QED BY <1>2, <1>3, <1>4, <1>5 DEF Serve

LEMMA NewFrameFacts ==
  /\ NewFrame \in Frames /\ NewFrame.at = 1 /\ NewFrame.net = "none" /\ NewFrame.item = "none"
  /\ NewFrame.session = "none" /\ NewFrame.prompt = "none" /\ NewFrame.signals = <<>>
  /\ NewFrame.conn = "none" /\ NewFrame.res = {} /\ NewFrame.val = None /\ NewFrame.done = FALSE
  /\ [NewFrame EXCEPT !.net = "none"] = NewFrame
  <1>1. /\ NewFrame.at = 1 /\ NewFrame.net = "none" /\ NewFrame.item = "none"
        /\ NewFrame.session = "none" /\ NewFrame.prompt = "none" /\ NewFrame.signals = <<>>
        /\ NewFrame.conn = "none" /\ NewFrame.res = {} /\ NewFrame.val = None
    BY DEF NewFrame
  <1>2. NewFrame.done = FALSE
    BY Zenon DEF NewFrame
  <1>3. [NewFrame EXCEPT !.net = "none"] = NewFrame
    BY NewFrameType, <1>1 DEF Frames
  <1> QED BY <1>1, <1>2, <1>3, NewFrameType

\* A goroutine with a new frame, or with the error of a context that has ended.
LEMMA NewLocal ==
  ASSUME NEW t \in Threads, NEW p, NEW q, NEW f \in Frames,
         \/ p = "idle" /\ q = NoRequest /\ f = NewFrame
         \/ p = "connect" /\ q \in Requests /\ f = NewFrame
         \/ /\ p = "return" /\ q \in Requests /\ f.at = 1 /\ f.net = "none" /\ f.item = "none"
            /\ f.prompt = "none" /\ f.signals = <<>> /\ f.done = FALSE
            /\ f.res # {} /\ "notfound" \notin f.res
  PROVE  Local(t, p, q, f)
  <1>1. /\ f.at = 1 /\ f.net = "none" /\ f.item = "none" /\ f.prompt = "none"
        /\ f.signals = <<>> /\ "notfound" \notin f.res
    BY NewFrameFacts
  <1>2. ~f.done
    BY NewFrameFacts
  <1>3. q \in Requests \cup {NoRequest} /\ q.op \in {"get", "set", "delete", "none"}
    BY DEF Requests, NoRequest
  <1>4. f.at <= Length(q)
    <2>1. /\ Len(Script.get) = 5 /\ Len(Script.set) = 3 /\ Len(Script.delete) = 4
          /\ Len(Script.none) = 1
      BY DEF Script
    <2>2. Length(q) \in {1, 3, 4, 5}
      BY <1>3, <2>1 DEF Length
    <2> QED BY <1>1, <2>2
  <1>5. Place(p, q, f)
    BY <1>4 DEF Place
  <1>6. Prompted(t, p, q, f)
    <2>1. DOMAIN f.signals = {}
      BY <1>1
    <2> QED BY <1>1, <2>1 DEF Prompted
  <1>7. Effect(p, q, f)
    BY <1>1, <1>2 DEF Effect
  <1>8. Found(p, q, f) /\ Closing(p, f)
    BY <1>1 DEF Found, Closing
  <1> QED BY <1>3, <1>5, <1>6, <1>7, <1>8 DEF Local, Labels

\* One goroutine takes a request, or gives it back.
LEMMA RenewedInv ==
  ASSUME IInv, NEW t \in Threads, NEW p \in Labels, NEW q \in Requests \cup {NoRequest},
         NEW c \in {"live", "ended"}, NEW f \in Frames, Local(t, p, q, f), f.item = "none",
         Moves(t, p, q, f), ctx' = [ctx EXCEPT ![t] = c],
         calls' \in 0..MaxCalls, UNCHANGED <<store, locked, orphans, faults>>
  PROVE  /\ IInv' /\ pc'[t] = p /\ req'[t] = q /\ frame'[t] = f
         /\ \A u \in Threads \ {t} : UNCHANGED <<pc[u], req[u], frame[u]>>
  <1>1. /\ pc \in [Threads -> Labels] /\ frame \in [Threads -> Frames]
        /\ req \in [Threads -> Requests \cup {NoRequest}]
        /\ ctx \in [Threads -> {"live", "ended"}]
    BY DEF IInv, Shape
  <1>2. /\ pc'[t] = p /\ req'[t] = q /\ frame'[t] = f
        /\ \A u \in Threads \ {t} : UNCHANGED <<pc[u], req[u], frame[u]>>
    BY <1>1 DEF Moves
  <1>3. Shape'
    BY <1>1 DEF IInv, Shape, Moves
  <1>4. ASSUME NEW u \in Threads PROVE Local(u, pc'[u], req'[u], frame'[u])
    BY <1>2 DEF IInv
  <1>5. ASSUME NEW u \in Threads, frame'[u].item = "live" PROVE store'[req'[u].key] # None
    BY <1>2, <1>5 DEF IInv, Service, Key
  <1>6. Service'
    BY <1>5 DEF IInv, Service, Key
  <1> QED BY <1>2, <1>3, <1>4, <1>6 DEF IInv

LEMMA CallSound ==
  ASSUME IInv, NEW t \in Threads, Call(t)
  PROVE  IInv' /\ Implemented
  <1>1. PICK q \in Requests, c \in {"live", "ended"} :
            /\ req' = [req EXCEPT ![t] = q] /\ ctx' = [ctx EXCEPT ![t] = c]
            /\ IF c = "live" THEN Stop(t, "connect", NewFrame)
               ELSE Stop(t, "return", [NewFrame EXCEPT !.res = {"ended"}])
    BY DEF Call
  <1>2. pc[t] = "idle" /\ calls' \in 0..MaxCalls /\ UNCHANGED <<store, locked, orphans, faults>>
    BY SecretServiceAssumption DEF Call, daemonVars, IInv, Shape
  <1>3. PICK p \in Labels, f \in Frames :
            /\ Moves(t, p, q, f) /\ Local(t, p, q, f) /\ f.item = "none" /\ p # "idle"
            /\ LocalPhase(p, f) \in {"called", "failed"} /\ LocalAnswer(p, q, f) = None
    <2>1. CASE c = "live"
      <3>1. Moves(t, "connect", q, NewFrame)
        BY <1>1, <2>1, NewFrameFacts DEF Stop, Moves
      <3>2. Local(t, "connect", q, NewFrame)
        BY NewLocal, NewFrameType
      <3>3. LocalPhase("connect", NewFrame) = "called"
        BY NewFrameFacts DEF LocalPhase
      <3>4. LocalAnswer("connect", q, NewFrame) = None
        BY <3>3 DEF LocalAnswer
      <3> QED BY <3>1, <3>2, <3>3, <3>4, NewFrameFacts DEF Labels
    <2>2. CASE c # "live"
      <3> DEFINE h == [NewFrame EXCEPT !.res = {"ended"}]
                 f == [h EXCEPT !.net = "none"]
      <3>1. /\ h \in Frames /\ h.at = 1 /\ h.item = "none" /\ h.prompt = "none"
            /\ h.signals = <<>> /\ h.done = FALSE /\ h.res = {"ended"}
        <4>1. {"ended"} \in SUBSET Categories
          BY DEF Categories
        <4> QED BY <4>1, NewFrameFacts DEF Frames
      <3>2. Stop(t, "return", h)
        BY <1>1, <2>2
      <3> HIDE DEF h
      <3>3. /\ f \in Frames /\ f.at = 1 /\ f.item = "none" /\ f.prompt = "none" /\ f.net = "none"
            /\ f.signals = <<>> /\ f.done = FALSE /\ f.res = {"ended"}
        BY <3>1 DEF Frames, Replies, BusErrors
      <3>4. Moves(t, "return", q, f)
        BY <1>1, <3>2 DEF Stop, Moves
      <3> HIDE DEF f
      <3>5. Local(t, "return", q, f)
        BY <3>3, NewLocal
      <3>6. LocalPhase("return", f) = "failed"
        BY <3>3 DEF LocalPhase
      <3>7. LocalAnswer("return", q, f) = None
        BY <3>6 DEF LocalAnswer
      <3> QED BY <3>3, <3>4, <3>5, <3>6, <3>7 DEF Labels
    <2> QED BY <2>1, <2>2
  <1>4. /\ IInv' /\ pc'[t] = p /\ req'[t] = q /\ frame'[t] = f
        /\ \A u \in Threads \ {t} : UNCHANGED <<pc[u], req[u], frame[u]>>
    BY <1>1, <1>2, <1>3, RenewedInv
  <1>5. /\ PhaseOf = [u \in Threads |-> PhaseOf[u]]
        /\ AnswerOf = [u \in Threads |-> AnswerOf[u]]
        /\ PhaseOf' = [u \in Threads |-> PhaseOf'[u]]
        /\ AnswerOf' = [u \in Threads |-> AnswerOf'[u]]
        /\ PhaseOf'[t] = LocalPhase(p, f) /\ AnswerOf'[t] = None
        /\ PhaseOf[t] = LocalPhase(pc[t], frame[t])
        /\ AnswerOf[t] = LocalAnswer(pc[t], req[t], frame[t])
        /\ \A u \in Threads \ {t} : PhaseOf'[u] = PhaseOf[u] /\ AnswerOf'[u] = AnswerOf[u]
    BY <1>3, <1>4, MappedNext, MappedPhase
  <1>6. PhaseOf[t] = "idle" /\ AnswerOf[t] = None
    BY <1>2, <1>5 DEF LocalPhase, LocalAnswer
  <1>7. PhaseOf' = [PhaseOf EXCEPT ![t] = LocalPhase(p, f)] /\ AnswerOf' = AnswerOf
    BY <1>5, <1>6
  <1>8. Contract!Call(t)
    BY <1>1, <1>2, <1>3, <1>6, <1>7, ContractFacts DEF Contract!Call
  <1> QED BY <1>2, <1>4, <1>8 DEF Implemented, Contract!RemoteNext

LEMMA ReturnSound ==
  ASSUME IInv, NEW t \in Threads, Return(t)
  PROVE  IInv' /\ Implemented
  <1>1. /\ pc[t] = "return" /\ Moves(t, "idle", NoRequest, NewFrame)
        /\ ctx' = [ctx EXCEPT ![t] = "live"]
        /\ UNCHANGED <<store, locked, orphans, calls, faults>>
    BY NewFrameFacts DEF Return, Stop, Moves, daemonVars
  <1>2. Local(t, "idle", NoRequest, NewFrame) /\ calls' \in 0..MaxCalls
    BY <1>1, NewLocal, NewFrameType DEF IInv, Shape
  <1>3. /\ IInv' /\ pc'[t] = "idle" /\ req'[t] = NoRequest /\ frame'[t] = NewFrame
        /\ \A u \in Threads \ {t} : UNCHANGED <<pc[u], req[u], frame[u]>>
    BY <1>1, <1>2, NewFrameFacts, RenewedInv DEF Labels
  <1>4. /\ PhaseOf = [u \in Threads |-> PhaseOf[u]]
        /\ AnswerOf = [u \in Threads |-> AnswerOf[u]]
        /\ PhaseOf' = [u \in Threads |-> PhaseOf'[u]]
        /\ AnswerOf' = [u \in Threads |-> AnswerOf'[u]]
        /\ PhaseOf'[t] = LocalPhase("idle", NewFrame)
        /\ AnswerOf'[t] = LocalAnswer("idle", NoRequest, NewFrame)
        /\ PhaseOf[t] = LocalPhase(pc[t], frame[t])
        /\ \A u \in Threads \ {t} : PhaseOf'[u] = PhaseOf[u] /\ AnswerOf'[u] = AnswerOf[u]
    BY <1>3, MappedNext, MappedPhase
  <1>5. PhaseOf'[t] = "idle" /\ AnswerOf'[t] = None
    BY <1>4 DEF LocalPhase, LocalAnswer
  <1>6. PhaseOf[t] \in {"applied", "failed"}
    BY <1>1, <1>4 DEF LocalPhase, IInv, Local, Effect
  <1>7. PhaseOf' = [PhaseOf EXCEPT ![t] = "idle"] /\ AnswerOf' = [AnswerOf EXCEPT ![t] = None]
    BY <1>4, <1>5
  <1>8. Contract!Return(t)
    BY <1>1, <1>6, <1>7, ContractFacts DEF Contract!Return, Moves
  <1> QED BY <1>1, <1>3, <1>8 DEF Implemented, Contract!RemoteNext

LEMMA FaultBounded ==
  ASSUME IInv, Fault
  PROVE  faults' \in 0..MaxFaults
  <1>1. faults \in 0..MaxFaults /\ faults < MaxFaults /\ faults' = faults + 1
    BY DEF IInv, Shape, Fault
  <1> QED BY <1>1, SecretServiceAssumption

\* What a restart makes of a goroutine's frame.
LEMMA RestartLocal ==
  ASSUME NEW t \in Threads, NEW p, NEW q, NEW f \in Frames, Local(t, p, q, f),
         NEW g \in Frames, g.at = f.at, g.item = f.item, g.signals = f.signals,
         g.conn = f.conn, g.res = f.res, g.val = f.val, g.done = f.done, g.match = f.match,
         g.session = IF f.session = "open" THEN "lost" ELSE f.session,
         g.prompt = IF f.prompt \in {"new", "shown"} THEN "done" ELSE f.prompt,
         g.net = IF f.net = "sent" /\ p \in {"call", "prompt", "closeSession"}
                 THEN "NoReply" ELSE f.net
  PROVE  /\ Local(t, p, q, g) /\ LocalPhase(p, g) = LocalPhase(p, f)
         /\ LocalAnswer(p, q, g) = LocalAnswer(p, q, f)
  <1>1. /\ g.net \in {"empty", "NoSuchObject"} <=> f.net \in {"empty", "NoSuchObject"}
        /\ g.net = "prompt" <=> f.net = "prompt"
        /\ g.net = "ok" <=> f.net = "ok"
    OBVIOUS
  <1>2. g.session # "open" /\ g.prompt \notin {"new", "shown"}
    OBVIOUS
  <1>3. StageOf(q, g) = StageOf(q, f)
    BY DEF StageOf
  <1>4. p \in {"idle", "connect"} => g = f
    <2> SUFFICES ASSUME f = NewFrame PROVE g = f
      BY DEF Local, Place
    <2>1. g.session = f.session /\ g.prompt = f.prompt /\ g.net = f.net
      BY NewFrameFacts
    <2> QED BY <2>1 DEF Frames
  <1>5. Place(p, q, g)
    BY <1>4 DEF Local, Place
  <1>6. Prompted(t, p, q, g)
    BY <1>1, <1>2, <1>3 DEF Local, Prompted
  <1>7. Effect(p, q, g)
    BY <1>1 DEF Local, Effect
  <1>8. Found(p, q, g) /\ Closing(p, g)
    BY <1>1, <1>2 DEF Local, Found, Closing, CleanupReplies
  <1>9. Local(t, p, q, g)
    BY <1>5, <1>6, <1>7, <1>8 DEF Local
  <1>10. LocalPhase(p, g) = LocalPhase(p, f)
    BY <1>1 DEF LocalPhase
  <1> QED BY <1>9, <1>10 DEF LocalAnswer

LEMMA RestartSound ==
  ASSUME IInv, Restart
  PROVE  IInv' /\ Implemented
  <1>1. /\ locked' = TRUE /\ faults' \in 0..MaxFaults
        /\ UNCHANGED <<store, orphans, pc, req, ctx, calls>>
    BY FaultBounded DEF Restart
  <1>2. ASSUME NEW t \in Threads
        PROVE  /\ frame'[t] \in Frames /\ Local(t, pc[t], req[t], frame'[t])
               /\ frame'[t].item = frame[t].item
               /\ LocalPhase(pc[t], frame'[t]) = LocalPhase(pc[t], frame[t])
               /\ LocalAnswer(pc[t], req[t], frame'[t]) = LocalAnswer(pc[t], req[t], frame[t])
    <2> DEFINE f == frame[t]
               g == frame'[t]
    <2>1. f \in Frames /\ Local(t, pc[t], req[t], f)
      BY DEF IInv, Shape
    <2> DEFINE session == IF f.session = "open" THEN "lost" ELSE f.session
               prompt == IF f.prompt \in {"new", "shown"} THEN "done" ELSE f.prompt
               net == IF f.net = "sent" /\ pc[t] \in {"call", "prompt", "closeSession"}
                      THEN "NoReply" ELSE f.net
    <2>2. g = [f EXCEPT !.session = session, !.prompt = prompt, !.net = net]
      BY DEF Restart
    <2> HIDE DEF f, g
    <2>3. /\ g \in Frames /\ g.at = f.at /\ g.item = f.item /\ g.signals = f.signals
          /\ g.conn = f.conn /\ g.res = f.res /\ g.val = f.val /\ g.done = f.done
          /\ g.match = f.match
          /\ g.session = IF f.session = "open" THEN "lost" ELSE f.session
          /\ g.prompt = IF f.prompt \in {"new", "shown"} THEN "done" ELSE f.prompt
          /\ g.net = IF f.net = "sent" /\ pc[t] \in {"call", "prompt", "closeSession"}
                     THEN "NoReply" ELSE f.net
      <3>1. /\ session \in {"none", "open", "lost"} /\ net \in Replies
            /\ prompt \in {"none", "new", "shown", "done"}
        BY <2>1 DEF Frames, Replies, BusErrors
      <3> HIDE DEF session, prompt, net
      <3>2. /\ g \in Frames /\ g.at = f.at /\ g.item = f.item /\ g.signals = f.signals
            /\ g.conn = f.conn /\ g.res = f.res /\ g.val = f.val
            /\ g.session = session /\ g.prompt = prompt /\ g.net = net
        BY <2>1, <2>2, <3>1 DEF Frames
      <3>3. g.done = f.done /\ g.match = f.match
        BY <2>1, <2>2, Zenon DEF Frames
      <3> QED BY <3>2, <3>3 DEF session, prompt, net
    <2>4. /\ Local(t, pc[t], req[t], g) /\ LocalPhase(pc[t], g) = LocalPhase(pc[t], f)
          /\ LocalAnswer(pc[t], req[t], g) = LocalAnswer(pc[t], req[t], f)
      BY <2>1, <2>3, RestartLocal
    <2> QED BY <2>3, <2>4 DEF f, g
  <1>3. frame' \in [Threads -> Frames]
    <2>1. frame' = [t \in Threads |-> frame'[t]]
      BY DEF Restart
    <2> QED BY <1>2, <2>1
  <1>4. IInv'
    <2>1. Shape'
      BY <1>1, <1>3 DEF IInv, Shape
    <2>2. Service'
      BY <1>1, <1>2 DEF IInv, Service, Key
    <2> QED BY <1>1, <1>2, <2>1, <2>2 DEF IInv
  <1>5. PhaseOf' = PhaseOf /\ AnswerOf' = AnswerOf
    <2>1. \A t \in Threads : PhaseOf'[t] = PhaseOf[t] /\ AnswerOf'[t] = AnswerOf[t]
      <3>1. \A t \in Threads \ Threads : UNCHANGED <<pc[t], req[t], frame[t]>>
        OBVIOUS
      <3>2. \A t \in Threads : /\ PhaseOf'[t] = LocalPhase(pc'[t], frame'[t])
                               /\ AnswerOf'[t] = LocalAnswer(pc'[t], req'[t], frame'[t])
        BY <3>1, MappedNext
      <3> QED BY <1>1, <1>2, <3>2, MappedPhase
    <2> QED BY <2>1 DEF PhaseOf, AnswerOf
  <1> QED BY <1>1, <1>4, <1>5 DEF Implemented, Contract!remoteVars, Contract!contractVars

LEMMA BreakSound ==
  ASSUME IInv, NEW t \in Threads, Break(t)
  PROVE  IInv' /\ Implemented
  <1> DEFINE f == frame[t]
             q == req[t]
             session == IF f.session = "open" THEN "lost" ELSE f.session
             net == IF f.net = "sent" THEN "other" ELSE f.net
             g == [f EXCEPT !.conn = "broken", !.prompt = "none", !.session = session,
                            !.net = net]
  <1>1. /\ f.conn = "open" /\ orphans' = Orphaned(t) /\ frame' = [frame EXCEPT ![t] = g]
        /\ faults' \in 0..MaxFaults /\ UNCHANGED <<store, locked, pc, req, ctx, calls>>
    <2>1. frame' = [frame EXCEPT ![t] = g]
      BY Zenon DEF Break
    <2>2. faults' \in 0..MaxFaults
      BY FaultBounded, Zenon DEF Break
    <2>3. /\ f.conn = "open" /\ orphans' = Orphaned(t)
          /\ UNCHANGED <<store, locked, pc, req, ctx, calls>>
      BY Zenon DEF Break
    <2> QED BY <2>1, <2>2, <2>3
  <1>2. f \in Frames /\ Local(t, pc[t], q, f) /\ frame \in [Threads -> Frames]
    BY DEF IInv, Shape
  <1>3. /\ g \in Frames /\ g.at = f.at /\ g.item = f.item /\ g.signals = f.signals
        /\ g.conn = "broken" /\ g.res = f.res /\ g.val = f.val /\ g.done = f.done
        /\ g.session = (IF f.session = "open" THEN "lost" ELSE f.session)
        /\ g.prompt = "none" /\ g.net = (IF f.net = "sent" THEN "other" ELSE f.net)
    <2>1. session \in {"none", "open", "lost"} /\ net \in Replies
      BY <1>2 DEF Frames, Replies, BusErrors
    <2> HIDE DEF session, net
    <2>2. /\ g \in Frames /\ g.at = f.at /\ g.item = f.item /\ g.signals = f.signals
          /\ g.conn = "broken" /\ g.res = f.res /\ g.val = f.val
          /\ g.session = session /\ g.prompt = "none" /\ g.net = net
      BY <1>2, <2>1 DEF Frames
    <2>3. g.done = f.done
      BY <1>2, Zenon DEF Frames
    <2> QED BY <2>2, <2>3 DEF session, net
  <1> HIDE DEF g
  <1>4. /\ g.net \in {"empty", "NoSuchObject"} <=> f.net \in {"empty", "NoSuchObject"}
        /\ g.net = "prompt" <=> f.net = "prompt"
        /\ g.net = "ok" <=> f.net = "ok"
        /\ g.session # "open"
    BY <1>3
  <1>5. pc[t] \notin {"idle", "connect"}
    BY <1>1, <1>2, NewFrameFacts DEF Local, Place
  <1>6. StageOf(q, g) = StageOf(q, f)
    BY <1>3 DEF StageOf
  <1>7. Place(pc[t], q, g)
    BY <1>2, <1>3, <1>5 DEF Local, Place
  <1>8. Prompted(t, pc[t], q, g)
    BY <1>2, <1>3, <1>4, <1>6 DEF Local, Prompted
  <1>9. Effect(pc[t], q, g)
    BY <1>2, <1>3, <1>4 DEF Local, Effect
  <1>10. Found(pc[t], q, g) /\ Closing(pc[t], g)
    BY <1>2, <1>3, <1>4 DEF Local, Found, Closing, CleanupReplies
  <1>11. Local(t, pc[t], q, g)
    BY <1>2, <1>3, <1>7, <1>8, <1>9, <1>10 DEF Local
  <1>12. frame'[t] = g /\ \A u \in Threads \ {t} : frame'[u] = frame[u]
    BY <1>1, <1>2
  <1>13. IInv'
    <2>1. Shape'
      BY <1>1, <1>2, <1>3 DEF IInv, Shape
    <2>2. ASSUME NEW u \in Threads PROVE Local(u, pc'[u], req'[u], frame'[u])
      BY <1>1, <1>11, <1>12 DEF IInv
    <2>3. ASSUME NEW u \in Threads, frame'[u].item = "live" PROVE store'[req'[u].key] # None
      BY <1>1, <1>3, <1>12, <2>3 DEF IInv, Service, Key
    <2>4. Service'
      BY <1>1, <2>3, OrphanedFacts DEF IInv, Service, Key
    <2> QED BY <2>1, <2>2, <2>4 DEF IInv
  <1>14. Stays(t, pc[t], g)
    <2>1. CASE LocalPhase(pc[t], f) = "called"
      <3>1. f.res = {} /\ ~f.done /\ f.net \notin {"empty", "NoSuchObject"}
        BY <2>1 DEF LocalPhase
      <3>2. LocalPhase(pc[t], g) = "failed"
        BY <1>3, <1>4, <1>5, <3>1 DEF LocalPhase
      <3> QED BY <3>2 DEF Stays
    <2>2. CASE LocalPhase(pc[t], f) # "called"
      <3>1. LocalPhase(pc[t], g) \in {LocalPhase(pc[t], f), "failed"}
        BY <1>1, <1>3, <1>4, <2>2 DEF LocalPhase
      <3> QED BY <1>3, <3>1 DEF Stays, LocalAnswer
    <2> QED BY <2>1, <2>2
  <1>15. \/ orphans' = orphans
         \/ /\ LocalPhase(pc[t], f) = "called" /\ q.op # "get"
            /\ LocalPhase(pc[t], g) = "failed"
            /\ orphans' = orphans (+) SetToBag({q})
    <2>1. CASE ~InFlight(t)
      BY <1>1, <2>1 DEF Orphaned
    <2>2. CASE InFlight(t)
      <3>1. LocalPhase(pc[t], f) = "called" /\ q.op # "get"
        BY <2>2, InFlightFacts
      <3>2. f.res = {} /\ ~f.done /\ f.net \notin {"empty", "NoSuchObject"}
        BY <3>1 DEF LocalPhase
      <3>3. LocalPhase(pc[t], g) = "failed"
        BY <1>3, <1>4, <1>5, <3>2 DEF LocalPhase
      <3> QED BY <1>1, <2>2, <3>1, <3>3 DEF Orphaned
    <2> QED BY <2>1, <2>2
  <1>16. pc'[t] = pc[t] /\ \A u \in Threads \ {t} : UNCHANGED <<pc[u], req[u], frame[u]>>
    BY <1>1, <1>12
  <1>17. Implemented
    <2>1. Stays(t, pc'[t], frame'[t])
      BY <1>12, <1>14, <1>16
    <2>2. \/ orphans' = orphans
          \/ /\ LocalPhase(pc[t], frame[t]) = "called" /\ req[t].op # "get"
             /\ LocalPhase(pc'[t], frame'[t]) = "failed"
             /\ orphans' = orphans (+) SetToBag({req[t]})
      BY <1>12, <1>15, <1>16
    <2> HIDE DEF f, q
    <2> QED BY <1>1, <1>5, <1>16, <2>1, <2>2, StaysImplemented
  <1> QED BY <1>13, <1>17

LEMMA InitInv == Init => IInv
  <1> SUFFICES ASSUME Init PROVE IInv
    OBVIOUS
  <1>1. Shape
    BY SecretServiceAssumption, NewFrameType DEF Init, Shape, Labels
  <1>2. ASSUME NEW t \in Threads PROVE Local(t, pc[t], req[t], frame[t])
    <2>1. pc[t] = "idle" /\ req[t] = NoRequest /\ frame[t] = NewFrame
      BY DEF Init
    <2> QED BY <2>1, NewLocal, NewFrameType
  <1>3. IsABag(orphans) /\ BagToSet(orphans) = {}
    <2>1. orphans = [e \in {} |-> 1]
      BY DEF Init, EmptyBag, SetToBag
    <2> QED BY <2>1 DEF IsABag, BagToSet
  <1>4. Service
    BY <1>3, NewFrameFacts DEF Init, Service
  <1> QED BY <1>1, <1>2, <1>4 DEF IInv

LEMMA NextSound ==
  ASSUME IInv, [Next]_vars
  PROVE  IInv' /\ Implemented
  <1>1. CASE UNCHANGED vars
    <2>1. IInv'
      BY <1>1 DEF vars, daemonVars, IInv, Shape, Service, Key
    <2>2. PhaseOf' = PhaseOf /\ AnswerOf' = AnswerOf
      BY <1>1 DEF vars, daemonVars, PhaseOf, AnswerOf
    <2> QED BY <1>1, <2>1, <2>2 DEF vars, daemonVars, Implemented, Contract!remoteVars,
                                    Contract!contractVars
  <1>2. ASSUME NEW t \in Threads, EndContext(t) PROVE IInv' /\ Implemented
    <2>1. /\ ctx' = [ctx EXCEPT ![t] = "ended"]
          /\ UNCHANGED <<store, locked, orphans, pc, req, frame, calls, faults>>
      BY <1>2 DEF EndContext, daemonVars
    <2>2. IInv'
      BY <2>1 DEF IInv, Shape, Service, Key
    <2>3. PhaseOf' = PhaseOf /\ AnswerOf' = AnswerOf
      BY <2>1 DEF PhaseOf, AnswerOf
    <2> QED BY <2>1, <2>2, <2>3 DEF Implemented, Contract!remoteVars, Contract!contractVars
  <1>3. ASSUME LockCollection PROVE IInv' /\ Implemented
    <2>1. locked' = TRUE /\ faults' \in 0..MaxFaults
          /\ UNCHANGED <<store, orphans, pc, req, ctx, frame, calls>>
      BY <1>3, FaultBounded DEF LockCollection
    <2>2. IInv'
      BY <2>1 DEF IInv, Shape, Service, Key
    <2>3. PhaseOf' = PhaseOf /\ AnswerOf' = AnswerOf
      BY <2>1 DEF PhaseOf, AnswerOf
    <2> QED BY <2>1, <2>2, <2>3 DEF Implemented, Contract!remoteVars, Contract!contractVars
  <1>4. ASSUME NEW t \in Threads, Call(t) \/ Client(t)
        PROVE  IInv' /\ Implemented
    BY <1>4, CallSound, ReturnSound, ClientSound
  <1>5. ASSUME NEW t \in Threads, Serve(t) \/ Refuse(t) \/ Break(t)
        PROVE  IInv' /\ Implemented
    BY <1>5, ServeSound, BreakSound
  <1>6. ASSUME NEW t \in Threads, Garble(t)
        PROVE  IInv' /\ Implemented
    <2>1. /\ Answered(t, "invalid", "invalid") /\ UNCHANGED <<pc, req, ctx, calls>>
          /\ faults' \in 0..MaxFaults
      BY <1>6, FaultBounded DEF Garble
    <2> QED BY <2>1, AnsweredSound DEF Answers
  <1> QED BY <1>1, <1>2, <1>3, <1>4, <1>5, <1>6, RestartSound, LateSound DEF Next

-----------------------------------------------------------------------------
(* The theorems.                                                             *)

\* The invariant holds whatever the goroutines, the service, the user and the bus
\* do (client.go, get/set/remove and the calls below them).
THEOREM Invariance == Spec => []IInv
  <1>1. IInv /\ [Next]_vars => IInv'
    BY NextSound
  <1> QED BY InitInv, <1>1, PTL DEF Spec

\* Every variable keeps its type: no call leaves its script, and what abandoned
\* connections left in flight stays a bag of requests.
THEOREM TypeCorrect == Spec => []TypeOK
  <1>1. IInv => TypeOK
    BY DEF IInv, Shape, Service, Frames, TypeOK
  <1> QED BY <1>1, Invariance, PTL

\* closeSession runs on every path: an operation that comes to the close of its
\* connection with its session open says so in its error.
THEOREM SessionClosedOrReported == Spec => []SessionLeftIsReported
  <1>1. IInv => SessionLeftIsReported
    BY DEF IInv, Local, Closing, SessionLeftIsReported
  <1> QED BY <1>1, Invariance, PTL

\* handlePrompt: only the confirmation of the prompt it has shown lets a goroutine
\* go on, whatever other prompts, its own earlier ones included, are answered.
LEMMA OwnPrompt ==
  ASSUME IInv, [Next]_vars, NEW t \in Threads, pc[t] = "wait", pc'[t] = "removeMatch",
         frame'[t].res = {}
  PROVE  Head(frame[t].signals) = <<t, "confirmed", frame[t].at>>
  <1> DEFINE f == frame[t]
  <1>1. /\ pc \in [Threads -> Labels] /\ frame \in [Threads -> Frames] /\ f \in Frames
        /\ Local(t, "wait", req[t], f)
    BY DEF IInv, Shape
  <1>2. ASSUME NEW h \in Frames, Send(t, "removeMatch", h) PROVE h.res = {}
    <2>1. frame'[t] = [h EXCEPT !.net = IF h.conn = "broken" THEN "other" ELSE "sent"]
      BY <1>1, <1>2 DEF Send
    <2>2. frame'[t].res = h.res
      BY <2>1 DEF Frames
    <2> QED BY <2>2
  <1>3. Completed(t) \/ Interrupted(t)
    <2>1. pc'[t] # pc[t]
      OBVIOUS
    <2>2. PICK u \in Threads : Call(u) \/ Client(u)
      BY <2>1 DEF Next, vars, EndContext, Serve, ServeCall, ServeOther, UserAnswers, Untouched,
                  Refuse, Break, Garble, LockCollection, Restart, Late
    <2>3. u = t
      BY <1>1, <2>1, <2>2 DEF Call, Client, Connect, Reply, Subscribed, Shown, Completed,
             Interrupted, Unsubscribed, SessionClosed, Close, Return, Failed, Proceed, Unwind,
             Send, Stop
    <2> QED BY <2>2, <2>3 DEF Call, Client, Connect, Reply, Subscribed, Shown,
             Unsubscribed, SessionClosed, Close, Return
  <1>4. ~Interrupted(t)
    <2> SUFFICES ASSUME Interrupted(t) PROVE FALSE
      OBVIOUS
    <2> DEFINE h == [f EXCEPT !.res = {"ended"}, !.prompt = "none", !.signals = <<>>]
    <2>1. Send(t, "removeMatch", h)
      BY DEF Interrupted
    <2>2. h \in Frames /\ h.res = {"ended"}
      <3>1. {"ended"} \in SUBSET Categories /\ <<>> \in Seq(Completions)
        BY DEF Categories
      <3> QED BY <1>1, <3>1 DEF Frames
    <2> HIDE DEF h
    <2> QED BY <1>2, <2>1, <2>2
  <1>5. Completed(t)
    BY <1>3, <1>4
  <1> DEFINE h == [f EXCEPT !.prompt = "none", !.signals = <<>>]
  <1>6. h \in Frames
    <2>1. <<>> \in Seq(Completions)
      OBVIOUS
    <2> QED BY <1>1, <2>1 DEF Frames
  <1>7. \A r \in SUBSET Categories : [h EXCEPT !.res = r] \in Frames
                                     /\ [h EXCEPT !.res = r].res = r
    BY <1>6 DEF Frames
  <1>8. ~(f.signals = <<>> /\ Send(t, "removeMatch", [h EXCEPT !.res = BackendError(t, "other")]))
    <2> DEFINE r == BackendError(t, "other")
    <2>1. r \in SUBSET Categories /\ r # {}
      BY ErrorFacts
    <2> HIDE DEF r, h
    <2> QED BY <1>2, <1>7, <2>1 DEF r
  <1>9. f.signals # <<>> /\ PromptError[Head(f.signals)[2]] = {}
    <2> DEFINE r == PromptError[Head(f.signals)[2]]
    <2>1. f.signals # <<>> /\ Send(t, "removeMatch", [h EXCEPT !.res = r])
      BY <1>5, <1>8 DEF Completed
    <2>2. Head(f.signals) \in Completions
      BY <1>1, <2>1 DEF Frames
    <2>3. r \in {{}, {"interaction"}, {"failure"}}
      BY <2>2 DEF PromptError, Completions
    <2>4. r \in SUBSET Categories
      BY <2>3 DEF Categories
    <2>5. r = {}
      <3> HIDE DEF r, h
      <3> QED BY <1>2, <1>7, <2>1, <2>4
    <2> QED BY <2>1, <2>5
  <1>10. Head(f.signals) \in Completions /\ Head(f.signals) = f.signals[1] /\ 1 \in DOMAIN f.signals
    BY <1>1, <1>9 DEF Frames
  <1>11. Head(f.signals)[1] = t /\ Head(f.signals)[3] = f.at
    BY <1>1, <1>10 DEF Local, Prompted
  <1>12. Head(f.signals)[2] = "confirmed"
    BY <1>9, <1>10 DEF Completions, PromptError
  <1> QED BY <1>10, <1>11, <1>12 DEF Completions

THEOREM PromptsAreOwn == Spec => PromptIsOwn
  <1>1. IInv /\ [Next]_vars =>
          [\A t \in Threads :
             pc[t] = "wait" /\ pc'[t] = "removeMatch" /\ frame'[t].res = {}
                 => Head(frame[t].signals) = <<t, "confirmed", frame[t].at>>]_vars
    BY OwnPrompt
  <1> QED BY <1>1, Invariance, PTL DEF Spec, PromptIsOwn

\* Every behaviour of the client, the service, the user and the bus is one of
\* RemoteContract.
THEOREM Implementation == Spec => ImplementsRemoteContract
  <1>1. Init => Contract!RemoteInit
    <2> SUFFICES ASSUME Init PROVE Contract!RemoteInit
      OBVIOUS
    <2>1. PhaseOf = [t \in Threads |-> "idle"]
      BY DEF Init, PhaseOf
    <2>2. AnswerOf = [t \in Threads |-> None]
      BY <2>1 DEF AnswerOf
    <2>3. store \in [Keys -> Values \cup {None, Blocked}]
      BY DEF Init
    <2> QED BY <2>1, <2>2, <2>3, ContractFacts DEF Init, Contract!RemoteInit, Contract!Init
  <1>2. IInv /\ [Next]_vars => [Contract!RemoteNext]_(Contract!remoteVars)
    BY NextSound DEF Implemented
  <1> QED BY <1>1, <1>2, Invariance, PTL DEF Spec, ImplementsRemoteContract,
                                              Contract!RemoteContractSpec
=============================================================================
