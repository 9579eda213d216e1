---------------------------- MODULE OpenProofs -----------------------------
(***************************************************************************)
(* Proofs about Open: first about Selection, for every set of sites and    *)
(* every set of option lists, of any length and with any order of          *)
(* candidates; then about SecureLinux, for every set of outcomes of        *)
(* LookPath besides: the steps of the openers keep Selection's invariant,  *)
(* implement Selection, and neither downgrade silently nor leave a helper  *)
(* or a connection behind.                                                 *)
(***************************************************************************)
EXTENDS SecureLinux, WellFoundedInduction, TLAPS

-----------------------------------------------------------------------------
(* The inductive invariant.                                                  *)

\* The candidates before `index' were rejected in their order, and each of them
\* was unavailable or unsupported.
PassedOver(list) ==
    \A i \in 1 .. Len(list) : list[i].backend = order[i] /\ Continues(list[i].err)

\* What the loop has done when it is about to look at, or to open, a candidate.
LoopInv ==
    phase \in {"loop", "opening"} =>
        /\ Len(rejected) = index - 1
        /\ index <= Len(order) + 1
        /\ PassedOver(rejected)
        /\ phase = "opening" => index <= Len(order) /\ Candidate \in Registry(site)

\* A call starts from scratch and has no result until it returns.
FreshInv ==
    /\ phase # "done" => result = NoResult
    /\ phase \in {"idle", "called"} => order = <<>> /\ index = 1 /\ rejected = <<>>

SInv == /\ TypeOK /\ FreshInv /\ LoopInv
        /\ SelectionIsExplained /\ TerminalFailureStops /\ PlaintextIsPermitted

-----------------------------------------------------------------------------
(* Options and orders.                                                       *)

\* Among finitely many positions one is the last.
LEMMA LastPosition ==
  ASSUME NEW n \in Nat, NEW S \in SUBSET (1 .. n), S # {}
  PROVE  \E i \in S : \A j \in S : j <= i
  <1> DEFINE T == {n - i : i \in S}
  <1>1. T \subseteq Nat /\ T # {}
    <2>1. \A i \in S : i \in 1 .. n /\ n - i \in Nat
      OBVIOUS
    <2>2. PICK i \in S : TRUE
      OBVIOUS
    <2>3. n - i \in T
      OBVIOUS
    <2> QED BY <2>1, <2>3
  <1>2. \E x \in T : \A y \in T : ~(<<y, x>> \in OpToRel(<, Nat))
    <2> HIDE DEF T
    <2> QED BY <1>1, NatLessThanWellFounded, WFMin
  <1>3. PICK x \in T : \A y \in T : ~(y < x)
    BY <1>1, <1>2 DEF OpToRel
  <1>4. PICK i \in S : x = n - i
    BY <1>3
  <1>5. \A j \in S : n - j \in T /\ ~(n - j < n - i)
    BY <1>3, <1>4
  <1> QED BY <1>5

LEMMA MergedType ==
  ASSUME NEW list \in Seq(Options)
  PROVE  /\ mergeOptions(list).backends \in Seq(Backends)
         /\ mergeOptions(list).dir => \E i \in DOMAIN list : list[i].dir
  <1> DEFINE ordered == {i \in DOMAIN list : list[i].backends # <<>>}
             winner == CHOOSE i \in ordered : \A j \in ordered : j <= i
  <1>1. ordered # {} => winner \in ordered
    <2>1. Len(list) \in Nat /\ ordered \in SUBSET (1 .. Len(list))
      OBVIOUS
    <2> HIDE DEF ordered
    <2>2. ordered # {} => \E i \in ordered : \A j \in ordered : j <= i
      BY <2>1, LastPosition
    <2> QED BY <2>2
  <1>2. ordered # {} => list[winner].backends \in Seq(Backends)
    <2>1. \A i \in DOMAIN list : list[i].backends \in Seq(Backends)
      <3>1. \A i \in DOMAIN list : list[i] \in Options
        OBVIOUS
      <3> QED BY <3>1 DEF Options
    <2> HIDE DEF winner
    <2> QED BY <1>1, <2>1
  <1>3. mergeOptions(list).backends = IF ordered = {} THEN <<>> ELSE list[winner].backends
    BY DEF mergeOptions
  <1>4. mergeOptions(list).dir => \E i \in DOMAIN list : list[i].dir
    BY DEF mergeOptions
  <1> HIDE DEF ordered, winner
  <1> QED BY <1>2, <1>3, <1>4

LEMMA DefaultOrderType ==
  ASSUME NEW s \in Sites, NEW o
  PROVE  DefaultOrder(s, o) \in Seq(Backends)
  <1>1. NativeBackend(s) \in Backends
    BY SelectionAssumption DEF NativeBackend, Backends
  <1>2. \A c : \A b \in Backends : If(c, <<b>>) \in Seq(Backends)
    BY DEF If
  <1>3. /\ {"windows-credential-manager", "secret-service", "kernel-keyring", "filesystem"}
                \subseteq Backends
        /\ <<"secret-service", "kernel-keyring">> \in Seq(Backends)
    BY DEF Backends
  <1> HIDE DEF Backends
  <1>4. CASE LinuxGetter(s)
    <2>1. If(s.wsl2, <<"windows-credential-manager">>) \in Seq(Backends)
      BY <1>2, <1>3
    <2> QED BY <1>3, <1>4, <2>1 DEF DefaultOrder
  <1>5. CASE ~LinuxGetter(s)
    <2>1. /\ If(NativeSupported(s), <<NativeBackend(s)>>) \in Seq(Backends)
          /\ If(s.pkg = "root" /\ o.dir, <<"filesystem">>) \in Seq(Backends)
      BY <1>1, <1>2, <1>3
    <2> QED BY <1>5, <2>1 DEF DefaultOrder
  <1> QED BY <1>4, <1>5

LEMMA OpenErrorsType ==
  ASSUME NEW s, NEW b
  PROVE  OpenErrors(s, b) \subseteq SUBSET Categories
  BY DEF OpenErrors, ContextErrors, Categories

LEMMA NoResultType ==
  NoResult \in [kind : {"none", "keyring", "error"}, backend : Backends,
                fallback : BOOLEAN, rejected : Rejections, cause : SUBSET Categories]
  BY DEF NoResult, Backends, Rejections, Categories

-----------------------------------------------------------------------------
(* Ways to return.                                                           *)

\* Open returns an error; the last rejection is the cause if it is terminal.
LEMMA FailureInv ==
  ASSUME SInv, NEW cause \in SUBSET Categories, OpenFails(cause, rejected'),
         site' = site, opts' = opts, ctx' = ctx, order' = order, index' \in Nat \ {0},
         rejected' \in Rejections,
         \A i \in DOMAIN rejected' :
            ~Continues(rejected'[i].err) =>
                i = Len(rejected') /\ cause = rejected'[i].err
  PROVE  SInv'
  <1> DEFINE r == [NoResult EXCEPT !.kind = "error", !.cause = cause, !.rejected = rejected']
  <1>1. phase' = "done" /\ result' = r
    BY DEF OpenFails, Answer
  <1>2. r.kind = "error" /\ r.cause = cause /\ r.rejected = rejected'
    BY DEF NoResult
  <1>3. r \in [kind : {"none", "keyring", "error"}, backend : Backends,
               fallback : BOOLEAN, rejected : Rejections, cause : SUBSET Categories]
    BY NoResultType DEF NoResult
  <1> HIDE DEF r
  <1>4. TypeOK'
    BY <1>1, <1>3 DEF SInv, TypeOK
  <1>5. FreshInv' /\ LoopInv'
    BY <1>1 DEF FreshInv, LoopInv
  <1>6. SelectionIsExplained' /\ PlaintextIsPermitted'
    BY <1>1, <1>2 DEF SelectionIsExplained, PlaintextIsPermitted
  <1>7. TerminalFailureStops'
    BY <1>1, <1>2 DEF TerminalFailureStops, Continues
  <1> QED BY <1>4, <1>5, <1>6, <1>7 DEF SInv

\* The loop goes on: everything rejected so far, the last one included, permits
\* fallback.
LEMMA ProgressInv ==
  ASSUME SInv, site' = site, opts' = opts, ctx' = ctx, order' = order, result' = result,
         phase \in {"loop", "opening"}, phase' = "loop", index' = index + 1,
         index <= Len(order),
         NEW e \in SUBSET Categories, Continues(e),
         rejected' = Append(rejected, Rejection(e))
  PROVE  SInv'
  <1>1. /\ rejected \in Rejections /\ order \in Seq(Backends) /\ index \in Nat \ {0}
        /\ Len(rejected) = index - 1 /\ PassedOver(rejected)
    BY DEF SInv, TypeOK, LoopInv
  <1>2. Rejection(e) \in [backend : Backends, err : SUBSET Categories]
    BY <1>1 DEF Rejection, Candidate
  <1>3. rejected' \in Rejections /\ Len(rejected') = index
    BY <1>1, <1>2 DEF Rejections
  <1>4. PassedOver(rejected)'
    <2> SUFFICES ASSUME NEW i \in 1 .. Len(rejected')
                 PROVE  rejected'[i].backend = order[i] /\ Continues(rejected'[i].err)
      BY DEF PassedOver, Continues
    <2>1. CASE i = index
      BY <1>1, <2>1 DEF Rejections, Rejection, Candidate
    <2>2. CASE i # index
      <3>1. i \in 1 .. Len(rejected)
        BY <1>1, <1>3, <2>2
      <3>2. rejected'[i] = rejected[i]
        BY <1>1, <1>2, <3>1 DEF Rejections
      <3> QED BY <1>1, <3>1, <3>2 DEF PassedOver
    <2> QED BY <2>1, <2>2
  <1>5. TypeOK'
    BY <1>1, <1>3 DEF SInv, TypeOK
  <1>6. result' = NoResult
    BY DEF SInv, FreshInv
  <1>7. FreshInv' /\ LoopInv'
    BY <1>1, <1>3, <1>4, <1>6 DEF FreshInv, LoopInv
  <1>8. SelectionIsExplained' /\ PlaintextIsPermitted'
    BY <1>6 DEF SelectionIsExplained, PlaintextIsPermitted, NoResult
  <1>9. TerminalFailureStops'
    BY <1>3, <1>4 DEF TerminalFailureStops, PassedOver, Continues, Rejections
  <1> QED BY <1>5, <1>7, <1>8, <1>9 DEF SInv

-----------------------------------------------------------------------------
(* The actions.                                                              *)

LEMMA SelectionInitInv == Init => SInv
  <1> SUFFICES ASSUME Init PROVE SInv
    OBVIOUS
  <1>1. TypeOK
    BY NoResultType DEF Init, TypeOK, Rejections
  <1>2. FreshInv /\ LoopInv
    BY DEF Init, FreshInv, LoopInv
  <1>3. SelectionIsExplained /\ TerminalFailureStops /\ PlaintextIsPermitted
    BY DEF Init, SelectionIsExplained, TerminalFailureStops, PlaintextIsPermitted, NoResult
  <1> QED BY <1>1, <1>2, <1>3 DEF SInv

LEMMA OpenInv ==
  ASSUME SInv, Open
  PROVE  SInv'
  <1> DEFINE o == mergeOptions(opts)
  <1>1. /\ phase = "called" /\ order = <<>> /\ index = 1 /\ rejected = <<>>
        /\ result = NoResult
    BY DEF Open, SInv, FreshInv
  <1>2. UNCHANGED <<site, opts, ctx, index, rejected>>
    BY DEF Open
  <1>3. ASSUME NEW cause \in SUBSET Categories, OpenFails(cause, <<>>), order' = order
        PROVE  SInv'
    BY <1>1, <1>2, <1>3, FailureInv DEF SInv, TypeOK
  <1>4. CASE ctx # "live" /\ OpenFails(ContextError(ctx), <<>>) /\ UNCHANGED order
    <2>1. ContextError(ctx) \in SUBSET Categories
      BY DEF ContextError, Categories
    <2> QED BY <1>3, <1>4, <2>1
  <1>5. CASE Answer([NoResult EXCEPT !.kind = "keyring"]) /\ UNCHANGED order
    <2> DEFINE r == [NoResult EXCEPT !.kind = "keyring"]
    <2>1. r.backend = "custom"
      BY DEF NoResult
    <2>2. r \in [kind : {"none", "keyring", "error"}, backend : Backends,
                 fallback : BOOLEAN, rejected : Rejections, cause : SUBSET Categories]
      BY NoResultType DEF NoResult
    <2>3. phase' = "done" /\ result' = r
      BY <1>5 DEF Answer
    <2> HIDE DEF r
    <2>4. TypeOK'
      BY <1>2, <1>5, <2>2, <2>3 DEF SInv, TypeOK
    <2>5. FreshInv' /\ LoopInv'
      BY <2>3 DEF FreshInv, LoopInv
    <2>6. SelectionIsExplained' /\ PlaintextIsPermitted'
      BY <1>1, <1>5, <2>1, <2>3 DEF SelectionIsExplained, PlaintextIsPermitted
    <2>7. TerminalFailureStops'
      BY <1>1, <1>2 DEF TerminalFailureStops
    <2> QED BY <2>4, <2>5, <2>6, <2>7 DEF SInv
  <1>6. CASE OpenFails({"invalid"}, <<>>) /\ UNCHANGED order
    BY <1>3, <1>6 DEF Categories
  <1>7. CASE /\ order' = IF o.backends # <<>> THEN o.backends ELSE DefaultOrder(site, o)
             /\ phase' = "loop"
             /\ UNCHANGED result
    <2>1. order' \in Seq(Backends)
      BY <1>7, MergedType, DefaultOrderType DEF SInv, TypeOK
    <2>2. TypeOK'
      BY <1>2, <1>7, <2>1 DEF SInv, TypeOK
    <2>3. FreshInv' /\ LoopInv'
      BY <1>1, <1>2, <1>7, <2>1 DEF FreshInv, LoopInv, PassedOver
    <2>4. SelectionIsExplained' /\ TerminalFailureStops' /\ PlaintextIsPermitted'
      BY <1>1, <1>2, <1>7 DEF SelectionIsExplained, TerminalFailureStops,
         PlaintextIsPermitted, NoResult
    <2> QED BY <2>2, <2>3, <2>4 DEF SInv
  <1> QED BY <1>4, <1>5, <1>6, <1>7 DEF Open

\* The loop ends without a further rejection.
LEMMA StopInv ==
  ASSUME SInv, Stop \/ Exhausted
  PROVE  SInv'
  <1>1. \A i \in DOMAIN rejected : Continues(rejected[i].err)
    <2>1. phase = "loop"
      BY DEF Stop, Exhausted
    <2>2. PassedOver(rejected)
      BY <2>1 DEF SInv, LoopInv
    <2>3. DOMAIN rejected = 1 .. Len(rejected)
      BY DEF SInv, TypeOK, Rejections
    <2> QED BY <2>2, <2>3 DEF PassedOver
  <1>2. UNCHANGED <<site, opts, ctx, order, index, rejected>>
    BY DEF Stop, Exhausted
  <1>3. PICK cause \in SUBSET Categories : OpenFails(cause, rejected)
    BY DEF Stop, Exhausted, ContextError, Categories
  <1> QED BY <1>1, <1>2, <1>3, FailureInv DEF SInv, TypeOK

LEMMA UnregisteredInv ==
  ASSUME SInv, Unregistered
  PROVE  SInv'
  <1>1. {"unsupported"} \in SUBSET Categories /\ Continues({"unsupported"})
    BY DEF Categories, Continues
  <1> QED BY <1>1, ProgressInv DEF Unregistered, Recorded

LEMMA OpenerReturnsInv ==
  ASSUME SInv, OpenerReturns
  PROVE  SInv'
  <1>1. /\ phase = "opening" /\ index <= Len(order) /\ Candidate \in Registry(site)
        /\ Len(rejected) = index - 1 /\ PassedOver(rejected) /\ result = NoResult
        /\ rejected \in Rejections /\ order \in Seq(Backends) /\ index \in Nat \ {0}
    BY DEF OpenerReturns, SInv, LoopInv, FreshInv, TypeOK
  <1>2. Candidate \in Backends
    BY <1>1 DEF Candidate
  <1>3. CASE CanAccept(site, Candidate) /\ Accept
    <2> DEFINE r == [NoResult EXCEPT !.kind = "keyring", !.backend = Candidate,
                        !.fallback = (Candidate = "filesystem" \/ rejected # <<>>),
                        !.rejected = rejected]
    <2>1. /\ phase' = "done" /\ result' = r
          /\ UNCHANGED <<site, opts, ctx, order, index, rejected>>
      BY <1>3 DEF Accept, Answer
    <2>2. /\ r.kind = "keyring" /\ r.backend = Candidate /\ r.rejected = rejected
          /\ r.fallback = (Candidate = "filesystem" \/ rejected # <<>>)
      BY DEF NoResult
    <2>3. r \in [kind : {"none", "keyring", "error"}, backend : Backends,
                 fallback : BOOLEAN, rejected : Rejections, cause : SUBSET Categories]
      BY <1>1, <1>2, NoResultType DEF NoResult
    <2> HIDE DEF r
    <2>4. TypeOK'
      BY <2>1, <2>3 DEF SInv, TypeOK
    <2>5. FreshInv' /\ LoopInv'
      BY <2>1 DEF FreshInv, LoopInv
    <2>6. SelectionIsExplained'
      <3>1. rejected # <<>> <=> Len(rejected) > 0
        BY <1>1 DEF Rejections
      <3>2. Len(rejected) < Len(order) /\ Candidate = order[Len(rejected) + 1]
        BY <1>1 DEF Candidate
      <3>3. \A i \in 1 .. Len(rejected) :
              rejected[i].backend = order[i] /\ Continues(rejected[i].err)
        BY <1>1 DEF PassedOver
      <3>4. r.fallback <=> Len(rejected) > 0 \/ r.backend = "filesystem"
        BY <2>2, <3>1
      <3>5. /\ Len(r.rejected) < Len(order) /\ r.backend = order[Len(r.rejected) + 1]
            /\ \A i \in 1 .. Len(r.rejected) :
                  r.rejected[i].backend = order[i] /\ Continues(r.rejected[i].err)
            /\ r.fallback <=> Len(r.rejected) > 0 \/ r.backend = "filesystem"
        BY <2>2, <3>2, <3>3, <3>4
      <3> QED BY <2>1, <3>5 DEF SelectionIsExplained, Continues
    <2>7. TerminalFailureStops'
      BY <1>1, <2>1 DEF TerminalFailureStops, PassedOver, Continues, Rejections
    <2>8. PlaintextIsPermitted'
      <3> SUFFICES ASSUME Candidate = "filesystem"
                   PROVE  /\ site.pkg = "root" /\ site.platform = "linux"
                          /\ \E i \in DOMAIN opts : opts[i].dir
        BY <2>1, <2>2 DEF PlaintextIsPermitted
      <3>1. mergeOptions(opts).dir /\ site.platform = "linux"
        BY <1>3 DEF CanAccept
      <3>2. \E i \in DOMAIN opts : opts[i].dir
        BY <3>1, MergedType DEF SInv, TypeOK
      <3>3. site.pkg = "root"
        BY <1>1, SelectionAssumption
           DEF SInv, TypeOK, Registry, NativeBackend
      <3> QED BY <3>1, <3>2, <3>3
    <2> QED BY <2>4, <2>5, <2>6, <2>7, <2>8 DEF SInv
  <1>4. ASSUME NEW e \in OpenErrors(site, Candidate), Reject(e) PROVE SInv'
    <2>1. e \in SUBSET Categories
      BY OpenErrorsType
    <2>2. rejected' = Append(rejected, Rejection(e)) /\ UNCHANGED <<site, opts, ctx, order>>
      BY <1>4 DEF Reject, Recorded
    <2>3. CASE Continues(e)
      BY <1>1, <1>4, <2>1, <2>2, <2>3, ProgressInv DEF Reject
    <2>4. CASE ~Continues(e)
      <3>1. OpenFails(e, rejected') /\ index' = index
        BY <1>4, <2>4 DEF Reject
      <3>2. Rejection(e) \in [backend : Backends, err : SUBSET Categories]
        BY <1>2, <2>1 DEF Rejection
      <3>3. rejected' \in Rejections /\ Len(rejected') = index
        BY <1>1, <2>2, <3>2 DEF Rejections
      <3>4. ASSUME NEW i \in DOMAIN rejected', ~Continues(rejected'[i].err)
            PROVE  i = Len(rejected') /\ e = rejected'[i].err
        <4>1. i # index => rejected'[i] = rejected[i] /\ i \in 1 .. Len(rejected)
          BY <1>1, <2>2, <3>2, <3>3 DEF Rejections
        <4>2. i = index
          BY <1>1, <3>4, <4>1 DEF PassedOver
        <4>3. rejected'[index] = Rejection(e)
          BY <1>1, <2>2, <3>2 DEF Rejections
        <4> QED BY <3>3, <4>2, <4>3 DEF Rejection
      <3> QED BY <1>1, <2>1, <2>2, <3>1, <3>3, <3>4, FailureInv
    <2> QED BY <2>3, <2>4
  <1> QED BY <1>3, <1>4 DEF OpenerReturns

\* Steps that leave the loop's record and the result alone, or clear them.
LEMMA OtherInv ==
  ASSUME SInv, Call \/ StartOpener \/ EndContext \/ TakeResult \/ UNCHANGED selectionVars
  PROVE  SInv'
  <1>1. CASE Call
    <2>1. TypeOK'
      BY <1>1, SelectionAssumption DEF SInv, TypeOK, Call
    <2>2. result = NoResult /\ result' = NoResult /\ rejected = <<>> /\ rejected' = <<>>
      BY <1>1 DEF SInv, FreshInv, Call
    <2>3. FreshInv' /\ LoopInv'
      BY <1>1, <2>2 DEF SInv, FreshInv, LoopInv, Call
    <2> QED BY <2>1, <2>2, <2>3 DEF SInv, SelectionIsExplained, TerminalFailureStops,
               PlaintextIsPermitted, NoResult
  <1>2. CASE TakeResult
    <2>1. TypeOK'
      BY <1>2, NoResultType DEF SInv, TypeOK, TakeResult, Rejections
    <2>2. FreshInv' /\ LoopInv'
      BY <1>2 DEF FreshInv, LoopInv, TakeResult
    <2>3. SelectionIsExplained' /\ TerminalFailureStops' /\ PlaintextIsPermitted'
      BY <1>2 DEF TakeResult, SelectionIsExplained, TerminalFailureStops,
         PlaintextIsPermitted, NoResult
    <2> QED BY <2>1, <2>2, <2>3 DEF SInv
  <1>3. CASE StartOpener \/ EndContext
    <2>1. /\ UNCHANGED <<site, opts, order, index, rejected, result>> /\ phase # "done"
          /\ \/ phase' = phase
             \/ phase' = "opening" /\ index <= Len(order) /\ Candidate \in Registry(site)
                   /\ phase = "loop"
      BY <1>3 DEF StartOpener, EndContext
    <2>2. TypeOK'
      BY <1>3 DEF SInv, TypeOK, StartOpener, EndContext
    <2>3. FreshInv'
      BY <2>1 DEF SInv, FreshInv
    <2>4. LoopInv'
      BY <2>1 DEF SInv, LoopInv, PassedOver, Candidate, Continues
    <2>5. SelectionIsExplained' /\ PlaintextIsPermitted'
      BY <2>1 DEF SInv, FreshInv, SelectionIsExplained, PlaintextIsPermitted, NoResult
    <2>6. TerminalFailureStops'
      BY <2>1 DEF SInv, TerminalFailureStops
    <2> QED BY <2>2, <2>3, <2>4, <2>5, <2>6 DEF SInv
  <1>4. CASE UNCHANGED selectionVars
    <2>1. TypeOK' /\ FreshInv' /\ LoopInv'
      BY <1>4 DEF SInv, TypeOK, FreshInv, LoopInv, PassedOver, Continues, Candidate,
         selectionVars
    <2>2. SelectionIsExplained' /\ TerminalFailureStops' /\ PlaintextIsPermitted'
      BY <1>4 DEF SInv, SelectionIsExplained, TerminalFailureStops, PlaintextIsPermitted,
         Continues, selectionVars
    <2> QED BY <2>1, <2>2 DEF SInv
  <1> QED BY <1>1, <1>2, <1>3, <1>4

LEMMA SelectionNextInv == SInv /\ [Next]_selectionVars => SInv'
  BY OpenInv, StopInv, UnregisteredInv, OpenerReturnsInv, OtherInv DEF Next

-----------------------------------------------------------------------------
(* The theorems.                                                             *)

\* Every reachable state of an Open satisfies the inductive invariant.
THEOREM SelectionInvariance == Spec => []SInv
  BY SelectionInitInv, SelectionNextInv, PTL DEF Spec

\* For every list of options and every order of candidates, Info tells which
\* candidates SelectBackend passed over, that each was unavailable or
\* unsupported, and whether this was a fallback.
THEOREM Explained == Spec => []SelectionIsExplained
  <1>1. SInv => SelectionIsExplained
    BY DEF SInv
  <1> QED BY <1>1, SelectionInvariance, PTL

\* SelectBackend never tries another candidate after a failure that is not one
\* of absence, and its error names that failure.
THEOREM Terminal == Spec => []TerminalFailureStops
  <1>1. SInv => TerminalFailureStops
    BY DEF SInv
  <1> QED BY <1>1, SelectionInvariance, PTL

\* No order, overlay of options or platform makes Open store secrets in files
\* without a FallbackDir.
THEOREM Plaintext == Spec => []PlaintextIsPermitted
  <1>1. SInv => PlaintextIsPermitted
    BY DEF SInv
  <1> QED BY <1>1, SelectionInvariance, PTL

-----------------------------------------------------------------------------
(* The steps of the openers of secure.Open on Linux: the inductive invariant.*)

BusSteps == {"connect", "openSession", "closeSession", "classify", "close"}
HelperSteps == {"invoke", "run", "collect"}

\* Which opener has reached a step.
PlaceInv ==
    /\ phase # "opening" => step = "none"
    /\ step \in HelperSteps => LinuxGetter(site) /\ Candidate = Windows /\ IsWSL2
    /\ step \in BusSteps => LinuxGetter(site) /\ Candidate = Bus

\* What an opener holds at each step.
HoldsInv ==
    /\ conn => step \in BusSteps \ {"connect"}
    /\ helper => step = "run"
    /\ inner = "off" <=> step \in {"none", "start", "invoke"}
    /\ inner = "live" => ctx = "live"

\* The error that the probe of the Secret Service is about to return.
ClosingInv ==
    \/ err = {} /\ got = "ok"
    \/ err \in OpenErrors(site, Bus) /\ (Continues(err) => got \in Absent)

\* What an opener has been answered at each step.
AnswerInv ==
    /\ step \notin {"collect", "classify", "close"} => got = "none"
    /\ step = "collect" => got \in HelperOutcomes \cup {"ended"}
    /\ step = "classify" => got \in ConnectFailures \cup BusErrors \cup {"ended"}
    /\ step \in {"collect", "classify"} /\ got = "ended" => inner # "live"
    /\ step # "close" => err = {}
    /\ step = "close" => ClosingInv

\* What the candidates that have answered said.
SeenInv ==
    /\ phase \in {"idle", "called"} => seen = {}
    /\ \A x \in seen : /\ x[1] <= index /\ (x[1] < index => x[2] \in Absent)
                       /\ phase \in {"loop", "opening"} => x[1] < index

LInv == SInv /\ OpenerTypeOK /\ PlaceInv /\ HoldsInv /\ AnswerInv /\ SeenInv

-----------------------------------------------------------------------------
(* Errors.                                                                   *)

LEMMA BusErrorIsListed ==
  ASSUME NEW c \in ConnectFailures \cup BusErrors
  PROVE  /\ BusCategory(c) \in OpenErrors(site, Bus) /\ BusCategory(c) # {}
         /\ Continues(BusCategory(c)) => c \in Absent
  BY DEF ConnectFailures, BusErrors, BusCategory, OpenErrors, Bus, Continues, Absent

LEMMA HelperErrorIsListed ==
  ASSUME NEW c \in HelperOutcomes, LinuxGetter(site)
  PROVE  /\ portableError(c) \in OpenErrors(site, Windows) \cup {{}}
         /\ Continues(portableError(c)) => c \in Absent
  BY DEF HelperOutcomes, HelperCodes, portableError, OpenErrors, Windows, Continues, Absent

LEMMA ContextErrorIsListed ==
  ASSUME NEW c \in {"canceled", "expired"}
  PROVE  /\ ContextError(c) \in ContextErrors /\ ContextError(c) # {}
         /\ ~Continues(ContextError(c))
  BY DEF ContextError, ContextErrors, Continues

LEMMA KernelErrorIsListed ==
  ASSUME NEW c \in Errnos
  PROVE  /\ probeError(c) \in OpenErrors(site, Kernel) /\ probeError(c) # {}
         /\ Continues(probeError(c)) => c \in Absent
  BY DEF Errnos, probeError, OpenErrors, Kernel, Continues, Absent

LEMMA ConditionsAreTyped ==
  /\ HelperOutcomes \cup ConnectFailures \cup BusErrors \cup Errnos \subseteq Conditions
  /\ {"none", "ok", "ended", "nulService", "notWSL2", "helperAbsent", "lookupError",
      "requestID", "closeFailed"} \subseteq Conditions
  BY DEF Conditions

-----------------------------------------------------------------------------
(* Steps inside an opener.                                                   *)

\* A step inside an opener is a stutter of Selection.
LEMMA QuietInv ==
  ASSUME LInv, UNCHANGED <<selectionVars, seen>>
  PROVE  SInv' /\ SeenInv' /\ [Next]_selectionVars
  <1>1. UNCHANGED selectionVars /\ UNCHANGED seen
    OBVIOUS
  <1>2. SInv'
    BY <1>1, OtherInv DEF LInv
  <1>3. SeenInv'
    BY <1>1 DEF LInv, SeenInv, selectionVars
  <1> QED BY <1>1, <1>2, <1>3

\* An opener returns: this is a step of Selection, and nothing is left open.
LEMMA LeaveInv ==
  ASSUME LInv, LinuxGetter(site), phase = "opening",
         NEW c \in Conditions, NEW e \in OpenErrors(site, Candidate) \cup {{}},
         e = {} => CanAccept(site, Candidate), Continues(e) => c \in Absent,
         Leave(c, e), conn' = FALSE, helper' = FALSE
  PROVE  LInv' /\ OpenerReturns
  <1>1. OpenErrors(site, Candidate) \subseteq SUBSET Categories
    BY OpenErrorsType
  <1>2. OpenerReturns
    <2>1. CASE e = {}
      BY <2>1 DEF Leave, OpenerReturns
    <2>2. CASE e # {}
      BY <2>2 DEF Leave, OpenerReturns
    <2> QED BY <2>1, <2>2
  <1>3. SInv'
    BY <1>2, OpenerReturnsInv DEF LInv
  <1>4. /\ site' = site /\ ctx' = ctx /\ index \in Nat \ {0}
        /\ \/ phase' = "done" /\ index' = index
           \/ phase' = "loop" /\ index' = index + 1 /\ Continues(e)
    BY DEF Leave, Accept, Reject, Answer, OpenFails, LInv, SInv, TypeOK
  <1>5. /\ step' = "none" /\ inner' = "off" /\ got' = "none" /\ err' = {}
        /\ seen' = seen \cup {<<index, c>>}
    BY DEF Leave
  <1>6. OpenerTypeOK'
    <2>1. seen' \subseteq (Nat \ {0}) \X Conditions
      BY <1>4, <1>5 DEF LInv, OpenerTypeOK
    <2>2. TypeOK' /\ got' \in Conditions
      BY <1>3, <1>5, ConditionsAreTyped DEF SInv
    <2> QED BY <1>5, <2>1, <2>2 DEF OpenerTypeOK, Steps
  <1>7. PlaceInv' /\ HoldsInv' /\ AnswerInv'
    BY <1>4, <1>5 DEF PlaceInv, HoldsInv, AnswerInv, HelperSteps, BusSteps
  <1>8. SeenInv'
    <2>1. \A x \in seen : x[1] \in Nat /\ x[1] < index /\ x[2] \in Absent
      BY DEF LInv, SeenInv, OpenerTypeOK
    <2>2. \A x \in seen' : /\ x[1] <= index' /\ (x[1] < index' => x[2] \in Absent)
                           /\ phase' = "loop" => x[1] < index'
      BY <1>4, <1>5, <2>1
    <2> QED BY <1>4, <2>2 DEF SeenInv
  <1> QED BY <1>2, <1>3, <1>6, <1>7, <1>8 DEF LInv

-----------------------------------------------------------------------------
(* The actions of the openers.                                               *)

\* What the invariant says of an opener that has reached a step.
LEMMA PlaceOf ==
  ASSUME LInv, NEW b, NEW label, At(b, label)
  PROVE  /\ phase = "opening" /\ LinuxGetter(site) /\ Candidate = b /\ step = label
         /\ index \in Nat \ {0} /\ inner \in {"off", "live", "canceled", "expired"}
         /\ ctx \in {"live", "canceled", "expired"}
  BY DEF LInv, SInv, TypeOK, OpenerTypeOK, At

\* A refusal while neither a connection nor a helper exists.
LEMMA RefuseInv ==
  ASSUME LInv, LinuxGetter(site), phase = "opening", ~conn, ~helper,
         NEW c \in Conditions, NEW e \in OpenErrors(site, Candidate) \cup {{}},
         e = {} => CanAccept(site, Candidate), Continues(e) => c \in Absent,
         Refuse(c, e)
  PROVE  LInv' /\ [Next]_selectionVars
  <1>1. conn = FALSE /\ helper = FALSE
    BY DEF LInv, OpenerTypeOK
  <1>2. Leave(c, e) /\ conn' = FALSE /\ helper' = FALSE
    BY <1>1 DEF Refuse
  <1>3. LInv' /\ OpenerReturns
    BY <1>2, LeaveInv
  <1> QED BY <1>3 DEF Next

LEMMA NewInv ==
  ASSUME LInv, New
  PROVE  LInv' /\ [Next]_selectionVars
  <1>1. /\ phase = "opening" /\ LinuxGetter(site) /\ Candidate = Windows /\ step = "start"
        /\ ctx \in {"live", "canceled", "expired"} /\ ~conn /\ ~helper
    BY PlaceOf DEF New, LInv, HoldsInv, BusSteps
  <1>2. \A e \in {{"invalid"}, {"unsupported"}, {"unavailable"}, {"failure"}} \cup ContextErrors :
            e \in OpenErrors(site, Windows) /\ e # {}
    BY <1>1 DEF OpenErrors, ContextErrors, Windows
  <1>3. /\ ~Continues({"invalid"}) /\ ~Continues({"failure"})
        /\ {"notWSL2", "helperAbsent"} \subseteq Absent
    BY DEF Continues, Absent
  <1>4. CASE ctx # "live" /\ Refuse("ended", ContextError(ctx))
    <2>1. ctx \in {"canceled", "expired"}
      BY <1>1, <1>4
    <2> QED BY <1>1, <1>2, <1>4, <2>1, ContextErrorIsListed, ConditionsAreTyped, RefuseInv
  <1>5. CASE Refuse("nulService", {"invalid"})
    BY <1>1, <1>2, <1>3, <1>5, ConditionsAreTyped, RefuseInv
  <1>6. CASE Refuse("notWSL2", {"unsupported"})
    BY <1>1, <1>2, <1>3, <1>6, ConditionsAreTyped, RefuseInv
  <1>7. CASE Refuse("helperAbsent", {"unavailable"})
    BY <1>1, <1>2, <1>3, <1>7, ConditionsAreTyped, RefuseInv
  <1>8. CASE Refuse("lookupError", {"failure"})
    BY <1>1, <1>2, <1>3, <1>8, ConditionsAreTyped, RefuseInv
  <1>9. CASE IsWSL2 /\ Goto("invoke") /\ UNCHANGED selectionVars
    <2>1. SInv' /\ SeenInv' /\ [Next]_selectionVars
      BY <1>9, QuietInv DEF Goto
    <2>2. OpenerTypeOK'
      BY <1>9, <2>1 DEF LInv, SInv, OpenerTypeOK, Goto, Steps
    <2>3. PlaceInv'
      BY <1>1, <1>9 DEF PlaceInv, HelperSteps, BusSteps, Goto, selectionVars, Candidate,
         LinuxGetter, IsWSL2
    <2>4. HoldsInv' /\ AnswerInv'
      BY <1>1, <1>9 DEF LInv, HoldsInv, AnswerInv, BusSteps, Goto, selectionVars
    <2> QED BY <2>1, <2>2, <2>3, <2>4 DEF LInv
  <1>10. ASSUME NEW h \in Helpers, IsWSL2,
                CASE h = "absent"  -> Refuse("helperAbsent", {"unavailable"})
                  [] h = "error"   -> Refuse("lookupError", {"failure"})
                  [] h = "present" -> Goto("invoke") /\ UNCHANGED selectionVars
         PROVE  LInv' /\ [Next]_selectionVars
    <2>1. h \in {"absent", "error", "present"}
      BY SecureLinuxAssumption
    <2> QED BY <1>7, <1>8, <1>9, <1>10, <2>1
  <1> QED BY <1>4, <1>5, <1>6, <1>10 DEF New

LEMMA InvokeInv ==
  ASSUME LInv, Invoke
  PROVE  LInv' /\ [Next]_selectionVars
  <1>1. /\ phase = "opening" /\ LinuxGetter(site) /\ Candidate = Windows /\ step = "invoke"
        /\ ctx \in {"live", "canceled", "expired"} /\ ~conn /\ ~helper /\ IsWSL2
    BY PlaceOf DEF Invoke, LInv, HoldsInv, PlaceInv, BusSteps, HelperSteps
  <1>2. CASE ctx # "live" /\ Refuse("ended", ContextError(ctx))
    <2>1. ctx \in {"canceled", "expired"}
      BY <1>1, <1>2
    <2>2. ContextErrors \subseteq OpenErrors(site, Candidate)
      BY <1>1 DEF OpenErrors, Windows
    <2> QED BY <1>1, <1>2, <2>1, <2>2, ContextErrorIsListed, ConditionsAreTyped, RefuseInv
  <1>3. CASE Refuse("requestID", {"failure"})
    <2>1. {"failure"} \in OpenErrors(site, Candidate) /\ ~Continues({"failure"})
      BY <1>1 DEF OpenErrors, Windows, Continues
    <2> QED BY <1>1, <1>3, <2>1, ConditionsAreTyped, RefuseInv
  <1>4. CASE /\ ctx = "live"
             /\ step' = "run" /\ inner' = "live" /\ helper' = TRUE
             /\ UNCHANGED <<selectionVars, got, err, conn, seen>>
    <2>1. SInv' /\ SeenInv' /\ [Next]_selectionVars
      BY <1>4, QuietInv
    <2>2. OpenerTypeOK'
      BY <1>4, <2>1 DEF LInv, SInv, OpenerTypeOK, Steps
    <2>3. PlaceInv'
      BY <1>1, <1>4 DEF PlaceInv, HelperSteps, BusSteps, selectionVars, Candidate,
         LinuxGetter, IsWSL2
    <2>4. HoldsInv' /\ AnswerInv'
      BY <1>1, <1>4 DEF LInv, HoldsInv, AnswerInv, BusSteps, selectionVars
    <2> QED BY <2>1, <2>2, <2>3, <2>4 DEF LInv
  <1> QED BY <1>2, <1>3, <1>4 DEF Invoke

LEMMA HelperEndsInv ==
  ASSUME LInv, HelperEnds
  PROVE  LInv' /\ [Next]_selectionVars
  <1>1. /\ phase = "opening" /\ LinuxGetter(site) /\ Candidate = Windows /\ step = "run"
        /\ ~conn /\ IsWSL2 /\ inner # "off"
    BY PlaceOf DEF HelperEnds, LInv, HoldsInv, PlaceInv, BusSteps, HelperSteps
  <1>2. /\ step' = "collect" /\ helper' = FALSE /\ UNCHANGED <<inner, err, conn, seen>>
        /\ got' \in HelperOutcomes \cup {"ended"} /\ UNCHANGED selectionVars
        /\ got' \in HelperOutcomes \/ inner # "live"
    BY DEF HelperEnds
  <1>3. SInv' /\ SeenInv' /\ [Next]_selectionVars
    BY <1>2, QuietInv
  <1>4. OpenerTypeOK'
    BY <1>2, <1>3, ConditionsAreTyped DEF LInv, SInv, OpenerTypeOK, Steps
  <1>5. PlaceInv'
    BY <1>1, <1>2 DEF PlaceInv, HelperSteps, BusSteps, selectionVars, Candidate,
       LinuxGetter, IsWSL2
  <1>6. HoldsInv'
    BY <1>1, <1>2 DEF LInv, HoldsInv, BusSteps, selectionVars
  <1>7. "ended" \notin HelperOutcomes
    BY DEF HelperOutcomes, HelperCodes
  <1>8. AnswerInv'
    BY <1>1, <1>2, <1>7 DEF LInv, AnswerInv
  <1> QED BY <1>3, <1>4, <1>5, <1>6, <1>8 DEF LInv

LEMMA CollectInv ==
  ASSUME LInv, Collect
  PROVE  LInv' /\ [Next]_selectionVars
  <1>1. /\ phase = "opening" /\ LinuxGetter(site) /\ Candidate = Windows /\ step = "collect"
        /\ ~conn /\ ~helper /\ IsWSL2 /\ inner \in {"live", "canceled", "expired"}
        /\ got \in HelperOutcomes \cup {"ended"} /\ (got = "ended" => inner # "live")
    BY PlaceOf DEF Collect, LInv, HoldsInv, PlaceInv, AnswerInv, BusSteps, HelperSteps
  <1>2. CASE inner # "live"
    <2>1. ContextErrors \subseteq OpenErrors(site, Candidate)
      BY <1>1 DEF OpenErrors, Windows
    <2>2. HelperError = ContextError(inner) /\ inner \in {"canceled", "expired"}
      BY <1>1, <1>2 DEF HelperError
    <2>3. Refuse("ended", ContextError(inner))
      BY <1>2, <2>2 DEF Collect
    <2> QED BY <1>1, <2>1, <2>2, <2>3, ContextErrorIsListed, ConditionsAreTyped, RefuseInv
  <1>3. CASE inner = "live"
    <2>1. Refuse(got, portableError(got)) /\ got \in HelperOutcomes
      BY <1>1, <1>3 DEF Collect, HelperError
    <2>2. CanAccept(site, Candidate)
      BY <1>1 DEF CanAccept, Windows, IsWSL2
    <2> QED BY <1>1, <2>1, <2>2, HelperErrorIsListed, ConditionsAreTyped, RefuseInv
  <1> QED BY <1>2, <1>3

LEMMA ProbeInv ==
  ASSUME LInv, Probe
  PROVE  LInv' /\ [Next]_selectionVars
  <1>1. /\ phase = "opening" /\ LinuxGetter(site) /\ Candidate = Bus /\ step = "start"
        /\ ctx \in {"live", "canceled", "expired"} /\ ~conn /\ ~helper
    BY PlaceOf DEF Probe, LInv, HoldsInv, BusSteps
  <1>2. CASE ctx # "live" /\ Refuse("ended", ContextError(ctx))
    <2>1. ctx \in {"canceled", "expired"}
      BY <1>1, <1>2
    <2>2. ContextErrors \subseteq OpenErrors(site, Candidate)
      BY <1>1 DEF OpenErrors, Bus
    <2> QED BY <1>1, <1>2, <2>1, <2>2, ContextErrorIsListed, ConditionsAreTyped, RefuseInv
  <1>3. CASE /\ ctx = "live"
             /\ step' = "connect" /\ inner' = "live"
             /\ UNCHANGED <<selectionVars, got, err, conn, helper, seen>>
    <2>1. SInv' /\ SeenInv' /\ [Next]_selectionVars
      BY <1>3, QuietInv
    <2>2. OpenerTypeOK'
      BY <1>3, <2>1 DEF LInv, SInv, OpenerTypeOK, Steps
    <2>3. PlaceInv'
      BY <1>1, <1>3 DEF PlaceInv, HelperSteps, BusSteps, selectionVars, Candidate, LinuxGetter
    <2>4. HoldsInv' /\ AnswerInv'
      BY <1>1, <1>3 DEF LInv, HoldsInv, AnswerInv, BusSteps, selectionVars
    <2> QED BY <2>1, <2>2, <2>3, <2>4 DEF LInv
  <1> QED BY <1>2, <1>3 DEF Probe

\* A step of the probe from one bus step to another.
LEMMA BusStepInv ==
  ASSUME LInv, UNCHANGED <<selectionVars, helper, inner, seen>>,
         phase = "opening", LinuxGetter(site), Candidate = Bus, step \in BusSteps,
         step' \in BusSteps \ {"connect"}, conn' \in BOOLEAN, got' \in Conditions,
         err' \subseteq Categories, AnswerInv'
  PROVE  LInv' /\ [Next]_selectionVars
  <1>1. /\ UNCHANGED <<site, ctx, phase, order, index>> /\ UNCHANGED inner
        /\ UNCHANGED helper
    BY DEF selectionVars
  <1>2. SInv' /\ SeenInv' /\ [Next]_selectionVars
    BY QuietInv
  <1>3. step' \in Steps
    BY DEF Steps, BusSteps
  <1>4. OpenerTypeOK'
    <2>1. UNCHANGED seen
      OBVIOUS
    <2> QED BY <1>1, <1>2, <1>3, <2>1 DEF LInv, SInv, OpenerTypeOK
  <1>5. PlaceInv'
    BY <1>1 DEF PlaceInv, HelperSteps, BusSteps, Candidate, LinuxGetter
  <1>6. HoldsInv'
    BY <1>1 DEF LInv, HoldsInv, BusSteps
  <1> QED BY <1>2, <1>4, <1>5, <1>6 DEF LInv

LEMMA BusCallInv ==
  ASSUME LInv, Connect \/ OpenSession \/ CloseSession
  PROVE  LInv' /\ [Next]_selectionVars
  <1>1. /\ phase = "opening" /\ LinuxGetter(site) /\ Candidate = Bus
        /\ step \in {"connect", "openSession", "closeSession"} /\ step \in BusSteps
        /\ UNCHANGED <<selectionVars, helper, inner, seen>> /\ UNCHANGED err
    BY PlaceOf DEF Connect, OpenSession, CloseSession, CallFails, Goto, BusSteps
  <1>2. got = "none" /\ err = {} /\ conn \in BOOLEAN
    BY <1>1 DEF LInv, AnswerInv, OpenerTypeOK
  <1>3. CASE /\ step' = "classify" /\ conn' = conn
             /\ got' \in ConnectFailures \cup BusErrors \cup {"ended"}
             /\ got' \in ConnectFailures \cup BusErrors \/ inner # "live"
    <2>1. "ended" \notin ConnectFailures \cup BusErrors
      BY DEF ConnectFailures, BusErrors
    <2>2. AnswerInv'
      BY <1>1, <1>2, <1>3, <2>1 DEF AnswerInv
    <2>3. got' \in Conditions
      BY <1>3, ConditionsAreTyped
    <2>4. step' \in BusSteps \ {"connect"}
      BY <1>3 DEF BusSteps
    <2> QED BY <1>1, <1>2, <1>3, <2>2, <2>3, <2>4, BusStepInv
  <1>4. CASE step' \in {"openSession", "closeSession"} /\ got' = got /\ conn' \in BOOLEAN
    <2>1. AnswerInv'
      BY <1>1, <1>2, <1>4 DEF AnswerInv
    <2>2. step' \in BusSteps \ {"connect"} /\ got' \in Conditions
      BY <1>2, <1>4, ConditionsAreTyped DEF BusSteps
    <2> QED BY <1>1, <1>2, <1>4, <2>1, <2>2, BusStepInv
  <1>5. CASE step' = "close" /\ got' = "ok" /\ conn' = conn
    <2>1. AnswerInv'
      BY <1>1, <1>2, <1>5 DEF AnswerInv, ClosingInv
    <2>2. step' \in BusSteps \ {"connect"} /\ got' \in Conditions
      BY <1>5, ConditionsAreTyped DEF BusSteps
    <2> QED BY <1>1, <1>2, <1>5, <2>1, <2>2, BusStepInv
  <1>6. CASE Connect
    BY <1>3, <1>4, <1>6 DEF Connect, CallFails
  <1>7. CASE OpenSession
    BY <1>2, <1>3, <1>4, <1>7 DEF OpenSession, CallFails, Goto
  <1>8. CASE CloseSession
    BY <1>3, <1>5, <1>8 DEF CloseSession, CallFails
  <1> QED BY <1>6, <1>7, <1>8

LEMMA ClassifyInv ==
  ASSUME LInv, Classify
  PROVE  LInv' /\ [Next]_selectionVars
  <1> DEFINE c == IF inner # "live" THEN "ended" ELSE got
  <1>1. /\ phase = "opening" /\ LinuxGetter(site) /\ Candidate = Bus /\ step = "classify"
        /\ inner \in {"live", "canceled", "expired"} /\ ~helper
        /\ got \in ConnectFailures \cup BusErrors \cup {"ended"}
        /\ got = "ended" => inner # "live"
    BY PlaceOf DEF Classify, LInv, HoldsInv, AnswerInv
  <1>2. /\ BusError \in OpenErrors(site, Bus) /\ BusError # {}
        /\ Continues(BusError) => c \in Absent
        /\ c \in Conditions
    <2>1. CASE inner # "live"
      <3>1. BusError = ContextError(inner) /\ inner \in {"canceled", "expired"} /\ c = "ended"
        BY <1>1, <2>1 DEF BusError
      <3>2. ContextErrors \subseteq OpenErrors(site, Bus)
        BY DEF OpenErrors, Bus
      <3> QED BY <3>1, <3>2, ContextErrorIsListed, ConditionsAreTyped
    <2>2. CASE inner = "live"
      <3>1. BusError = BusCategory(got) /\ c = got /\ got \in ConnectFailures \cup BusErrors
        BY <1>1, <2>2 DEF BusError
      <3> HIDE DEF c
      <3> QED BY <3>1, BusErrorIsListed, ConditionsAreTyped
    <2> QED BY <2>1, <2>2
  <1> HIDE DEF c
  <1>3. CASE ~conn /\ Refuse(c, BusError)
    BY <1>1, <1>2, <1>3, RefuseInv
  <1>4. CASE /\ step' = "close" /\ err' = BusError /\ got' = c
             /\ UNCHANGED <<selectionVars, inner, conn, helper, seen>>
    <2>1. AnswerInv'
      <3>1. (err \in OpenErrors(site, Bus) /\ (Continues(err) => got \in Absent))'
        <4>1. OpenErrors(site, Bus)' = OpenErrors(site, Bus)
          BY <1>4 DEF selectionVars, OpenErrors, LinuxGetter, Bus
        <4>2. Continues(err)' <=> Continues(BusError)
          BY <1>4 DEF Continues
        <4> QED BY <1>2, <1>4, <4>1, <4>2
      <3> QED BY <1>4, <3>1 DEF AnswerInv, ClosingInv
    <2>2. err' \subseteq Categories
      BY <1>2, <1>4, OpenErrorsType
    <2>3. UNCHANGED <<selectionVars, helper, inner, seen>> /\ conn' \in BOOLEAN
      BY <1>4 DEF LInv, OpenerTypeOK
    <2>4. step \in BusSteps /\ step' \in BusSteps \ {"connect"}
      BY <1>1, <1>4 DEF BusSteps
    <2>5. got' \in Conditions
      BY <1>2, <1>4
    <2> QED BY <1>1, <2>1, <2>2, <2>3, <2>4, <2>5, BusStepInv
  <1> QED BY <1>3, <1>4 DEF Classify, c

LEMMA CloseConnectionInv ==
  ASSUME LInv, CloseConnection
  PROVE  LInv' /\ [Next]_selectionVars
  <1>1. /\ phase = "opening" /\ LinuxGetter(site) /\ Candidate = Bus /\ step = "close"
        /\ helper = FALSE /\ conn' = FALSE /\ helper' = FALSE
    BY PlaceOf DEF CloseConnection, LInv, HoldsInv, OpenerTypeOK
  <1>2. ClosingInv /\ got \in Conditions
    BY <1>1 DEF LInv, AnswerInv, OpenerTypeOK
  <1>3. CanAccept(site, Candidate)
    BY <1>1 DEF CanAccept, Bus
  <1>4. CASE Leave(got, err)
    <2>1. err \in OpenErrors(site, Candidate) \cup {{}} /\ (Continues(err) => got \in Absent)
      BY <1>1, <1>2 DEF ClosingInv, Continues
    <2>2. LInv' /\ OpenerReturns
      BY <1>1, <1>2, <1>3, <1>4, <2>1, LeaveInv
    <2> QED BY <2>2 DEF Next
  <1>5. CASE Leave("closeFailed", {"failure"})
    <2>1. {"failure"} \in OpenErrors(site, Candidate) /\ ~Continues({"failure"})
      BY <1>1 DEF OpenErrors, Bus, Continues
    <2>2. LInv' /\ OpenerReturns
      BY <1>1, <1>3, <1>5, <2>1, ConditionsAreTyped, LeaveInv
    <2> QED BY <2>2 DEF Next
  <1> QED BY <1>4, <1>5 DEF CloseConnection

LEMMA OpenKernelInv ==
  ASSUME LInv, OpenKernel
  PROVE  LInv' /\ [Next]_selectionVars
  <1>1. /\ phase = "opening" /\ LinuxGetter(site) /\ Candidate = Kernel /\ step = "start"
        /\ ~conn /\ ~helper
    BY PlaceOf DEF OpenKernel, LInv, HoldsInv, BusSteps
  <1>2. CASE Refuse("ok", {})
    <2>1. CanAccept(site, Candidate)
      BY <1>1 DEF CanAccept, Kernel
    <2>2. ~Continues({})
      BY DEF Continues
    <2> QED BY <1>1, <1>2, <2>1, <2>2, ConditionsAreTyped, RefuseInv
  <1>3. ASSUME NEW c \in Errnos, Refuse(c, probeError(c))
        PROVE  LInv' /\ [Next]_selectionVars
    BY <1>1, <1>3, KernelErrorIsListed, ConditionsAreTyped, RefuseInv
  <1> QED BY <1>2, <1>3 DEF OpenKernel

LEMMA OtherOpenerInv ==
  ASSUME LInv, OtherOpener
  PROVE  LInv' /\ [Next]_selectionVars
  <1>1. /\ ~LinuxGetter(site) /\ phase = "opening" /\ step' = "none" /\ step \in Steps
        /\ UNCHANGED <<inner, got, err, conn, helper, seen>>
    BY DEF OtherOpener, OpenerReturns, LInv, OpenerTypeOK
  <1>2. step \in {"none", "start"}
    BY <1>1 DEF LInv, PlaceInv, Steps, HelperSteps, BusSteps
  <1>3. SInv'
    BY OpenerReturnsInv DEF LInv, OtherOpener
  <1>4. /\ site' = site /\ ctx' = ctx /\ index \in Nat \ {0}
        /\ \/ phase' = "done" /\ index' = index
           \/ phase' = "loop" /\ index' = index + 1
    BY DEF OtherOpener, OpenerReturns, Accept, Reject, Answer, OpenFails, LInv, SInv, TypeOK
  <1>5. OpenerTypeOK'
    BY <1>1, <1>3 DEF LInv, SInv, OpenerTypeOK, Steps
  <1>6. PlaceInv' /\ HoldsInv' /\ AnswerInv'
    BY <1>1, <1>2, <1>4 DEF LInv, PlaceInv, HoldsInv, AnswerInv, HelperSteps, BusSteps
  <1>7. SeenInv'
    <2>1. \A x \in seen : x[1] \in Nat /\ x[1] < index /\ x[2] \in Absent
      BY <1>1 DEF LInv, SeenInv, OpenerTypeOK
    <2>2. \A x \in seen' : /\ x[1] <= index' /\ (x[1] < index' => x[2] \in Absent)
                           /\ phase' = "loop" => x[1] < index'
      BY <1>1, <1>4, <2>1
    <2> QED BY <1>4, <2>2 DEF SeenInv
  <1> QED BY <1>3, <1>5, <1>6, <1>7 DEF LInv, OtherOpener, Next

-----------------------------------------------------------------------------
(* The other actions.                                                        *)

\* While no opener runs nothing is held.
LEMMA RestOf ==
  ASSUME LInv, phase # "opening"
  PROVE  /\ step = "none" /\ inner = "off" /\ got = "none" /\ err = {} /\ ~conn /\ ~helper
         /\ inner \in {"off", "live", "canceled", "expired"}
  BY DEF LInv, PlaceInv, HoldsInv, AnswerInv, BusSteps

\* Steps of Selection between two openers.
LEMMA BetweenInv ==
  ASSUME LInv, phase # "opening", step' \in {"none", "start"},
         phase' # "opening" => step' = "none",
         UNCHANGED <<inner, got, err, conn, helper>>, SInv', SeenInv',
         seen' \subseteq (Nat \ {0}) \X Conditions
  PROVE  LInv'
  <1>1. /\ step = "none" /\ inner = "off" /\ got = "none" /\ err = {} /\ ~conn /\ ~helper
    BY RestOf
  <1>2. OpenerTypeOK'
    BY DEF LInv, SInv, OpenerTypeOK, Steps
  <1>3. PlaceInv' /\ HoldsInv' /\ AnswerInv'
    BY <1>1 DEF PlaceInv, HoldsInv, AnswerInv, HelperSteps, BusSteps
  <1> QED BY <1>2, <1>3 DEF LInv

LEMMA LoopLInv ==
  ASSUME LInv, (Call /\ UNCHANGED openerVars) \/ Loop
  PROVE  LInv' /\ [Next]_selectionVars
  <1>1. /\ phase # "opening" /\ UNCHANGED <<inner, got, err, conn, helper>> /\ seen' = seen
        /\ Call \/ Open \/ Stop \/ Unregistered \/ Exhausted \/ StartOpener
    BY DEF Loop, Call, Open, Stop, Unregistered, Exhausted, StartOpener, openerVars
  <1>2. SInv' /\ [Next]_selectionVars
    BY <1>1, SelectionNextInv DEF LInv, Next
  <1>3. step = "none"
    BY <1>1, RestOf
  <1>4. step' \in {"none", "start"} /\ (phase' # "opening" => step' = "none")
    BY <1>3 DEF Loop, StartOpener, openerVars
  <1>5. /\ index \in Nat \ {0}
        /\ index' \in {index, index + 1} /\ (index' # index => phase' = "loop" /\ phase = "loop")
        /\ phase' \in {"loop", "opening"} => phase \in {"loop", "called"}
        /\ phase' \in {"idle", "called"} => phase = "idle"
    BY <1>1 DEF Call, Open, Stop, Unregistered, Exhausted, StartOpener, Answer, OpenFails,
       LInv, SInv, TypeOK
  <1>6. SeenInv'
    <2>1. \A x \in seen : x[1] \in Nat /\ x[1] <= index /\ (x[1] < index => x[2] \in Absent)
      BY DEF LInv, SeenInv, OpenerTypeOK
    <2>2. phase \in {"loop", "opening"} => \A x \in seen : x[1] < index
      BY DEF LInv, SeenInv
    <2>3. phase \in {"idle", "called"} => seen = {}
      BY DEF LInv, SeenInv
    <2>4. \A x \in seen' : /\ x[1] <= index' /\ (x[1] < index' => x[2] \in Absent)
                           /\ phase' \in {"loop", "opening"} => x[1] < index'
      BY <1>1, <1>5, <2>1, <2>2, <2>3
    <2> QED BY <1>1, <1>5, <2>3, <2>4 DEF SeenInv
  <1>7. seen' \subseteq (Nat \ {0}) \X Conditions
    BY <1>1 DEF LInv, OpenerTypeOK
  <1> QED BY <1>1, <1>2, <1>4, <1>6, <1>7, BetweenInv

LEMMA TakeResultLInv ==
  ASSUME LInv, TakeResult, seen' = {}, UNCHANGED <<step, inner, got, err, conn, helper>>
  PROVE  LInv' /\ [Next]_selectionVars
  <1>1. phase # "opening" /\ phase' = "idle" /\ step' = "none"
    BY RestOf DEF TakeResult
  <1>2. SInv' /\ SeenInv'
    BY OtherInv DEF LInv, SeenInv
  <1> QED BY <1>1, <1>2, BetweenInv DEF Next

LEMMA EndContextLInv ==
  ASSUME LInv, LinuxEndContext
  PROVE  LInv' /\ [Next]_selectionVars
  <1>1. /\ ctx = "live" /\ ctx' \in {"canceled", "expired"}
        /\ UNCHANGED <<site, opts, phase, order, index, rejected, result>>
        /\ inner' = (IF inner = "live" THEN ctx' ELSE inner)
        /\ UNCHANGED <<step, got, err, conn, helper, seen>>
    BY DEF LinuxEndContext, EndContext
  <1>2. SInv'
    BY OtherInv DEF LInv, LinuxEndContext
  <1>3. OpenerTypeOK'
    BY <1>1, <1>2 DEF LInv, SInv, OpenerTypeOK
  <1>4. PlaceInv'
    BY <1>1 DEF LInv, PlaceInv, Candidate, LinuxGetter, IsWSL2
  <1>5. HoldsInv'
    BY <1>1 DEF LInv, HoldsInv, OpenerTypeOK
  <1>6. AnswerInv'
    <2>1. ClosingInv => ClosingInv'
      BY <1>1 DEF ClosingInv, OpenErrors, LinuxGetter, Continues, Bus
    <2> QED BY <1>1, <2>1 DEF LInv, AnswerInv
  <1>7. SeenInv'
    BY <1>1 DEF LInv, SeenInv
  <1> QED BY <1>2, <1>3, <1>4, <1>5, <1>6, <1>7 DEF LInv, LinuxEndContext, Next

LEMMA TimerExpiresInv ==
  ASSUME LInv, TimerExpires
  PROVE  LInv' /\ [Next]_selectionVars
  <1>1. /\ inner = "live" /\ inner' = "expired"
        /\ UNCHANGED <<selectionVars, step, got, err, conn, helper, seen>>
        /\ UNCHANGED <<site, ctx, phase, order, index>>
    BY DEF TimerExpires, selectionVars
  <1>2. SInv' /\ SeenInv' /\ [Next]_selectionVars
    BY <1>1, QuietInv
  <1>3. OpenerTypeOK'
    BY <1>1, <1>2 DEF LInv, SInv, OpenerTypeOK
  <1>4. PlaceInv'
    BY <1>1 DEF LInv, PlaceInv, Candidate, LinuxGetter, IsWSL2
  <1>5. HoldsInv'
    BY <1>1 DEF LInv, HoldsInv
  <1>6. AnswerInv'
    <2>1. ClosingInv => ClosingInv'
      <3>1. UNCHANGED <<site, opts, got, err>>
        BY <1>1 DEF selectionVars
      <3> QED BY <3>1 DEF ClosingInv, OpenErrors, LinuxGetter, Continues, Bus
    <2> QED BY <1>1, <2>1 DEF LInv, AnswerInv
  <1> QED BY <1>2, <1>3, <1>4, <1>5, <1>6 DEF LInv

LEMMA LinuxStutterInv ==
  ASSUME LInv, UNCHANGED codeVars
  PROVE  LInv' /\ [Next]_selectionVars
  <1>1. /\ UNCHANGED <<site, opts, ctx, phase, order, index>> /\ UNCHANGED selectionVars
        /\ UNCHANGED <<step, inner, got, err, conn, helper, seen>>
    BY DEF codeVars, openerVars, selectionVars
  <1>2. SInv' /\ SeenInv' /\ [Next]_selectionVars
    BY <1>1, QuietInv
  <1>3. OpenerTypeOK' /\ HoldsInv'
    BY <1>1, <1>2 DEF LInv, SInv, OpenerTypeOK, HoldsInv
  <1>4. PlaceInv'
    BY <1>1 DEF LInv, PlaceInv, Candidate, LinuxGetter, IsWSL2
  <1>5. AnswerInv'
    <2>1. ClosingInv => ClosingInv'
      BY <1>1 DEF ClosingInv, OpenErrors, LinuxGetter, Continues, Bus
    <2> QED BY <1>1, <2>1 DEF LInv, AnswerInv
  <1> QED BY <1>2, <1>3, <1>4, <1>5 DEF LInv

LEMMA LinuxInitInv == LinuxInit => LInv
  <1> SUFFICES ASSUME LinuxInit PROVE LInv
    OBVIOUS
  <1>1. SInv /\ phase = "idle"
    BY SelectionInitInv DEF LinuxInit, Init
  <1>2. OpenerTypeOK
    BY <1>1, ConditionsAreTyped DEF LinuxInit, OpenerTypeOK, SInv, Steps
  <1>3. PlaceInv /\ HoldsInv /\ AnswerInv /\ SeenInv
    BY <1>1 DEF LinuxInit, PlaceInv, HoldsInv, AnswerInv, SeenInv, HelperSteps, BusSteps
  <1> QED BY <1>1, <1>2, <1>3 DEF LInv

LEMMA LinuxNextInv == LInv /\ [LinuxNext]_vars => LInv' /\ [Next]_selectionVars
  BY NewInv, InvokeInv, HelperEndsInv, CollectInv, ProbeInv, BusCallInv, ClassifyInv,
     CloseConnectionInv, OpenKernelInv, OtherOpenerInv, LoopLInv, TakeResultLInv,
     EndContextLInv, TimerExpiresInv, LinuxStutterInv DEF LinuxNext, LinuxStep, Opener, vars

-----------------------------------------------------------------------------
(* The theorems.                                                             *)

\* Every reachable state of the openers satisfies the inductive invariant.
THEOREM LinuxInvariance == LinuxSpec => []LInv
  <1>1. LInv /\ [LinuxNext]_vars => LInv'
    BY LinuxNextInv
  <1> QED BY <1>1, LinuxInitInv, PTL DEF LinuxSpec

-----------------------------------------------------------------------------
(* The end of the context.                                                   *)

\* Where the loop stands once the context has ended.
LastInv ==
    /\ last \in Nat
    /\ phase = "idle" => ctx = "live"
    /\ ctx # "live" => /\ phase = "called" => last = 0
                       /\ phase = "loop" => index = last + 1
                       /\ phase = "opening" => index = last
    /\ EndedContextIsLast

\* The opener that was running when the context ended returns.
LEMMA LastReturns ==
  ASSUME SInv, LastInv, OpenerReturns, ctx # "live", last' = last
  PROVE  LastInv'
  <1>1. /\ index = last /\ phase = "opening" /\ last \in Nat /\ index <= Len(order)
        /\ Len(rejected) = index - 1 /\ index \in Nat \ {0}
        /\ order \in Seq(Backends) /\ rejected \in Rejections /\ result = NoResult
    BY DEF OpenerReturns, LastInv, SInv, LoopInv, FreshInv, TypeOK
  <1>2. CASE Accept
    <2>1. /\ phase' = "done" /\ UNCHANGED <<ctx, order, rejected>>
          /\ result'.kind = "keyring" /\ result'.backend = order[last]
          /\ result'.rejected = rejected
      BY <1>1, <1>2 DEF Accept, Answer, NoResult, Candidate
    <2>2. EndedContextIsLast'
      BY <1>1, <2>1 DEF EndedContextIsLast
    <2> QED BY <1>1, <2>1, <2>2 DEF LastInv
  <1>3. ASSUME NEW e \in OpenErrors(site, Candidate), Reject(e) PROVE LastInv'
    <2>1. /\ UNCHANGED <<ctx, order>> /\ rejected' = Append(rejected, Rejection(e))
          /\ \/ Continues(e) /\ index' = index + 1 /\ phase' = "loop" /\ result' = result
             \/ phase' = "done" /\ result'.kind = "error" /\ result'.cause = e
      BY <1>3 DEF Reject, Recorded, OpenFails, Answer, NoResult
    <2>2. Rejection(e) \in [backend : Backends, err : SUBSET Categories]
      BY <1>1, OpenErrorsType DEF Rejection, Candidate
    <2>3. Len(rejected') = last /\ last \in DOMAIN rejected' /\ rejected'[last].err = e
      BY <1>1, <2>1, <2>2 DEF Rejections, Rejection
    <2>4. EndedContextIsLast'
      BY <1>1, <2>1, <2>3 DEF EndedContextIsLast, NoResult
    <2> QED BY <1>1, <2>1, <2>4 DEF LastInv
  <1> QED BY <1>2, <1>3 DEF OpenerReturns

\* The context ends, or a call begins with one that has ended.
LEMMA LastBegins ==
  ASSUME SInv, LastInv, Call \/ EndContext, ctx' # "live", Remember
  PROVE  LastInv'
  <1>1. /\ ctx = "live" /\ last' = (IF phase = "opening" THEN index ELSE index - 1)
        /\ UNCHANGED <<order, index, rejected, result>> /\ result.kind = "none"
        /\ index \in Nat \ {0} /\ phase' # "idle"
    BY DEF Call, EndContext, LastInv, Remember, SInv, TypeOK, FreshInv, NoResult
  <1>2. /\ phase' = "called" => index = 1 /\ rejected = <<>> /\ phase # "opening"
        /\ phase' \in {"loop", "opening"} => Len(rejected) = index - 1 /\ phase' = phase
        /\ phase' \in {"called", "loop", "opening"}
    BY DEF Call, EndContext, SInv, FreshInv, LoopInv
  <1>3. EndedContextIsLast'
    BY <1>1, <1>2 DEF EndedContextIsLast
  <1> QED BY <1>1, <1>2, <1>3 DEF LastInv

LEMMA LastStep ==
  ASSUME SInv, LastInv, [Next]_selectionVars, Remember
  PROVE  LastInv'
  <1>1. CASE ctx' = "live"
    <2>1. last' = 0
      BY <1>1 DEF Remember
    <2> QED BY <1>1, <2>1 DEF LastInv, EndedContextIsLast
  <1>2. CASE ctx' # "live" /\ (Call \/ EndContext)
    BY <1>2, LastBegins
  <1>3. CASE ctx' # "live" /\ ~Call /\ ~EndContext
    <2>1. ~TakeResult
      BY <1>3 DEF TakeResult
    <2>2. ctx' = ctx
      BY <1>3, <2>1 DEF Next, Open, Stop, Unregistered, StartOpener, OpenerReturns, Accept,
         Reject, Exhausted, selectionVars
    <2>3. ctx # "live" /\ last' = last /\ last \in Nat
      BY <1>3, <2>2 DEF Remember, LastInv
    <2>4. ~Unregistered /\ ~StartOpener
      BY <2>3 DEF Unregistered, StartOpener, ContextEnded
    <2>5. CASE OpenerReturns
      BY <2>3, <2>5, LastReturns
    <2>6. CASE Open \/ Stop \/ Exhausted
      <3>1. /\ phase' = "done" /\ result'.kind = "error" /\ UNCHANGED <<order, rejected>>
            /\ \/ result'.cause = ContextError(ctx)
               \/ Exhausted /\ result'.cause = {"unavailable"}
        BY <2>3, <2>6 DEF Open, Stop, Exhausted, OpenFails, Answer, NoResult
      <3>2. Exhausted => Len(order) <= last
        BY <2>3 DEF Exhausted, LastInv, SInv, TypeOK
      <3>3. Len(rejected) <= last
        BY <2>3 DEF LastInv, EndedContextIsLast
      <3>4. EndedContextIsLast'
        BY <2>2, <2>3, <3>1, <3>2, <3>3 DEF EndedContextIsLast, ContextError
      <3> QED BY <2>2, <2>3, <3>1, <3>4 DEF LastInv
    <2>7. CASE UNCHANGED selectionVars
      <3>1. UNCHANGED <<ctx, phase, index, order, rejected, result>>
        BY <2>7 DEF selectionVars
      <3>2. EndedContextIsLast'
        BY <2>3, <3>1 DEF LastInv, EndedContextIsLast, ContextError
      <3> QED BY <2>3, <3>1, <3>2 DEF LastInv
    <2> QED BY <1>3, <2>1, <2>4, <2>5, <2>6, <2>7 DEF Next
  <1> QED BY <1>1, <1>2, <1>3

\* In every reachable state the loop stands where the end of the context lets it.
THEOREM LastInvariance == LinuxSpec => []LastInv
  <1>1. LinuxInit => LastInv
    BY DEF LinuxInit, Init, LastInv, EndedContextIsLast
  <1>2. LInv /\ LastInv /\ [LinuxNext]_vars => LastInv'
    <2> SUFFICES ASSUME LInv, LastInv, [LinuxNext]_vars PROVE LastInv'
      OBVIOUS
    <2>1. CASE LinuxNext
      BY <2>1, LinuxNextInv, LastStep DEF LInv, LinuxNext
    <2>2. CASE UNCHANGED vars
      <3>1. UNCHANGED <<ctx, phase, index, order, rejected, result, last>>
        BY <2>2 DEF vars, codeVars, selectionVars
      <3>2. EndedContextIsLast'
        BY <3>1 DEF LastInv, EndedContextIsLast, ContextError
      <3> QED BY <3>1, <3>2 DEF LastInv
    <2> QED BY <2>1, <2>2
  <1> QED BY <1>1, <1>2, LinuxInvariance, PTL DEF LinuxSpec

\* The openers have the types they are declared with: whatever the helper, the
\* bus or the kernel answers becomes an error with a category.
THEOREM LinuxTypeCorrectness == LinuxSpec => []LinuxTypeOK
  <1>1. LInv /\ LastInv => LinuxTypeOK
    BY DEF LInv, LastInv, LinuxTypeOK
  <1> QED BY <1>1, LinuxInvariance, LastInvariance, PTL

\* No order of candidates, no timeout and no late answer makes SelectBackend pass
\* over a store that is there.
THEOREM Downgrades == LinuxSpec => []NoSilentDowngrade
  <1>1. LInv => NoSilentDowngrade
    BY DEF LInv, SeenInv, NoSilentDowngrade
  <1> QED BY <1>1, LinuxInvariance, PTL

\* On every path of wsl2.New and dbus.Probe the helper has ended and the
\* connection is closed when the opener returns.
THEOREM Cleanup == LinuxSpec => []ProbesLeaveNothing
  <1>1. LInv => ProbesLeaveNothing
    BY RestOf DEF ProbesLeaveNothing
  <1> QED BY <1>1, LinuxInvariance, PTL

\* The openers' steps implement Selection, whose theorems hold of them, too.
THEOREM LinuxImplementsSelection == LinuxSpec => ImplementsSelection
  <1>1. LinuxInit => Init
    BY DEF LinuxInit
  <1>2. LInv /\ [LinuxNext]_vars => [Next]_selectionVars
    BY LinuxNextInv
  <1> QED BY <1>1, <1>2, LinuxInvariance, PTL DEF LinuxSpec, Spec, ImplementsSelection

\* After the end of the caller's context Open returns what the candidate that was
\* being opened then has come to, or the context's error: it goes on to no other
\* candidate, on any platform and for any order.
THEOREM Ended == LinuxSpec => []EndedContextIsLast
  <1>1. LastInv => EndedContextIsLast
    BY DEF LastInv
  <1> QED BY <1>1, LastInvariance, PTL

\* wsl2.New never returns a Keyring after its timeout or the caller's context has
\* ended, whatever the helper has answered.
THEOREM LateAnswers == LinuxSpec => LateAnswerIsDiscarded
  <1> DEFINE A == LinuxGetter(site) /\ result.kind = "none" /\ result'.kind = "keyring"
                    /\ result'.backend = Windows => ctx = "live" /\ inner = "live"
  <1>1. LInv /\ [LinuxNext]_vars => [A]_vars
    <2> SUFFICES ASSUME LInv, [LinuxNext]_vars, LinuxGetter(site), result.kind = "none",
                        result'.kind = "keyring", result'.backend = Windows
                 PROVE  ctx = "live" /\ inner = "live"
      OBVIOUS
    <2>1. NoResult.kind = "none" /\ NoResult.backend # Windows
      BY DEF NoResult, Windows
    <2>2. \A cause, r : ~OpenFails(cause, r)
      BY DEF OpenFails, Answer, NoResult
    <2>3. ~Stop /\ ~Exhausted
      BY <2>2 DEF Stop, Exhausted
    <2>4. ~Open
      BY <2>2 DEF Open, Answer, NoResult, Windows
    <2>5. result' # result
      OBVIOUS
    <2>6. ~Call /\ ~Unregistered /\ ~StartOpener /\ ~EndContext /\ ~UNCHANGED selectionVars
      BY <2>5 DEF Call, Unregistered, StartOpener, EndContext, selectionVars
    <2>7. ~TakeResult
      BY <2>1 DEF TakeResult
    <2>8. ASSUME NEW c, NEW e, Leave(c, e) PROVE e = {} /\ Candidate = Windows
      <3>1. e = {}
        BY <2>2, <2>5, <2>8 DEF Leave, Reject
      <3>2. result'.backend = Candidate
        BY <2>8, <3>1 DEF Leave, Accept, Answer, NoResult
      <3> QED BY <3>1, <3>2
    <2>9. ctx # "live" => ContextError(ctx) # {}
      BY DEF LInv, SInv, TypeOK, ContextError
    <2>10. ~New /\ ~Invoke
      BY <2>5, <2>8, <2>9, SecureLinuxAssumption DEF New, Invoke, Refuse, Goto, selectionVars
    <2>11. ~HelperEnds /\ ~Probe /\ ~Connect /\ ~OpenSession /\ ~CloseSession
      <3>1. Bus # Windows
        BY DEF Bus, Windows
      <3> QED BY <2>5, <2>8, <3>1 DEF HelperEnds, Probe, Connect, OpenSession, CloseSession,
                 CallFails, Refuse, Goto, At, selectionVars
    <2>12. ~Classify /\ ~CloseConnection /\ ~OpenKernel
      <3>1. Bus # Windows /\ Kernel # Windows
        BY DEF Bus, Kernel, Windows
      <3> QED BY <2>5, <2>8, <3>1 DEF Classify, CloseConnection, OpenKernel, Refuse, At,
                 selectionVars
    <2>13. ~OtherOpener /\ ~LinuxEndContext /\ ~TimerExpires
      BY <2>5, <2>6 DEF OtherOpener, LinuxEndContext, TimerExpires, selectionVars
    <2>14. Collect
      BY <2>3, <2>4, <2>5, <2>6, <2>7, <2>10, <2>11, <2>12, <2>13
         DEF LinuxNext, LinuxStep, Loop, Opener, vars, codeVars
    <2>15. HelperError = {} /\ inner \in {"live", "canceled", "expired"}
      BY <2>8, <2>14, PlaceOf DEF Collect, Refuse, LInv, HoldsInv
    <2>16. inner = "live"
      BY <2>15 DEF HelperError, ContextError
    <2> QED BY <2>16 DEF LInv, HoldsInv
  <1> QED BY <1>1, LinuxInvariance, PTL DEF LinuxSpec, LateAnswerIsDiscarded
=============================================================================
