---------------------- MODULE WindowsCredentialsProofs ----------------------
(***************************************************************************)
(* Proofs about WindowsCredentials, for every set of keys, values, limits  *)
(* and goroutines: services without a colon never share a credential.      *)
(***************************************************************************)
EXTENDS WindowsCredentials, SequenceTheorems, TLAPS

-----------------------------------------------------------------------------
(* Targets.                                                                  *)

NoColon(name) == \A i \in 1..Len(name) : name[i] # ":"

\* The units of a target.
LEMMA TargetUnits ==
  ASSUME NEW s \in Seq(Units), NEW n \in Seq(Units), ":" \in Units
  PROVE  LET x == target(<<s, n>>) IN
         /\ Len(x) = Len(s) + 1 + Len(n) /\ x[Len(s) + 1] = ":"
         /\ \A i \in 1..Len(s) : x[i] = s[i]
         /\ \A i \in 1..Len(n) : x[Len(s) + 1 + i] = n[i]
  <1> DEFINE head == s \o <<":">>
  <1>1. head \in Seq(Units) /\ Len(head) = Len(s) + 1 /\ Len(s) \in Nat /\ Len(n) \in Nat
    OBVIOUS
  <1>2. head[Len(s) + 1] = ":" /\ \A i \in 1..Len(s) : head[i] = s[i]
    OBVIOUS
  <1>3. target(<<s, n>>) = head \o n
    BY DEF target
  <1> HIDE DEF head
  <1>4. /\ Len(head \o n) = Len(head) + Len(n)
        /\ \A i \in 1..Len(head) : (head \o n)[i] = head[i]
        /\ \A i \in 1..Len(n) : (head \o n)[Len(head) + i] = n[i]
    <2>1. /\ Len(head \o n) = Len(head) + Len(n)
          /\ \A i \in 1 .. Len(head) + Len(n) :
                (head \o n)[i] = IF i <= Len(head) THEN head[i] ELSE n[i - Len(head)]
      BY <1>1, ConcatProperties
    <2>2. \A i \in 1..Len(head) : i \in 1 .. Len(head) + Len(n) /\ i <= Len(head)
      BY <1>1
    <2>3. \A i \in 1..Len(n) : /\ Len(head) + i \in 1 .. Len(head) + Len(n)
                               /\ ~(Len(head) + i <= Len(head)) /\ Len(head) + i - Len(head) = i
      BY <1>1
    <2> QED BY <2>1, <2>2, <2>3
  <1>5. Len(s) + 1 \in 1..Len(head) /\ \A i \in 1..Len(s) : i \in 1..Len(head)
    BY <1>1
  <1> QED BY <1>1, <1>2, <1>3, <1>4, <1>5

\* The first colon of a target ends the service.
LEMMA ServiceIsPrefix ==
  ASSUME NEW s \in Seq(Units), NEW n \in Seq(Units), NEW t \in Seq(Units), NEW m \in Seq(Units),
         ":" \in Units, NoColon(t), target(<<s, n>>) = target(<<t, m>>)
  PROVE  ~(Len(s) < Len(t))
  <1> SUFFICES ASSUME Len(s) < Len(t) PROVE FALSE
    OBVIOUS
  <1>1. target(<<s, n>>)[Len(s) + 1] = ":"
    BY TargetUnits
  <1>2. Len(s) + 1 \in 1..Len(t)
    OBVIOUS
  <1>3. target(<<t, m>>)[Len(s) + 1] = t[Len(s) + 1]
    BY <1>2, TargetUnits
  <1> QED BY <1>1, <1>2, <1>3 DEF NoColon

LEMMA TargetIsInjective ==
  ASSUME NEW s \in Seq(Units), NEW n \in Seq(Units), NEW t \in Seq(Units), NEW m \in Seq(Units),
         ":" \in Units, NoColon(s), NoColon(t), target(<<s, n>>) = target(<<t, m>>)
  PROVE  s = t /\ n = m
  <1>1. Len(s) \in Nat /\ Len(t) \in Nat /\ Len(n) \in Nat /\ Len(m) \in Nat
    OBVIOUS
  <1>2. Len(s) = Len(t)
    BY <1>1, ServiceIsPrefix
  <1>3. Len(n) = Len(m)
    BY <1>1, <1>2, TargetUnits
  <1>4. \A i \in 1..Len(s) : s[i] = t[i]
    BY <1>2, TargetUnits
  <1>5. \A i \in 1..Len(n) : n[i] = m[i]
    <2> SUFFICES ASSUME NEW i \in 1..Len(n) PROVE n[i] = m[i]
      OBVIOUS
    <2>1. target(<<s, n>>)[Len(s) + 1 + i] = n[i]
      BY TargetUnits
    <2>2. target(<<t, m>>)[Len(t) + 1 + i] = m[i]
      BY <1>3, TargetUnits
    <2> QED BY <1>2, <2>1, <2>2
  <1> QED BY <1>2, <1>3, <1>4, <1>5, SeqEqual
-----------------------------------------------------------------------------
(* The inductive invariant.                                                  *)

\* The names are sequences of units, and no service has a colon.
PlainServices ==
    /\ Keys \subseteq Seq(Units) \X Seq(Units) /\ ":" \in Units
    /\ \A k \in Keys : NoColon(k[1])

\* Only checked requests reach the native calls.
Checked == \A t \in Threads :
    pc[t] = "native" => req[t] \in Requests /\ Valid(req[t].key) /\ ~TooLarge(req[t])

WInv == TypeOK /\ Checked

LEMMA RequestType ==
  ASSUME NEW q \in Requests
  PROVE  /\ q.key \in Keys /\ q.op \in {"get", "set", "delete"}
         /\ q.op = "set" => q.val \in Values
         /\ q.op # "set" => q.val = None
  BY DEF Requests

LEMMA WindowsInitInv == Init => WInv
  BY DEF Init, WInv, TypeOK, Checked, NewFrame, Results

LEMMA WindowsCallInv ==
  ASSUME WInv, NEW t \in Threads, Call(t)
  PROVE  WInv'
  <1>1. PICK q \in Requests :
           /\ req' = [req EXCEPT ![t] = q]
           /\ \/ Go(t, "return", "ended", None)
              \/ ~Valid(q.key) /\ Go(t, "return", "invalid", None)
              \/ Valid(q.key) /\ TooLarge(q) /\ Go(t, "return", "toolarge", None)
              \/ Valid(q.key) /\ ~TooLarge(q) /\ Go(t, "native", "none", None)
    BY DEF Call
  <1>2. PICK label \in {"native", "return"}, res \in Results :
           /\ Go(t, label, res, None)
           /\ label = "native" => Valid(q.key) /\ ~TooLarge(q)
    BY <1>1 DEF Results
  <1>3. UNCHANGED credentials
    BY DEF Call
  <1>4. TypeOK'
    BY <1>1, <1>2, <1>3 DEF WInv, TypeOK, Go
  <1>5. Checked'
    BY <1>1, <1>2 DEF WInv, TypeOK, Checked, Go, Valid, TooLarge, target, Usable
  <1> QED BY <1>4, <1>5 DEF WInv

LEMMA WindowsNativeInv ==
  ASSUME WInv, NEW t \in Threads, Native(t)
  PROVE  WInv'
  <1> DEFINE q == req[t]
  <1>1. q \in Requests /\ Valid(q.key) /\ ~TooLarge(q) /\ target(q.key) \in Targets
    BY RequestType DEF Native, WInv, Checked, Targets
  <1>2. q.op # "get" => q.val \in Fitting \cup {None}
    BY <1>1, RequestType DEF TooLarge, Fitting
  <1>3. credentials \in [Targets -> Fitting \cup {None}] /\ Fitting \subseteq Values
    BY DEF WInv, TypeOK, Fitting
  <1>4. \A e : operationError(e) \in Results
    BY DEF operationError, Results
  <1>5. PICK res \in Results, val \in Values \cup {None} : Go(t, "return", res, val)
    BY <1>1, <1>3, <1>4 DEF Native, Results
  <1>6. credentials' \in [Targets -> Fitting \cup {None}] /\ req' = req
    BY <1>1, <1>2, <1>3 DEF Native
  <1>7. TypeOK'
    BY <1>5, <1>6 DEF WInv, TypeOK, Go
  <1>8. Checked'
    BY <1>5, <1>6 DEF WInv, TypeOK, Checked, Go, Valid, TooLarge, target, Usable
  <1> QED BY <1>7, <1>8 DEF WInv

LEMMA WindowsReturnInv ==
  ASSUME WInv, NEW t \in Threads, Return(t)
  PROVE  WInv'
  <1>1. TypeOK'
    BY DEF Return, Go, WInv, TypeOK, Results
  <1>2. Checked'
    BY DEF Return, Go, WInv, TypeOK, Checked, Valid, TooLarge, target, Usable
  <1> QED BY <1>1, <1>2 DEF WInv

LEMMA WindowsNextInv == WInv /\ [Next]_vars => WInv'
  <1>1. WInv /\ UNCHANGED vars => WInv'
    BY DEF WInv, TypeOK, Checked, vars, Valid, TooLarge, target, Usable
  <1> QED BY <1>1, WindowsCallInv, WindowsNativeInv, WindowsReturnInv DEF Next

\* Two keys never have the same target, if no service has a colon.
LEMMA TargetsDiffer ==
  ASSUME PlainServices, NEW k \in Keys, NEW l \in Keys, target(k) = target(l)
  PROVE  k = l
  <1>1. PICK s \in Seq(Units), n \in Seq(Units) : k = <<s, n>>
    BY DEF PlainServices
  <1>2. PICK t \in Seq(Units), m \in Seq(Units) : l = <<t, m>>
    BY DEF PlainServices
  <1>3. NoColon(s) /\ NoColon(t) /\ ":" \in Units
    BY <1>1, <1>2 DEF PlainServices
  <1> QED BY <1>1, <1>2, <1>3, TargetIsInjective

\* Only a call that names an entry changes it, if no service has a colon.
LEMMA NamedChange ==
  ASSUME PlainServices, WInv, [Next]_vars
  PROVE  OnlyNamedChange
  <1> SUFFICES ASSUME NEW k \in Keys, Entry(k)' # Entry(k)
               PROVE  \E t \in Threads : pc[t] = "native" /\ req[t].key = k
    BY DEF OnlyNamedChange
  <1>2. Valid(k) /\ credentials'[target(k)] # credentials[target(k)]
    BY DEF Entry, Valid, target, Usable
  <1>3. PICK t \in Threads : Native(t)
    BY <1>2 DEF Next, Call, Return, vars
  <1>4. /\ req[t] \in Requests /\ pc[t] = "native"
        /\ credentials' = [credentials EXCEPT ![target(req[t].key)] = req[t].val]
    BY <1>2, <1>3 DEF Native, WInv, Checked
  <1>5. target(k) \in Targets /\ req[t].key \in Keys
    BY <1>4, RequestType DEF Targets
  <1>6. target(k) = target(req[t].key)
    BY <1>2, <1>4, <1>5 DEF WInv, TypeOK
  <1> QED BY <1>4, <1>5, <1>6, TargetsDiffer

-----------------------------------------------------------------------------
(* The theorems.                                                             *)

\* Credential Manager is never asked to hold a blob above its limit, and every
\* native error has a category (client.go: Set, operationError).
THEOREM WindowsTypeCorrectness == Spec => []TypeOK
  <1>1. WInv => TypeOK
    BY DEF WInv
  <1> QED BY <1>1, WindowsInitInv, WindowsNextInv, PTL DEF Spec

\* Services without a colon never share a credential, whatever their keys are
\* called: an entry changes only through a call that names it (client.go:
\* validatedTarget).
THEOREM PlainServicesAreApart ==
  ASSUME PlainServices
  PROVE  Spec => ServicesAreApart
  <1>1. WInv /\ [Next]_vars => [OnlyNamedChange]_vars
    BY NamedChange
  <1> QED BY <1>1, WindowsInitInv, WindowsNextInv, PTL DEF Spec, ServicesAreApart
=============================================================================
