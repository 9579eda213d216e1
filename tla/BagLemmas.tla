----------------------------- MODULE BagLemmas -----------------------------
(***************************************************************************)
(* Facts about bags: what adding and taking away an element leaves, and    *)
(* the order of bags.  The bags of this project hold the mutations that    *)
(* are still on their way to a store.                                      *)
(***************************************************************************)
EXTENDS Integers, Bags, TLAPS

\* Whatever is taken away, no element comes in.
LEMMA BagDifference ==
  ASSUME NEW B, NEW C
  PROVE  DOMAIN (B (-) C) \subseteq DOMAIN B
  <1> DEFINE left == [e \in DOMAIN B |-> IF e \in DOMAIN C THEN B[e] - C[e] ELSE B[e]]
  <1>1. B (-) C = [e \in {d \in DOMAIN left : left[d] > 0} |-> left[e]]
    BY Zenon DEF (-)
  <1>2. DOMAIN left = DOMAIN B
    OBVIOUS
  <1> HIDE DEF left
  <1> QED BY <1>1, <1>2

\* One element more.
LEMMA OneMore ==
  ASSUME NEW B, IsABag(B), NEW q
  PROVE  LET S == B (+) SetToBag({q}) IN
         /\ IsABag(S) /\ BagToSet(S) = BagToSet(B) \cup {q} /\ B \sqsubseteq S
  <1> DEFINE C == SetToBag({q})
             S == B (+) C
             L(e) == IF e \in DOMAIN B THEN B[e] ELSE 0
             R(e) == IF e \in DOMAIN C THEN C[e] ELSE 0
  <1>1. C = [e \in {q} |-> 1]
    BY DEF SetToBag
  <1>2. S = [e \in DOMAIN B \cup DOMAIN C |-> L(e) + R(e)]
    BY DEF (+)
  <1>3. DOMAIN C = {q} /\ C[q] = 1
    BY <1>1
  <1>4. \A e \in DOMAIN B : B[e] \in Nat /\ B[e] > 0
    BY DEF IsABag
  <1> HIDE DEF C, S
  <1>5. DOMAIN S = DOMAIN B \cup {q} /\ S = [e \in DOMAIN S |-> S[e]]
    BY <1>2, <1>3
  <1>6. \A e \in DOMAIN S : S[e] = L(e) + R(e)
    BY <1>2, <1>3
  <1>7. \A e \in DOMAIN S : S[e] \in Nat /\ S[e] > 0 /\ (e \in DOMAIN B => B[e] <= S[e])
    BY <1>3, <1>4, <1>5, <1>6
  <1>8. IsABag(S)
    BY <1>5, <1>7 DEF IsABag
  <1> QED BY <1>5, <1>7, <1>8 DEF S, C, BagToSet, \sqsubseteq

\* One element less, if it is there.
LEMMA OneLess ==
  ASSUME NEW B, IsABag(B), NEW q
  PROVE  LET S == B (-) SetToBag({q}) IN
         IsABag(S) /\ BagToSet(S) \subseteq BagToSet(B) /\ S \sqsubseteq B
  <1> DEFINE C == SetToBag({q})
             S == B (-) C
             left == [e \in DOMAIN B |-> IF e \in DOMAIN C THEN B[e] - C[e] ELSE B[e]]
  <1>1. C = [e \in {q} |-> 1]
    BY DEF SetToBag
  <1>2. S = [e \in {d \in DOMAIN left : left[d] > 0} |-> left[e]]
    BY Zenon DEF (-)
  <1>3. DOMAIN C = {q} /\ C[q] = 1
    BY <1>1
  <1>4. \A e \in DOMAIN B : B[e] \in Nat /\ B[e] > 0
    BY DEF IsABag
  <1> HIDE DEF C, S
  <1>5. DOMAIN left = DOMAIN B /\ \A e \in DOMAIN B : left[e] \in Nat /\ left[e] <= B[e]
    BY <1>3, <1>4
  <1> HIDE DEF left
  <1>6. /\ DOMAIN S \subseteq DOMAIN B /\ S = [e \in DOMAIN S |-> S[e]]
        /\ \A e \in DOMAIN S : S[e] \in Nat /\ S[e] > 0 /\ S[e] <= B[e]
    BY <1>2, <1>5
  <1>7. IsABag(S)
    BY <1>6 DEF IsABag
  <1> QED BY <1>6, <1>7 DEF S, C, BagToSet, \sqsubseteq

\* Some elements with all their copies.
LEMMA PartOfBag ==
  ASSUME NEW B, IsABag(B), NEW D \in SUBSET DOMAIN B
  PROVE  LET S == [c \in D |-> B[c]] IN
         IsABag(S) /\ BagToSet(S) = D /\ S \sqsubseteq B
  <1>1. \A e \in DOMAIN B : B[e] \in Nat /\ B[e] > 0
    BY DEF IsABag
  <1> QED BY <1>1 DEF IsABag, BagToSet, \sqsubseteq

\* The order of bags.
LEMMA BagReflexive ==
  ASSUME NEW B, IsABag(B)
  PROVE  B \sqsubseteq B
  <1>1. \A e \in DOMAIN B : B[e] \in Nat
    BY DEF IsABag
  <1> QED BY <1>1 DEF \sqsubseteq

LEMMA BagTransitive ==
  ASSUME NEW A, NEW B, NEW C, IsABag(A), IsABag(B), IsABag(C),
         A \sqsubseteq B, B \sqsubseteq C
  PROVE  A \sqsubseteq C
  <1>1. /\ \A e \in DOMAIN A : A[e] \in Nat
        /\ \A e \in DOMAIN B : B[e] \in Nat
        /\ \A e \in DOMAIN C : C[e] \in Nat
    BY DEF IsABag
  <1> QED BY <1>1 DEF \sqsubseteq
=============================================================================
