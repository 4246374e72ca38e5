------------------------------ MODULE Counting ------------------------------
(***************************************************************************)
(* What proofs that count use of finite sets.  A lemma that counts assumes *)
(* Counting; the module that holds it proves Counting, in CountingHolds,   *)
(* from the library's FiniteSetTheorems.                                   *)
(*                                                                         *)
(* That module instantiates the library under a name, and the instance has *)
(* copies of IsFiniteSet and Cardinality of its own.  Listed and Counted   *)
(* say what FiniteSets and the copies both mean.                           *)
(***************************************************************************)
EXTENDS Integers, Sequences, FiniteSets

Listed(S) == \E seq \in Seq(S) : \A s \in S : \E n \in 1 .. Len(seq) : seq[n] = s
Counted(S) ==
  LET count[T \in SUBSET S] == IF T = {} THEN 0 ELSE 1 + count[T \ {CHOOSE x : x \in T}]
  IN  count[S]

NothingCounts == IsFiniteSet({}) /\ Cardinality({}) = 0
OneCounts == \A x : IsFiniteSet({x}) /\ Cardinality({x}) = 1
CountsAreNatural == \A S : IsFiniteSet(S) => Cardinality(S) \in Nat
AddingCounts ==
  \A S, x : IsFiniteSet(S) =>
    /\ IsFiniteSet(S \union {x})
    /\ Cardinality(S \union {x}) = IF x \in S THEN Cardinality(S) ELSE Cardinality(S) + 1
RemovingCounts ==
  \A S, x : IsFiniteSet(S) =>
    /\ IsFiniteSet(S \ {x})
    /\ Cardinality(S \ {x}) = IF x \in S THEN Cardinality(S) - 1 ELSE Cardinality(S)
PartsCount ==
  \A S : \A T \in SUBSET S : IsFiniteSet(S) =>
    IsFiniteSet(T) /\ Cardinality(T) <= Cardinality(S) /\ (Cardinality(T) = Cardinality(S) => S = T)
UnionsCount ==
  \A S, T : IsFiniteSet(S) /\ IsFiniteSet(T) =>
    /\ IsFiniteSet(S \union T)
    /\ Cardinality(S \union T) = Cardinality(S) + Cardinality(T) - Cardinality(S \intersect T)

Counting ==
  /\ NothingCounts /\ OneCounts /\ CountsAreNatural
  /\ AddingCounts /\ RemovingCounts /\ PartsCount /\ UnionsCount
=============================================================================
