----------------------------- MODULE SumProofs -----------------------------
(***************************************************************************)
(* Sums over finite sets, as the folds of the community modules compute    *)
(* them: well defined, in any order, monotonic.  Induction is on the       *)
(* number of elements, by a smallest counterexample, so it needs no        *)
(* theorem with an operator as a parameter.                                *)
(***************************************************************************)
EXTENDS Integers, FiniteSetsExt, FiniteSetTheorems, WellFoundedInduction, TLAPS

(* The sum of w[x] over the elements x of S.                               *)
SumOf(w, S) == MapThenSumSet(LAMBDA x : w[x], S)

(* A set of numbers that is not empty has a smallest one.                  *)
LEMMA SmallestNumber ==
  ASSUME NEW S \in SUBSET Nat, S # {}
  PROVE  \E n \in S : \A m \in S : n <= m
<1>1. PICK n \in S : \A m \in S : <<m, n>> \notin OpToRel(<, Nat)
  BY WFMin, NatLessThanWellFounded
<1>2. ASSUME NEW m \in S PROVE n <= m
  <2>1. ~(m < n)
    BY <1>1, <1>2 DEF OpToRel
  <2> QED
    BY <2>1
<1> QED
  BY <1>2

(* Induction over the subsets of a finite set: what holds of a set when it *)
(* holds of that set without any one element, holds of all.                *)
LEMMA SubsetInduction ==
  ASSUME NEW U, IsFiniteSet(U), NEW Good,
         \A s \in SUBSET U : (\A x \in s : s \ {x} \in Good) => s \in Good
  PROVE  \A s \in SUBSET U : s \in Good
<1> DEFINE Bad == {n \in Nat : \E s \in SUBSET U : Cardinality(s) = n /\ s \notin Good}
<1>1. \A s \in SUBSET U : IsFiniteSet(s) /\ Cardinality(s) \in Nat
  BY FS_Subset, FS_CardinalityType
<1>2. CASE Bad = {}
  BY <1>1, <1>2
<1>3. CASE Bad # {}
  <2>1. PICK n \in Bad : \A m \in Bad : n <= m
    BY <1>3, SmallestNumber
  <2>2. PICK s \in SUBSET U : Cardinality(s) = n /\ s \notin Good
    BY <2>1
  <2>3. ASSUME NEW x \in s PROVE s \ {x} \in Good
    <3>1. s \ {x} \in SUBSET U
      OBVIOUS
    <3>2. Cardinality(s \ {x}) = Cardinality(s) - 1
      BY <1>1, <2>2, <2>3, FS_RemoveElement
    <3>3. Cardinality(s \ {x}) \in Nat /\ Cardinality(s) \in Nat
      BY <1>1, <3>1
    <3>4. n - 1 \in Nat /\ Cardinality(s \ {x}) = n - 1 /\ ~ (n <= n - 1)
      BY <2>2, <3>2, <3>3
    <3>5. n - 1 \notin Bad
      BY <2>1, <3>4
    <3> QED
      BY <3>1, <3>4, <3>5
  <2> QED
    BY <2>2, <2>3
<1> QED
  BY <1>2, <1>3
-----------------------------------------------------------------------------
(* The fold takes an element, whichever, and goes on with the rest.        *)
Some(s) == CHOOSE x \in s : TRUE

LEMMA SomeElement ==
  ASSUME NEW s, s # {}
  PROVE  Some(s) \in s
BY DEF Some

(* How the fold of the subsets in F is computed.                           *)
Adds(it, w, F) == it = [s \in F |-> IF s = {} THEN 0 ELSE w[Some(s)] + it[s \ {Some(s)}]]

LEMMA SumIsIterated ==
  ASSUME NEW w, NEW S
  PROVE  SumOf(w, S) = (CHOOSE it : Adds(it, w, SUBSET S))[S]
BY DEF SumOf, MapThenSumSet, MapThenFoldSet, Adds, Some

UpTo(n, U) == {s \in SUBSET U : Cardinality(s) <= n}

LEMMA AddsSmaller ==
  ASSUME NEW w, NEW U, IsFiniteSet(U), NEW n \in Nat,
         \E it : Adds(it, w, UpTo(n, U))
  PROVE  \E it : Adds(it, w, UpTo(n + 1, U))
<1> DEFINE F == {s \in SUBSET U : Cardinality(s) <= n}
           G == {s \in SUBSET U : Cardinality(s) <= n + 1}
<1>1. PICK it : Adds(it, w, F)
  BY DEF UpTo
<1> DEFINE more == [s \in G |-> IF s = {} THEN 0 ELSE w[Some(s)] + it[s \ {Some(s)}]]
<1>2. \A s \in G : s # {} => s \ {Some(s)} \in F /\ s \ {Some(s)} \in G
  <2> TAKE s \in G
  <2> SUFFICES ASSUME s # {} PROVE s \ {Some(s)} \in F /\ s \ {Some(s)} \in G
    OBVIOUS
  <2>1. Some(s) \in s
    BY SomeElement
  <2>2. IsFiniteSet(s) /\ Cardinality(s) \in Nat
    BY FS_Subset, FS_CardinalityType
  <2>3. Cardinality(s \ {Some(s)}) = Cardinality(s) - 1
    BY <2>1, <2>2, FS_RemoveElement
  <2> QED
    BY <2>2, <2>3
<1>3. \A s \in F : s \in G /\ it[s] = IF s = {} THEN 0 ELSE w[Some(s)] + it[s \ {Some(s)}]
  <2> TAKE s \in F
  <2>1. s \in SUBSET U /\ Cardinality(s) <= n /\ Cardinality(s) \in Nat
    BY FS_Subset, FS_CardinalityType
  <2>2. s \in G
    BY <2>1
  <2> HIDE DEF F, G
  <2>3. it = [t \in F |-> IF t = {} THEN 0 ELSE w[Some(t)] + it[t \ {Some(t)}]]
    BY <1>1 DEF Adds
  <2>4. it[s] = IF s = {} THEN 0 ELSE w[Some(s)] + it[s \ {Some(s)}]
    BY <2>3
  <2> QED
    BY <2>2, <2>4
<1>4. \A s \in F : more[s] = it[s]
  BY <1>3
<1>5. \A s \in G : more[s] = IF s = {} THEN 0 ELSE w[Some(s)] + more[s \ {Some(s)}]
  BY <1>2, <1>4
<1> HIDE DEF F, G
<1>6. more = [s \in G |-> IF s = {} THEN 0 ELSE w[Some(s)] + more[s \ {Some(s)}]]
  BY <1>5
<1> QED
  BY <1>6 DEF Adds, G, UpTo

LEMMA AddsExist ==
  ASSUME NEW w, NEW U, IsFiniteSet(U)
  PROVE  \E it : Adds(it, w, SUBSET U)
<1> DEFINE Bad == {n \in Nat : ~ \E it : Adds(it, w, UpTo(n, U))}
<1>1. \A s \in SUBSET U : IsFiniteSet(s) /\ Cardinality(s) \in Nat
                          /\ Cardinality(s) <= Cardinality(U)
  BY FS_Subset, FS_CardinalityType
<1>2. CASE Bad = {}
  <2>1. UpTo(Cardinality(U), U) = SUBSET U
    BY <1>1 DEF UpTo
  <2>2. Cardinality(U) \in Nat
    BY <1>1
  <2>3. \E it : Adds(it, w, UpTo(Cardinality(U), U))
    BY <1>2, <2>2
  <2> QED
    BY <2>1, <2>3
<1>3. CASE Bad # {}
  <2>1. PICK n \in Bad : \A m \in Bad : n <= m
    BY <1>3, SmallestNumber
  <2>2. n # 0
    <3> SUFFICES ASSUME n = 0 PROVE FALSE
      OBVIOUS
    <3>1. UpTo(0, U) = {{}}
      <4>1. \A s \in SUBSET U : Cardinality(s) <= 0 <=> s = {}
        BY <1>1, FS_EmptySet
      <4> QED
        BY <4>1 DEF UpTo
    <3> DEFINE it == [s \in {{}} |-> 0]
    <3>2. Adds(it, w, {{}})
      <4>1. it = [s \in {{}} |-> IF s = {} THEN 0 ELSE w[Some(s)] + it[s \ {Some(s)}]]
        OBVIOUS
      <4> QED
        BY <4>1 DEF Adds
    <3> QED
      BY <2>1, <3>1, <3>2
  <2>3. n \in Nat /\ ~ \E it : Adds(it, w, UpTo(n, U))
    BY <2>1
  <2>4. n - 1 \in Nat /\ ~ (n <= n - 1) /\ (n - 1) + 1 = n
    BY <2>2, <2>3
  <2> PICK m \in Nat : m = n - 1
    BY <2>4
  <2>5. m \notin Bad /\ m + 1 = n
    BY <2>1, <2>4
  <2>6. \E it : Adds(it, w, UpTo(m, U))
    BY <2>5
  <2>7. \E it : Adds(it, w, UpTo(m + 1, U))
    BY <2>6, AddsSmaller
  <2> QED
    BY <2>3, <2>5, <2>7
<1> QED
  BY <1>2, <1>3

(* The sums of the subsets of U.                                           *)
SumsOver(w, U) == CHOOSE it : Adds(it, w, SUBSET U)

LEMMA SumsAdd ==
  ASSUME NEW w, NEW U, IsFiniteSet(U)
  PROVE  /\ SumsOver(w, U)[{}] = 0
         /\ \A s \in SUBSET U : s # {} =>
              SumsOver(w, U)[s] = w[Some(s)] + SumsOver(w, U)[s \ {Some(s)}]
<1> DEFINE it == SumsOver(w, U)
<1>1. Adds(it, w, SUBSET U)
  BY AddsExist DEF SumsOver
<1>2. it = [t \in SUBSET U |-> IF t = {} THEN 0 ELSE w[Some(t)] + it[t \ {Some(t)}]]
  BY <1>1 DEF Adds
<1> HIDE DEF it
<1>3. it[{}] = 0
  BY <1>2
<1>4. \A s \in SUBSET U : s # {} => it[s] = w[Some(s)] + it[s \ {Some(s)}]
  BY <1>2
<1> QED
  BY <1>3, <1>4 DEF it

(* They are the same in every larger set, which may weigh its own elements *)
(* differently.                                                            *)
LEMMA SumsAgree ==
  ASSUME NEW w, NEW v, NEW U, NEW V, IsFiniteSet(V), U \subseteq V,
         \A x \in U : w[x] = v[x],
         NEW s \in SUBSET U
  PROVE  SumsOver(w, U)[s] = SumsOver(v, V)[s]
<1> DEFINE Good == {t \in SUBSET U : SumsOver(w, U)[t] = SumsOver(v, V)[t]}
<1>1. IsFiniteSet(U)
  BY FS_Subset
<1>2. \A t \in SUBSET V : t # {} =>
        SumsOver(v, V)[t] = v[Some(t)] + SumsOver(v, V)[t \ {Some(t)}]
  BY SumsAdd
<1>3. ASSUME NEW t \in SUBSET U, \A x \in t : t \ {x} \in Good PROVE t \in Good
  <2>1. CASE t = {}
    BY <1>1, <2>1, SumsAdd
  <2>2. CASE t # {}
    <3>1. Some(t) \in t /\ w[Some(t)] = v[Some(t)]
      BY <2>2, SomeElement
    <3>2. SumsOver(w, U)[t \ {Some(t)}] = SumsOver(v, V)[t \ {Some(t)}]
      BY <1>3, <3>1
    <3>3. SumsOver(w, U)[t] = w[Some(t)] + SumsOver(w, U)[t \ {Some(t)}]
      BY <1>1, <2>2, SumsAdd
    <3>4. SumsOver(v, V)[t] = v[Some(t)] + SumsOver(v, V)[t \ {Some(t)}]
      <4>1. t \in SUBSET V
        OBVIOUS
      <4> QED
        BY <1>2, <2>2, <4>1
    <3> QED
      BY <3>1, <3>2, <3>3, <3>4
  <2> QED
    BY <2>1, <2>2
<1>4. \A t \in SUBSET U : t \in Good
  <2> HIDE DEF Good
  <2> QED
    BY <1>1, <1>3, SubsetInduction
<1> QED
  BY <1>4

-----------------------------------------------------------------------------
(* What is known of sums.  There is nothing in an empty one.               *)
THEOREM SumOfNone == \A w : SumOf(w, {}) = 0
<1> TAKE w
<1>1. IsFiniteSet({}) /\ {} \in SUBSET {}
  BY FS_EmptySet
<1>2. SumsOver(w, {})[{}] = 0
  BY <1>1, SumsAdd
<1> QED
  BY <1>2, SumIsIterated DEF SumsOver

LEMMA SumOfSome ==
  ASSUME NEW w, NEW S, IsFiniteSet(S), S # {}
  PROVE  SumOf(w, S) = w[Some(S)] + SumOf(w, S \ {Some(S)})
<1> DEFINE R == S \ {Some(S)}
<1>1. SumOf(w, S) = SumsOver(w, S)[S] /\ SumOf(w, R) = SumsOver(w, R)[R]
  BY SumIsIterated DEF SumsOver
<1>2. SumsOver(w, S)[S] = w[Some(S)] + SumsOver(w, S)[R]
  BY SumsAdd
<1>3. SumsOver(w, R)[R] = SumsOver(w, S)[R]
  BY SumsAgree
<1> QED
  BY <1>1, <1>2, <1>3

(* A sum looks at the weights of its elements only.                        *)
THEOREM SumOfSame ==
  ASSUME NEW w, NEW v, NEW S, IsFiniteSet(S), \A x \in S : w[x] = v[x]
  PROVE  SumOf(w, S) = SumOf(v, S)
<1>1. SumOf(w, S) = SumsOver(w, S)[S] /\ SumOf(v, S) = SumsOver(v, S)[S]
  BY SumIsIterated DEF SumsOver
<1> QED
  BY <1>1, SumsAgree

(* Nothing, however often, adds up to nothing.                             *)
THEOREM SumOfZeros ==
  ASSUME NEW w, NEW S, IsFiniteSet(S), \A x \in S : w[x] = 0
  PROVE  SumOf(w, S) = 0
<1> DEFINE Good == {t \in SUBSET S : SumOf(w, t) = 0}
<1>1. ASSUME NEW t \in SUBSET S, \A x \in t : t \ {x} \in Good PROVE t \in Good
  <2>1. CASE t = {}
    BY <2>1, SumOfNone
  <2>2. CASE t # {}
    <3>1. Some(t) \in t /\ w[Some(t)] = 0 /\ IsFiniteSet(t)
      BY <2>2, SomeElement, FS_Subset
    <3>2. SumOf(w, t \ {Some(t)}) = 0
      BY <1>1, <3>1
    <3>3. SumOf(w, t) = w[Some(t)] + SumOf(w, t \ {Some(t)})
      BY <2>2, <3>1, SumOfSome
    <3> QED
      BY <3>1, <3>2, <3>3
  <2> QED
    BY <2>1, <2>2
<1>2. \A t \in SUBSET S : t \in Good
  <2> HIDE DEF Good
  <2> QED
    BY <1>1, SubsetInduction
<1> QED
  BY <1>2

(* Integers add up to an integer.                                          *)
THEOREM SumOfIntegers ==
  ASSUME NEW w, NEW S, IsFiniteSet(S), \A x \in S : w[x] \in Int
  PROVE  SumOf(w, S) \in Int
<1> DEFINE Good == {t \in SUBSET S : SumOf(w, t) \in Int}
<1>1. ASSUME NEW t \in SUBSET S, \A x \in t : t \ {x} \in Good PROVE t \in Good
  <2>1. CASE t = {}
    BY <2>1, SumOfNone
  <2>2. CASE t # {}
    <3>1. Some(t) \in t /\ w[Some(t)] \in Int /\ IsFiniteSet(t)
      BY <2>2, SomeElement, FS_Subset
    <3>2. SumOf(w, t \ {Some(t)}) \in Int
      BY <1>1, <3>1
    <3>3. SumOf(w, t) = w[Some(t)] + SumOf(w, t \ {Some(t)})
      BY <2>2, <3>1, SumOfSome
    <3> QED
      BY <3>1, <3>2, <3>3
  <2> QED
    BY <2>1, <2>2
<1>2. \A t \in SUBSET S : t \in Good
  <2> HIDE DEF Good
  <2> QED
    BY <1>1, SubsetInduction
<1> QED
  BY <1>2

(* Whichever element is taken out first.                                   *)
THEOREM SumWithElement ==
  ASSUME NEW w, NEW S, IsFiniteSet(S), \A x \in S : w[x] \in Int, NEW y \in S
  PROVE  SumOf(w, S) = w[y] + SumOf(w, S \ {y})
<1> DEFINE Good == {t \in SUBSET S :
                      \A z \in t : SumOf(w, t) = w[z] + SumOf(w, t \ {z})}
<1>1. ASSUME NEW t \in SUBSET S, \A x \in t : t \ {x} \in Good, NEW z \in t
      PROVE  SumOf(w, t) = w[z] + SumOf(w, t \ {z})
  <2> DEFINE c == Some(t)
             r == (t \ {c}) \ {z}
  <2>1. c \in t /\ IsFiniteSet(t)
    BY SomeElement, FS_Subset
  <2>2. SumOf(w, t) = w[c] + SumOf(w, t \ {c})
    BY <2>1, SumOfSome
  <2>3. CASE z = c
    BY <2>2, <2>3
  <2>4. CASE z # c
    <3>1. z \in t \ {c} /\ c \in t \ {z} /\ (t \ {z}) \ {c} = r
      BY <2>1, <2>4
    <3>2. SumOf(w, t \ {c}) = w[z] + SumOf(w, r)
      BY <1>1, <2>1, <3>1
    <3>3. SumOf(w, t \ {z}) = w[c] + SumOf(w, (t \ {z}) \ {c})
      BY <1>1, <3>1
    <3>4. SumOf(w, (t \ {z}) \ {c}) = SumOf(w, r)
      BY <3>1
    <3>5. w[z] \in Int /\ w[c] \in Int /\ SumOf(w, r) \in Int
      <4>1. IsFiniteSet(r) /\ \A x \in r : w[x] \in Int
        BY FS_Subset
      <4> QED
        BY <2>1, <4>1, SumOfIntegers
    <3> QED
      BY <2>2, <3>2, <3>3, <3>4, <3>5
  <2> QED
    BY <2>3, <2>4
<1>2. \A t \in SUBSET S : (\A x \in t : t \ {x} \in Good) => t \in Good
  BY <1>1
<1>3. \A t \in SUBSET S : t \in Good
  <2> HIDE DEF Good
  <2> QED
    BY <1>2, SubsetInduction
<1> QED
  BY <1>3

(* More elements, or greater weights, make no smaller sum.                 *)
THEOREM SumOfMore ==
  ASSUME NEW w, NEW v, NEW S, IsFiniteSet(S), NEW R \in SUBSET S,
         \A x \in S : w[x] \in Nat /\ v[x] \in Nat /\ w[x] <= v[x]
  PROVE  0 <= SumOf(w, R) /\ SumOf(w, R) <= SumOf(v, S)
<1> DEFINE Good == {t \in SUBSET S :
                      0 <= SumOf(w, t \cap R) /\ SumOf(w, t \cap R) <= SumOf(v, t)}
<1>0. \A t \in SUBSET S : SumOf(w, t) \in Int /\ SumOf(v, t) \in Int /\ IsFiniteSet(t)
  <2> TAKE t \in SUBSET S
  <2>1. IsFiniteSet(t) /\ \A x \in t : w[x] \in Int /\ v[x] \in Int
    BY FS_Subset
  <2> QED
    BY <2>1, SumOfIntegers
<1>1. ASSUME NEW t \in SUBSET S, \A x \in t : t \ {x} \in Good PROVE t \in Good
  <2>1. CASE t = {}
    <3>1. t \cap R = {} /\ SumOf(w, t \cap R) = 0 /\ SumOf(v, t) = 0
      BY <2>1, SumOfNone
    <3> QED
      BY <3>1
  <2>2. CASE t # {}
    <3> DEFINE c == Some(t)
    <3>1. c \in t /\ w[c] \in Nat /\ v[c] \in Nat /\ w[c] <= v[c]
      BY <2>2, SomeElement
    <3>2. SumOf(v, t) = v[c] + SumOf(v, t \ {c})
      BY <1>0, <2>2, SumOfSome
    <3>3. /\ 0 <= SumOf(w, (t \ {c}) \cap R)
          /\ SumOf(w, (t \ {c}) \cap R) <= SumOf(v, t \ {c})
      BY <1>1, <3>1
    <3>4. SumOf(w, (t \ {c}) \cap R) \in Int /\ SumOf(v, t \ {c}) \in Int
      BY <1>0
    <3>5. CASE c \in R
      <4>1. (t \cap R) \ {c} = (t \ {c}) \cap R /\ c \in t \cap R /\ t \cap R \in SUBSET S
        BY <3>1, <3>5
      <4>2. IsFiniteSet(t \cap R) /\ \A x \in t \cap R : w[x] \in Int
        BY <1>0, <4>1
      <4>3. SumOf(w, t \cap R) = w[c] + SumOf(w, (t \ {c}) \cap R)
        BY <4>1, <4>2, SumWithElement
      <4>4. 0 <= SumOf(w, t \cap R) /\ SumOf(w, t \cap R) <= SumOf(v, t)
        BY <3>1, <3>2, <3>3, <3>4, <4>3
      <4> QED
        BY <4>4
    <3>6. CASE c \notin R
      <4>1. (t \ {c}) \cap R = t \cap R
        BY <3>6
      <4>2. SumOf(w, t \cap R) = SumOf(w, (t \ {c}) \cap R)
        BY <4>1
      <4>3. 0 <= SumOf(w, t \cap R) /\ SumOf(w, t \cap R) <= SumOf(v, t)
        BY <3>1, <3>2, <3>3, <3>4, <4>2
      <4> QED
        BY <4>3
    <3> QED
      BY <3>5, <3>6
  <2> QED
    BY <2>1, <2>2
<1>2. \A t \in SUBSET S : t \in Good
  <2> HIDE DEF Good
  <2> QED
    BY <1>1, SubsetInduction
<1>3. S \in Good /\ S \cap R = R
  BY <1>2
<1> QED
  BY <1>3

PartOf(part, T, p) == {x \in T : part[x] = p}

(* What is counted part by part is counted once.                           *)
THEOREM SumOfParts ==
  ASSUME NEW T, IsFiniteSet(T), NEW S, IsFiniteSet(S), NEW part, NEW w,
         \A x \in T : part[x] \in S,
         \A p \in S : w[p] = Cardinality(PartOf(part, T, p))
  PROVE  SumOf(w, S) = Cardinality(T)
<1> DEFINE In(s) == {x \in T : part[x] \in s}
           Good == {s \in SUBSET S : SumOf(w, s) = Cardinality(In(s))}
<1>1. ASSUME NEW s \in SUBSET S, \A x \in s : s \ {x} \in Good PROVE s \in Good
  <2>1. CASE s = {}
    <3>1. In(s) = {}
      BY <2>1
    <3> QED
      BY <2>1, <3>1, SumOfNone, FS_EmptySet
  <2>2. CASE s # {}
    <3> DEFINE p == Some(s)
               own == PartOf(part, T, p)
               others == In(s \ {p})
    <3>1. p \in s /\ w[p] = Cardinality(own) /\ IsFiniteSet(s)
      BY <2>2, SomeElement, FS_Subset
    <3>2. SumOf(w, s) = w[p] + SumOf(w, s \ {p})
      BY <2>2, <3>1, SumOfSome
    <3>3. SumOf(w, s \ {p}) = Cardinality(others)
      BY <1>1, <3>1
    <3>4. IsFiniteSet(own) /\ IsFiniteSet(others)
      BY FS_Subset DEF PartOf
    <3>5. In(s) = own \cup others /\ own \cap others = {}
      BY <3>1 DEF PartOf
    <3> HIDE DEF p, own, others
    <3>6. Cardinality(own \cup others)
            = Cardinality(own) + Cardinality(others) - Cardinality(own \cap others)
      BY <3>4, FS_Union
    <3>7. Cardinality(own) \in Nat /\ Cardinality(others) \in Nat
      BY <3>4, FS_CardinalityType
    <3>8. Cardinality(own \cap others) = 0
      BY <3>5, FS_EmptySet
    <3>9. Cardinality(own \cup others) = Cardinality(own) + Cardinality(others)
      BY <3>6, <3>7, <3>8
    <3>10. SumOf(w, s) = Cardinality(own \cup others)
      BY <3>1, <3>2, <3>3, <3>9
    <3> QED
      BY <3>5, <3>10
  <2> QED
    BY <2>1, <2>2
<1>2. \A s \in SUBSET S : s \in Good
  <2> HIDE DEF Good
  <2> QED
    BY <1>1, SubsetInduction
<1>3. S \in Good /\ In(S) = T
  BY <1>2
<1> QED
  BY <1>3
=============================================================================
