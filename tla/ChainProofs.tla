----------------------------- MODULE ChainProofs ----------------------------
(***************************************************************************)
(* What the operations on linked lists do to the elements of a list, for   *)
(* any pool.  There is no induction over a list: the elements are the      *)
(* least set that contains a walk, so that a set is shown to be all of     *)
(* them by showing that it contains the walk.                              *)
(***************************************************************************)
EXTENDS Integers, Chain, TLAPS, WellFoundedInduction

\* The elements of a list are those a walk from its head comes through.
LEMMA ListIsReached ==
    ASSUME NEW next, NEW first, NEW S, IsList(next, first, S)
    PROVE  Reached(next, first) = S /\ Ends(next, first)
<1>1. ASSUME NEW T \in SUBSET DOMAIN next, Contains(next, first, T)
      PROVE  S \subseteq T
  <2>1. Contains(next, first, S \cap T)
    BY <1>1 DEF IsList, Contains
  <2>2. S \cap T = S
    BY <2>1 DEF IsList
  <2>3. QED
    BY <2>2
<1>2. S \subseteq DOMAIN next /\ Contains(next, first, S)
  BY DEF IsList
<1>3. Reached(next, first) = S
  BY <1>1, <1>2 DEF Reached
<1>4. Ends(next, first)
  BY <1>3 DEF IsList, Contains, Ends
<1>5. QED
  BY <1>3, <1>4

\* Nothing is on the empty list.
LEMMA EmptyList ==
    ASSUME NEW next
    PROVE  IsList(next, NULL, {})
BY DEF IsList, Contains

\* Only a list without elements is empty.
LEMMA EmptyOnly ==
    ASSUME NEW next, NEW first, NEW S, IsList(next, first, S), NULL \notin S
    PROVE  first = NULL <=> S = {}
<1>1. ASSUME first = NULL PROVE S = {}
  <2>1. Contains(next, first, {})
    BY <1>1 DEF Contains
  <2>2. QED
    BY <2>1 DEF IsList
<1>2. ASSUME S = {} PROVE first = NULL
  BY <1>2 DEF IsList, Contains
<1>3. QED
  BY <1>1, <1>2

\* Links elsewhere do not matter.
LEMMA SameList ==
    ASSUME NEW N, NEW next \in [N -> N \cup {NULL}], NEW changed \in [N -> N \cup {NULL}],
           NEW first, NEW S \in SUBSET N, IsList(next, first, S),
           \A p \in S : changed[p] = next[p]
    PROVE  IsList(changed, first, S)
<1>1. \A T \in SUBSET S : Contains(changed, first, T) <=> Contains(next, first, T)
  BY DEF Contains
<1>2. QED
  BY <1>1 DEF IsList

\* An element put before the head.
LEMMA PushedList ==
    ASSUME NEW N, NEW next \in [N -> N \cup {NULL}], NEW changed \in [N -> N \cup {NULL}],
           NULL \notin N,
           NEW first, NEW S \in SUBSET N, IsList(next, first, S),
           NEW new \in N, new \notin S,
           changed[new] = first, \A p \in S : changed[p] = next[p]
    PROVE  IsList(changed, new, S \cup {new})
<1> DEFINE U == S \cup {new}
<1>1. Contains(changed, new, U)
  BY DEF IsList, Contains
<1>2. ASSUME NEW T \in SUBSET U, Contains(changed, new, T)
      PROVE  T = U
  <2>1. new \in T
    BY <1>2 DEF Contains
  <2>2. Contains(next, first, T \ {new})
    BY <1>2, <2>1 DEF Contains, IsList
  <2>3. T \ {new} = S
    BY <2>2, <1>2 DEF IsList
  <2>4. QED
    BY <2>1, <2>3
<1>3. \A p \in U : changed[p] # new
  BY DEF IsList, Contains
<1>4. \A p, q \in U : changed[p] = changed[q] => p = q
  BY DEF IsList
<1>5. \E p \in U : changed[p] = NULL
  BY DEF IsList, Contains
<1>6. QED
  BY <1>1, <1>2, <1>3, <1>4, <1>5 DEF IsList

\* An element other than the head has one before it.
LEMMA Predecessor ==
    ASSUME NEW N, NEW next \in [N -> N \cup {NULL}], NULL \notin N,
           NEW first, NEW S \in SUBSET N, IsList(next, first, S),
           NEW p \in S, p # first
    PROVE  \E q \in S : q # p /\ next[q] = p
<1>1. SUFFICES ASSUME \A q \in S : q # p => next[q] # p
               PROVE  FALSE
  OBVIOUS
<1>2. Contains(next, first, S \ {p})
  BY <1>1 DEF IsList, Contains
<1>3. S \ {p} = S
  BY <1>2 DEF IsList
<1>4. QED
  BY <1>3

\* No element links to itself.
LEMMA NoLoop ==
    ASSUME NEW N, NEW next \in [N -> N \cup {NULL}], NULL \notin N,
           NEW first, NEW S \in SUBSET N, IsList(next, first, S), NEW p \in S
    PROVE  next[p] # p
<1>1. CASE p = first
  BY <1>1 DEF IsList
<1>2. CASE p # first
  <2>1. PICK q \in S : q # p /\ next[q] = p
    BY <1>2, Predecessor
  <2>2. QED
    BY <2>1 DEF IsList
<1>3. QED
  BY <1>1, <1>2

\* The head taken off.
LEMMA PoppedList ==
    ASSUME NEW N, NEW next \in [N -> N \cup {NULL}], NEW changed \in [N -> N \cup {NULL}],
           NULL \notin N, NEW S \in SUBSET N, NEW first \in S, IsList(next, first, S),
           \A p \in S \ {first} : changed[p] = next[p]
    PROVE  IsList(changed, next[first], S \ {first})
<1> DEFINE U == S \ {first}
<1>1. next[first] # first
  BY DEF IsList
<1>2. Contains(changed, next[first], U)
  BY <1>1 DEF IsList, Contains
<1>3. ASSUME NEW T \in SUBSET U, Contains(changed, next[first], T)
      PROVE  T = U
  <2>1. Contains(next, first, T \cup {first})
    BY <1>3 DEF Contains
  <2>2. T \cup {first} = S
    BY <2>1 DEF IsList
  <2>3. QED
    BY <2>2
<1>4. \A p \in U : changed[p] # next[first]
  BY DEF IsList
<1>5. \A p, q \in U : changed[p] = changed[q] => p = q
  BY DEF IsList
<1>6. U # {} => \E p \in U : changed[p] = NULL
  <2>1. SUFFICES ASSUME U # {} PROVE next[first] # NULL
    BY DEF IsList
  <2>2. ASSUME next[first] = NULL PROVE FALSE
    <3>1. Contains(next, first, {first})
      BY <2>2 DEF Contains
    <3>2. {first} = S
      BY <3>1 DEF IsList
    <3>3. QED
      BY <3>2, <2>1
  <2>3. QED
    BY <2>2
<1>7. QED
  BY <1>2, <1>3, <1>4, <1>5, <1>6 DEF IsList

\* An element behind another unlinked.
LEMMA UnlinkedList ==
    ASSUME NEW N, NEW next \in [N -> N \cup {NULL}], NEW changed \in [N -> N \cup {NULL}],
           NULL \notin N, NEW first, NEW S \in SUBSET N, IsList(next, first, S),
           NEW p \in S, NEW prev \in S, next[prev] = p, changed[prev] = next[p],
           \A q \in S \ {p, prev} : changed[q] = next[q]
    PROVE  IsList(changed, first, S \ {p})
<1> DEFINE U == S \ {p}
<1>1. next[p] # p /\ prev # p /\ p # first /\ first \in U
  BY NoLoop DEF IsList, Contains
<1>2. \A q \in U : next[q] = p <=> q = prev
  BY DEF IsList
<1>3. Contains(changed, first, U)
  BY <1>1, <1>2 DEF IsList, Contains
<1>4. ASSUME NEW T \in SUBSET U, Contains(changed, first, T)
      PROVE  T = U
  <2>1. CASE prev \in T
    <3>1. Contains(next, first, T \cup {p})
      BY <1>1, <1>2, <1>4, <2>1 DEF Contains
    <3>2. QED
      BY <3>1, <1>4 DEF IsList
  <2>2. CASE prev \notin T
    <3>1. Contains(next, first, T)
      BY <1>1, <1>2, <1>4, <2>2 DEF Contains
    <3>2. T = S
      BY <3>1, <1>4 DEF IsList
    <3>3. QED
      BY <3>2, <2>2
  <2>3. QED
    BY <2>1, <2>2
<1>5. \A q \in U : changed[q] # first
  BY <1>1 DEF IsList
<1>6. \A q, r \in U : changed[q] = changed[r] => q = r
  BY <1>1 DEF IsList
<1>7. \E q \in U : changed[q] = NULL
  <2>1. PICK z \in S : next[z] = NULL
    BY DEF IsList
  <2>2. CASE z = p
    BY <2>1, <2>2, <1>1
  <2>3. CASE z # p
    BY <2>1, <2>3, <1>1
  <2>4. QED
    BY <2>2, <2>3
<1>8. QED
  BY <1>3, <1>4, <1>5, <1>6, <1>7 DEF IsList

\* A list put whole before another.
LEMMA SplicedList ==
    ASSUME NEW N, NEW next \in [N -> N \cup {NULL}], NEW changed \in [N -> N \cup {NULL}],
           NULL \notin N, NEW first, NEW second,
           NEW S \in SUBSET N, NEW R \in SUBSET N, S # {}, S \cap R = {},
           IsList(next, first, S), IsList(next, second, R),
           \A q \in S : changed[q] = IF next[q] = NULL THEN second ELSE next[q],
           \A q \in R : changed[q] = next[q]
    PROVE  IsList(changed, first, S \cup R)
<1> DEFINE U == S \cup R
<1>1. first \in S /\ second \in R \cup {NULL}
  <2>1. first # NULL
    BY EmptyOnly
  <2>2. QED
    BY <2>1 DEF IsList, Contains
<1>2. PICK last \in S : next[last] = NULL
  BY DEF IsList
<1>3. \A q \in S : next[q] = NULL => q = last
  BY <1>2 DEF IsList
<1>4. Contains(changed, first, U)
  BY <1>1 DEF IsList, Contains
<1>5. ASSUME NEW T \in SUBSET U, Contains(changed, first, T)
      PROVE  T = U
  <2>1. Contains(next, first, T \cap S)
    BY <1>1, <1>5 DEF IsList, Contains
  <2>2. T \cap S = S
    BY <2>1 DEF IsList
  <2>3. second \in T \cup {NULL}
    BY <1>2, <1>5, <2>2 DEF Contains
  <2>4. Contains(next, second, T \cap R)
    BY <1>1, <1>5, <2>3 DEF IsList, Contains
  <2>5. T \cap R = R
    BY <2>4 DEF IsList
  <2>6. QED
    BY <2>2, <2>5
<1>6. \A q \in U : changed[q] # first
  BY <1>1 DEF IsList, Contains
<1>7. \A q, r \in U : changed[q] = changed[r] => q = r
  <2>1. \A q, r \in S : changed[q] = changed[r] => q = r
    BY <1>1, <1>3 DEF IsList, Contains
  <2>2. \A q \in S, r \in R : changed[q] # changed[r]
    BY <1>1, <1>3 DEF IsList, Contains
  <2>3. \A q, r \in R : changed[q] = changed[r] => q = r
    BY DEF IsList
  <2>4. QED
    BY <2>1, <2>2, <2>3
<1>8. \E q \in U : changed[q] = NULL
  BY <1>1, <1>2, EmptyOnly DEF IsList
<1>9. QED
  BY <1>4, <1>5, <1>6, <1>7, <1>8 DEF IsList

-----------------------------------------------------------------------------
\* A set of natural numbers has a least one.
LEMMA LeastOf ==
    ASSUME NEW S \in SUBSET Nat, S # {}
    PROVE  \E i \in S : \A j \in S : i <= j
<1>1. PICK i \in S : \A j \in S : <<j, i>> \notin OpToRel(<, Nat)
  BY NatLessThanWellFounded, WFMin
<1>2. ASSUME NEW j \in S PROVE ~(j < i)
  BY <1>1, Zenon DEF OpToRel
<1>3. QED
  BY <1>2

\* A pool strung together in the order of its elements, as both pools of the
\* code are set up, is one list.
LEMMA NumberedList ==
    ASSUME NEW last \in Nat, NEW next \in [0 .. last -> (0 .. last) \cup {NULL}],
           NULL \notin 0 .. last,
           next[last] = NULL, \A i \in 0 .. last : i < last => next[i] = i + 1
    PROVE  IsList(next, 0, 0 .. last)
<1> DEFINE N == 0 .. last
<1>1. ASSUME NEW T \in SUBSET N, Contains(next, 0, T) PROVE T = N
  <2>1. SUFFICES ASSUME N \ T # {} PROVE FALSE
    OBVIOUS
  <2>2. PICK i \in N \ T : \A j \in N \ T : i <= j
    <3>1. N \ T \in SUBSET Nat
      OBVIOUS
    <3>2. QED
      BY <2>1, <3>1, LeastOf
  <2>3. i # 0
    BY <1>1 DEF Contains
  <2>4. i - 1 \in N /\ i - 1 < i /\ i - 1 < last /\ (i - 1) + 1 = i
    BY <2>3
  <2>5. i - 1 \in T
    BY <2>2, <2>4
  <2>6. next[i - 1] = i
    BY <2>4
  <2>7. QED
    BY <1>1, <2>2, <2>5, <2>6 DEF Contains
<1>2. 0 \in N /\ last \in N
  OBVIOUS
<1>3. N \subseteq DOMAIN next /\ Contains(next, 0, N)
  BY <1>2 DEF Contains
<1>4. \A p \in N : next[p] # 0
  BY <1>2
<1>5. \A p, q \in N : next[p] = next[q] => p = q
  OBVIOUS
<1>6. QED
  BY <1>1, <1>2, <1>3, <1>4, <1>5 DEF IsList

-----------------------------------------------------------------------------
\* Behind an element is what is reached from the next one.
LEMMA ReachedFromNext ==
    ASSUME NEW N, NEW next \in [N -> N \cup {NULL}], NULL \notin N, NEW p \in N
    PROVE  Reached(next, p) \subseteq {p} \cup Reached(next, next[p])
<1>1. ASSUME NEW q \in Reached(next, p), q # p,
             NEW T \in SUBSET N, Contains(next, next[p], T)
      PROVE  q \in T
  <2>1. Contains(next, p, T \cup {p})
    BY <1>1 DEF Contains
  <2>2. q \in T \cup {p}
    BY <2>1, <1>1 DEF Reached
  <2>3. QED
    BY <2>2, <1>1
<1>2. QED
  BY <1>1 DEF Reached

\* Of some elements of a list one is the first.
LEMMA FirstIsOne ==
    ASSUME NEW N, NEW next \in [N -> N \cup {NULL}], NULL \notin N,
           NEW first, NEW S \in SUBSET N, IsList(next, first, S),
           NEW H \in SUBSET S
    PROVE  /\ H = {} => FirstOf(next, H) = NULL
           /\ H # {} => FirstOf(next, H) \in H
<1>1. SUFFICES ASSUME H # {} PROVE \E p \in H : H \subseteq Reached(next, p)
  BY DEF FirstOf
<1>2. SUFFICES ASSUME \A p \in H : ~(H \subseteq Reached(next, p)) PROVE FALSE
  OBVIOUS
<1> DEFINE T == {p \in S : H \subseteq Reached(next, p)}
<1>3. first \in S
  BY <1>1, EmptyOnly DEF IsList, Contains
<1>4. first \in T
  BY <1>3, ListIsReached
<1>5. ASSUME NEW p \in T PROVE next[p] \in T \cup {NULL}
  <2>1. p \notin H
    BY <1>2
  <2>2. H \subseteq Reached(next, next[p])
    BY <2>1, ReachedFromNext
  <2>3. next[p] \in S \cup {NULL}
    BY DEF IsList, Contains
  <2>4. QED
    BY <2>2, <2>3
<1>6. Contains(next, first, T)
  BY <1>4, <1>5 DEF Contains
<1>7. T = S
  BY <1>6 DEF IsList
<1>8. QED
  BY <1>1, <1>2, <1>7
=============================================================================
