----------------------------- MODULE LinkList ------------------------------
(***************************************************************************)
(* The linked lists of game/include/adt/linklist.h: elements come from a   *)
(* static pool whose unused ones form a list of their own through the same *)
(* _next.  A pool is a record of the links and of the free list's head;    *)
(* the operations map a pool to a pool.                                    *)
(***************************************************************************)
EXTENDS Integers, Chain

CONSTANT SIZE  \* the pool has SIZE + 1 elements; the last is never given out

ASSUME LinkListAssumption == SIZE \in Nat \ {0} /\ NULL \notin Nat

Node == 0 .. SIZE
Link == Node \cup {NULL}

Pool == [prev : [Node -> Link], next : [Node -> Link], free : Link]

\* Static storage.
EmptyPool == [prev |-> [n \in Node |-> NULL], next |-> [n \in Node |-> NULL], free |-> NULL]

\* The first fly_new strings the whole pool together.
Strung(pool) ==
    IF pool.free = NULL
    THEN [pool EXCEPT !.next = [n \in Node |-> IF n < SIZE THEN n + 1 ELSE pool.next[n]],
                      !.free = 0]
    ELSE pool

\* The assertion in fly_new fails.
Exhausted(pool) == Strung(pool).next[Strung(pool).free] = NULL

\* What fly_new returns, and the pool after it.
New(pool) == Strung(pool).free

AfterNew(pool) ==
    [Strung(pool) EXCEPT !.free = Strung(pool).next[New(pool)],
                         !.next[New(pool)] = NULL, !.prev[New(pool)] = NULL]

\* fly_insert(NULL, next, obj).
InsertedBefore(pool, next, obj) ==
    [pool EXCEPT !.prev = [pool.prev EXCEPT ![obj] = NULL, ![next] = obj],
                 !.next[obj] = next]

\* Variant for the mutation check: the element after the removed one keeps its _prev.
KeepsBackLink(pool, node) ==
    LET prev == pool.prev[node]  next == pool.next[node]
    IN  [pool EXCEPT !.next = [n \in Node |-> IF n = prev THEN next ELSE @[n]]]

Removed(pool, node) ==
    LET prev == pool.prev[node]  next == pool.next[node]
    IN  [pool EXCEPT !.next = [n \in Node |-> IF n = prev THEN next ELSE @[n]],
                     !.prev = [n \in Node |-> IF n = next THEN prev ELSE @[n]]]

\* Variant: the element is not returned to the pool.
Leaked(pool, node) == pool

Freed(pool, node) == [pool EXCEPT !.next[node] = pool.free, !.free = node]
=============================================================================
