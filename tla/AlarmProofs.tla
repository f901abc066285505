---------------------------- MODULE AlarmProofs -----------------------------
(***************************************************************************)
(* Theorems about Alarm, for any clients, memory and delays.  The list is  *)
(* handled as the set of nodes that are reached from its head, and the     *)
(* times of the nodes, which grow from each to its next, take the place of *)
(* an induction along the list.                                            *)
(***************************************************************************)
EXTENDS Alarm, FiniteSetTheorems, WellFoundedInduction, TLAPS

(* Of some nodes one is the earliest.                                      *)
LEMMA Earliest ==
  ASSUME NEW X \in SUBSET Chunks, X # {}, NEW tm \in [Chunks -> Nat]
  PROVE  \E x \in X : \A y \in X : tm[x] <= tm[y]
<1> DEFINE T == {tm[x] : x \in X}
<1>1. T \subseteq Nat /\ T # {}
  OBVIOUS
<1>2. PICK s \in T : \A t \in T : ~(<<t, s>> \in OpToRel(<, Nat))
  BY <1>1, NatLessThanWellFounded, WFMin
<1>3. \A t \in T : ~(t < s)
  BY <1>1, <1>2 DEF OpToRel
<1>4. PICK x \in X : tm[x] = s
  OBVIOUS
<1>5. \A y \in X : tm[y] \in Nat /\ ~(tm[y] < s)
  BY <1>3
<1> QED
  BY <1>4, <1>5

(* What is reached from a chunk leads nowhere else.                        *)
LEMMA ReachedClosed ==
  ASSUME NEW first \in Chunks \cup {NULL}, NEW nxt \in [Chunks -> Chunks \cup {NULL}]
  PROVE  /\ first \in Reached(first, nxt) \cup {NULL}
         /\ \A k \in Reached(first, nxt) : nxt[k] \in Reached(first, nxt) \cup {NULL}
<1>1. first \in Reached(first, nxt) \cup {NULL}
  BY DEF Reached
<1>2. ASSUME NEW k \in Reached(first, nxt), nxt[k] # NULL PROVE nxt[k] \in Reached(first, nxt)
  <2>1. k \in Chunks /\ nxt[k] \in Chunks
    BY <1>2 DEF Reached
  <2>2. ASSUME NEW S \in SUBSET Chunks, first \in S \cup {NULL},
               \A j \in S : nxt[j] \in S \cup {NULL}
        PROVE  nxt[k] \in S
    BY <1>2, <2>2 DEF Reached
  <2> QED
    BY <2>1, <2>2 DEF Reached
<1> QED
  BY <1>1, <1>2

(* And it is the least such set.                                           *)
LEMMA ReachedLeast ==
  ASSUME NEW first, NEW nxt, NEW S \in SUBSET Chunks, first \in S \cup {NULL},
         \A k \in S : nxt[k] \in S \cup {NULL}
  PROVE  Reached(first, nxt) \subseteq S
BY DEF Reached

(* Every node but the first is the next of another one.                    *)
LEMMA Predecessor ==
  ASSUME NEW first \in Chunks \cup {NULL}, NEW nxt \in [Chunks -> Chunks \cup {NULL}],
         NEW x \in Reached(first, nxt), x # first
  PROVE  \E p \in Reached(first, nxt) : nxt[p] = x
<1> DEFINE R == Reached(first, nxt)
           S == {y \in R : y = first \/ \E p \in R : nxt[p] = y}
<1>1. first \in R \cup {NULL} /\ \A k \in R : nxt[k] \in R \cup {NULL}
  BY ReachedClosed
<1>2. R \subseteq Chunks
  BY DEF Reached
<1> HIDE DEF R
<1>3. S \in SUBSET Chunks /\ first \in S \cup {NULL} /\ \A k \in S : nxt[k] \in S \cup {NULL}
  BY <1>1, <1>2
<1>4. R \subseteq S
  BY <1>3, ReachedLeast DEF R
<1> QED
  BY <1>4 DEF R

(* The nodes from first on are X, when X leads nowhere else and each of it *)
(* but the first has an earlier one before it.                             *)
LEMMA ReachedIs ==
  ASSUME NEW nxt, NEW X \in SUBSET Chunks, NEW first \in X \cup {NULL},
         NEW tm \in [Chunks -> Nat],
         \A x \in X : nxt[x] \in X \cup {NULL},
         \A x \in X \ {first} : \E p \in X : nxt[p] = x /\ tm[p] < tm[x]
  PROVE  Reached(first, nxt) = X
<1>1. Reached(first, nxt) \subseteq X
  BY ReachedLeast
<1>2. ASSUME NEW S \in SUBSET Chunks, first \in S \cup {NULL},
             \A k \in S : nxt[k] \in S \cup {NULL}
      PROVE  X \subseteq S
  <2>1. SUFFICES ASSUME X \ S # {} PROVE FALSE
    OBVIOUS
  <2>2. PICK x \in X \ S : \A y \in X \ S : tm[x] <= tm[y]
    BY <2>1, Earliest
  <2>3. x \in Chunks /\ x # NULL
    BY AlarmAssumption
  <2>4. x # first
    BY <1>2, <2>3
  <2>5. PICK p \in X : nxt[p] = x /\ tm[p] < tm[x]
    BY <2>4
  <2>6. p \in S
    <3>1. tm[p] \in Nat /\ tm[x] \in Nat
      OBVIOUS
    <3> QED
      BY <2>2, <2>5, <3>1
  <2>7. x \in S \cup {NULL}
    BY <1>2, <2>5, <2>6
  <2> QED
    BY <2>3, <2>7
<1>3. \A x \in X : x \in Reached(first, nxt)
  BY <1>2 DEF Reached
<1> QED
  BY <1>1, <1>3

(* Where times grow, all that is reached from a node is later than it.     *)
LEMMA ReachedLater ==
  ASSUME NEW nxt \in [Chunks -> Chunks \cup {NULL}], NEW tm \in [Chunks -> Nat],
         NEW L \in SUBSET Chunks,
         \A k \in L : nxt[k] # NULL => nxt[k] \in L /\ tm[k] < tm[nxt[k]],
         NEW a \in L
  PROVE  /\ Reached(a, nxt) \subseteq L
         /\ \A b \in Reached(a, nxt) : b = a \/ tm[a] < tm[b]
<1> DEFINE S == {b \in L : b = a \/ tm[a] < tm[b]}
<1>1. ASSUME NEW k \in S PROVE nxt[k] \in S \cup {NULL}
  <2>1. k \in L /\ (k = a \/ tm[a] < tm[k])
    OBVIOUS
  <2>2. CASE nxt[k] # NULL
    <3>1. nxt[k] \in L /\ tm[k] < tm[nxt[k]]
      BY <2>1, <2>2
    <3>2. tm[a] \in Nat /\ tm[k] \in Nat /\ tm[nxt[k]] \in Nat
      BY <2>1, <3>1
    <3>3. tm[a] < tm[nxt[k]]
      BY <2>1, <3>1, <3>2
    <3> QED
      BY <3>1, <3>3
  <2> QED
    BY <2>2
<1>2. S \in SUBSET Chunks /\ a \in S
  OBVIOUS
<1> HIDE DEF S
<1>3. Reached(a, nxt) \subseteq S
  BY <1>1, <1>2, ReachedLeast
<1> QED
  BY <1>3 DEF S

(* What is reached from a node is the node and what is reached from its    *)
(* next.                                                                   *)
LEMMA ReachedStep ==
  ASSUME NEW nxt \in [Chunks -> Chunks \cup {NULL}], NEW a \in Chunks, NEW b \in Reached(a, nxt),
         b # a
  PROVE  nxt[a] # NULL /\ b \in Reached(nxt[a], nxt)
<1> DEFINE R == Reached(nxt[a], nxt)
           S == {a} \cup R
<1>1. nxt[a] \in Chunks \cup {NULL}
  OBVIOUS
<1>2. nxt[a] \in R \cup {NULL} /\ \A k \in R : nxt[k] \in R \cup {NULL}
  BY <1>1, ReachedClosed
<1>3. R \subseteq Chunks
  BY DEF Reached
<1>4. nxt[a] = NULL => R = {}
  <2> DEFINE E == {}
  <2>1. E \in SUBSET Chunks /\ NULL \in E \cup {NULL} /\ \A k \in E : nxt[k] \in E \cup {NULL}
    OBVIOUS
  <2> HIDE DEF E
  <2>2. Reached(NULL, nxt) \subseteq E
    BY <2>1, ReachedLeast
  <2> QED
    BY <2>2 DEF E
<1> HIDE DEF R
<1>5. S \in SUBSET Chunks /\ a \in S \cup {NULL} /\ \A k \in S : nxt[k] \in S \cup {NULL}
  BY <1>2, <1>3
<1>6. Reached(a, nxt) \subseteq S
  BY <1>5, ReachedLeast
<1>7. b \in R
  BY <1>6
<1> QED
  BY <1>4, <1>7 DEF R

(* Of two nodes of a list the later one is reached from the earlier one.   *)
LEMMA LaterReached ==
  ASSUME NEW first \in Chunks, NEW nxt \in [Chunks -> Chunks \cup {NULL}],
         NEW tm \in [Chunks -> Nat],
         \A k \in Reached(first, nxt) : nxt[k] # NULL => tm[k] < tm[nxt[k]],
         NEW a \in Reached(first, nxt), NEW b \in Reached(first, nxt)
  PROVE  a = b \/ (tm[a] < tm[b] /\ b \in Reached(a, nxt)) \/ tm[b] < tm[a]
<1> DEFINE R == Reached(first, nxt)
           S == {k \in R : k = b \/ (tm[k] < tm[b] /\ b \in Reached(k, nxt)) \/ tm[b] < tm[k]}
<1>1. first \in R /\ \A k \in R : nxt[k] \in R \cup {NULL}
  BY ReachedClosed, AlarmAssumption
<1>2. R \in SUBSET Chunks
  BY DEF Reached
<1>3. \A k \in R : nxt[k] # NULL => nxt[k] \in R /\ tm[k] < tm[nxt[k]]
  BY <1>1
<1>4. b \in R /\ a \in R
  OBVIOUS
<1>5. ASSUME NEW k \in R PROVE \A y \in Reached(k, nxt) : y = k \/ tm[k] < tm[y]
  <2> HIDE DEF R
  <2> QED
    BY <1>2, <1>3, <1>5, ReachedLater
<1>6. b \in Reached(first, nxt)
  BY <1>4
<1> HIDE DEF R
<1>7. first \in S
  BY <1>1, <1>5, <1>6
<1>8. ASSUME NEW k \in S, nxt[k] # NULL PROVE nxt[k] \in S
  <2>1. k \in R /\ nxt[k] \in R /\ tm[k] < tm[nxt[k]]
    BY <1>3, <1>8
  <2>2. tm[k] \in Nat /\ tm[b] \in Nat /\ tm[nxt[k]] \in Nat
    BY <1>2, <1>4, <2>1
  <2>3. CASE k = b \/ tm[b] < tm[k]
    <3>1. tm[b] < tm[nxt[k]]
      BY <2>1, <2>2, <2>3
    <3> QED
      BY <2>1, <3>1
  <2>4. CASE k # b /\ b \in Reached(k, nxt)
    <3>1. b \in Reached(nxt[k], nxt)
      BY <1>2, <2>1, <2>4, ReachedStep
    <3>2. b = nxt[k] \/ tm[nxt[k]] < tm[b]
      BY <1>5, <2>1, <3>1
    <3> QED
      BY <2>1, <3>1, <3>2
  <2> QED
    BY <1>8, <2>3, <2>4
<1>9. S \in SUBSET Chunks
  BY <1>2
<1> HIDE DEF S
<1>10. R \subseteq S
  BY <1>7, <1>8, <1>9, ReachedLeast DEF R
<1> QED
  BY <1>4, <1>10 DEF S

-----------------------------------------------------------------------------
(* The list of nodes, while it can be followed: in allocated memory, linked *)
(* both ways, with growing times; free memory has no next; and each node is *)
(* that of the alarm its client holds.                                      *)
Linking(first, nxt, prv, tm, L) ==
  /\ first # NULL => prv[first] = NULL
  /\ \A m \in L : nxt[m] # NULL => prv[nxt[m]] = m /\ tm[m] < tm[nxt[m]]

LinksInv ==
  /\ Linked \subseteq allocated
  /\ Linking(head, next, prev, time, Linked)
  /\ \A n \in Chunks \ allocated : next[n] = NULL

AlarmsInv ==
  \A m \in Linked : arg[m] \in Clients /\ state[arg[m]] = "armed" /\ handle[arg[m]] = m

ListInv == LinksInv /\ AlarmsInv /\ length >= Cardinality(Linked)

IInv == TypeOK /\ (~wild => ListInv)

(* The list is empty at first.                                             *)
LEMMA InitIInv == Init => IInv
<1> SUFFICES ASSUME Init PROVE IInv
  OBVIOUS
<1>1. TypeOK
  <2>1. /\ currentTime \in 0 .. MaxTime /\ length \in Nat
        /\ head \in Chunks \cup {NULL} /\ allocated \subseteq Chunks
        /\ time \in [Chunks -> Nat]
        /\ next \in [Chunks -> Chunks \cup {NULL}] /\ prev \in [Chunks -> Chunks \cup {NULL}]
        /\ arg \in [Chunks -> Clients \cup {NULL}]
    BY AlarmAssumption DEF Init
  <2>2. /\ state \in [Clients -> {"idle", "armed", "fired"}]
        /\ handle \in [Clients -> Chunks \cup {NULL}] /\ askedFor \in [Clients -> Nat]
    BY DEF Init
  <2>3. wild \in BOOLEAN
    BY DEF Init
  <2> QED
    BY <2>1, <2>2, <2>3 DEF TypeOK
<1>2. head \in {} \cup {NULL} /\ next \in [Chunks -> Chunks \cup {NULL}]
      /\ time \in [Chunks -> Nat] /\ head = NULL
  BY DEF Init
<1>3. Linked = {}
  <2> DEFINE E == {}
  <2>1. E \in SUBSET Chunks /\ head \in E \cup {NULL} /\ \A k \in E : next[k] \in E \cup {NULL}
    BY <1>2
  <2> HIDE DEF E
  <2>2. Reached(head, next) \subseteq E
    BY <2>1, ReachedLeast
  <2> QED
    BY <2>2 DEF E, Linked
<1>4. ListInv
  BY <1>3, FS_EmptySet DEF Init, ListInv, LinksInv, AlarmsInv, Linking
<1> QED
  BY <1>1, <1>4 DEF IInv

(* The nodes are finitely many chunks, closed under next.                  *)
LEMMA LinkedClosed ==
  ASSUME TypeOK
  PROVE  /\ Linked \in SUBSET Chunks /\ head \in Linked \cup {NULL}
         /\ \A k \in Linked : next[k] \in Linked \cup {NULL}
         /\ \A x \in Linked : x # head => \E p \in Linked : next[p] = x
         /\ IsFiniteSet(Linked) /\ Cardinality(Linked) \in Nat
<1>1. head \in Chunks \cup {NULL} /\ next \in [Chunks -> Chunks \cup {NULL}]
  BY DEF TypeOK
<1>2. Linked \in SUBSET Chunks
  BY DEF Linked, Reached
<1>3. IsFiniteSet(Linked) /\ Cardinality(Linked) \in Nat
  BY <1>2, AlarmAssumption, FS_Subset, FS_CardinalityType
<1>4. head \in Linked \cup {NULL} /\ \A k \in Linked : next[k] \in Linked \cup {NULL}
  BY <1>1, ReachedClosed DEF Linked
<1>5. \A x \in Linked : x # head => \E p \in Linked : next[p] = x
  BY <1>1, Predecessor DEF Linked
<1> QED
  BY <1>2, <1>3, <1>4, <1>5

(* The predecessor of a node is the one its prev names, and is earlier.    *)
LEMMA PrevIsBefore ==
  ASSUME TypeOK, LinksInv, NEW x \in Linked
  PROVE  /\ x = head <=> prev[x] = NULL
         /\ x # head => prev[x] \in Linked /\ next[prev[x]] = x /\ time[prev[x]] < time[x]
<1>1. x \in Chunks /\ x # NULL
  BY LinkedClosed, AlarmAssumption
<1>2. x = head => prev[x] = NULL
  BY <1>1 DEF LinksInv, Linking
<1>3. ASSUME x # head PROVE prev[x] \in Linked /\ next[prev[x]] = x /\ time[prev[x]] < time[x]
  <2>1. PICK p \in Linked : next[p] = x
    BY <1>3, LinkedClosed
  <2>2. prev[x] = p /\ time[p] < time[x]
    BY <1>1, <2>1 DEF LinksInv, Linking
  <2> QED
    BY <2>1, <2>2
<1>4. \A p \in Linked : p # NULL
  BY LinkedClosed, AlarmAssumption
<1> QED
  BY <1>2, <1>3, <1>4

(* No node is its own next, or the next of two.                            *)
LEMMA NextOnce ==
  ASSUME TypeOK, LinksInv, NEW k \in Linked, NEW j \in Linked, next[k] # NULL
  PROVE  next[k] # k /\ (next[j] = next[k] => j = k)
<1>1. time[k] \in Nat
  BY LinkedClosed DEF TypeOK
<1>2. next[k] # k
  BY <1>1 DEF LinksInv, Linking
<1> QED
  BY <1>2 DEF LinksInv, Linking

-----------------------------------------------------------------------------
(* insert.  What each way of inserting does to the links, with the time of *)
(* the new node in place.                                                  *)
Inserted(n) ==
  /\ Linked' = Linked \cup {n}
  /\ Linking(head', next', prev', time', Linked')
  /\ length' >= Cardinality(Linked) + 1
  /\ \A k \in Chunks \ (allocated \cup {n}) : next'[k] = NULL

NewNode(n, d) ==
  /\ n \in Chunks \ allocated /\ d \in Nat
  /\ time' = [time EXCEPT ![n] = d]
  /\ n \notin Linked /\ n # NULL /\ next[n] = NULL

LEMMA FirstInserted ==
  ASSUME TypeOK, ListInv, NEW n, NEW d, NewNode(n, d), InsertFirst(n)
  PROVE  Inserted(n)
<1>1. /\ head' = n /\ length' = 1
      /\ next' = [next EXCEPT ![n] = NULL] /\ prev' = [prev EXCEPT ![n] = NULL]
  BY DEF InsertFirst
<1>2. /\ next \in [Chunks -> Chunks \cup {NULL}] /\ prev \in [Chunks -> Chunks \cup {NULL}]
      /\ time' \in [Chunks -> Nat] /\ n \in Chunks /\ n # NULL
  BY DEF TypeOK, NewNode
<1>3. Linked = {} /\ Cardinality(Linked) = 0
  <2>1. CASE length = 0
    BY <2>1, LinkedClosed, FS_EmptySet DEF ListInv
  <2>2. CASE head = NULL
    <3> DEFINE E == {}
    <3>1. E \in SUBSET Chunks /\ head \in E \cup {NULL} /\ \A k \in E : next[k] \in E \cup {NULL}
      BY <2>2
    <3> HIDE DEF E
    <3>2. Reached(head, next) \subseteq E
      BY <3>1, ReachedLeast
    <3> QED
      BY <3>2, FS_EmptySet DEF E, Linked
  <2> QED
    BY <2>1, <2>2 DEF InsertFirst
<1> DEFINE X == {n}
<1>4. /\ X \in SUBSET Chunks /\ n \in X \cup {NULL} /\ \A x \in X : next'[x] \in X \cup {NULL}
      /\ \A x \in X \ {n} : \E p \in X : next'[p] = x /\ time'[p] < time'[x]
  BY <1>1, <1>2
<1> HIDE DEF X
<1>5. Reached(n, next') = X
  BY <1>2, <1>4, ReachedIs
<1>6. Linked' = {n}
  BY <1>1, <1>5 DEF X, Linked
<1>7. Linking(head', next', prev', time', Linked')
  BY <1>1, <1>2, <1>6 DEF Linking
<1>8. \A k \in Chunks \ (allocated \cup {n}) : next'[k] = NULL
  BY <1>1, <1>2 DEF ListInv, LinksInv
<1> QED
  BY <1>1, <1>3, <1>6, <1>7, <1>8 DEF Inserted

LEMMA LastInserted ==
  ASSUME TypeOK, ListInv, NEW n, NEW d, NewNode(n, d), InsertLast(n, d)
  PROVE  Inserted(n)
<1>1. PICK tail \in Linked :
        /\ next[tail] = NULL
        /\ next' = [next EXCEPT ![tail] = n]
        /\ prev' = [prev EXCEPT ![n] = tail]
  BY DEF InsertLast
<1>2. head' = head /\ length' = length + 1 /\ head # NULL /\ \A m \in Linked : time[m] < d
  BY DEF InsertLast
<1>3. /\ next \in [Chunks -> Chunks \cup {NULL}] /\ prev \in [Chunks -> Chunks \cup {NULL}]
      /\ time \in [Chunks -> Nat] /\ n \in Chunks /\ n # NULL /\ d \in Nat /\ length \in Nat
      /\ time' = [time EXCEPT ![n] = d] /\ n \notin Linked /\ next[n] = NULL
  BY DEF TypeOK, NewNode
<1>4. /\ Linked \in SUBSET Chunks /\ head \in Linked
      /\ \A k \in Linked : next[k] \in Linked \cup {NULL}
      /\ Cardinality(Linked) \in Nat
  BY <1>2, LinkedClosed
<1> DEFINE X == Linked \cup {n}
<1>5. /\ \A k \in Linked : next'[k] = (IF k = tail THEN n ELSE next[k]) /\ time'[k] = time[k]
      /\ next'[n] = NULL /\ time'[n] = d /\ prev'[n] = tail
      /\ \A k \in Linked : prev'[k] = prev[k]
  BY <1>1, <1>3, <1>4
<1>6. ASSUME NEW x \in X, x # head PROVE \E p \in X : next'[p] = x /\ time'[p] < time'[x]
  <2>1. CASE x = n
    BY <1>1, <1>2, <1>5, <2>1
  <2>2. CASE x \in Linked
    <3>1. prev[x] \in Linked /\ next[prev[x]] = x /\ time[prev[x]] < time[x]
      BY <1>6, <2>2, PrevIsBefore DEF ListInv
    <3>2. prev[x] # tail
      BY <1>1, <1>4, <2>2, <3>1, AlarmAssumption
    <3> QED
      BY <1>5, <2>2, <3>1, <3>2
  <2> QED
    BY <2>1, <2>2
<1>7. X \in SUBSET Chunks /\ head \in X \cup {NULL} /\ \A x \in X : next'[x] \in X \cup {NULL}
  BY <1>3, <1>4, <1>5
<1>8. time' \in [Chunks -> Nat]
  BY <1>3
<1>9. Reached(head, next') = X
  <2> HIDE DEF X
  <2> QED
    BY <1>6, <1>7, <1>8, ReachedIs
<1>10. Linked' = X
  BY <1>2, <1>9 DEF Linked
<1>11. ASSUME NEW m \in X, next'[m] # NULL
       PROVE  prev'[next'[m]] = m /\ time'[m] < time'[next'[m]]
  <2>1. m \in Linked
    BY <1>5, <1>11
  <2>2. CASE m = tail
    BY <1>2, <1>5, <2>1, <2>2
  <2>3. CASE m # tail
    BY <1>4, <1>5, <1>11, <2>1, <2>3 DEF ListInv, LinksInv, Linking
  <2> QED
    BY <2>2, <2>3
<1>12. prev'[head'] = NULL
  BY <1>2, <1>4, <1>5 DEF ListInv, LinksInv, Linking
<1>13. \A k \in Chunks \ (allocated \cup {n}) : next'[k] = NULL
  BY <1>1, <1>3 DEF ListInv, LinksInv
<1>14. Linking(head', next', prev', time', Linked')
  BY <1>10, <1>11, <1>12 DEF Linking
<1>15. length' >= Cardinality(Linked) + 1
  BY <1>2, <1>3, <1>4 DEF ListInv
<1> QED
  BY <1>10, <1>13, <1>14, <1>15 DEF Inserted

LEMMA BeforeInserted ==
  ASSUME TypeOK, ListInv, NEW n, NEW d, NewNode(n, d), InsertBefore(n, d)
  PROVE  Inserted(n)
<1>1. PICK m \in Linked :
        /\ d < time[m]
        /\ \A k \in Linked : time[k] < d \/ time[m] <= time[k]
        /\ next' = IF prev[m] = NULL THEN [next EXCEPT ![n] = m]
                   ELSE [next EXCEPT ![n] = m, ![prev[m]] = n]
        /\ prev' = [prev EXCEPT ![n] = prev[m], ![m] = n]
        /\ head' = IF prev[m] = NULL THEN n ELSE head
  BY DEF InsertBefore
<1>2. length' = length + 1 /\ head # NULL
  BY DEF InsertBefore
<1>3. /\ next \in [Chunks -> Chunks \cup {NULL}] /\ prev \in [Chunks -> Chunks \cup {NULL}]
      /\ time \in [Chunks -> Nat] /\ n \in Chunks /\ n # NULL /\ d \in Nat /\ length \in Nat
      /\ time' = [time EXCEPT ![n] = d] /\ n \notin Linked /\ next[n] = NULL
  BY DEF TypeOK, NewNode
<1>4. /\ Linked \in SUBSET Chunks /\ head \in Linked
      /\ \A k \in Linked : next[k] \in Linked \cup {NULL}
      /\ Cardinality(Linked) \in Nat
  BY <1>2, LinkedClosed
<1>5. /\ m = head <=> prev[m] = NULL
      /\ m # head => /\ prev[m] \in Linked /\ next[prev[m]] = m
                     /\ time[prev[m]] < time[m]
  BY PrevIsBefore DEF ListInv
<1> DEFINE X == Linked \cup {n}
<1>6. /\ \A k \in Linked : next'[k] = (IF m # head /\ k = prev[m] THEN n ELSE next[k])
      /\ next'[n] = m /\ prev'[n] = prev[m]
      /\ \A k \in Linked : prev'[k] = (IF k = m THEN n ELSE prev[k])
      /\ head' = (IF m = head THEN n ELSE head)
  BY <1>1, <1>3, <1>4, <1>5
<1>7. time'[n] = d /\ \A k \in Linked : time'[k] = time[k]
  BY <1>3, <1>4
<1>8. m # head => time[prev[m]] < d
  <2>1. m # head => time[prev[m]] \in Nat /\ time[m] \in Nat
    BY <1>3, <1>4, <1>5
  <2> QED
    BY <1>1, <1>5, <2>1
<1>9. ASSUME NEW x \in X, x # head' PROVE \E p \in X : next'[p] = x /\ time'[p] < time'[x]
  <2>1. CASE x = n
    BY <1>5, <1>6, <1>7, <1>8, <1>9, <2>1
  <2>2. CASE x = m
    BY <1>1, <1>6, <1>7, <2>2
  <2>3. CASE x # n /\ x # m
    <3>1. x \in Linked /\ x # head
      BY <1>6, <1>9, <2>3
    <3>2. prev[x] \in Linked /\ next[prev[x]] = x /\ time[prev[x]] < time[x]
      BY <3>1, PrevIsBefore DEF ListInv
    <3>3. ~(m # head /\ prev[x] = prev[m])
      BY <1>5, <2>3, <3>2
    <3> QED
      BY <1>6, <1>7, <3>1, <3>2, <3>3
  <2> QED
    BY <2>1, <2>2, <2>3
<1>10. X \in SUBSET Chunks /\ head' \in X \cup {NULL} /\ \A x \in X : next'[x] \in X \cup {NULL}
  BY <1>3, <1>4, <1>6
<1>11. time' \in [Chunks -> Nat]
  BY <1>3
<1>12. Reached(head', next') = X
  <2> HIDE DEF X
  <2> QED
    BY <1>9, <1>10, <1>11, ReachedIs
<1>13. Linked' = X
  BY <1>12 DEF Linked
<1>14. ASSUME NEW y \in X, next'[y] # NULL
       PROVE  prev'[next'[y]] = y /\ time'[y] < time'[next'[y]]
  <2>1. CASE y = n
    <3>1. next'[y] = m /\ prev'[m] = n /\ time'[m] = time[m] /\ time'[y] = d
      BY <1>6, <1>7, <2>1
    <3> QED
      BY <1>1, <2>1, <3>1
  <2>2. CASE y \in Linked /\ m # head /\ y = prev[m]
    BY <1>6, <1>7, <1>8, <2>2
  <2>3. CASE y \in Linked /\ ~(m # head /\ y = prev[m])
    <3>1. next'[y] = next[y] /\ next[y] \in Linked
      BY <1>4, <1>6, <1>14, <2>3
    <3>2. prev[next[y]] = y /\ time[y] < time[next[y]]
      BY <1>14, <2>3, <3>1 DEF ListInv, LinksInv, Linking
    <3>3. next[y] # m
      <4>1. y # NULL
        BY <1>4, <2>3, AlarmAssumption
      <4> QED
        BY <1>5, <2>3, <3>2, <4>1
    <3> QED
      BY <1>6, <1>7, <2>3, <3>1, <3>2, <3>3
  <2> QED
    BY <2>1, <2>2, <2>3
<1>15. prev'[head'] = NULL
  <2>1. prev[head] = NULL
    BY <1>2 DEF ListInv, LinksInv, Linking
  <2> QED
    BY <1>4, <1>5, <1>6, <2>1
<1>16. \A k \in Chunks \ (allocated \cup {n}) : next'[k] = NULL
  <2>1. ASSUME NEW k \in Chunks \ (allocated \cup {n}) PROVE next'[k] = NULL
    <3>1. k \notin Linked /\ next[k] = NULL
      BY DEF ListInv, LinksInv
    <3>2. prev[m] # NULL => k # prev[m]
      BY <1>5, <3>1
    <3> QED
      BY <1>1, <1>3, <3>1, <3>2
  <2> QED
    BY <2>1
<1>17. Linking(head', next', prev', time', Linked')
  BY <1>13, <1>14, <1>15 DEF Linking
<1>18. length' >= Cardinality(Linked) + 1
  BY <1>2, <1>3, <1>4 DEF ListInv
<1> QED
  BY <1>13, <1>16, <1>17, <1>18 DEF Inserted

(* A node that no link leads to changes nothing for those that are linked. *)
LEMMA NoneInserted ==
  ASSUME TypeOK, ListInv, NEW n, NEW d, NewNode(n, d), NotInserted(d)
  PROVE  /\ Linked' = Linked
         /\ Linking(head', next', prev', time', Linked')
         /\ length' >= Cardinality(Linked)
<1>1. UNCHANGED <<head, next, prev>> /\ length' = length + 1
  BY DEF NotInserted
<1>2. Linked' = Linked
  BY <1>1 DEF Linked
<1>3. /\ \A k \in Linked : time'[k] = time[k]
      /\ \A k \in Linked : next[k] \in Linked \cup {NULL}
      /\ Cardinality(Linked) \in Nat /\ length \in Nat
  <2>1. Linked \in SUBSET Chunks
    BY LinkedClosed
  <2>2. \A k \in Linked : time'[k] = time[k]
    BY <2>1 DEF TypeOK, NewNode
  <2> QED
    BY <2>2, LinkedClosed DEF TypeOK
<1>4. Linking(head', next', prev', time', Linked')
  BY <1>1, <1>2, <1>3 DEF ListInv, LinksInv, Linking
<1>5. length' >= Cardinality(Linked)
  BY <1>1, <1>3 DEF ListInv
<1> QED
  BY <1>2, <1>4, <1>5

-----------------------------------------------------------------------------
(* register_alarm                                                          *)
LEMMA RegisterKeepsIInv ==
  ASSUME IInv, ~wild, NEW c \in Clients, NEW d \in Delays, register_alarm(c, d)
  PROVE  IInv'
<1>1. TypeOK /\ ListInv /\ d \in Nat
  BY AlarmAssumption DEF IInv
<1>2. state[c] = "idle" /\ UNCHANGED currentTime
  BY DEF register_alarm
<1>3. \A m \in Linked : arg[m] # c
  BY <1>1, <1>2 DEF ListInv, AlarmsInv
<1>4. CASE /\ d = 0
           /\ state' = [state EXCEPT ![c] = "fired"]
           /\ UNCHANGED <<head, length, nodeVars, allocated, handle, askedFor, wild>>
  <2>1. UNCHANGED <<head, length, time, next, prev, arg, allocated, handle, askedFor, wild>>
    BY <1>4 DEF nodeVars
  <2>2. state' \in [Clients -> {"idle", "armed", "fired"}]
    BY <1>1, <1>4 DEF TypeOK
  <2>3. TypeOK'
    BY <1>1, <1>2, <2>1, <2>2 DEF TypeOK
  <2>4. Linked' = Linked
    BY <2>1 DEF Linked
  <2>5. LinksInv'
    BY <1>1, <2>1, <2>4 DEF ListInv, LinksInv, Linking
  <2>6. AlarmsInv'
    BY <1>1, <1>3, <1>4, <2>1, <2>4 DEF ListInv, AlarmsInv, TypeOK
  <2> QED
    BY <1>1, <2>1, <2>3, <2>4, <2>5, <2>6 DEF IInv, ListInv
<1>5. CASE /\ \E n \in Chunks \ allocated :
                /\ allocated' = allocated \cup {n}
                /\ time' = [time EXCEPT ![n] = d]
                /\ arg' = [arg EXCEPT ![n] = c]
                /\ handle' = [handle EXCEPT ![c] = n]
                /\ \/ InsertFirst(n) \/ InsertLast(n, d)
                   \/ InsertBefore(n, d) \/ NotInserted(d)
           /\ state' = [state EXCEPT ![c] = "armed"]
           /\ askedFor' = [askedFor EXCEPT ![c] = currentTime + d]
  <2>1. PICK n \in Chunks \ allocated :
                /\ allocated' = allocated \cup {n}
                /\ time' = [time EXCEPT ![n] = d]
                /\ arg' = [arg EXCEPT ![n] = c]
                /\ handle' = [handle EXCEPT ![c] = n]
                /\ \/ InsertFirst(n) \/ InsertLast(n, d)
                   \/ InsertBefore(n, d) \/ NotInserted(d)
    BY <1>5
  <2>2. NewNode(n, d)
    <3>1. n \notin Linked /\ next[n] = NULL
      BY <1>1 DEF ListInv, LinksInv
    <3> QED
      BY <1>1, <2>1, <3>1, AlarmAssumption DEF NewNode
  <2>3. Inserted(n) \/ NotInserted(d)
    BY <1>1, <2>1, <2>2, FirstInserted, LastInserted, BeforeInserted
  <2>4. TypeOK'
    <3>1. /\ time' \in [Chunks -> Nat] /\ arg' \in [Chunks -> Clients \cup {NULL}]
          /\ allocated' \subseteq Chunks
          /\ handle' \in [Clients -> Chunks \cup {NULL}]
      BY <1>1, <2>1 DEF TypeOK
    <3>2. state' \in [Clients -> {"idle", "armed", "fired"}]
      BY <1>1, <1>5 DEF TypeOK
    <3>3. askedFor' \in [Clients -> Nat]
      <4>1. currentTime + d \in Nat
        BY <1>1, AlarmAssumption DEF TypeOK
      <4> QED
        BY <1>1, <1>5, <4>1 DEF TypeOK
    <3>4. /\ head' \in Chunks \cup {NULL} /\ length' \in Nat /\ wild' \in BOOLEAN
          /\ next' \in [Chunks -> Chunks \cup {NULL}] /\ prev' \in [Chunks -> Chunks \cup {NULL}]
      <4>1. n \in Chunks /\ Linked \subseteq Chunks
        BY <1>1, LinkedClosed
      <4>2. CASE InsertFirst(n)
        BY <1>1, <4>1, <4>2 DEF InsertFirst, TypeOK
      <4>3. CASE InsertLast(n, d)
        BY <1>1, <4>1, <4>3 DEF InsertLast, TypeOK
      <4>4. CASE InsertBefore(n, d)
        BY <1>1, <4>1, <4>4 DEF InsertBefore, TypeOK
      <4>5. CASE NotInserted(d)
        BY <1>1, <4>1, <4>5 DEF NotInserted, TypeOK
      <4> QED
        BY <2>1, <4>2, <4>3, <4>4, <4>5
    <3> QED
      BY <1>1, <1>2, <3>1, <3>2, <3>3, <3>4 DEF TypeOK
  <2>5. \A m \in Linked : m \in Chunks /\ m # n
    BY <1>1, <2>2, LinkedClosed DEF NewNode
  <2>6. /\ \A m \in Linked : arg'[m] = arg[m] /\ state'[arg[m]] = "armed" /\ handle'[arg[m]] = m
        /\ arg'[n] = c /\ state'[c] = "armed" /\ handle'[c] = n
    BY <1>1, <1>3, <1>5, <2>1, <2>5 DEF TypeOK, ListInv, AlarmsInv
  <2>7. Linked' \subseteq Linked \cup {n} /\ Linking(head', next', prev', time', Linked')
    <3>1. CASE Inserted(n)
      BY <3>1 DEF Inserted
    <3>2. CASE NotInserted(d)
      BY <1>1, <2>2, <3>2, NoneInserted
    <3> QED
      BY <2>3, <3>1, <3>2
  <2>8. AlarmsInv'
    BY <1>1, <2>6, <2>7 DEF AlarmsInv, ListInv
  <2>9. LinksInv'
    <3>1. \A k \in Chunks \ allocated' : next'[k] = NULL
      <4>1. CASE Inserted(n)
        BY <2>1, <4>1 DEF Inserted
      <4>2. CASE NotInserted(d)
        BY <1>1, <2>1, <4>2 DEF NotInserted, ListInv, LinksInv
      <4> QED
        BY <2>3, <4>1, <4>2
    <3>2. Linked' \subseteq allocated'
      BY <1>1, <2>1, <2>7 DEF ListInv, LinksInv
    <3> QED
      BY <2>7, <3>1, <3>2 DEF LinksInv
  <2>10. length' >= Cardinality(Linked')
    <3>1. CASE Inserted(n)
      <4>1. Cardinality(Linked \cup {n}) = Cardinality(Linked) + 1
        BY <1>1, <2>2, LinkedClosed, FS_AddElement DEF NewNode
      <4> QED
        BY <3>1, <4>1 DEF Inserted
    <3>2. CASE NotInserted(d)
      BY <1>1, <2>2, <3>2, NoneInserted
    <3> QED
      BY <2>3, <3>1, <3>2
  <2> QED
    BY <2>4, <2>8, <2>9, <2>10 DEF IInv, ListInv
<1> QED
  BY <1>4, <1>5 DEF register_alarm

-----------------------------------------------------------------------------
(* remove_node takes one node out of the chain.                            *)
Removed(h) ==
  /\ Linked' = Linked \ {h}
  /\ \A m \in Linked' : arg'[m] = arg[m]

LEMMA NodeRemoved ==
  ASSUME TypeOK, ListInv, NEW h \in Linked, remove_node(h)
  PROVE  /\ Removed(h) /\ LinksInv'
         /\ length' = length - 1
         /\ head' \in Chunks \cup {NULL} /\ allocated' = allocated \ {h}
         /\ time' \in [Chunks -> Nat] /\ arg' \in [Chunks -> Clients \cup {NULL}]
         /\ next' \in [Chunks -> Chunks \cup {NULL}] /\ prev' \in [Chunks -> Chunks \cup {NULL}]
<1> DEFINE p == prev[h]
           q == next[h]
           X == Linked \ {h}
<1>1. /\ head' = IF p = NULL THEN q ELSE head
      /\ next' = [m \in Chunks |-> IF m = h THEN NULL ELSE IF m = p THEN q ELSE next[m]]
      /\ prev' = [m \in Chunks |-> IF m = h THEN NULL ELSE IF m = q THEN p ELSE prev[m]]
      /\ time' = [m \in Chunks |-> IF m = h THEN 0 ELSE time[m]]
      /\ arg' = [m \in Chunks |-> IF m = h THEN NULL ELSE arg[m]]
      /\ length' = length - 1 /\ allocated' = allocated \ {h}
  BY DEF remove_node, Cleared
<1>2. /\ next \in [Chunks -> Chunks \cup {NULL}] /\ prev \in [Chunks -> Chunks \cup {NULL}]
      /\ time \in [Chunks -> Nat] /\ arg \in [Chunks -> Clients \cup {NULL}]
      /\ head \in Chunks \cup {NULL}
  BY DEF TypeOK
<1>3. /\ Linked \in SUBSET Chunks /\ head \in Linked \cup {NULL} /\ h \in Chunks
      /\ \A k \in Linked : next[k] \in Linked \cup {NULL}
      /\ \A k \in Linked : k # NULL
  BY LinkedClosed, AlarmAssumption
<1>4. /\ h = head <=> p = NULL
      /\ h # head => p \in Linked /\ p # h /\ next[p] = h /\ time[p] < time[h]
      /\ q # NULL => q \in Linked /\ q # h /\ prev[q] = h /\ time[h] < time[q]
  <2>1. time[h] \in Nat
    BY <1>2, <1>3
  <2>2. /\ h = head <=> p = NULL
        /\ h # head => p \in Linked /\ next[p] = h /\ time[p] < time[h]
    BY PrevIsBefore DEF ListInv
  <2>3. q # NULL => q \in Linked /\ prev[q] = h /\ time[h] < time[q]
    BY <1>3 DEF ListInv, LinksInv, Linking
  <2> QED
    BY <2>1, <2>2, <2>3
<1>5. \A y \in X : next[y] # NULL =>
        /\ next[y] \in Linked /\ prev[next[y]] = y /\ time[y] < time[next[y]]
        /\ next[y] = h => y = p
        /\ next[y] # q
  <2>1. \A y \in X : next[y] # NULL =>
          next[y] \in Linked /\ prev[next[y]] = y /\ time[y] < time[next[y]]
    BY <1>3 DEF ListInv, LinksInv, Linking
  <2> QED
    BY <1>4, <2>1
<1>6. \A x \in X : x # head => /\ prev[x] \in Linked /\ next[prev[x]] = x
                               /\ time[prev[x]] < time[x] /\ prev[x] # p
                               /\ prev[x] = h => x = q
  <2>1. \A x \in X : x # head => /\ prev[x] \in Linked /\ next[prev[x]] = x
                                 /\ time[prev[x]] < time[x]
    BY PrevIsBefore DEF ListInv
  <2> QED
    BY <1>3, <1>4, <2>1
<1>7. /\ \A m \in X : /\ next'[m] = (IF m = p THEN q ELSE next[m])
                      /\ prev'[m] = (IF m = q THEN p ELSE prev[m])
                      /\ time'[m] = time[m] /\ arg'[m] = arg[m]
      /\ p # NULL => time'[p] = time[p]
  BY <1>1, <1>3, <1>4
<1>8. p \in Chunks \cup {NULL} /\ q \in Chunks \cup {NULL} /\ (p # NULL => p \in X)
      /\ (q # NULL => q \in X)
  BY <1>2, <1>3, <1>4
<1>9. /\ head' \in Chunks \cup {NULL}
      /\ time' \in [Chunks -> Nat] /\ arg' \in [Chunks -> Clients \cup {NULL}]
      /\ next' \in [Chunks -> Chunks \cup {NULL}] /\ prev' \in [Chunks -> Chunks \cup {NULL}]
  BY <1>1, <1>2, <1>8
<1>10. X \in SUBSET Chunks /\ head' \in X \cup {NULL} /\ \A x \in X : next'[x] \in X \cup {NULL}
  <2>1. head' \in X \cup {NULL}
    BY <1>1, <1>3, <1>4, <1>8
  <2>2. ASSUME NEW x \in X PROVE next'[x] \in X \cup {NULL}
    BY <1>3, <1>5, <1>7, <1>8
  <2> QED
    BY <1>3, <2>1, <2>2
<1>11. ASSUME NEW x \in X, x # head' PROVE \E k \in X : next'[k] = x /\ time'[k] < time'[x]
  <2>1. CASE x = q
    <3>1. p # NULL /\ p \in X /\ next'[p] = x
      BY <1>1, <1>7, <1>8, <1>11, <2>1
    <3>2. time[p] < time[h] /\ time[h] < time[x]
      BY <1>3, <1>4, <2>1, <3>1
    <3>3. time[p] < time[x]
      BY <1>2, <1>3, <1>8, <3>1, <3>2
    <3> QED
      BY <1>7, <3>1, <3>3
  <2>2. CASE x # q
    <3>1. x # head
      BY <1>1, <1>4, <1>11
    <3>2. prev[x] \in X /\ next[prev[x]] = x /\ time[prev[x]] < time[x] /\ prev[x] # p
      BY <1>6, <2>2, <3>1
    <3> QED
      BY <1>7, <3>2
  <2> QED
    BY <2>1, <2>2
<1>12. Reached(head', next') = X
  <2> HIDE DEF X
  <2> QED
    BY <1>9, <1>10, <1>11, ReachedIs
<1>13. Linked' = X
  BY <1>12 DEF Linked
<1>14. ASSUME NEW y \in X, next'[y] # NULL
       PROVE  prev'[next'[y]] = y /\ time'[y] < time'[next'[y]]
  <2>1. CASE y = p
    <3>1. next'[y] = q /\ q # NULL /\ q \in X /\ p # NULL
      BY <1>3, <1>7, <1>8, <1>14, <2>1
    <3>2. time[p] < time[h] /\ time[h] < time[q]
      BY <1>4, <3>1
    <3>3. time[p] < time[q]
      BY <1>2, <1>3, <1>8, <3>1, <3>2
    <3> QED
      BY <1>7, <2>1, <3>1, <3>3
  <2>2. CASE y # p
    <3>1. next'[y] = next[y] /\ next[y] \in X /\ next[y] # q
      BY <1>5, <1>7, <1>14, <2>2
    <3> QED
      BY <1>5, <1>7, <1>14, <3>1
  <2> QED
    BY <2>1, <2>2
<1>15. head' # NULL => prev'[head'] = NULL
  <2>1. CASE p = NULL
    BY <1>1, <1>7, <1>8, <2>1
  <2>2. CASE p # NULL
    <3>1. head' = head /\ head # h
      BY <1>1, <1>4, <2>2
    <3>2. head # NULL => prev[head] = NULL /\ head \in X /\ head # q
      BY <1>3, <1>4, <3>1 DEF ListInv, LinksInv, Linking
    <3> QED
      BY <1>7, <3>1, <3>2
  <2> QED
    BY <2>1, <2>2
<1>16. ASSUME NEW k \in Chunks \ allocated' PROVE next'[k] = NULL
  <2>1. CASE k = h
    BY <1>1, <2>1
  <2>2. CASE k # h
    <3>1. k \notin Linked /\ next[k] = NULL /\ k # NULL
      BY <1>1, <2>2, AlarmAssumption DEF ListInv, LinksInv
    <3>2. k # p
      BY <1>8, <3>1
    <3> QED
      BY <1>1, <2>2, <3>1, <3>2
  <2> QED
    BY <2>1, <2>2
<1>17. Linked' \subseteq allocated'
  BY <1>1, <1>13 DEF ListInv, LinksInv
<1>18. LinksInv'
  BY <1>13, <1>14, <1>15, <1>16, <1>17 DEF LinksInv, Linking
<1> QED
  BY <1>1, <1>7, <1>9, <1>13, <1>18 DEF Removed

(* deregister_alarm                                                        *)
LEMMA DeregisterKeepsIInv ==
  ASSUME IInv, ~wild, NEW c \in Clients, deregister_alarm(c)
  PROVE  IInv'
<1> DEFINE h == handle[c]
<1>1. TypeOK /\ ListInv
  BY DEF IInv
<1>2. /\ h # NULL /\ remove_node(h) /\ UNCHANGED <<currentTime, wild>>
      /\ state' = [state EXCEPT ![c] = "idle"]
      /\ handle' = [handle EXCEPT ![c] = NULL]
      /\ askedFor' = [askedFor EXCEPT ![c] = 0]
  BY DEF deregister_alarm, Forget
<1>3. /\ state' \in [Clients -> {"idle", "armed", "fired"}]
      /\ handle' \in [Clients -> Chunks \cup {NULL}]
      /\ askedFor' \in [Clients -> Nat]
  BY <1>1, <1>2 DEF TypeOK
<1>4. \A m \in Linked : m # h => /\ arg[m] \in Clients /\ arg[m] # c
                                 /\ state'[arg[m]] = "armed" /\ handle'[arg[m]] = m
  BY <1>1, <1>2 DEF ListInv, AlarmsInv, TypeOK
<1>5. CASE h \in Linked
  <2>1. /\ Removed(h) /\ LinksInv'
        /\ length' = length - 1
        /\ head' \in Chunks \cup {NULL} /\ allocated' = allocated \ {h}
        /\ time' \in [Chunks -> Nat] /\ arg' \in [Chunks -> Clients \cup {NULL}]
        /\ next' \in [Chunks -> Chunks \cup {NULL}] /\ prev' \in [Chunks -> Chunks \cup {NULL}]
    BY <1>1, <1>2, <1>5, NodeRemoved
  <2>2. Cardinality(Linked \ {h}) = Cardinality(Linked) - 1 /\ Cardinality(Linked \ {h}) \in Nat
    <3>1. IsFiniteSet(Linked)
      BY <1>1, LinkedClosed
    <3> QED
      BY <1>5, <3>1, FS_RemoveElement, FS_CardinalityType
  <2>3. length' >= Cardinality(Linked') /\ length' \in Nat
    <3>1. length \in Nat /\ Cardinality(Linked) \in Nat /\ length >= Cardinality(Linked)
      BY <1>1, LinkedClosed DEF TypeOK, ListInv
    <3> QED
      BY <2>1, <2>2, <3>1 DEF Removed
  <2>4. AlarmsInv'
    BY <1>4, <2>1 DEF Removed, AlarmsInv
  <2>5. TypeOK'
    BY <1>1, <1>2, <1>3, <2>1, <2>3 DEF TypeOK
  <2> QED
    BY <2>1, <2>3, <2>4, <2>5 DEF IInv, ListInv
<1>6. CASE h \notin Linked
  <2>1. UNCHANGED <<head, length, time, next, prev, arg, allocated>>
    BY <1>2, <1>6 DEF remove_node, nodeVars
  <2>2. TypeOK'
    BY <1>1, <1>2, <1>3, <2>1 DEF TypeOK
  <2>3. Linked' = Linked
    BY <2>1 DEF Linked
  <2>4. LinksInv'
    BY <1>1, <2>1, <2>3 DEF ListInv, LinksInv, Linking
  <2>5. AlarmsInv'
    BY <1>4, <1>6, <2>1, <2>3 DEF AlarmsInv
  <2> QED
    BY <1>1, <2>1, <2>2, <2>3, <2>4, <2>5 DEF IInv, ListInv
<1> QED
  BY <1>5, <1>6

LEMMA ReturnKeepsIInv ==
  ASSUME IInv, ~wild, NEW c \in Clients, Return(c)
  PROVE  IInv'
<1>1. TypeOK /\ ListInv
  BY DEF IInv
<1>2. /\ UNCHANGED <<currentTime, head, length, time, next, prev, arg, allocated, wild>>
      /\ state[c] = "fired"
      /\ state' = [state EXCEPT ![c] = "idle"]
      /\ handle' = [handle EXCEPT ![c] = NULL]
      /\ askedFor' = [askedFor EXCEPT ![c] = 0]
  BY DEF Return, Forget, nodeVars
<1>3. TypeOK'
  BY <1>1, <1>2 DEF TypeOK
<1>4. Linked' = Linked
  BY <1>2 DEF Linked
<1>5. LinksInv'
  BY <1>1, <1>2, <1>4 DEF ListInv, LinksInv, Linking
<1>6. \A m \in Linked : arg[m] \in Clients /\ arg[m] # c /\ state[arg[m]] = "armed"
                        /\ handle[arg[m]] = m
  BY <1>1, <1>2 DEF ListInv, AlarmsInv
<1>7. AlarmsInv'
  BY <1>1, <1>2, <1>4, <1>6 DEF AlarmsInv, TypeOK
<1> QED
  BY <1>1, <1>2, <1>3, <1>4, <1>5, <1>7 DEF IInv, ListInv

-----------------------------------------------------------------------------
(* tick.  The nodes that are due are the first of the list, up to the one  *)
(* that becomes its head.                                                  *)
LEMMA NewHead ==
  ASSUME TypeOK, LinksInv, NEW now \in Nat
  PROVE  LET X == Linked \ Due(now) IN
         \/ X = {} /\ HeadWithout(Due(now)) = NULL
         \/ /\ HeadWithout(Due(now)) \in X
            /\ prev[HeadWithout(Due(now))] \in Due(now) \cup {NULL}
            /\ \A x \in X \ {HeadWithout(Due(now))} : prev[x] \in X /\ next[prev[x]] = x
                                                     /\ time[prev[x]] < time[x]
<1> DEFINE gone == Due(now)
           X == Linked \ gone
           new == HeadWithout(gone)
<1>1. /\ Linked \in SUBSET Chunks /\ gone \in SUBSET Linked
      /\ \A m \in Linked : m \in gone <=> time[m] < now
      /\ \A m \in Linked : m # NULL
  BY LinkedClosed, AlarmAssumption DEF Due
<1>2. time \in [Chunks -> Nat] /\ next \in [Chunks -> Chunks \cup {NULL}]
      /\ head \in Chunks \cup {NULL}
  BY DEF TypeOK
<1>3. CASE X = {}
  BY <1>3 DEF HeadWithout
<1>4. CASE X # {}
  <2>1. new = CHOOSE m \in X : prev[m] \in gone \cup {NULL}
    BY <1>4 DEF HeadWithout
  <2>2. \E m \in X : prev[m] \in gone \cup {NULL}
    <3>1. PICK e \in X : \A y \in X : time[e] <= time[y]
      <4> HIDE DEF X
      <4>1. X \in SUBSET Chunks
        BY <1>1 DEF X
      <4> QED
        BY <1>2, <1>4, <4>1, Earliest
    <3>2. CASE e = head
      BY <3>1, <3>2, PrevIsBefore
    <3>3. CASE e # head
      <4>1. prev[e] \in Linked /\ time[prev[e]] < time[e]
        BY <3>1, <3>3, PrevIsBefore
      <4>2. time[e] \in Nat /\ time[prev[e]] \in Nat
        BY <1>1, <1>2, <3>1, <4>1
      <4>3. prev[e] \notin X
        BY <3>1, <4>1, <4>2
      <4> QED
        BY <3>1, <4>1, <4>3
    <3> QED
      BY <3>2, <3>3
  <2>3. new \in X /\ prev[new] \in gone \cup {NULL}
    <3> HIDE DEF X, gone, new
    <3> QED
      BY <2>1, <2>2
  <2> HIDE DEF gone, new
  <2>4. head \in Chunks
    <3>1. head # NULL
      <4>1. head = NULL => new = head \/ prev[new] \in Linked
        BY <2>3, PrevIsBefore
      <4>2. CASE head = NULL
        <5> DEFINE E == {}
        <5>1. E \in SUBSET Chunks /\ head \in E \cup {NULL}
              /\ \A k \in E : next[k] \in E \cup {NULL}
          BY <4>2
        <5> HIDE DEF E
        <5>2. Linked \subseteq E
          BY <5>1, ReachedLeast DEF Linked
        <5> QED
          BY <2>3, <5>2 DEF E
      <4> QED
        BY <4>2
    <3> QED
      BY <1>2, <3>1
  <2>5. \A k \in Reached(head, next) : next[k] # NULL => time[k] < time[next[k]]
    BY DEF LinksInv, Linking, Linked
  <2>6. \A k \in Linked : next[k] # NULL => next[k] \in Linked /\ time[k] < time[next[k]]
    BY LinkedClosed DEF LinksInv, Linking
  <2>7. ASSUME NEW a \in X, NEW b \in Reached(a, next), b # a
        PROVE  prev[b] \in X /\ next[prev[b]] = b /\ time[prev[b]] < time[b]
    <3>1. a \in Linked /\ a \in Chunks /\ a \notin gone
      BY <1>1
    <3>2. /\ Reached(a, next) \subseteq Linked
          /\ \A y \in Reached(a, next) : y = a \/ time[a] < time[y]
      BY <1>1, <1>2, <2>6, <3>1, ReachedLater
    <3>3. PICK k \in Reached(a, next) : next[k] = b
      BY <1>2, <2>7, <3>1, Predecessor
    <3>4. prev[b] = k /\ time[k] < time[b]
      <4>1. k \in Linked /\ b \in Linked
        BY <2>7, <3>2, <3>3
      <4> QED
        BY <1>1, <3>3, <4>1 DEF LinksInv, Linking
    <3>5. k \notin gone
      <4>1. k = a \/ time[a] < time[k]
        BY <3>2, <3>3
      <4>2. k \in Linked /\ time[a] \in Nat /\ time[k] \in Nat /\ ~(time[a] < now)
        BY <1>1, <1>2, <3>1, <3>2, <3>3
      <4> QED
        BY <1>1, <3>1, <4>1, <4>2
    <3> QED
      BY <3>2, <3>3, <3>4, <3>5
  <2>8. ASSUME NEW x \in X, x # new
        PROVE  prev[x] \in X /\ next[prev[x]] = x /\ time[prev[x]] < time[x]
    <3>1. x \in Linked /\ new \in Linked
      BY <2>3
    <3>2. (time[new] < time[x] /\ x \in Reached(new, next)) \/ time[x] < time[new]
      BY <1>2, <2>4, <2>5, <2>8, <3>1, LaterReached DEF Linked
    <3>3. (time[x] < time[new] /\ new \in Reached(x, next)) \/ time[new] < time[x]
      BY <1>2, <2>4, <2>5, <2>8, <3>1, LaterReached DEF Linked
    <3>4. CASE x \in Reached(new, next)
      BY <2>3, <2>7, <2>8, <3>4
    <3>5. CASE new \in Reached(x, next)
      <4>1. prev[new] \in X
        BY <2>3, <2>7, <2>8, <3>5
      <4> QED
        BY <1>1, <2>3, <4>1
    <3>6. time[x] \in Nat /\ time[new] \in Nat
      BY <1>1, <1>2, <3>1
    <3> QED
      BY <3>2, <3>3, <3>4, <3>5, <3>6
  <2> QED
    BY <2>3, <2>8 DEF gone, new
<1> QED
  BY <1>3, <1>4

LEMMA TickKeepsIInv ==
  ASSUME IInv, ~wild, tick
  PROVE  IInv'
<1> DEFINE now == currentTime + 1
           gone == Due(now)
           new == HeadWithout(gone)
           X == Linked \ gone
           woken == {c \in Clients : \E n \in gone : arg[n] = c}
<1>1. TypeOK /\ ListInv /\ LinksInv
  BY DEF IInv, ListInv
<1>2. currentTime \in Nat /\ now \in Nat
  BY <1>1, AlarmAssumption DEF TypeOK
<1>3. /\ currentTime < MaxTime /\ currentTime' = now
      /\ head' = new
      /\ prev' = [m \in Chunks |-> IF m \in gone \cup (IF gone = {} THEN {} ELSE {new})
                                   THEN NULL ELSE prev[m]]
      /\ next' = [m \in Chunks |-> IF m \in gone THEN NULL ELSE next[m]]
      /\ time' = [m \in Chunks |-> IF m \in gone THEN 0 ELSE time[m]]
      /\ arg' = [m \in Chunks |-> IF m \in gone THEN NULL ELSE arg[m]]
      /\ length' = length - Cardinality(gone)
      /\ allocated' = allocated \ gone
      /\ state' = [c \in Clients |-> IF c \in woken THEN "fired" ELSE state[c]]
      /\ askedFor' = [c \in Clients |-> IF c \in woken THEN 0 ELSE askedFor[c]]
      /\ handle' = handle /\ wild' = wild
  BY DEF tick, Cleared
<1>4. /\ Linked \in SUBSET Chunks /\ gone \in SUBSET Linked
      /\ \A m \in Linked : m \in gone <=> time[m] < now
      /\ \A m \in Linked : m # NULL
      /\ \A k \in Linked : next[k] \in Linked \cup {NULL}
  BY <1>1, LinkedClosed, AlarmAssumption DEF Due
<1>5. \/ X = {} /\ new = NULL
      \/ /\ new \in X /\ prev[new] \in gone \cup {NULL}
         /\ \A x \in X \ {new} : prev[x] \in X /\ next[prev[x]] = x
                                  /\ time[prev[x]] < time[x]
  BY <1>1, <1>2, NewHead
<1>6. \A y \in X : next[y] # NULL =>
        next[y] \in X /\ prev[next[y]] = y /\ time[y] < time[next[y]]
  <2>1. ASSUME NEW y \in X, next[y] # NULL
        PROVE  next[y] \in Linked /\ prev[next[y]] = y /\ time[y] < time[next[y]]
    BY <1>1, <1>4, <2>1 DEF LinksInv, Linking
  <2>2. \A y \in Linked : time[y] \in Nat
    BY <1>1, <1>4 DEF TypeOK
  <2>3. ASSUME NEW y \in X, next[y] # NULL PROVE next[y] \notin gone
    <3>1. ~(time[y] < now) /\ time[y] < time[next[y]] /\ next[y] \in Linked
      BY <1>4, <2>1, <2>3
    <3>2. ~(time[next[y]] < now)
      BY <1>2, <2>2, <3>1
    <3> QED
      BY <1>4, <3>1, <3>2
  <2> QED
    BY <2>1, <2>3
<1> HIDE DEF gone, new
<1>7. /\ \A m \in X : /\ next'[m] = next[m] /\ time'[m] = time[m] /\ arg'[m] = arg[m]
                      /\ m # new => prev'[m] = prev[m]
      /\ new \in X => prev'[new] = NULL
  <2>1. \A m \in X : m \in Chunks /\ m \notin gone
    BY <1>4
  <2>2. new \in X => prev'[new] = NULL
    BY <1>3, <1>5, <2>1
  <2> QED
    BY <1>3, <2>1, <2>2
<1>8. /\ head' \in Chunks \cup {NULL}
      /\ time' \in [Chunks -> Nat] /\ arg' \in [Chunks -> Clients \cup {NULL}]
      /\ next' \in [Chunks -> Chunks \cup {NULL}] /\ prev' \in [Chunks -> Chunks \cup {NULL}]
  BY <1>1, <1>3, <1>4, <1>5 DEF TypeOK
<1>9. Linked' = X
  <2>1. X \in SUBSET Chunks /\ new \in X \cup {NULL} /\ \A x \in X : next'[x] \in X \cup {NULL}
    BY <1>4, <1>5, <1>6, <1>7
  <2>2. \A x \in X \ {new} : \E p \in X : next'[p] = x /\ time'[p] < time'[x]
    BY <1>5, <1>7
  <2> HIDE DEF X
  <2>3. Reached(new, next') = X
    BY <1>8, <2>1, <2>2, ReachedIs
  <2> QED
    BY <1>3, <2>3 DEF Linked
<1>10. Linking(head', next', prev', time', Linked')
  <2>1. ASSUME NEW y \in X, next'[y] # NULL
        PROVE  prev'[next'[y]] = y /\ time'[y] < time'[next'[y]]
    <3>1. next'[y] = next[y] /\ next[y] \in X /\ prev[next[y]] = y /\ time[y] < time[next[y]]
      BY <1>6, <1>7, <2>1
    <3>2. next[y] # new
      <4>1. y \notin gone /\ y # NULL
        BY <1>4
      <4> QED
        BY <1>5, <3>1, <4>1
    <3> QED
      BY <1>7, <3>1, <3>2
  <2>2. head' # NULL => prev'[head'] = NULL
    BY <1>3, <1>5, <1>7
  <2> QED
    BY <1>9, <2>1, <2>2 DEF Linking
<1>11. \A k \in Chunks \ allocated' : next'[k] = NULL
  BY <1>1, <1>3 DEF LinksInv
<1>12. Linked' \subseteq allocated'
  BY <1>1, <1>3, <1>9 DEF LinksInv
<1>13. AlarmsInv'
  <2>1. ASSUME NEW m \in X
        PROVE arg'[m] \in Clients /\ state'[arg'[m]] = "armed" /\ handle'[arg'[m]] = m
    <3>1. /\ arg[m] \in Clients /\ state[arg[m]] = "armed" /\ handle[arg[m]] = m
          /\ arg'[m] = arg[m]
      BY <1>1, <1>7 DEF ListInv, AlarmsInv
    <3>2. \A n \in gone : handle[arg[n]] = n
      BY <1>1, <1>4 DEF ListInv, AlarmsInv
    <3>3. arg[m] \notin woken
      BY <3>1, <3>2
    <3> QED
      BY <1>3, <3>1, <3>3
  <2> QED
    BY <1>9, <2>1 DEF AlarmsInv
<1>14. length' >= Cardinality(Linked') /\ length' \in Nat
  <2>1. IsFiniteSet(Linked) /\ Linked \cap gone = gone
    BY <1>1, <1>4, LinkedClosed
  <2>2. Cardinality(X) = Cardinality(Linked) - Cardinality(gone)
    BY <2>1, FS_Difference
  <2>3. /\ Cardinality(Linked) \in Nat /\ Cardinality(gone) \in Nat /\ Cardinality(X) \in Nat
        /\ length \in Nat /\ length >= Cardinality(Linked)
    <3>1. IsFiniteSet(gone) /\ IsFiniteSet(X)
      BY <1>4, <2>1, FS_Subset
    <3> QED
      BY <1>1, <2>1, <3>1, FS_CardinalityType DEF TypeOK, ListInv
  <2> HIDE DEF X
  <2> QED
    BY <1>3, <1>9, <2>2, <2>3
<1>15. TypeOK'
  <2>1. currentTime' \in 0 .. MaxTime
    BY <1>2, <1>3, AlarmAssumption
  <2>2. /\ state' \in [Clients -> {"idle", "armed", "fired"}]
        /\ askedFor' \in [Clients -> Nat]
    <3> HIDE DEF woken
    <3> QED
      BY <1>1, <1>3 DEF TypeOK
  <2> QED
    BY <1>1, <1>3, <1>8, <1>14, <2>1, <2>2 DEF TypeOK
<1> QED
  BY <1>10, <1>11, <1>12, <1>13, <1>14, <1>15 DEF IInv, ListInv, LinksInv

-----------------------------------------------------------------------------
LEMMA NextKeepsIInv == IInv /\ [Next]_vars => IInv'
<1> SUFFICES ASSUME IInv, [Next]_vars PROVE IInv'
  OBVIOUS
<1>1. CASE UNCHANGED vars
  <2>1. UNCHANGED <<currentTime, head, length, time, next, prev, arg, allocated,
                    state, handle, askedFor, wild>>
    BY <1>1 DEF vars, nodeVars, clientVars
  <2>2. Linked' = Linked
    BY <2>1 DEF Linked
  <2> QED
    BY <2>1, <2>2 DEF IInv, TypeOK, ListInv, LinksInv, Linking, AlarmsInv
<1>2. CASE Undefined
  BY <1>1, <1>2 DEF Undefined
<1>3. ASSUME ~wild, NEW c \in Clients, NEW d \in Delays, register_alarm(c, d) PROVE IInv'
  BY <1>3, RegisterKeepsIInv
<1>4. ASSUME ~wild, NEW c \in Clients, deregister_alarm(c) PROVE IInv'
  BY <1>4, DeregisterKeepsIInv
<1>5. ASSUME ~wild, NEW c \in Clients, Return(c) PROVE IInv'
  BY <1>5, ReturnKeepsIInv
<1>6. CASE ~wild /\ tick
  BY <1>6, TickKeepsIInv
<1> QED
  BY <1>1, <1>2, <1>3, <1>4, <1>5, <1>6 DEF Next

(* The inductive invariant: while no next is wild, the nodes reached from  *)
(* the head of the list are linked both ways at growing times, belong to   *)
(* clients that wait for them, and are no more than length counts.         *)
THEOREM InductiveInvariant == Spec => []IInv
<1> QED
  BY InitIInv, NextKeepsIInv, PTL DEF Spec

(* insert, remove_node and callAlarms keep the list what they take it for: *)
(* links that mirror one another through memory that is allocated, times   *)
(* that grow from the head on.                                             *)
THEOREM ListStaysWellFormed == Spec => []ListWellFormed
<1>1. IInv => ListWellFormed
  BY LinkedClosed DEF IInv, ListInv, LinksInv, Linking, ListWellFormed
<1> QED
  BY <1>1, InductiveInvariant, PTL

(* length is never below the nodes that are linked: no insert takes a list *)
(* that has pending alarms for empty.                                      *)
THEOREM LengthCovers == Spec => []LengthCoversList
<1>1. IInv => LengthCoversList
  BY DEF IInv, ListInv, LengthCoversList
<1> QED
  BY <1>1, InductiveInvariant, PTL

(* Each node that is linked is the only one of its client, which still     *)
(* waits for it: a handler runs at most once for each registration, even   *)
(* when malloc gave the memory of an old alarm to a new one.               *)
THEOREM PendingAtMostOnce == Spec => []PendingOnce
<1>1. IInv => PendingOnce
  BY DEF IInv, ListInv, AlarmsInv, PendingOnce
<1> QED
  BY <1>1, InductiveInvariant, PTL
=============================================================================
