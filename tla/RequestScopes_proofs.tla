------------------------- MODULE RequestScopes_proofs -------------------------
(***************************************************************************)
(* What is proved of the scope stack, for any number of handlers, scopes   *)
(* and requests, whatever the order the handlers enter and leave in.       *)
(***************************************************************************)
EXTENDS RequestScopes, FiniteSetTheorems, TLAPS

(* Who has an entry on the stack.                                          *)
Serving == {c \in Overlapping : scopeOf[c] # NoScope}

(* f gives each entry of the stack the handler it belongs to.              *)
Owns(f) ==
  /\ f \in [1..Len(scopeStack) -> Serving]
  /\ \A i, j \in 1..Len(scopeStack) : f[i] = f[j] => i = j
  /\ \A c \in Serving : \E i \in 1..Len(scopeStack) : f[i] = c
  /\ \A i \in 1..Len(scopeStack) : scopeStack[i] = scopeOf[f[i]]

Balanced == \E f : Owns(f)

(* One request is on its way for each handler that waits, and for no other. *)
Awaited ==
  /\ \A r \in active : status[r.call] = "waiting"
  /\ \A r, q \in active : r.call = q.call => r = q
  /\ \A c \in Calls : status[c] = "waiting" => \E r \in active : r.call = c

Budget == \A c \in Calls : status[c] = "sending" => requests[c] < MaxRequests

Held == TypeOK /\ Budget /\ Awaited /\ Balanced
-----------------------------------------------------------------------------
(* Sequences.                                                              *)

\* A nonempty set of positions has a last one.
LEMMA LastPosition ==
  ASSUME NEW n \in Nat, NEW I, I \subseteq 1..n, I # {}
  PROVE  \E m \in I : \A j \in I : m >= j
<1> DEFINE T == {k \in Nat : n - k \in I}
<1>1. T # {}
  <2>1. PICK i \in I : TRUE
    OBVIOUS
  <2>2. i \in 1..n
    BY <2>1
  <2>3. n - i \in Nat /\ n - (n - i) = i
    BY <2>2
  <2> QED
    BY <2>1, <2>3
<1>2. PICK x \in T : \A y \in T : <<y, x>> \notin OpToRel(<, Nat)
  <2>1. T \subseteq Nat
    OBVIOUS
  <2> HIDE DEF T
  <2> QED
    BY <1>1, <2>1, WFMin, NatLessThanWellFounded, Zenon
<1>3. \A y \in T : ~(y < x)
  BY <1>2, Zenon DEF OpToRel
<1>4. ASSUME NEW j \in I
      PROVE  n - x >= j
  <2>1. j \in 1..n /\ x \in Nat
    OBVIOUS
  <2>2. n - j \in T
    BY <2>1
  <2>3. ~(n - j < x)
    BY <1>3, <2>2
  <2> QED
    BY <2>1, <2>3
<1>5. n - x \in I
  OBVIOUS
<1> QED
  BY <1>4, <1>5

LEMMA FirstPosition ==
  ASSUME NEW n \in Nat, NEW I, I \subseteq 1..n, I # {}
  PROVE  \E m \in I : \A j \in I : m <= j
<1>1. I \subseteq Nat
  OBVIOUS
<1>2. PICK m \in I : \A j \in I : <<j, m>> \notin OpToRel(<, Nat)
  BY <1>1, WFMin, NatLessThanWellFounded, Zenon
<1>3. \A j \in I : ~(j < m)
  <2>1. \A j \in I : <<j, m>> \in Nat \X Nat
    BY <1>1
  <2> QED
    BY <1>2, <2>1, Zenon DEF OpToRel
<1>4. \A j \in I : m <= j
  BY <1>1, <1>3
<1> QED
  BY <1>4

\* Leaving removes one entry of the scope.
LEMMA LeaveRemoves ==
  ASSUME scopeStack \in Seq(Scopes), NEW s,
         \E i \in DOMAIN scopeStack : scopeStack[i] = s
  PROVE  \E i \in 1..Len(scopeStack) :
           scopeStack[i] = s /\ WithoutLast(s) = RemoveAt(scopeStack, i)
<1> DEFINE I == {i \in 1..Len(scopeStack) : scopeStack[i] = s}
<1>1. I # {} /\ I \subseteq 1..Len(scopeStack) /\ Len(scopeStack) \in Nat
  OBVIOUS
<1>2. \E m \in I : \A j \in I : m >= j
  <2> HIDE DEF I
  <2> QED
    BY <1>1, LastPosition
<1>3. SelectLastInSeq(scopeStack, LAMBDA t : t = s) \in I
  BY <1>1, <1>2 DEF SelectLastInSeq, Max
<1> QED
  BY <1>3 DEF WithoutLast

LEMMA RemoveAtType ==
  ASSUME NEW S, NEW q \in Seq(S), NEW i \in 1..Len(q)
  PROVE  /\ RemoveAt(q, i) \in Seq(S)
         /\ Len(RemoveAt(q, i)) = Len(q) - 1
         /\ \A j \in 1..Len(q) - 1 : RemoveAt(q, i)[j] = q[IF j < i THEN j ELSE j + 1]
<1> DEFINE a == SubSeq(q, 1, i - 1)
           b == SubSeq(q, i + 1, Len(q))
<1>1. a \in Seq(S) /\ Len(a) = i - 1 /\ \A j \in 1..i - 1 : a[j] = q[j]
  OBVIOUS
<1>2. b \in Seq(S) /\ Len(b) = Len(q) - i /\ \A j \in 1..Len(q) - i : b[j] = q[j + i]
  OBVIOUS
<1>3. RemoveAt(q, i) = a \o b
  BY DEF RemoveAt
<1> HIDE DEF a, b
<1>4. a \o b \in Seq(S) /\ Len(a \o b) = Len(a) + Len(b)
  <2>1. a \in Seq(S) /\ b \in Seq(S)
    BY <1>1, <1>2
  <2> QED
    BY <2>1
<1>6. Len(a \o b) = Len(q) - 1
  <2>1. Len(a) = i - 1 /\ Len(b) = Len(q) - i /\ Len(q) \in Nat /\ i \in Nat
    BY <1>1, <1>2
  <2> QED
    BY <1>4, <2>1
<1>5. ASSUME NEW j \in 1..Len(q) - 1
      PROVE  (a \o b)[j] = q[IF j < i THEN j ELSE j + 1]
  <2>1. CASE j < i
    BY <2>1, <1>1, <1>2
  <2>2. CASE ~(j < i)
    <3>1. (a \o b)[j] = b[j - Len(a)] /\ j - Len(a) \in 1..Len(q) - i
      BY <2>2, <1>1, <1>2
    <3> QED
      BY <2>2, <3>1, <1>1, <1>2
  <2> QED
    BY <2>1, <2>2
<1> QED
  BY <1>3, <1>4, <1>5, <1>6
\* The history of stops removes the old place of a scope.
LEMMA RemoveFirstIsRemoveAt ==
  ASSUME NEW S, NEW q \in Seq(S), NEW e, \E i \in 1..Len(q) : q[i] = e
  PROVE  \E i \in 1..Len(q) : q[i] = e /\ RemoveFirst(q, e) = RemoveAt(q, i)
<1> DEFINE I == {i \in 1..Len(q) : q[i] = e}
<1>1. I # {} /\ I \subseteq 1..Len(q) /\ Len(q) \in Nat
  OBVIOUS
<1>2. \E m \in I : \A j \in I : m <= j
  <2> HIDE DEF I
  <2> QED
    BY <1>1, FirstPosition
<1>3. SelectInSeq(q, LAMBDA v : v = e) \in I
  BY <1>1, <1>2 DEF SelectInSeq, Min
<1> QED
  BY <1>3 DEF RemoveFirst

-----------------------------------------------------------------------------
(* The balance of the stack.                                               *)

LEMMA BalanceKept ==
  ASSUME Balanced, UNCHANGED <<scopeStack, scopeOf>>, Serving' = Serving
  PROVE  Balanced'
<1>1. PICK f : Owns(f)
  BY DEF Balanced
<1>2. Owns(f)'
  BY <1>1 DEF Owns
<1> QED
  BY <1>2 DEF Balanced

\* Entering adds an entry, which belongs to the handler that enters.
LEMMA BalanceEnter ==
  ASSUME TypeOK, Balanced, NEW c \in Calls, Enter(c)
  PROVE  Balanced'
<1>1. PICK f : Owns(f)
  BY DEF Balanced
<1>2. /\ status[c] = "idle"
      /\ Overlapping' = Overlapping \cup {c} /\ c \notin Overlapping
      /\ scopeOf' = scopeOf /\ scopeOf[c] \in Scopes \cup {NoScope}
  BY DEF Enter, Overlapping, TypeOK
<1>3. CASE scopeOf[c] = NoScope
  <2>1. scopeStack' = scopeStack /\ Serving' = Serving
    BY <1>2, <1>3 DEF Enter, Serving
  <2> QED
    BY <1>2, <2>1, BalanceKept
<1>4. CASE scopeOf[c] # NoScope
  <2> DEFINE n == Len(scopeStack)
             g == [i \in 1..n + 1 |-> IF i = n + 1 THEN c ELSE f[i]]
  <2>1. Serving' = Serving \cup {c} /\ c \notin Serving
    BY <1>2, <1>4 DEF Serving
  <2>2. n \in Nat /\ scopeStack \in Seq(Scopes) /\ scopeOf[c] \in Scopes
    BY <1>2, <1>4 DEF TypeOK
  <2>3. scopeStack' = Append(scopeStack, scopeOf[c])
    BY <1>4 DEF Enter
  <2>4. /\ Len(scopeStack') = n + 1 /\ scopeStack'[n + 1] = scopeOf[c]
        /\ \A i \in 1..n : scopeStack'[i] = scopeStack[i]
    BY <2>2, <2>3
  <2>5. /\ f \in [1..n -> Serving]
        /\ \A i, j \in 1..n : f[i] = f[j] => i = j
        /\ \A d \in Serving : \E i \in 1..n : f[i] = d
        /\ \A i \in 1..n : scopeStack[i] = scopeOf[f[i]]
    BY <1>1 DEF Owns
  <2>6. 1..n + 1 = (1..n) \cup {n + 1} /\ n + 1 \notin 1..n
    BY <2>2
  <2> HIDE DEF n
  <2>7. g \in [1..n + 1 -> Serving \cup {c}]
    BY <2>5, <2>6
  <2>8. \A i, j \in 1..n + 1 : g[i] = g[j] => i = j
    BY <2>1, <2>5, <2>6
  <2>9. \A d \in Serving \cup {c} : \E i \in 1..n + 1 : g[i] = d
    BY <2>5, <2>6
  <2>10. \A i \in 1..n + 1 : scopeStack'[i] = scopeOf[g[i]]
    BY <2>4, <2>5, <2>6
  <2> HIDE DEF g
  <2>11. PICK h : h = g
    OBVIOUS
  <2>12. Owns(h)'
    BY <1>2, <2>1, <2>4, <2>7, <2>8, <2>9, <2>10, <2>11 DEF Owns
  <2> QED
    BY <2>12 DEF Balanced
<1> QED
  BY <1>3, <1>4

\* Leaving removes an entry of the handler's scope. If it was another's,
\* that one takes over the entry of the handler that leaves.
LEMMA BalanceLeave ==
  ASSUME TypeOK, Balanced, NEW c \in Overlapping, NEW how \in {"done", "cancelled"},
         Leave(c, how)
  PROVE  Balanced'
<1>1. PICK f : Owns(f)
  BY DEF Balanced
<1>2. /\ Overlapping' = Overlapping \ {c}
      /\ scopeOf' = scopeOf /\ scopeOf[c] \in Scopes \cup {NoScope}
      /\ Serving' = Serving \ {c}
      /\ scopeStack' = WithoutLast(scopeOf[c])
      /\ scopeStack \in Seq(Scopes) /\ Len(scopeStack) \in Nat
  BY DEF Leave, Overlapping, Serving, TypeOK
<1>3. CASE scopeOf[c] = NoScope
  <2>1. \A i \in DOMAIN scopeStack : scopeStack[i] # scopeOf[c]
    BY <1>2, <1>3, ScopeAssumption
  <2>2. scopeStack' = scopeStack /\ Serving' = Serving
    BY <1>2, <1>3, <2>1 DEF WithoutLast, Serving
  <2> QED
    BY <1>2, <2>2, BalanceKept
<1>4. CASE scopeOf[c] # NoScope
  <2> DEFINE n == Len(scopeStack)
  <2>1. /\ f \in [1..n -> Serving]
        /\ \A i, j \in 1..n : f[i] = f[j] => i = j
        /\ \A d \in Serving : \E i \in 1..n : f[i] = d
        /\ \A i \in 1..n : scopeStack[i] = scopeOf[f[i]]
    BY <1>1 DEF Owns
  <2>2. c \in Serving
    BY <1>4 DEF Serving
  <2>3. PICK own \in 1..n : f[own] = c
    BY <2>1, <2>2
  <2>4. own \in DOMAIN scopeStack /\ scopeStack[own] = scopeOf[c]
    BY <1>2, <2>1, <2>3
  <2>5. PICK gone \in 1..n : /\ scopeStack[gone] = scopeOf[c]
                             /\ scopeStack' = RemoveAt(scopeStack, gone)
    BY <1>2, <2>4, LeaveRemoves
  <2> DEFINE at(j) == IF j < gone THEN j ELSE j + 1
             swapped(i) == IF i = own THEN f[gone] ELSE f[i]
             g == [j \in 1..n - 1 |-> swapped(at(j))]
  <2>6. /\ Len(scopeStack') = n - 1
        /\ \A j \in 1..n - 1 : scopeStack'[j] = scopeStack[at(j)]
    BY <1>2, <2>5, RemoveAtType
  <2>7. /\ \A j \in 1..n - 1 : at(j) \in (1..n) \ {gone}
        /\ \A j, k \in 1..n - 1 : at(j) = at(k) => j = k
        /\ \A i \in (1..n) \ {gone} : \E j \in 1..n - 1 : at(j) = i
    <3>1. n \in Nat /\ gone \in 1..n
      BY <1>2
    <3>2. ASSUME NEW i \in (1..n) \ {gone}
          PROVE  \E j \in 1..n - 1 : at(j) = i
      <4>1. CASE i < gone
        <5>1. i \in 1..n - 1 /\ at(i) = i
          BY <3>1, <4>1
        <5> QED
          BY <5>1
      <4>2. CASE ~(i < gone)
        <5>1. i - 1 \in 1..n - 1 /\ at(i - 1) = i
          BY <3>1, <4>2
        <5> QED
          BY <5>1
      <4> QED
        BY <4>1, <4>2
    <3>3. ASSUME NEW j \in 1..n - 1
          PROVE  at(j) \in (1..n) \ {gone}
      BY <3>1
    <3>4. ASSUME NEW j \in 1..n - 1, NEW k \in 1..n - 1, at(j) = at(k)
          PROVE  j = k
      BY <3>1, <3>4
    <3> QED
      BY <3>2, <3>3, <3>4
  <2>8. /\ \A i \in (1..n) \ {gone} : swapped(i) \in Serving \ {c}
        /\ \A i, j \in (1..n) \ {gone} : swapped(i) = swapped(j) => i = j
        /\ \A d \in Serving \ {c} : \E i \in (1..n) \ {gone} : swapped(i) = d
        /\ \A i \in (1..n) \ {gone} : scopeStack[i] = scopeOf[swapped(i)]
    <3> HIDE DEF n
    <3>1. ASSUME NEW i \in (1..n) \ {gone}
          PROVE  swapped(i) \in Serving \ {c} /\ scopeStack[i] = scopeOf[swapped(i)]
      BY <2>1, <2>3, <2>4, <2>5, <3>1
    <3>2. ASSUME NEW i \in (1..n) \ {gone}, NEW j \in (1..n) \ {gone},
                 swapped(i) = swapped(j)
          PROVE  i = j
      BY <2>1, <3>2
    <3>3. ASSUME NEW d \in Serving \ {c}
          PROVE  \E i \in (1..n) \ {gone} : swapped(i) = d
      <4>1. PICK k \in 1..n : f[k] = d
        BY <2>1
      <4>2. k # own
        BY <2>3, <4>1
      <4>3. CASE k = gone
        BY <4>1, <4>2, <4>3
      <4>4. CASE k # gone
        BY <4>1, <4>2, <4>4
      <4> QED
        BY <4>3, <4>4
    <3> QED
      BY <3>1, <3>2, <3>3
  <2>9. PICK h : h = g
    OBVIOUS
  <2>10. Owns(h)'
    <3> HIDE DEF n, at, swapped
    <3>1. g \in [1..n - 1 -> Serving \ {c}]
      BY <2>7, <2>8
    <3>2. \A i, j \in 1..n - 1 : g[i] = g[j] => i = j
      BY <2>7, <2>8
    <3>3. \A d \in Serving \ {c} : \E i \in 1..n - 1 : g[i] = d
      <4> SUFFICES ASSUME NEW d \in Serving \ {c}
                   PROVE  \E i \in 1..n - 1 : g[i] = d
        OBVIOUS
      <4>1. PICK i \in (1..n) \ {gone} : swapped(i) = d
        BY <2>8
      <4>2. PICK j \in 1..n - 1 : at(j) = i
        BY <2>7
      <4> QED
        BY <4>1, <4>2
    <3>4. \A i \in 1..n - 1 : scopeStack'[i] = scopeOf[g[i]]
      BY <2>6, <2>7, <2>8
    <3> HIDE DEF g
    <3> QED
      BY <1>2, <2>6, <2>9, <3>1, <3>2, <3>3, <3>4 DEF Owns
  <2> QED
    BY <2>10 DEF Balanced
<1> QED
  BY <1>3, <1>4
-----------------------------------------------------------------------------
(* Types, and requests on their way.                                       *)

LEMMA RemoveFirstType ==
  ASSUME NEW q \in Seq(Scopes), NEW e
  PROVE  RemoveFirst(q, e) \in Seq(Scopes)
<1>1. CASE \E i \in 1..Len(q) : q[i] = e
  <2> PICK i \in 1..Len(q) : RemoveFirst(q, e) = RemoveAt(q, i)
    BY <1>1, RemoveFirstIsRemoveAt
  <2> QED
    BY RemoveAtType
<1>2. CASE ~\E i \in 1..Len(q) : q[i] = e
  BY <1>2 DEF RemoveFirst
<1> QED
  BY <1>1, <1>2

LEMMA WithoutLastType ==
  ASSUME scopeStack \in Seq(Scopes), NEW s
  PROVE  WithoutLast(s) \in Seq(Scopes)
<1>1. CASE \E i \in DOMAIN scopeStack : scopeStack[i] = s
  BY <1>1, LeaveRemoves, RemoveAtType
<1>2. CASE ~\E i \in DOMAIN scopeStack : scopeStack[i] = s
  BY <1>2 DEF WithoutLast
<1> QED
  BY <1>1, <1>2

LEMMA CurrentType ==
  ASSUME scopeStack \in Seq(Scopes)
  PROVE  Current \in Scopes \cup {NoScope}
<1>1. CASE scopeStack = <<>>
  BY <1>1 DEF Current
<1>2. CASE scopeStack # <<>>
  <2>1. Len(scopeStack) \in 1..Len(scopeStack)
    BY <1>2
  <2>2. scopeStack[Len(scopeStack)] \in Scopes
    BY <2>1
  <2> QED
    BY <1>2, <2>2 DEF Current, Last
<1> QED
  BY <1>1, <1>2

LEMMA MarkedType ==
  ASSUME cancelledScopes \in Seq(Scopes), NEW s \in Scopes
  PROVE  Marked(s) \in Seq(Scopes)
<1> DEFINE longer == Append(cancelledScopes, s)
<1>1. longer \in Seq(Scopes) /\ longer # <<>>
  <2>1. longer \in Seq(Scopes) /\ Len(longer) = Len(cancelledScopes) + 1
    OBVIOUS
  <2>2. Len(cancelledScopes) + 1 # 0
    OBVIOUS
  <2> HIDE DEF longer
  <2> QED
    BY <2>1, <2>2
<1>2. Tail(longer) \in Seq(Scopes)
  <2> HIDE DEF longer
  <2> QED
    BY <1>1
<1> QED
  BY <1>1, <1>2 DEF Marked

LEMMA TypeNext ==
  ASSUME Held, [Next]_vars
  PROVE  TypeOK' /\ Budget'
<1> USE DEF Held, TypeOK, Budget, Status
<1>1. ASSUME NEW c \in Calls, Enter(c)
      PROVE  TypeOK' /\ Budget'
  <2>1. scopeOf[c] # NoScope => Append(scopeStack, scopeOf[c]) \in Seq(Scopes)
    OBVIOUS
  <2>2. Overlapping \subseteq Calls
    BY DEF Overlapping
  <2> QED
    BY <1>1, <2>1, <2>2 DEF Enter, Overlap
<1>2. ASSUME NEW c \in Calls, Prepare(c)
      PROVE  TypeOK' /\ Budget'
  BY <1>2 DEF Prepare
<1>3. ASSUME NEW c \in Calls, Send(c)
      PROVE  TypeOK' /\ Budget'
  BY <1>3, CurrentType, ScopeAssumption DEF Send
<1>4. ASSUME NEW c \in Calls, Settle(c)
      PROVE  TypeOK' /\ Budget'
  BY <1>4 DEF Settle
<1>5. ASSUME NEW c \in Calls, NEW how \in {"done", "cancelled"}, Leave(c, how)
      PROVE  TypeOK' /\ Budget'
  BY <1>5, WithoutLastType DEF Leave
<1>6. ASSUME NEW matching, NEW s \in Scopes \cup {NoScope}, Abort(matching, s),
             stops < MaxStops, stops' = stops + 1,
             cancelledScopes' \in Seq(Scopes), stopped' \in Seq(Scopes),
             UNCHANGED <<scopeOf, requests, scopeStack, overlapped>>
      PROVE  TypeOK' /\ Budget'
  BY <1>6, ScopeAssumption DEF Abort
<1>7. ASSUME NEW s \in Scopes, CancelScope(s)
      PROVE  TypeOK' /\ Budget'
  <2>1. Append(RemoveFirst(stopped, s), s) \in Seq(Scopes)
    BY RemoveFirstType
  <2>2. stopped' \in Seq(Scopes) /\ cancelledScopes' \in Seq(Scopes)
    BY <1>7, <2>1, MarkedType DEF CancelScope
  <2> QED
    BY <1>6, <1>7, <2>2 DEF CancelScope
<1>8. CASE CancelAll
  BY <1>6, <1>8 DEF CancelAll
<1>9. CASE UNCHANGED vars
  BY <1>9 DEF vars
<1> QED
  BY <1>1, <1>2, <1>3, <1>4, <1>5, <1>7, <1>8, <1>9 DEF Next, GiveUp, Answer

LEMMA AwaitedNext ==
  ASSUME Held, [Next]_vars
  PROVE  Awaited'
<1> USE DEF Held, TypeOK, Awaited
<1>1. ASSUME NEW c \in Calls, status[c] # "waiting", active' = active,
             NEW v, v # "waiting", status' = [status EXCEPT ![c] = v]
      PROVE  Awaited'
  BY <1>1
<1>2. ASSUME NEW c \in Calls, Enter(c) \/ Prepare(c) \/ GiveUp(c) \/ Answer(c)
      PROVE  Awaited'
  BY <1>1, <1>2 DEF Enter, Prepare, GiveUp, Answer, Leave
<1>3. ASSUME NEW c \in Calls, Send(c)
      PROVE  Awaited'
  <2> DEFINE q == [call |-> c, scope |-> Current]
  <2>1. /\ status[c] = "sending" /\ status' = [status EXCEPT ![c] = "waiting"]
        /\ active' = active \cup {q} /\ q.call = c
    BY <1>3 DEF Send
  <2> HIDE DEF q
  <2>2. \A r \in active : r.call # c /\ r.call \in Calls
    BY <2>1
  <2>3. \A r \in active' : status'[r.call] = "waiting"
    BY <2>1, <2>2
  <2>4. \A r, t \in active' : r.call = t.call => r = t
    BY <2>1, <2>2
  <2>5. \A d \in Calls : status'[d] = "waiting" => \E r \in active' : r.call = d
    BY <2>1, <2>2
  <2> QED
    BY <2>3, <2>4, <2>5
<1>4. ASSUME NEW c \in Calls, Settle(c)
      PROVE  Awaited'
  <2>1. /\ status[c] = "waiting" /\ status' = [status EXCEPT ![c] = "running"]
        /\ active' = {r \in active : r.call # c}
    BY <1>4 DEF Settle
  <2>2. \A d \in Calls : status'[d] = IF d = c THEN "running" ELSE status[d]
    BY <2>1
  <2>3. \A r \in active' : r \in active /\ r.call # c /\ r.call \in Calls
    BY <2>1
  <2>4. \A d \in Calls : status'[d] = "waiting" => \E r \in active' : r.call = d
    BY <2>1, <2>2
  <2> QED
    BY <2>2, <2>3, <2>4
<1>5. ASSUME NEW matching \in SUBSET active, NEW s, Abort(matching, s)
      PROVE  Awaited'
  <2>1. /\ active' = active \ matching
        /\ \A d \in Calls : status'[d] = IF \E r \in matching : r.call = d
                                         THEN "aborted" ELSE status[d]
    BY <1>5 DEF Abort
  <2>2. \A r \in active' : r \in active /\ r.call \in Calls
    BY <2>1
  <2>3. \A r \in active' : ~\E q \in matching : q.call = r.call
    BY <2>1, <2>2
  <2>4. \A d \in Calls : status'[d] = "waiting" => \E r \in active' : r.call = d
    BY <2>1
  <2> QED
    BY <2>1, <2>2, <2>3, <2>4
<1>6. CASE CancelAll \/ \E s \in Scopes : CancelScope(s)
  BY <1>5, <1>6 DEF CancelAll, CancelScope
<1>7. CASE UNCHANGED vars
  BY <1>7 DEF vars
<1> QED
  BY <1>2, <1>3, <1>4, <1>6, <1>7 DEF Next

LEMMA BalancedNext ==
  ASSUME Held, [Next]_vars
  PROVE  Balanced'
<1> USE DEF Held
<1>1. ASSUME UNCHANGED <<scopeStack, scopeOf>>, Overlapping' = Overlapping
      PROVE  Balanced'
  <2>1. Serving' = Serving
    BY <1>1 DEF Serving
  <2> QED
    BY <1>1, <2>1, BalanceKept
<1>2. ASSUME NEW c \in Calls, Enter(c)
      PROVE  Balanced'
  BY <1>2, BalanceEnter
<1>3. ASSUME NEW c \in Calls, GiveUp(c) \/ Answer(c)
      PROVE  Balanced'
  <2>1. c \in Overlapping
    BY <1>3 DEF GiveUp, Answer, Overlapping
  <2>2. PICK how \in {"done", "cancelled"} : Leave(c, how)
    BY <1>3 DEF GiveUp, Answer
  <2> QED
    BY <2>1, <2>2, BalanceLeave
<1>4. ASSUME NEW c \in Calls, Prepare(c) \/ Send(c) \/ Settle(c)
      PROVE  Balanced'
  <2>1. Overlapping' = Overlapping
    BY <1>4 DEF Prepare, Send, Settle, Overlapping, TypeOK
  <2> QED
    BY <1>1, <1>4, <2>1 DEF Prepare, Send, Settle
<1>5. ASSUME NEW matching \in SUBSET active, NEW s, Abort(matching, s),
             UNCHANGED <<scopeStack, scopeOf>>
      PROVE  Balanced'
  <2>1. Overlapping' = Overlapping
    BY <1>5 DEF Abort, Overlapping, Awaited, TypeOK
  <2> QED
    BY <1>1, <1>5, <2>1
<1>6. CASE CancelAll \/ \E s \in Scopes : CancelScope(s)
  BY <1>5, <1>6 DEF CancelAll, CancelScope
<1>7. CASE UNCHANGED vars
  BY <1>1, <1>7 DEF vars, Overlapping
<1> QED
  BY <1>2, <1>3, <1>4, <1>6, <1>7 DEF Next

LEMMA HeldInit == Init => Held
<1> SUFFICES ASSUME Init PROVE Held
  OBVIOUS
<1>1. TypeOK /\ Budget /\ Awaited
  BY ScopeAssumption DEF Init, TypeOK, Budget, Awaited, Status
<1>2. Serving = {} /\ scopeStack = <<>>
  BY DEF Init, Serving, Overlapping
<1>3. Owns([i \in 1..0 |-> i])
  BY <1>2 DEF Owns
<1> QED
  BY <1>1, <1>3 DEF Held, Balanced

LEMMA HeldAlways == Spec => []Held
<1>1. Held /\ [Next]_vars => Held'
  BY TypeNext, AwaitedNext, BalancedNext DEF Held
<1> QED
  BY <1>1, HeldInit, PTL DEF Spec

(* The variables of the registry have their types, for any handlers.       *)
THEOREM TypeCorrect == Spec => []TypeOK
<1>1. Held => TypeOK
  BY DEF Held
<1> QED
  BY <1>1, HeldAlways, PTL

(* Whatever the order handlers enter and leave in, the stack holds each    *)
(* scope as often as running handlers serve it.                            *)
THEOREM StackBalanced == Spec => []StackIsWhoIsRunning
<1>1. Held => StackIsWhoIsRunning
  <2> SUFFICES ASSUME Held, NEW s \in Scopes
               PROVE  Cardinality({i \in DOMAIN scopeStack : scopeStack[i] = s})
                        = Cardinality({c \in Overlapping : scopeOf[c] = s})
    BY DEF StackIsWhoIsRunning
  <2> DEFINE A == {i \in DOMAIN scopeStack : scopeStack[i] = s}
             B == {c \in Overlapping : scopeOf[c] = s}
  <2>1. PICK f : Owns(f)
    BY DEF Held, Balanced
  <2>2. DOMAIN scopeStack = 1..Len(scopeStack) /\ Len(scopeStack) \in Nat
    BY DEF Held, TypeOK
  <2>3. IsFiniteSet(A)
    <3>1. IsFiniteSet(1..Len(scopeStack))
      BY <2>2, FS_Interval
    <3>2. A \subseteq 1..Len(scopeStack)
      BY <2>2
    <3> HIDE DEF A
    <3> QED
      BY <3>1, <3>2, FS_Subset
  <2>4. B = {c \in Serving : scopeOf[c] = s}
    BY ScopeAssumption DEF Serving
  <2> DEFINE g == [i \in A |-> f[i]]
  <2>5. g \in [A -> B] /\ \A i, j \in A : g[i] = g[j] => i = j
    BY <2>1, <2>2, <2>4 DEF Owns
  <2>6. \A c \in B : \E i \in A : g[i] = c
    BY <2>1, <2>2, <2>4 DEF Owns
  <2>7. ExistsBijection(A, B)
    <3> HIDE DEF A, B, g
    <3>1. g \in Bijection(A, B)
      BY <2>5, <2>6 DEF Bijection, Injection, Surjection, IsInjective
    <3> QED
      BY <3>1 DEF ExistsBijection
  <2> HIDE DEF A, B
  <2>8. Cardinality(B) = Cardinality(A)
    BY <2>3, <2>7, FS_Bijection
  <2> QED
    BY <2>8 DEF A, B
<1> QED
  BY <1>1, HeldAlways, PTL
-----------------------------------------------------------------------------
(* Handlers that were alone all the time.                                  *)

Alone ==
  /\ \A c \in Overlapping \ overlapped : Overlapping = {c}
  /\ \A r \in active : r.call \notin overlapped => r.scope = scopeOf[r.call]

\* The scope at the top of the stack is the lone handler's own.
LEMMA LoneCurrent ==
  ASSUME Held, NEW c, Overlapping = {c}
  PROVE  Current = scopeOf[c]
<1>1. PICK f : Owns(f)
  BY DEF Held, Balanced
<1>2. scopeStack \in Seq(Scopes) /\ Len(scopeStack) \in Nat
  BY DEF Held, TypeOK
<1>3. CASE scopeStack = <<>>
  <2>1. c \notin Serving
    BY <1>1, <1>3 DEF Owns
  <2> QED
    BY <1>3, <2>1 DEF Serving, Current
<1>4. CASE scopeStack # <<>>
  <2>1. Len(scopeStack) \in 1..Len(scopeStack)
    BY <1>2, <1>4
  <2>2. f[Len(scopeStack)] = c
    BY <1>1, <2>1 DEF Owns, Serving
  <2>3. scopeStack[Len(scopeStack)] = scopeOf[c]
    BY <1>1, <2>1, <2>2 DEF Owns
  <2> QED
    BY <1>4, <2>3 DEF Current, Last
<1> QED
  BY <1>3, <1>4

LEMMA AloneNext ==
  ASSUME Held, Alone, [Next]_vars
  PROVE  Alone'
<1> USE DEF Held, TypeOK, Alone
<1>1. ASSUME Overlapping' \subseteq Overlapping, active' \subseteq active,
             UNCHANGED <<overlapped, scopeOf>>
      PROVE  Alone'
  BY <1>1
<1>2. ASSUME NEW c \in Calls, Enter(c)
      PROVE  Alone'
  <2>1. /\ Overlapping' = Overlapping \cup {c} /\ UNCHANGED <<active, scopeOf>>
        /\ overlapped' = IF Overlapping = {} THEN overlapped
                         ELSE overlapped \cup Overlapping \cup {c}
    BY <1>2 DEF Enter, Overlap, Overlapping
  <2> QED
    BY <2>1
<1>3. ASSUME NEW c \in Calls, Send(c)
      PROVE  Alone'
  <2>1. /\ Overlapping' = Overlapping /\ c \in Overlapping
        /\ active' = active \cup {[call |-> c, scope |-> Current]}
        /\ UNCHANGED <<overlapped, scopeOf>>
    BY <1>3 DEF Send, Overlapping
  <2>2. c \notin overlapped => Current = scopeOf[c]
    BY <2>1, LoneCurrent
  <2> QED
    BY <2>1, <2>2
<1>4. ASSUME NEW c \in Calls, Prepare(c) \/ Settle(c) \/ GiveUp(c) \/ Answer(c)
      PROVE  Alone'
  <2>1. Overlapping' \subseteq Overlapping
    BY <1>4 DEF Prepare, Settle, GiveUp, Answer, Leave, Overlapping
  <2> QED
    BY <1>1, <1>4, <2>1 DEF Prepare, Settle, GiveUp, Answer, Leave
<1>5. CASE CancelAll \/ \E s \in Scopes : CancelScope(s)
  <2>1. Overlapping' \subseteq Overlapping
    BY <1>5 DEF CancelAll, CancelScope, Abort, Awaited, Overlapping
  <2> QED
    BY <1>1, <1>5, <2>1 DEF CancelAll, CancelScope, Abort
<1>6. CASE UNCHANGED vars
  BY <1>1, <1>6 DEF vars, Overlapping
<1> QED
  BY <1>2, <1>3, <1>4, <1>5, <1>6 DEF Next

LEMMA AloneAlways == Spec => []Alone
<1>1. Init => Alone
  BY DEF Init, Alone, Overlapping
<1> QED
  BY <1>1, AloneNext, HeldAlways, PTL DEF Spec

(* Stopping one generation aborts no request of a handler that nobody      *)
(* overlapped and that serves another, whatever ran before it.             *)
THEOREM LoneExact == Spec => []LoneStopIsExact
<1>1. Init => LoneStopIsExact
  BY DEF Init, LoneStopIsExact
<1>2. Held /\ Alone /\ LoneStopIsExact /\ [Next]_vars => LoneStopIsExact'
  <2> SUFFICES ASSUME Held, Alone, LoneStopIsExact, [Next]_vars
               PROVE  LoneStopIsExact'
    OBVIOUS
  <2>1. overlapped \subseteq overlapped' /\ scopeOf' = scopeOf
    BY DEF Next, vars, Enter, Overlap, Prepare, Send, Settle, GiveUp, Answer, Leave,
       CancelScope, CancelAll
  <2>2. CASE abortedBy' = abortedBy
    BY <2>1, <2>2 DEF LoneStopIsExact
  <2>3. ASSUME NEW s \in Scopes, CancelScope(s)
        PROVE  LoneStopIsExact'
    <3>1. /\ overlapped' = overlapped
          /\ abortedBy' = [c \in Calls |->
               IF c \in {r.call : r \in {t \in active : t.scope = s}} THEN s
                                                                     ELSE abortedBy[c]]
      BY <2>3 DEF CancelScope, Abort
    <3> QED
      BY <2>1, <3>1 DEF LoneStopIsExact, Alone
  <2>4. CASE CancelAll
    BY <2>1, <2>4 DEF CancelAll, Abort, LoneStopIsExact
  <2> QED
    BY <2>2, <2>3, <2>4 DEF Next, vars, Enter, Prepare, Send, Settle, GiveUp, Answer, Leave
<1> QED
  BY <1>1, <1>2, HeldAlways, AloneAlways, PTL DEF Spec

(* Stopping a generation aborts the request its handler waits for, unless  *)
(* another handler overlapped it.                                          *)
THEOREM LoneReached == Spec => LoneStopReaches
<1>1. Held /\ Alone =>
        \A s \in Scopes : CancelScope(s) =>
          \A c \in Calls \ overlapped : scopeOf[c] = s => status'[c] # "waiting"
  <2> SUFFICES ASSUME Held, Alone, NEW s \in Scopes, CancelScope(s),
                      NEW c \in Calls \ overlapped, scopeOf[c] = s
               PROVE  status'[c] # "waiting"
    OBVIOUS
  <2>1. status' = [d \in Calls |->
          IF d \in {r.call : r \in {t \in active : t.scope = s}} THEN "aborted" ELSE status[d]]
    BY DEF CancelScope, Abort
  <2>2. CASE status[c] = "waiting"
    <3>1. PICK r \in active : r.call = c
      BY <2>2 DEF Held, Awaited
    <3> QED
      BY <2>1, <3>1 DEF Alone
  <2> QED
    BY <2>1, <2>2
<1> QED
  BY <1>1, HeldAlways, AloneAlways, PTL DEF LoneStopReaches

(* A handler nobody overlapped never ends with an answer once the list     *)
(* marks its generation as stopped.                                        *)
THEOREM StoppedCancels == Spec => StoppedEndsCancelled
<1>1. Held /\ Alone /\ [Next]_vars =>
        \A c \in Calls \ overlapped : status'[c] = "done" /\ status[c] # "done" =>
          ~IsCancelled(scopeOf[c])
  <2> SUFFICES ASSUME Held, Alone, [Next]_vars, NEW c \in Calls \ overlapped,
                      status'[c] = "done", status[c] # "done"
               PROVE  ~IsCancelled(scopeOf[c])
    OBVIOUS
  <2>1. Answer(c)
    BY DEF Next, vars, Enter, Prepare, Send, Settle, GiveUp, Answer, Leave, CancelScope,
       CancelAll, Abort, Held, TypeOK
  <2>2. Overlapping = {c}
    BY <2>1 DEF Answer, Overlapping, Alone
  <2> QED
    BY <2>1, <2>2, LoneCurrent DEF Answer, SeesCancel
<1> QED
  BY <1>1, HeldAlways, AloneAlways, PTL DEF Spec, StoppedEndsCancelled
-----------------------------------------------------------------------------
(* The list of stopped generations.                                        *)

(* The list is the end of the history, and shorter only while it is short. *)
ListIsEnd ==
  LET m == Len(cancelledScopes)
      n == Len(stopped)
  IN  /\ m <= n /\ m <= MaxCancelled
      /\ n > m => m = MaxCancelled
      /\ \A k \in 1..m : cancelledScopes[k] = stopped[n - m + k]

LEMMA TailType ==
  ASSUME NEW S, NEW q \in Seq(S), NEW e \in S, NEW m, m = Len(q), NEW t, t = Append(q, e)
  PROVE  /\ t \in Seq(S) /\ Len(t) = m + 1 /\ t[m + 1] = e /\ \A k \in 1..m : t[k] = q[k]
         /\ Tail(t) \in Seq(S) /\ Len(Tail(t)) = m /\ \A k \in 1..m : Tail(t)[k] = t[k + 1]
<1>1. t \in Seq(S) /\ Len(t) = m + 1 /\ t[m + 1] = e /\ \A k \in 1..m : t[k] = q[k]
  OBVIOUS
<1>2. m \in Nat /\ t # <<>>
  <2>1. m \in Nat
    OBVIOUS
  <2> QED
    BY <1>1, <2>1
<1>3. Tail(t) \in Seq(S) /\ Len(Tail(t)) = Len(t) - 1
        /\ \A k \in 1..Len(t) - 1 : Tail(t)[k] = t[k + 1]
  BY <1>1, <1>2
<1> QED
  BY <1>1, <1>2, <1>3

\* Taking out an old place of s leaves the end of the history as it is.
LEMMA OldPlaceGone ==
  ASSUME TypeOK, ListIsEnd, NEW s \in Scopes, ~IsCancelled(s)
  PROVE  LET m == Len(cancelledScopes)
             n == Len(stopped)
             rest == RemoveFirst(stopped, s)
         IN  /\ rest \in Seq(Scopes)
             /\ m <= Len(rest) /\ Len(rest) <= n
             /\ Len(rest) < n => n > m
             /\ Len(rest) > m => n > m
             /\ \A k \in 1..m : rest[Len(rest) - m + k] = cancelledScopes[k]
<1> DEFINE m == Len(cancelledScopes)
           n == Len(stopped)
           rest == RemoveFirst(stopped, s)
<1>1. /\ m \in Nat /\ n \in Nat /\ m <= n /\ stopped \in Seq(Scopes)
      /\ \A k \in 1..m : cancelledScopes[k] = stopped[n - m + k]
  BY DEF TypeOK, ListIsEnd
<1>2. \A k \in 1..m : cancelledScopes[k] # s
  <2>1. DOMAIN cancelledScopes = 1..m
    BY DEF TypeOK
  <2> QED
    BY <2>1 DEF IsCancelled, Range
<1>3. CASE \E i \in 1..n : stopped[i] = s
  <2>1. PICK i \in 1..n : stopped[i] = s /\ rest = RemoveAt(stopped, i)
    BY <1>1, <1>3, RemoveFirstIsRemoveAt
  <2>2. /\ rest \in Seq(Scopes) /\ Len(rest) = n - 1
        /\ \A j \in 1..n - 1 : rest[j] = stopped[IF j < i THEN j ELSE j + 1]
    <3> HIDE DEF rest
    <3> QED
      BY <1>1, <2>1, RemoveAtType
  <2> HIDE DEF m, n, rest
  <2>3. i <= n - m
    <3>1. SUFFICES ASSUME ~(i <= n - m) PROVE FALSE
      OBVIOUS
    <3>2. i - (n - m) \in 1..m /\ n - m + (i - (n - m)) = i
      BY <1>1, <3>1
    <3> QED
      BY <1>1, <1>2, <2>1, <3>2
  <2>4. ASSUME NEW k \in 1..m
        PROVE  rest[Len(rest) - m + k] = cancelledScopes[k]
    <3> DEFINE j == n - 1 - m + k
    <3>1. j \in 1..n - 1 /\ ~(j < i) /\ j + 1 = n - m + k /\ j = Len(rest) - m + k
      BY <1>1, <2>2, <2>3
    <3> HIDE DEF j
    <3>2. rest[j] = stopped[j + 1]
      BY <2>2, <3>1
    <3> QED
      BY <1>1, <3>1, <3>2
  <2>5. m <= Len(rest) /\ Len(rest) <= n /\ n > m
    BY <1>1, <2>2, <2>3
  <2> QED
    BY <2>2, <2>4, <2>5 DEF m, n, rest
<1>4. CASE ~\E i \in 1..n : stopped[i] = s
  <2>1. rest = stopped
    BY <1>4 DEF RemoveFirst
  <2> HIDE DEF m, rest
  <2> QED
    BY <1>1, <2>1 DEF m, rest
<1> QED
  BY <1>3, <1>4

LEMMA ListNext ==
  ASSUME TypeOK, ListIsEnd, [Next]_vars
  PROVE  ListIsEnd'
<1>1. CASE UNCHANGED <<cancelledScopes, stopped>>
  BY <1>1 DEF ListIsEnd
<1>2. ASSUME NEW s \in Scopes, CancelScope(s)
      PROVE  ListIsEnd'
  <2>1. CASE IsCancelled(s)
    <3>1. UNCHANGED <<cancelledScopes, stopped>>
      BY <1>2, <2>1 DEF CancelScope, Marked, IsCancelled
    <3> QED
      BY <3>1, <1>1
  <2>2. CASE ~IsCancelled(s)
    <3> DEFINE m == Len(cancelledScopes)
               n == Len(stopped)
               rest == RemoveFirst(stopped, s)
               r == Len(rest)
               longer == Append(cancelledScopes, s)
    <3>1. /\ stopped' = Append(rest, s)
          /\ cancelledScopes' = IF Len(longer) > MaxCancelled THEN Tail(longer) ELSE longer
      BY <1>2, <2>2 DEF CancelScope, Marked, IsCancelled
    <3>2. /\ rest \in Seq(Scopes) /\ m <= r /\ r <= n
          /\ (r < n => n > m) /\ (r > m => n > m)
          /\ \A k \in 1..m : rest[r - m + k] = cancelledScopes[k]
      BY <2>2, OldPlaceGone
    <3>3. /\ m \in Nat /\ n \in Nat /\ cancelledScopes \in Seq(Scopes)
          /\ m <= MaxCancelled /\ (n > m => m = MaxCancelled) /\ MaxCancelled \in Nat \ {0}
      BY ScopeAssumption DEF TypeOK, ListIsEnd
    <3>4. /\ Len(longer) = m + 1 /\ longer[m + 1] = s
          /\ \A k \in 1..m : longer[k] = cancelledScopes[k]
          /\ Len(Tail(longer)) = m /\ \A k \in 1..m : Tail(longer)[k] = longer[k + 1]
      BY <3>3, TailType
    <3> HIDE DEF rest, m, n, longer
    <3>5. /\ r \in Nat /\ Len(stopped') = r + 1 /\ stopped'[r + 1] = s
          /\ \A k \in 1..r : stopped'[k] = rest[k]
      BY <3>1, <3>2
    <3> HIDE DEF r
    <3>6. \A k \in 1..m + 1 : longer[k] = stopped'[r - m + k]
      <4> SUFFICES ASSUME NEW k \in 1..m + 1
                   PROVE  longer[k] = stopped'[r - m + k]
        OBVIOUS
      <4>1. CASE k = m + 1
        <5>1. r - m + k = r + 1
          BY <3>3, <3>5, <4>1
        <5> QED
          BY <3>4, <3>5, <4>1, <5>1
      <4>2. CASE k # m + 1
        <5>1. k \in 1..m /\ r - m + k \in 1..r
          BY <3>2, <3>3, <3>5, <4>2
        <5> QED
          BY <3>2, <3>4, <3>5, <5>1
      <4> QED
        BY <4>1, <4>2
    <3>7. CASE m + 1 > MaxCancelled
      <4>1. /\ m = MaxCancelled /\ cancelledScopes' = Tail(longer)
            /\ Len(cancelledScopes') = m
        BY <3>1, <3>3, <3>4, <3>7
      <4>2. ASSUME NEW k \in 1..m
            PROVE  cancelledScopes'[k] = stopped'[(r + 1) - m + k]
        <5>1. k + 1 \in 1..m + 1 /\ r - m + (k + 1) = (r + 1) - m + k
          BY <3>3, <3>5
        <5> QED
          BY <3>4, <3>6, <4>1, <5>1
      <4>3. m <= r + 1 /\ m <= MaxCancelled
        BY <3>2, <3>3, <3>5
      <4> QED
        BY <3>5, <4>1, <4>2, <4>3 DEF ListIsEnd
    <3>8. CASE ~(m + 1 > MaxCancelled)
      <4>1. /\ cancelledScopes' = longer /\ Len(cancelledScopes') = m + 1 /\ r = m
        BY <3>1, <3>2, <3>3, <3>4, <3>5, <3>8
      <4>2. ASSUME NEW k \in 1..m + 1
            PROVE  cancelledScopes'[k] = stopped'[(r + 1) - (m + 1) + k]
        <5>1. (r + 1) - (m + 1) + k = r - m + k
          BY <3>3, <3>5
        <5> QED
          BY <3>6, <4>1, <5>1
      <4> QED
        BY <3>3, <3>5, <3>8, <4>1, <4>2 DEF ListIsEnd
    <3> QED
      BY <3>7, <3>8
  <2> QED
    BY <2>1, <2>2
<1> QED
  BY <1>1, <1>2 DEF Next, vars, Enter, Prepare, Send, Settle, GiveUp, Answer, Leave, CancelAll

(* The generations stopped last, as many as the list may hold, are found   *)
(* in it, whatever was stopped before and however often.                   *)
THEOREM RecentMarked == Spec => []RecentStopsAreMarked
<1>1. Init => ListIsEnd
  BY ScopeAssumption DEF Init, ListIsEnd
<1>2. Held /\ ListIsEnd /\ [Next]_vars => ListIsEnd'
  BY ListNext DEF Held
<1>3. Held /\ ListIsEnd => RecentStopsAreMarked
  <2> SUFFICES ASSUME Held, ListIsEnd, NEW i \in DOMAIN stopped,
                      i > Len(stopped) - MaxCancelled
               PROVE  IsCancelled(stopped[i])
    BY DEF RecentStopsAreMarked
  <2> DEFINE m == Len(cancelledScopes)
             n == Len(stopped)
             k == i - (n - m)
  <2>1. /\ m \in Nat /\ n \in Nat /\ i \in 1..n /\ MaxCancelled \in Nat
        /\ DOMAIN cancelledScopes = 1..m
    BY ScopeAssumption DEF Held, TypeOK
  <2>2. /\ m <= n /\ (n > m => m = MaxCancelled)
        /\ \A j \in 1..m : cancelledScopes[j] = stopped[n - m + j]
    BY DEF ListIsEnd
  <2> HIDE DEF m
  <2>3. k \in 1..m /\ n - m + k = i
    BY <2>1, <2>2
  <2>4. cancelledScopes[k] = stopped[i]
    BY <2>2, <2>3
  <2> QED
    BY <2>1, <2>3, <2>4 DEF IsCancelled, Range
<1> QED
  BY <1>1, <1>2, <1>3, HeldAlways, PTL DEF Spec
==============================================================================
