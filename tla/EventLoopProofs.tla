--------------------------- MODULE EventLoopProofs ---------------------------
(***************************************************************************)
(* The loop keeps its timers in order and the table of descriptors to what *)
(* is open, proved for every number of descriptors, programs and sessions  *)
(* and for every watchdog and retry.  The table, the timers and the        *)
(* records refer to each other: the invariant says how, and that a timer   *)
(* is early by what add_timer_event adds to it.                            *)
(***************************************************************************)
EXTENDS EventLoop, SequenceTheorems, FiniteSetTheorems, WellFoundedInduction, TLAPS

CallsOf(ts) == {ts[i].call : i \in DOMAIN ts}

\* Timers in order, one at most for each owner, and each later than was asked
\* by what was added, until it is due.
Good(ts) ==
    /\ ts \in Seq(Timer)
    /\ \A i \in DOMAIN ts : ts[i].in < Forever /\ (ts[i].asked = 0 \/ ts[i].in = ts[i].asked + 2)
    /\ \A i, j \in DOMAIN ts : i < j => ts[i].in <= ts[j].in
    /\ \A i, j \in DOMAIN ts : ts[i].call = ts[j].call => i = j

-----------------------------------------------------------------------------
(* Sequences *)

\* A set of naturals has a least element.
LEMMA LeastOf ==
  ASSUME NEW T \in SUBSET Nat, T # {}
  PROVE  \E m \in T : \A k \in T : m <= k
<1>1. PICK m \in T : \A k \in T : ~(<<k, m>> \in OpToRel(<, Nat))
  BY NatLessThanWellFounded, WFMin
<1>2. \A k \in T : ~(k < m)
  BY <1>1 DEF OpToRel
<1> QED  BY <1>2

LEMMA MinIs ==
  ASSUME NEW T \in SUBSET Nat, T # {}
  PROVE  Min(T) \in T /\ \A k \in T : Min(T) <= k
<1>1. \E m \in T : \A k \in T : m <= k
  BY LeastOf
<1> QED  BY <1>1 DEF Min

LEMMA InsertIs ==
  ASSUME NEW E, NEW s \in Seq(E), NEW m \in 1..Len(s) + 1, NEW t \in E
  PROVE  /\ InsertAt(s, m, t) \in Seq(E) /\ Len(InsertAt(s, m, t)) = Len(s) + 1
         /\ \A i \in 1..Len(s) + 1 :
               InsertAt(s, m, t)[i] = IF i < m THEN s[i] ELSE IF i = m THEN t ELSE s[i - 1]
<1> DEFINE a == SubSeq(s, 1, m - 1)  b == SubSeq(s, m, Len(s))  c == a \o <<t>>
<1>1. Len(s) \in Nat /\ m \in Nat /\ m >= 1 /\ m <= Len(s) + 1
  OBVIOUS
<1>2. a \in Seq(E) /\ Len(a) = m - 1 /\ \A i \in 1..m - 1 : a[i] = s[i]
  BY <1>1, SubSeqProperties
<1>3. b \in Seq(E) /\ Len(b) = Len(s) - m + 1 /\ \A i \in 1..Len(s) - m + 1 : b[i] = s[m + i - 1]
  BY <1>1, SubSeqProperties
<1> HIDE DEF a, b
<1>4. /\ c \in Seq(E) /\ Len(c) = m
      /\ \A i \in 1..m : c[i] = IF i < m THEN s[i] ELSE t
  <2>1. <<t>> \in Seq(E) /\ Len(<<t>>) = 1 /\ <<t>>[1] = t
    OBVIOUS
  <2>2. /\ c \in Seq(E) /\ Len(c) = Len(a) + 1
        /\ \A i \in 1..Len(a) + 1 : c[i] = IF i <= Len(a) THEN a[i] ELSE <<t>>[i - Len(a)]
    BY <1>2, <2>1, ConcatProperties
  <2> HIDE DEF c
  <2>3. Len(a) + 1 = m
    BY <1>1, <1>2
  <2>4. ASSUME NEW i \in 1..m PROVE c[i] = IF i < m THEN s[i] ELSE t
    <3>1. CASE i < m
      <4>1. i \in 1..Len(a) + 1 /\ i <= Len(a) /\ i \in 1..m - 1
        BY <1>1, <2>3, <3>1
      <4>2. c[i] = a[i]
        BY <2>2, <4>1
      <4> QED  BY <1>2, <3>1, <4>1, <4>2
    <3>2. CASE i = m
      <4>1. i \in 1..Len(a) + 1 /\ ~(i <= Len(a)) /\ i - Len(a) = 1 /\ ~(i < m)
        BY <1>1, <2>3, <3>2
      <4>2. c[i] = <<t>>[1]
        BY <2>2, <4>1
      <4> QED  BY <2>1, <4>1, <4>2
    <3> QED  BY <1>1, <3>1, <3>2
  <2> QED  BY <2>2, <2>3, <2>4
<1>5. InsertAt(s, m, t) = c \o b
  BY DEF InsertAt, a, b
<1> HIDE DEF c
<1>6. /\ c \o b \in Seq(E) /\ Len(c \o b) = Len(s) + 1
      /\ \A i \in 1..Len(s) + 1 : (c \o b)[i] = IF i <= m THEN c[i] ELSE b[i - m]
  <2>1. /\ c \o b \in Seq(E) /\ Len(c \o b) = Len(c) + Len(b)
        /\ \A i \in 1..Len(c) + Len(b) : (c \o b)[i] = IF i <= Len(c) THEN c[i] ELSE b[i - Len(c)]
    BY <1>3, <1>4, ConcatProperties
  <2>2. Len(c) = m /\ Len(c) + Len(b) = Len(s) + 1
    BY <1>1, <1>3, <1>4
  <2> QED  BY <2>1, <2>2
<1>7. ASSUME NEW i \in 1..Len(s) + 1, i > m PROVE b[i - m] = s[i - 1]
  <2>1. i - m \in 1..Len(s) - m + 1 /\ m + (i - m) - 1 = i - 1
    BY <1>1, <1>7
  <2> QED  BY <1>3, <2>1
<1> QED  BY <1>1, <1>4, <1>5, <1>6, <1>7

LEMMA RemoveIs ==
  ASSUME NEW E, NEW s \in Seq(E), NEW k \in 1..Len(s)
  PROVE  /\ RemoveAt(s, k) \in Seq(E) /\ Len(RemoveAt(s, k)) = Len(s) - 1
         /\ \A i \in 1..Len(s) - 1 : RemoveAt(s, k)[i] = IF i < k THEN s[i] ELSE s[i + 1]
<1> DEFINE a == SubSeq(s, 1, k - 1)  b == SubSeq(s, k + 1, Len(s))
<1>1. Len(s) \in Nat /\ k \in Nat /\ k >= 1 /\ k <= Len(s)
  OBVIOUS
<1>2. a \in Seq(E) /\ Len(a) = k - 1 /\ \A i \in 1..k - 1 : a[i] = s[i]
  BY <1>1, SubSeqProperties
<1>3. b \in Seq(E) /\ Len(b) = Len(s) - k /\ \A i \in 1..Len(s) - k : b[i] = s[k + i]
  BY <1>1, SubSeqProperties
<1>4. RemoveAt(s, k) = a \o b
  BY DEF RemoveAt
<1> HIDE DEF a, b
<1>5. /\ a \o b \in Seq(E) /\ Len(a \o b) = Len(s) - 1
      /\ \A i \in 1..Len(s) - 1 : (a \o b)[i] = IF i < k THEN a[i] ELSE b[i - k + 1]
  <2>1. /\ a \o b \in Seq(E) /\ Len(a \o b) = Len(a) + Len(b)
        /\ \A i \in 1..Len(a) + Len(b) : (a \o b)[i] = IF i <= Len(a) THEN a[i] ELSE b[i - Len(a)]
    BY <1>2, <1>3, ConcatProperties
  <2>2. /\ Len(a) + Len(b) = Len(s) - 1
        /\ \A i \in 1..Len(s) - 1 : (i <= Len(a) <=> i < k) /\ i - Len(a) = i - k + 1
    BY <1>1, <1>2, <1>3
  <2> QED  BY <2>1, <2>2
<1>6. ASSUME NEW i \in 1..Len(s) - 1, i >= k PROVE b[i - k + 1] = s[i + 1]
  <2>1. i - k + 1 \in 1..Len(s) - k /\ k + (i - k + 1) = i + 1
    BY <1>1, <1>6
  <2> QED  BY <1>3, <2>1
<1> QED  BY <1>1, <1>2, <1>4, <1>5, <1>6

-----------------------------------------------------------------------------
(* Timers *)

\* The timers that are later than a new one are the last ones.
LEMMA LaterAre ==
  ASSUME NEW ts, Good(ts), NEW t, t.in \in Nat
  PROVE  \E m \in 1..Len(ts) + 1 :
            /\ Len(ts) + 1 - Cardinality(Later(ts, t)) = m
            /\ \A i \in DOMAIN ts : i >= m <=> ts[i].in > t.in
<1> DEFINE n == Len(ts)  L == Later(ts, t)
<1>1. /\ n \in Nat /\ DOMAIN ts = 1..n /\ \A i \in 1..n : ts[i].in \in Nat
      /\ \A i, j \in 1..n : i < j => ts[i].in <= ts[j].in
  <2>1. ts \in Seq(Timer) /\ Forever \in Nat
    BY EventLoopAssumption DEF Good
  <2>2. n \in Nat /\ DOMAIN ts = 1..n /\ \A i \in 1..n : ts[i] \in Timer
    BY <2>1
  <2>3. \A u \in Timer : u.in \in Nat
    BY <2>1 DEF Timer
  <2>4. \A i, j \in 1..n : i < j => ts[i].in <= ts[j].in
    BY <2>2 DEF Good
  <2> QED  BY <2>2, <2>3, <2>4
<1>2. L = {i \in 1..n : ts[i].in > t.in}
  BY <1>1 DEF Later
<1> HIDE DEF n, L
<1>3. \E m \in 1..n + 1 : L = m..n
  <2>1. CASE L = {}
    <3>1. n + 1 \in 1..n + 1 /\ L = (n + 1)..n
      BY <1>1, <2>1
    <3> QED  BY <3>1
  <2>2. CASE L # {}
    <3>1. L \in SUBSET Nat
      BY <1>1, <1>2
    <3>2. PICK m \in L : \A k \in L : m <= k
      BY <2>2, <3>1, LeastOf
    <3>3. \A i \in 1..n : i \in L <=> i >= m
      BY <1>1, <1>2, <3>2
    <3>4. m \in 1..n + 1 /\ L = m..n
      BY <1>1, <1>2, <3>2, <3>3
    <3> QED  BY <3>4
  <2> QED  BY <2>1, <2>2
<1>4. PICK m \in 1..n + 1 : L = m..n
  BY <1>3
<1>5. Cardinality(L) = n - m + 1
  <2>1. m \in Int /\ n \in Int /\ (m <= n \/ m = n + 1)
    BY <1>1
  <2>2. CASE m <= n
    BY <1>4, <2>1, <2>2, FS_Interval
  <2>3. CASE m = n + 1
    <3>1. L = {}
      BY <1>1, <1>4, <2>3
    <3> QED  BY <1>1, <2>3, <3>1, FS_EmptySet
  <2> QED  BY <2>1, <2>2, <2>3
<1>6. n + 1 - Cardinality(L) = m
  BY <1>1, <1>5
<1>7. \A i \in 1..n : i >= m <=> ts[i].in > t.in
  BY <1>1, <1>2, <1>4
<1> QED  BY <1>1, <1>6, <1>7 DEF n, L

LEMMA AddTimerIs ==
  ASSUME NEW ts, Good(ts), NEW ms \in Nat, 2 * ms + 2 < Forever, NEW f \in Call, f \notin CallsOf(ts)
  PROVE  Good(AddTimer(ts, ms, f)) /\ CallsOf(AddTimer(ts, ms, f)) = CallsOf(ts) \cup {f}
<1> DEFINE t == [in |-> 2 * ms + 2, asked |-> 2 * ms, call |-> f]  n == Len(ts)
<1>0. n \in Nat /\ DOMAIN ts = 1..n /\ ts \in Seq(Timer) /\ Forever \in Nat
  BY EventLoopAssumption DEF Good
<1>1. t \in Timer /\ t.in \in Nat /\ t.in < Forever /\ t.in = t.asked + 2 /\ t.call = f
  BY <1>0 DEF Timer
<1>2. PICK m \in 1..n + 1 : /\ n + 1 - Cardinality(Later(ts, t)) = m
                            /\ \A i \in DOMAIN ts : i >= m <=> ts[i].in > t.in
  <2> HIDE DEF t
  <2> QED  BY <1>1, LaterAre
<1> DEFINE r == InsertAt(ts, m, t)
<1>3. AddTimer(ts, ms, f) = r
  BY <1>2 DEF AddTimer
<1> HIDE DEF t
<1>4. /\ r \in Seq(Timer) /\ Len(r) = n + 1
      /\ \A i \in 1..n + 1 : r[i] = IF i < m THEN ts[i] ELSE IF i = m THEN t ELSE ts[i - 1]
  <2>1. ts \in Seq(Timer) /\ m \in 1..Len(ts) + 1 /\ t \in Timer
    BY <1>0, <1>1
  <2>2. /\ r \in Seq(Timer) /\ Len(r) = Len(ts) + 1
        /\ \A i \in 1..Len(ts) + 1 : r[i] = IF i < m THEN ts[i] ELSE IF i = m THEN t ELSE ts[i - 1]
    BY <2>1, InsertIs
  <2> QED  BY <2>2
<1> HIDE DEF r
<1>5. DOMAIN r = 1..n + 1
  BY <1>4
<1>6. /\ \A i \in 1..n + 1 : i < m => i \in 1..n /\ r[i] = ts[i]
      /\ \A i \in 1..n + 1 : i > m => i - 1 \in 1..n /\ r[i] = ts[i - 1]
      /\ r[m] = t
  BY <1>0, <1>4
<1>7. \A i \in 1..n : ts[i].in \in Nat /\ ts[i].in < Forever /\ (ts[i].asked = 0 \/ ts[i].in = ts[i].asked + 2)
  <2>1. \A i \in 1..n : ts[i] \in Timer
    BY <1>0
  <2>2. \A u \in Timer : u.in \in Nat
    BY <1>0 DEF Timer
  <2>3. \A i \in 1..n : ts[i].in < Forever /\ (ts[i].asked = 0 \/ ts[i].in = ts[i].asked + 2)
    BY <1>0 DEF Good
  <2> QED  BY <2>1, <2>2, <2>3
<1>8. \A i \in DOMAIN r : r[i].in < Forever /\ (r[i].asked = 0 \/ r[i].in = r[i].asked + 2)
  <2> SUFFICES ASSUME NEW i \in 1..n + 1 PROVE r[i].in < Forever /\ (r[i].asked = 0 \/ r[i].in = r[i].asked + 2)
    BY <1>5
  <2>1. CASE i < m
    BY <1>6, <1>7, <2>1
  <2>2. CASE i = m
    BY <1>1, <1>6, <2>2
  <2>3. CASE i > m
    BY <1>6, <1>7, <2>3
  <2>4. i < m \/ i = m \/ i > m
    BY <1>0
  <2> QED  BY <2>1, <2>2, <2>3, <2>4
<1>9. ASSUME NEW i \in 1..n + 1, NEW j \in 1..n + 1, i < j PROVE r[i].in <= r[j].in
  <2>0. ASSUME NEW k \in 1..n PROVE (k >= m => ts[k].in > t.in) /\ (k < m => ts[k].in <= t.in)
    <3>1. k >= m <=> ts[k].in > t.in
      BY <1>0, <1>2
    <3>2. ts[k].in \in Nat /\ t.in \in Nat /\ k \in Nat /\ m \in Nat
      BY <1>0, <1>1, <1>7
    <3> QED  BY <3>1, <3>2
  <2>00. \A k, l \in 1..n : k < l => ts[k].in <= ts[l].in
    BY <1>0 DEF Good
  <2>1. CASE j < m
    BY <1>0, <1>6, <1>9, <2>00, <2>1
  <2>2. CASE j = m
    BY <1>0, <1>6, <1>9, <2>0, <2>2
  <2>3. CASE j > m /\ i < m
    <3>2. r[i] = ts[i] /\ r[j] = ts[j - 1] /\ i \in 1..n /\ j - 1 \in 1..n
      BY <1>0, <1>6, <1>9, <2>3
    <3>3. j - 1 >= m
      BY <1>0, <2>3
    <3> QED  BY <1>1, <1>7, <2>0, <2>3, <3>2, <3>3
  <2>4. CASE j > m /\ i = m
    <3>1. r[i] = t /\ r[j] = ts[j - 1] /\ j - 1 \in 1..n /\ j - 1 >= m
      BY <1>0, <1>6, <1>9, <2>4
    <3> QED  BY <1>1, <1>7, <2>0, <3>1
  <2>5. CASE j > m /\ i > m
    <3>1. r[i] = ts[i - 1] /\ r[j] = ts[j - 1] /\ i - 1 \in 1..n /\ j - 1 \in 1..n /\ i - 1 < j - 1
      BY <1>0, <1>6, <1>9, <2>5
    <3> QED  BY <2>00, <3>1
  <2>6. (j < m) \/ (j = m) \/ (j > m /\ i < m) \/ (j > m /\ i = m) \/ (j > m /\ i > m)
    BY <1>0
  <2> QED  BY <2>1, <2>2, <2>3, <2>4, <2>5, <2>6
<1>10. \A i \in 1..n : ts[i].call # f
  BY <1>0 DEF CallsOf
<1>11. ASSUME NEW i \in 1..n + 1, NEW j \in 1..n + 1, r[i].call = r[j].call PROVE i = j
  <2>1. \A k, l \in 1..n : ts[k].call = ts[l].call => k = l
    BY <1>0 DEF Good
  <2>2. \A k \in 1..n + 1 : k # m => (k < m \/ k > m)
    BY <1>0
  <2>3. CASE i = m \/ j = m
    BY <1>1, <1>6, <1>10, <1>11, <2>2, <2>3
  <2>4. CASE i < m /\ j < m
    BY <1>6, <1>11, <2>1, <2>4
  <2>5. CASE i > m /\ j > m
    <3>1. i - 1 = j - 1
      BY <1>6, <1>11, <2>1, <2>5
    <3> QED  BY <3>1
  <2>6. CASE i < m /\ j > m
    <3>1. i = j - 1
      BY <1>6, <1>11, <2>1, <2>6
    <3> QED  BY <1>0, <2>6, <3>1
  <2>7. CASE i > m /\ j < m
    <3>1. j = i - 1
      BY <1>6, <1>11, <2>1, <2>7
    <3> QED  BY <1>0, <2>7, <3>1
  <2> QED  BY <2>2, <2>3, <2>4, <2>5, <2>6, <2>7
<1>12. CallsOf(r) = CallsOf(ts) \cup {f}
  <2>1. ASSUME NEW i \in 1..n + 1 PROVE r[i].call = f \/ \E k \in 1..n : r[i].call = ts[k].call
    <3>1. CASE i < m
      BY <1>6, <3>1
    <3>2. CASE i = m
      BY <1>1, <1>6, <3>2
    <3>3. CASE i > m
      BY <1>6, <3>3
    <3>4. i < m \/ i = m \/ i > m
      BY <1>0
    <3> QED  BY <3>1, <3>2, <3>3, <3>4
  <2>2. ASSUME NEW k \in 1..n PROVE \E i \in 1..n + 1 : r[i].call = ts[k].call
    <3>1. CASE k < m
      <4>1. k \in 1..n + 1
        BY <1>0
      <4> QED  BY <1>6, <3>1, <4>1
    <3>2. CASE k >= m
      <4>1. k + 1 \in 1..n + 1 /\ k + 1 > m /\ (k + 1) - 1 = k
        BY <1>0, <3>2
      <4>2. r[k + 1] = ts[(k + 1) - 1]
        BY <1>6, <4>1
      <4> QED  BY <4>1, <4>2
    <3> QED  BY <1>0, <3>1, <3>2
  <2>3. r[m].call = f /\ m \in 1..n + 1
    BY <1>1, <1>6
  <2>4. CallsOf(r) = {r[i].call : i \in 1..n + 1} /\ CallsOf(ts) = {ts[i].call : i \in 1..n}
    BY <1>0, <1>5 DEF CallsOf
  <2>5. CallsOf(r) \subseteq CallsOf(ts) \cup {f}
    BY <2>1, <2>4
  <2>6. CallsOf(ts) \subseteq CallsOf(r)
    BY <2>2, <2>4
  <2>7. f \in CallsOf(r)
    BY <2>3, <2>4
  <2> QED  BY <2>5, <2>6, <2>7
<1>13. Good(r)
  BY <1>4, <1>5, <1>8, <1>9, <1>11 DEF Good
<1> QED  BY <1>3, <1>12, <1>13

\* The timer of f goes, and the others stay as they are.
LEMMA RemoveTimerIs ==
  ASSUME NEW ts, Good(ts), NEW f
  PROVE  /\ Good(RemoveTimer(ts, f)) /\ CallsOf(RemoveTimer(ts, f)) = CallsOf(ts) \ {f}
         /\ \A x \in DOMAIN RemoveTimer(ts, f) : \E k \in DOMAIN ts : RemoveTimer(ts, f)[x] = ts[k]
<1> DEFINE n == Len(ts)  its == {i \in DOMAIN ts : ts[i].call = f}
<1>0. n \in Nat /\ DOMAIN ts = 1..n /\ ts \in Seq(Timer)
  BY DEF Good
<1>1. CASE its = {}
  <2>1. RemoveTimer(ts, f) = ts /\ f \notin CallsOf(ts)
    BY <1>1 DEF RemoveTimer, CallsOf
  <2> QED  BY <2>1
<1>2. CASE its # {}
  <2>1. its \in SUBSET Nat
    BY <1>0
  <2>2. PICK m \in 1..n : m = Min(its) /\ ts[m].call = f
    BY <1>0, <1>2, <2>1, MinIs
  <2> DEFINE r == RemoveAt(ts, m)
  <2>3. RemoveTimer(ts, f) = r
    BY <1>2, <2>2 DEF RemoveTimer
  <2> HIDE DEF its
  <2>4. /\ r \in Seq(Timer) /\ Len(r) = n - 1
        /\ \A i \in 1..n - 1 : r[i] = IF i < m THEN ts[i] ELSE ts[i + 1]
    BY <1>0, RemoveIs
  <2> HIDE DEF r
  <2> DEFINE o(i) == IF i < m THEN i ELSE i + 1
  <2>5. /\ DOMAIN r = 1..n - 1
        /\ \A i \in 1..n - 1 : o(i) \in 1..n /\ o(i) # m /\ r[i] = ts[o(i)]
        /\ \A i, j \in 1..n - 1 : (i < j => o(i) < o(j)) /\ (o(i) = o(j) => i = j)
        /\ \A k \in 1..n : k # m => \E i \in 1..n - 1 : o(i) = k
    <3>1. DOMAIN r = 1..n - 1
      BY <1>0, <2>4
    <3>2. \A i \in 1..n - 1 : o(i) \in 1..n /\ o(i) # m
      BY <1>0
    <3>3. \A i \in 1..n - 1 : r[i] = ts[o(i)]
      BY <2>4
    <3>4. \A i, j \in 1..n - 1 : (i < j => o(i) < o(j)) /\ (o(i) = o(j) => i = j)
      BY <1>0
    <3>5. ASSUME NEW k \in 1..n, k # m PROVE \E i \in 1..n - 1 : o(i) = k
      <4>1. CASE k < m
        <5>1. k \in 1..n - 1 /\ o(k) = k
          BY <1>0, <4>1
        <5> QED  BY <5>1
      <4>2. CASE k > m
        <5>1. k - 1 \in 1..n - 1 /\ o(k - 1) = k
          BY <1>0, <4>2
        <5> QED  BY <5>1
      <4> QED  BY <1>0, <3>5, <4>1, <4>2
    <3> QED  BY <3>1, <3>2, <3>3, <3>4, <3>5
  <2> HIDE DEF o
  <2>6. Good(r)
    <3>1. \A i \in 1..n : ts[i].in < Forever /\ (ts[i].asked = 0 \/ ts[i].in = ts[i].asked + 2)
      BY <1>0 DEF Good
    <3>2. /\ \A i, j \in 1..n : i < j => ts[i].in <= ts[j].in
          /\ \A i, j \in 1..n : ts[i].call = ts[j].call => i = j
      BY <1>0 DEF Good
    <3>3. \A i \in 1..n - 1 : r[i].in < Forever /\ (r[i].asked = 0 \/ r[i].in = r[i].asked + 2)
      BY <2>5, <3>1
    <3>4. ASSUME NEW i \in 1..n - 1, NEW j \in 1..n - 1, i < j PROVE r[i].in <= r[j].in
      <4>1. /\ o(i) \in 1..n /\ o(j) \in 1..n /\ o(i) < o(j)
            /\ r[i] = ts[o(i)] /\ r[j] = ts[o(j)]
        BY <2>5, <3>4
      <4> QED  BY <3>2, <4>1
    <3>5. ASSUME NEW i \in 1..n - 1, NEW j \in 1..n - 1, r[i].call = r[j].call PROVE i = j
      <4>1. /\ o(i) \in 1..n /\ o(j) \in 1..n /\ r[i] = ts[o(i)] /\ r[j] = ts[o(j)]
        BY <2>5
      <4>2. o(i) = o(j)
        BY <3>2, <3>5, <4>1
      <4> QED  BY <2>5, <4>2
    <3> QED  BY <2>4, <2>5, <3>3, <3>4, <3>5 DEF Good
  <2>7. CallsOf(r) = CallsOf(ts) \ {f}
    <3>1. \A k \in 1..n : ts[k].call = f => k = m
      BY <1>0, <2>2 DEF Good
    <3>2. CallsOf(r) = {r[i].call : i \in 1..n - 1} /\ CallsOf(ts) = {ts[i].call : i \in 1..n}
      BY <1>0, <2>5 DEF CallsOf
    <3>3. ASSUME NEW i \in 1..n - 1 PROVE r[i].call \in CallsOf(ts) \ {f}
      <4>1. o(i) \in 1..n /\ o(i) # m /\ r[i] = ts[o(i)]
        BY <2>5
      <4> QED  BY <3>1, <3>2, <4>1
    <3>4. ASSUME NEW k \in 1..n, ts[k].call # f PROVE \E i \in 1..n - 1 : r[i].call = ts[k].call
      <4>1. PICK i \in 1..n - 1 : o(i) = k
        BY <2>2, <2>5, <3>4
      <4> QED  BY <2>5, <4>1
    <3>5. CallsOf(r) \subseteq CallsOf(ts) \ {f}
      BY <3>2, <3>3
    <3>6. CallsOf(ts) \ {f} \subseteq CallsOf(r)
      BY <3>2, <3>4
    <3> QED  BY <3>5, <3>6
  <2>8. \A x \in DOMAIN r : \E k \in DOMAIN ts : r[x] = ts[k]
    BY <1>0, <2>5
  <2> QED  BY <2>3, <2>6, <2>7, <2>8
<1> QED  BY <1>1, <1>2

\* A timer set again is one timer still.
LEMMA RearmIs ==
  ASSUME NEW ts, Good(ts), NEW ms \in Nat, 2 * ms + 2 < Forever, NEW f \in Call
  PROVE  Good(Rearm(ts, ms, f)) /\ CallsOf(Rearm(ts, ms, f)) = CallsOf(ts) \cup {f}
<1> DEFINE r == RemoveTimer(ts, f)
<1>1. Good(r) /\ CallsOf(r) = CallsOf(ts) \ {f}
  BY RemoveTimerIs
<1>2. Rearm(ts, ms, f) = AddTimer(r, ms, f)
  BY DEF Rearm
<1> HIDE DEF r
<1>3. Good(AddTimer(r, ms, f)) /\ CallsOf(AddTimer(r, ms, f)) = CallsOf(r) \cup {f}
  BY <1>1, AddTimerIs
<1> QED  BY <1>1, <1>2, <1>3

Aged(u) == [u EXCEPT !.in = Less(@), !.asked = Less(@)]

LEMMA AgedIs ==
  ASSUME NEW u \in Timer
  PROVE  /\ Aged(u).in = Less(u.in) /\ Aged(u).asked = Less(u.asked)
         /\ Aged(u).call = u.call /\ Aged(u) \in Timer
<1>1. u = [in |-> u.in, asked |-> u.asked, call |-> u.call]
  BY DEF Timer
<1>2. Aged(u) = [in |-> Less(u.in), asked |-> Less(u.asked), call |-> u.call]
  <2> DEFINE v == [u EXCEPT !.in = Less(u.in)]
  <2>1. v = [in |-> Less(u.in), asked |-> u.asked, call |-> u.call]
    BY <1>1
  <2>2. Aged(u) = [v EXCEPT !.asked = Less(v.asked)]
    BY DEF Aged
  <2> HIDE DEF v
  <2>3. v.asked = u.asked
    BY <2>1
  <2> QED  BY <2>1, <2>2, <2>3
<1>3. u.in \in 0..Forever /\ u.asked \in 0..Forever /\ u.call \in Call
  BY DEF Timer
<1>4. Forever \in Nat
  BY EventLoopAssumption
<1>5. Less(u.in) \in 0..Forever /\ Less(u.asked) \in 0..Forever
  BY <1>3, <1>4 DEF Less
<1> HIDE <1>1
<1> QED  BY <1>2, <1>3, <1>5 DEF Timer

\* Time leaves the order and the owners as they are.
LEMMA TickIs ==
  ASSUME NEW ts, Good(ts),
         NEW r, r = [i \in DOMAIN ts |-> Aged(ts[i])]
  PROVE  /\ Good(r) /\ CallsOf(r) = CallsOf(ts) /\ DOMAIN r = DOMAIN ts
         /\ \A i \in DOMAIN ts : r[i].in = Less(ts[i].in) /\ ts[i].in \in Nat
<1> DEFINE n == Len(ts)
<1>0. n \in Nat /\ DOMAIN ts = 1..n /\ ts \in Seq(Timer) /\ Forever \in Nat
  BY EventLoopAssumption DEF Good
<1>1. \A i \in 1..n : ts[i] \in Timer
  BY <1>0
<1>2. \A u \in Timer : u.in \in Nat /\ u.asked \in Nat /\ u.call \in Call /\ u.in <= Forever /\ u.asked <= Forever
  BY <1>0 DEF Timer
<1>4. \A i \in 1..n : /\ r[i] = Aged(ts[i]) /\ r[i] \in Timer
                      /\ r[i].in = Less(ts[i].in) /\ r[i].asked = Less(ts[i].asked) /\ r[i].call = ts[i].call
  BY <1>0, <1>1, AgedIs
<1>5. DOMAIN r = 1..n
  BY <1>0
<1>8. r \in Seq(Timer)
  <2>1. r = [i \in 1..n |-> r[i]]
    BY <1>0
  <2> QED  BY <1>0, <1>4, <2>1
<1>9. ASSUME NEW i \in 1..n PROVE r[i].in < Forever /\ (r[i].asked = 0 \/ r[i].in = r[i].asked + 2)
  <2>1. ts[i].in \in Nat /\ ts[i].asked \in Nat /\ ts[i].in < Forever /\ (ts[i].asked = 0 \/ ts[i].in = ts[i].asked + 2)
    BY <1>0, <1>1, <1>2 DEF Good
  <2>2. Less(ts[i].in) < Forever /\ (Less(ts[i].asked) = 0 \/ Less(ts[i].in) = Less(ts[i].asked) + 2)
    BY <1>0, <2>1 DEF Less
  <2> QED  BY <1>4, <2>2
<1>10. ASSUME NEW i \in 1..n, NEW j \in 1..n, i < j PROVE r[i].in <= r[j].in
  <2>1. ts[i].in \in Nat /\ ts[j].in \in Nat /\ ts[i].in <= ts[j].in
    BY <1>0, <1>1, <1>2, <1>10 DEF Good
  <2>2. Less(ts[i].in) <= Less(ts[j].in)
    BY <2>1 DEF Less
  <2> QED  BY <1>4, <2>2
<1>11. ASSUME NEW i \in 1..n, NEW j \in 1..n, r[i].call = r[j].call PROVE i = j
  BY <1>0, <1>4, <1>11 DEF Good
<1>12. Good(r)
  BY <1>5, <1>8, <1>9, <1>10, <1>11 DEF Good
<1>13. CallsOf(r) = CallsOf(ts)
  BY <1>0, <1>4, <1>5 DEF CallsOf
<1>14. \A i \in DOMAIN ts : r[i].in = Less(ts[i].in) /\ ts[i].in \in Nat
  BY <1>0, <1>1, <1>2, <1>4
<1> QED  BY <1>0, <1>5, <1>12, <1>13, <1>14

-----------------------------------------------------------------------------
(* The invariant *)

Types ==
    /\ open \in BOOLEAN /\ phase \in Phase
    /\ batch \subseteq Fd /\ later \in Seq(Session)
    /\ conn \in [Conn -> Client] /\ requests \in 0..MaxRequests
    /\ waits \in Waits
    /\ packet \in [Session -> {"none", "hello", "clock", "bye"}] /\ answer \in BOOLEAN
    /\ session \in [Session -> BOOLEAN]
    /\ peers \subseteq PeerId /\ cut \subseteq Session
    /\ wires \in [Session -> SUBSET PeerId]

\* The daemon waits in some call, and peers send to peers.
Calling == phase = "blocked" => waits # <<>>
Wired == \A s \in Session : wires[s] \subseteq peers

\* What is open has its handler, and a handler that nobody removed is of
\* nobody.
Table ==
    /\ DOMAIN sockets \subseteq Fd /\ Range(sockets) \subseteq Owner
    /\ DOMAIN handlers \subseteq Fd
    /\ \A fd \in DOMAIN handlers :
          handlers[fd] = IF fd \in DOMAIN sockets THEN sockets[fd] ELSE <<>>
    /\ DOMAIN sockets \subseteq DOMAIN handlers
    /\ watched = IF open THEN DOMAIN sockets ELSE {}

\* The timers are those of the sessions and of the made peer, in order.
Owned ==
    /\ Good(timers)
    /\ \A s \in Session : session[s] <=> <<"watchdog", s>> \in CallsOf(timers)
    /\ Made \in peers <=> Made \in CallsOf(timers)

\* The time to sleep was taken from the timers, and these have not changed
\* since.
Rested ==
    /\ sleep \in 0..Forever
    /\ phase \in {"first", "wait"} => \A i \in DOMAIN timers : sleep <= timers[i].in

LInv == Types /\ Calling /\ Wired /\ Table /\ Owned /\ Rested

-----------------------------------------------------------------------------
(* The table of descriptors *)

\* No socket is nobody's.
LEMMA SomebodysIs == <<>> \notin Owner
<1>1. <<>> # <<"listen">> /\ <<>> # <<"server">> /\ <<>> # Made
  BY DEF Made
<1>2. \A c : <<>> # <<"client", c>>
  OBVIOUS
<1> QED  BY <1>1, <1>2 DEF Owner

LEMMA ShutIs ==
  ASSUME Table, NEW fd, Shut(fd), UNCHANGED open
  PROVE  Table'
<1>1. /\ DOMAIN sockets' = DOMAIN sockets \ {fd} /\ \A d \in DOMAIN sockets \ {fd} : sockets'[d] = sockets[d]
      /\ DOMAIN handlers' = DOMAIN handlers \ {fd} /\ \A d \in DOMAIN handlers \ {fd} : handlers'[d] = handlers[d]
      /\ watched' = watched \ {fd}
  BY DEF Shut, RemoveFd, Restrict
<1>2. Range(sockets') \subseteq Range(sockets)
  BY <1>1 DEF Range
<1> QED  BY <1>1, <1>2 DEF Table

LEMMA SocketIs ==
  ASSUME Table, NEW f \in Owner, open, Fd \ DOMAIN sockets # {}, Socket(f), UNCHANGED open
  PROVE  Table'
<1> DEFINE fd == Min(Fd \ DOMAIN sockets)
<1>1. fd \in Fd \ DOMAIN sockets
  BY EventLoopAssumption, MinIs
<1>2. /\ sockets' = AddFd(sockets, fd, f) /\ handlers' = AddFd(handlers, fd, f)
      /\ watched' = watched \cup {fd}
  BY DEF Socket
<1> HIDE DEF fd
<1>3. /\ DOMAIN sockets' = DOMAIN sockets \cup {fd} /\ sockets'[fd] = f
      /\ \A d \in DOMAIN sockets : sockets'[d] = sockets[d]
      /\ DOMAIN handlers' = DOMAIN handlers \cup {fd} /\ handlers'[fd] = f
      /\ \A d \in DOMAIN handlers : d # fd => handlers'[d] = handlers[d]
  BY <1>1, <1>2 DEF AddFd
<1>4. Range(sockets') \subseteq Range(sockets) \cup {f}
  BY <1>3 DEF Range
<1> QED  BY <1>1, <1>2, <1>3, <1>4 DEF Table

LEMMA NobodyIs ==
  ASSUME Table, NEW fd \in Fd, Handler(fd) = <<>>, OnNobody(fd), UNCHANGED open
  PROVE  Table'
<1>1. fd \notin DOMAIN sockets
  <2> SUFFICES ASSUME fd \in DOMAIN sockets PROVE FALSE
    OBVIOUS
  <2>1. Handler(fd) = sockets[fd] /\ sockets[fd] \in Owner
    BY DEF Table, Handler, Range
  <2> QED  BY <2>1, SomebodysIs
<1>2. UNCHANGED <<sockets, watched>>
  BY DEF OnNobody, control
<1>3. /\ DOMAIN handlers' = DOMAIN handlers \cup {fd} /\ handlers'[fd] = <<>>
      /\ \A d \in DOMAIN handlers : d # fd => handlers'[d] = handlers[d]
  BY DEF OnNobody, AddFd
<1> QED  BY <1>1, <1>2, <1>3 DEF Table

\* What happens to the table in one step.
Moves == \/ UNCHANGED Tables
         \/ \E fd : Shut(fd)
         \/ \E f \in Owner : open /\ Fd \ DOMAIN sockets # {} /\ Socket(f)
         \/ \E fd \in Fd : Handler(fd) = <<>> /\ OnNobody(fd)

LEMMA RemoveMoves ==
  ASSUME NEW ids, RemovePeers(ids)
  PROVE  Moves
<1>1. CASE Made \in ids
  BY <1>1 DEF RemovePeers, Moves
<1>2. CASE Made \notin ids
  BY <1>2 DEF RemovePeers, Moves, Tables
<1> QED  BY <1>1, <1>2

LEMMA ClientMovesTable ==
  ASSUME NEW c \in Conn, OnClient(c) \/ Write(c)
  PROVE  Moves
<1>1. CASE Write(c)
  BY <1>1 DEF Write, Moves
<1>2. CASE Closed(c)
  BY <1>2 DEF Closed, Moves
<1>3. CASE Blocks(c) \/ NoMethod(c)
  BY <1>3 DEF Blocks, NoMethod, Moves
<1>4. CASE Command(c)
  <2>1. CASE Other \/ Connect \/ Disconnect
    BY <2>1 DEF Other, Connect, Disconnect, Moves
  <2>2. CASE Create
    BY <2>2 DEF Create, Owner, Moves
  <2>3. CASE RemovePeer
    BY <2>3, RemoveMoves DEF RemovePeer
  <2> QED  BY <1>4, <2>1, <2>2, <2>3 DEF Command
<1> QED  BY <1>1, <1>2, <1>3, <1>4 DEF OnClient

LEMMA HandlersMove ==
  ASSUME Types, HandleFd
  PROVE  Moves
<1>0. PICK fd \in batch :
          \/ Handler(fd) = <<"listen">> /\ OnListen
          \/ Handler(fd) = <<"server">> /\ OnServer
          \/ Handler(fd) = Made /\ OnMade
          \/ Handler(fd) = <<>> /\ OnNobody(fd)
          \/ \E c \in Conn : Handler(fd) = <<"client", c>> /\ OnClient(c)
  BY DEF HandleFd
<1>1. CASE OnListen
  <2>1. CASE UNCHANGED <<sockets, conn, handlers, watched>>
    BY <2>1 DEF Tables, Moves
  <2>2. CASE open /\ Fd \ DOMAIN sockets # {} /\ \E c \in Conn : Socket(<<"client", c>>)
    BY <2>2 DEF Owner, Moves
  <2> QED  BY <1>1, <2>1, <2>2 DEF OnListen
<1>2. CASE OnServer
  BY <1>2 DEF OnServer, control, Tables, Moves
<1>3. CASE OnMade
  BY <1>3 DEF OnMade, queues, control, Tables, Moves
<1>4. CASE Handler(fd) = <<>> /\ OnNobody(fd)
  BY <1>4 DEF Types, Moves
<1> QED  BY <1>0, <1>1, <1>2, <1>3, <1>4, ClientMovesTable

LEMMA TableKeeps ==
  ASSUME Types, Table, LNext
  PROVE  Table'
<1>1. ASSUME Moves, UNCHANGED open PROVE Table'
  <2>1. CASE UNCHANGED Tables
    BY <1>1, <2>1 DEF Tables, Table
  <2> QED  BY <1>1, <2>1, ShutIs, SocketIs, NobodyIs DEF Moves
<1>2. CASE Close /\ UNCHANGED <<control, network, midi>>
  BY <1>2 DEF Close, control, Table
<1>3. CASE UNCHANGED <<Tables, open>>
  BY <1>3 DEF Tables, Table
<1>4. CASE HandleFd
  BY <1>1, <1>4, HandlersMove DEF HandleFd
<1>5. CASE Resume
  BY <1>1, <1>5, ClientMovesTable DEF Resume
<1>6. CASE RunLater
  <2>1. UNCHANGED open
    BY <1>6 DEF RunLater
  <2>2. CASE \E ids : RemovePeers(ids)
    BY <1>1, <2>1, <2>2, RemoveMoves
  <2>3. CASE UNCHANGED <<handlers, watched, sockets>>
    BY <1>3, <2>1, <2>3 DEF Tables
  <2> QED  BY <1>6, <2>2, <2>3 DEF RunLater
<1>7. ASSUME Step \/ RunTimer \/ Time \/ Others
      PROVE  UNCHANGED <<Tables, open>>
  <2>1. CASE Step
    BY <2>1 DEF Step, Begin, Wait, Handled, NoneExpired, queues, control, Tables
  <2>2. CASE RunTimer
    BY <2>2 DEF RunTimer, control, Tables
  <2>3. CASE Time
    BY <2>3 DEF Time, Tick, control, Tables
  <2>4. CASE Others
    BY <2>4 DEF Others, Arrive, Read, Leave, Ask, Say, Answer, Inside, pvars, queues, Tables
  <2> QED  BY <1>7, <2>1, <2>2, <2>3, <2>4
<1>8. CASE Signal
  <2>1. CASE UNCHANGED <<open, queues, batch, sleep, control, network, midi>>
    BY <1>3, <2>1 DEF queues, control, Tables
  <2> QED  BY <1>2, <1>8, <2>1 DEF Signal
<1> QED  BY <1>3, <1>4, <1>5, <1>6, <1>7, <1>8 DEF LNext, Loop

-----------------------------------------------------------------------------
(* The owners of timers *)

Dog(s) == <<"watchdog", s>>

LEMMA DogsDiffer ==
  /\ \A s : Dog(s) # Made
  /\ \A s, q : Dog(s) = Dog(q) => s = q
  /\ \A s \in Session : Dog(s) \in Call
  /\ Made \in Call
<1>1. \A s : Dog(s) # Made
  BY DEF Dog, Made
<1>2. \A s, q : Dog(s) = Dog(q) => s = q
  BY DEF Dog
<1> QED  BY <1>1, <1>2 DEF Dog, Call

LEMMA PeersDiffer == \A s : Net(s) # Made /\ Alsa(s) # Made
BY DEF Net, Alsa, Made

\* A record that goes takes its timer with it.
LEMMA GoneIs ==
  ASSUME Owned, session \in [Session -> BOOLEAN], NEW s \in Session, End(s)
  PROVE  Owned'
<1>1. /\ session' = [session EXCEPT ![s] = FALSE] /\ timers' = RemoveTimer(timers, Dog(s))
      /\ UNCHANGED peers
  BY DEF End, Dog, midi
<1>2. Good(timers') /\ CallsOf(timers') = CallsOf(timers) \ {Dog(s)}
  BY <1>1, RemoveTimerIs DEF Owned
<1>3. \A q \in Session : session'[q] <=> Dog(q) \in CallsOf(timers')
  <2> SUFFICES ASSUME NEW q \in Session PROVE session'[q] <=> Dog(q) \in CallsOf(timers')
    OBVIOUS
  <2>1. CASE q = s
    BY <1>1, <1>2, <2>1
  <2>2. CASE q # s
    <3>1. session'[q] = session[q]
      BY <1>1, <2>2
    <3>2. Dog(q) # Dog(s)
      BY <2>2, DogsDiffer
    <3>3. session[q] <=> Dog(q) \in CallsOf(timers)
      BY DEF Owned, Dog
    <3> QED  BY <1>2, <3>1, <3>2, <3>3
  <2> QED  BY <2>1, <2>2
<1>4. Made \in peers' <=> Made \in CallsOf(timers')
  BY <1>1, <1>2, DogsDiffer DEF Owned
<1> QED  BY <1>2, <1>3, <1>4 DEF Owned, Dog

\* A clock sets the timer of the record again, or the timer comes with it.
LEMMA ClockIs ==
  ASSUME Owned, session \in [Session -> BOOLEAN], NEW s \in Session, Clock(s),
         session' = [session EXCEPT ![s] = TRUE], Made \in peers' <=> Made \in peers
  PROVE  Owned'
<1>1. timers' = Rearm(timers, Watchdog, Dog(s))
  BY DEF Clock, Dog
<1>2. Good(timers') /\ CallsOf(timers') = CallsOf(timers) \cup {Dog(s)}
  <2>1. Watchdog \in Nat /\ 2 * Watchdog + 2 < Forever /\ Dog(s) \in Call
    BY EventLoopAssumption, DogsDiffer
  <2> QED  BY <1>1, <2>1, RearmIs DEF Owned
<1>3. \A q \in Session : session'[q] <=> Dog(q) \in CallsOf(timers')
  <2> SUFFICES ASSUME NEW q \in Session PROVE session'[q] <=> Dog(q) \in CallsOf(timers')
    OBVIOUS
  <2>1. CASE q = s
    BY <1>2, <2>1
  <2>2. CASE q # s
    <3>1. session'[q] = session[q]
      BY <2>2
    <3>2. Dog(q) # Dog(s)
      BY <2>2, DogsDiffer
    <3>3. session[q] <=> Dog(q) \in CallsOf(timers)
      BY DEF Owned, Dog
    <3> QED  BY <1>2, <3>1, <3>2, <3>3
  <2> QED  BY <2>1, <2>2
<1>4. Made \in peers' <=> Made \in CallsOf(timers')
  BY <1>2, DogsDiffer DEF Owned
<1> QED  BY <1>2, <1>3, <1>4 DEF Owned, Dog

\* The made peer comes and goes with its timer.
LEMMA MadeIs ==
  ASSUME Owned, NEW ts, timers' = ts, Good(ts), UNCHANGED session,
         \/ Made \in peers' /\ CallsOf(ts) = CallsOf(timers) \cup {Made}
         \/ Made \notin peers' /\ CallsOf(ts) = CallsOf(timers) \ {Made}
  PROVE  Owned'
<1>1. \A s \in Session : session'[s] <=> Dog(s) \in CallsOf(timers')
  BY DogsDiffer DEF Owned, Dog
<1>2. Made \in peers' <=> Made \in CallsOf(timers')
  OBVIOUS
<1> QED  BY <1>1, <1>2 DEF Owned, Dog

LEMMA SameIs ==
  ASSUME Owned, UNCHANGED <<timers, session>>, Made \in peers' <=> Made \in peers
  PROVE  Owned'
BY DEF Owned

\* Peers that are removed: the made one takes its timer with it.
LEMMA RemovedIs ==
  ASSUME Owned, NEW ids, RemovePeers(ids), UNCHANGED session
  PROVE  Owned'
<1>1. CASE Made \in ids
  <2>1. timers' = RemoveTimer(timers, Made) /\ Made \notin peers'
    BY <1>1 DEF RemovePeers
  <2>2. Good(timers') /\ CallsOf(timers') = CallsOf(timers) \ {Made}
    BY <2>1, RemoveTimerIs DEF Owned
  <2> QED  BY <2>1, <2>2, MadeIs
<1>2. CASE Made \notin ids
  BY <1>2, SameIs DEF RemovePeers
<1> QED  BY <1>1, <1>2

LEMMA ServerKeepsOwned ==
  ASSUME Types, Owned, OnServer
  PROVE  Owned'
<1>0. session \in [Session -> BOOLEAN]
  BY DEF Types
<1>1. PICK s \in Session :
          \/ packet[s] = "hello" /\ Begun(s)
          \/ packet[s] = "clock" /\ session[s] /\ Clock(s) /\ UNCHANGED <<session, midi>>
          \/ packet[s] = "bye" /\ session[s] /\ End(s)
          \/ packet[s] # "hello" /\ ~session[s] /\ UNCHANGED <<session, midi, timers, later>>
  BY DEF OnServer
<1>2. CASE Begun(s)
  <2>1. Made \in peers' <=> Made \in peers
    BY <1>2, PeersDiffer DEF Begun
  <2> QED  BY <1>0, <1>2, <2>1, ClockIs DEF Begun
<1>3. CASE session[s] /\ Clock(s) /\ UNCHANGED <<session, midi>>
  <2>1. session' = [session EXCEPT ![s] = TRUE]
    BY <1>0, <1>3
  <2> QED  BY <1>0, <1>3, <2>1, ClockIs DEF midi
<1>4. CASE End(s)
  BY <1>0, <1>4, GoneIs
<1>5. CASE UNCHANGED <<session, midi, timers, later>>
  BY <1>5, SameIs DEF midi
<1> QED  BY <1>1, <1>2, <1>3, <1>4, <1>5

LEMMA ClientKeepsOwned ==
  ASSUME Types, Owned, NEW c \in Conn, OnClient(c) \/ Write(c)
  PROVE  Owned'
<1>1. CASE Command(c)
  <2>0. UNCHANGED session
    BY <1>1 DEF Command
  <2>1. CASE Create
    <3>1. Made \notin CallsOf(timers)
      BY <2>1 DEF Create, Owned
    <3>2. Good(timers') /\ CallsOf(timers') = CallsOf(timers) \cup {Made}
      BY <2>1, <3>1, EventLoopAssumption, DogsDiffer, AddTimerIs DEF Create, Owned
    <3>3. Made \in peers'
      BY <2>1 DEF Create
    <3> QED  BY <2>0, <3>2, <3>3, MadeIs
  <2>2. CASE RemovePeer
    BY <2>0, <2>2, RemovedIs DEF RemovePeer
  <2>3. CASE Connect \/ Disconnect \/ Other
    BY <2>0, <2>3, SameIs DEF Connect, Disconnect, Other, midi
  <2> QED  BY <1>1, <2>1, <2>2, <2>3 DEF Command
<1>2. CASE Quiet
  BY <1>2, SameIs DEF Quiet, network, midi
<1> QED  BY <1>1, <1>2 DEF OnClient, Closed, Blocks, NoMethod, Write

LEMMA OwnedKeeps ==
  ASSUME Types, Owned, LNext
  PROVE  Owned'
<1>1. CASE HandleFd
  <2>0. PICK fd \in batch :
            \/ Handler(fd) = <<"listen">> /\ OnListen
            \/ Handler(fd) = <<"server">> /\ OnServer
            \/ Handler(fd) = Made /\ OnMade
            \/ Handler(fd) = <<>> /\ OnNobody(fd)
            \/ \E c \in Conn : Handler(fd) = <<"client", c>> /\ OnClient(c)
    BY <1>1 DEF HandleFd
  <2>1. CASE OnListen
    BY <2>1, SameIs DEF OnListen, Quiet, network, midi
  <2>2. CASE OnMade
    BY <2>2, SameIs DEF OnMade, queues, midi
  <2>3. CASE OnNobody(fd)
    BY <2>3, SameIs DEF OnNobody, network, midi
  <2> QED  BY <2>0, <2>1, <2>2, <2>3, ServerKeepsOwned, ClientKeepsOwned
<1>2. CASE RunTimer
  <2>1. ASSUME NEW s \in Session, End(s) PROVE Owned'
    BY <2>1, GoneIs DEF Types
  <2>2. CASE /\ Head(timers).call = Made /\ timers' = Rearm(timers, Retry, Made)
             /\ UNCHANGED <<session, midi, later>>
    <3>1. Made \in CallsOf(timers)
      <4>1. timers \in Seq(Timer) /\ timers # <<>>
        BY <1>2 DEF RunTimer, Owned, Good
      <4>2. 1 \in DOMAIN timers /\ Head(timers) = timers[1]
        BY <4>1
      <4> QED  BY <2>2, <4>2 DEF CallsOf
    <3>2. Good(timers') /\ CallsOf(timers') = CallsOf(timers) \cup {Made}
      BY <2>2, EventLoopAssumption, DogsDiffer, RearmIs DEF Owned
    <3>3. Made \in peers'
      BY <2>2, <3>1 DEF Owned, midi
    <3> QED  BY <2>2, <3>2, <3>3, MadeIs
  <2> QED  BY <1>2, <2>1, <2>2 DEF RunTimer
<1>3. CASE RunLater
  <2>1. UNCHANGED session
    BY <1>3 DEF RunLater
  <2>2. CASE \E ids : RemovePeers(ids)
    BY <2>1, <2>2, RemovedIs
  <2>3. CASE UNCHANGED <<handlers, watched, timers, sockets, answer, midi>>
    BY <2>1, <2>3, SameIs DEF midi
  <2> QED  BY <1>3, <2>2, <2>3 DEF RunLater
<1>4. CASE Time
  <2>1. timers' = [i \in DOMAIN timers |-> Aged(timers[i])] /\ UNCHANGED <<session, peers>>
    BY <1>4 DEF Time, Tick, Aged, network, midi
  <2>2. Good(timers') /\ CallsOf(timers') = CallsOf(timers)
    BY <2>1, TickIs DEF Owned
  <2> QED  BY <2>1, <2>2 DEF Owned
<1>5. CASE Step
  BY <1>5, SameIs DEF Step, Begin, Wait, Handled, NoneExpired, queues, network, midi
<1>6. CASE Resume
  BY <1>6, ClientKeepsOwned DEF Resume
<1>7. CASE Others
  BY <1>7, SameIs DEF Others, Arrive, Read, Leave, Ask, Say, Answer, Inside, pvars, queues, midi
<1>8. CASE Signal
  BY <1>8, SameIs DEF Signal, Close, queues, network, midi
<1> QED  BY <1>1, <1>2, <1>3, <1>4, <1>5, <1>6, <1>7, <1>8 DEF LNext, Loop

-----------------------------------------------------------------------------
(* The time to sleep *)

\* Where the handler of a client leaves the round.
LEMMA ClientGoesOn ==
  ASSUME NEW c \in Conn
  PROVE  /\ OnClient(c) => phase' \in {"fds", "blocked"} /\ (phase' = "blocked" => waits' # <<>>)
         /\ OnClient(c) \/ Write(c) => waits' \in Waits
         /\ Write(c) => phase' \in {"fds", "over"}
BY DEF OnClient, Closed, Blocks, NoMethod, Command, Write, Waits

\* What is left for later does not change when the loop may sleep, and the time
\* that passes is the same for it and for the timers.
LEMMA RestedKeeps ==
  ASSUME Types, Owned, Rested, LNext
  PROVE  Rested'
<1>0. /\ Forever \in Nat /\ timers \in Seq(Timer) /\ sleep \in 0..Forever
      /\ \A i \in DOMAIN timers : timers[i].in < Forever
  BY EventLoopAssumption DEF Owned, Good, Rested
<1>1. CASE Begin
  <2>1. CASE timers = <<>>
    <3>1. sleep' = Forever /\ timers' = timers /\ DOMAIN timers = {}
      BY <1>1, <2>1 DEF Begin, queues
    <3> QED  BY <1>0, <3>1 DEF Rested
  <2>2. CASE timers # <<>>
    <3>1. 1 \in DOMAIN timers /\ Head(timers) = timers[1]
      BY <1>0, <2>2
    <3>2. \A i \in DOMAIN timers : timers[i] \in Timer
      BY <1>0
    <3>3. \A u \in Timer : u.in \in Nat
      BY <1>0 DEF Timer
    <3>4. \A i \in DOMAIN timers : timers[1].in <= timers[i].in
      <4>1. \A i, j \in DOMAIN timers : i < j => timers[i].in <= timers[j].in
        BY DEF Owned, Good
      <4>2. \A i \in DOMAIN timers : i = 1 \/ 1 < i
        BY <1>0
      <4> QED  BY <3>1, <3>2, <3>3, <4>1, <4>2
    <3>5. sleep' = 2 * (timers[1].in \div 2) /\ timers' = timers
      <4>1. timers[1].in \in Nat
        BY <3>1, <3>2, <3>3
      <4>2. Milliseconds(timers[1]) = timers[1].in \div 2
        BY <4>1 DEF Milliseconds
      <4> QED  BY <1>1, <2>2, <3>1, <4>2 DEF Begin, queues
    <3>6. \A k \in Nat : 2 * (k \div 2) \in Nat /\ 2 * (k \div 2) <= k
      OBVIOUS
    <3>7. /\ sleep' \in Nat /\ sleep' <= timers[1].in /\ timers[1].in < Forever
          /\ timers[1].in \in Nat
      BY <1>0, <3>1, <3>2, <3>3, <3>5, <3>6
    <3>8. sleep' \in 0..Forever
      BY <1>0, <3>7
    <3>9. \A i \in DOMAIN timers' : sleep' <= timers'[i].in
      BY <3>2, <3>3, <3>4, <3>5, <3>7
    <3> QED  BY <3>8, <3>9 DEF Rested
  <2> QED  BY <2>1, <2>2
<1>2. CASE Time
  <2>0. timers' = [i \in DOMAIN timers |-> Aged(timers[i])] /\ UNCHANGED phase
    BY <1>2 DEF Time, Tick, Aged
  <2>1. DOMAIN timers' = DOMAIN timers /\ \A i \in DOMAIN timers : timers'[i].in = Less(timers[i].in) /\ timers[i].in \in Nat
    BY <2>0, TickIs DEF Owned
  <2>2. CASE phase = "wait"
    <3>1. sleep > 0 /\ \E i \in DOMAIN timers : timers[i].in > 0
      BY <1>2, <2>2 DEF Time, Tick
    <3>2. \A i \in DOMAIN timers : sleep <= timers[i].in
      BY <2>2 DEF Rested
    <3>3. sleep # Forever
      BY <1>0, <2>1, <3>1, <3>2
    <3>4. sleep' = sleep - 1
      BY <1>2, <2>2, <3>3 DEF Time, Tick
    <3>5. \A i \in DOMAIN timers : sleep - 1 <= Less(timers[i].in)
      BY <1>0, <2>1, <3>1, <3>2 DEF Less
    <3>6. sleep' \in 0..Forever
      BY <1>0, <3>1, <3>4
    <3> QED  BY <2>1, <3>4, <3>5, <3>6 DEF Rested
  <2>3. CASE phase # "wait"
    <3>1. sleep' = sleep /\ phase' \in {"fds", "blocked"}
      BY <1>2, <2>3 DEF Time, Tick
    <3> QED  BY <1>0, <3>1 DEF Rested
  <2> QED  BY <2>2, <2>3
<1>3. ASSUME UNCHANGED sleep, phase' \notin {"first", "wait"} PROVE Rested'
  BY <1>0, <1>3 DEF Rested
<1>4. ASSUME UNCHANGED <<sleep, timers>>, phase' \in {"first", "wait"} => phase \in {"first", "wait"}
      PROVE Rested'
  BY <1>4 DEF Rested
<1>5. CASE HandleFd
  <2>0. UNCHANGED sleep /\ phase = "fds"
    BY <1>5 DEF HandleFd
  <2>1. phase' \in {"fds", "blocked", "over"}
    <3>1. ASSUME OnServer \/ OnListen \/ OnMade \/ \E fd : OnNobody(fd) PROVE UNCHANGED phase
      BY <3>1 DEF OnServer, OnListen, OnMade, OnNobody
    <3>2. ASSUME NEW c \in Conn, OnClient(c) PROVE phase' \in {"fds", "blocked"}
      BY <3>2, ClientGoesOn
    <3> QED  BY <1>5, <2>0, <3>1, <3>2 DEF HandleFd
  <2> QED  BY <1>3, <2>0, <2>1
<1>6. CASE RunTimer
  <2>1. UNCHANGED sleep /\ phase' \in {"timers", "over"}
    BY <1>6 DEF RunTimer
  <2> QED  BY <1>3, <2>1
<1>7. CASE RunLater
  <2>1. UNCHANGED sleep
    BY <1>7 DEF RunLater
  <2>2. CASE phase = "first"
    <3>1. ASSUME NEW x \in DOMAIN timers' PROVE \E k \in DOMAIN timers : timers'[x] = timers[k]
      <4>1. CASE timers' = RemoveTimer(timers, Made)
        BY <4>1, RemoveTimerIs DEF Owned
      <4>2. CASE UNCHANGED timers
        BY <4>2
      <4> QED  BY <1>7, <4>1, <4>2 DEF RunLater, RemovePeers
    <3> QED  BY <1>0, <2>1, <2>2, <3>1 DEF Rested
  <2>3. CASE phase \in {"second", "third"}
    <3>1. phase' \in {phase, "timers", "begin", "over"}
      <4>1. \A q : Past(phase, q) \in {phase, "timers", "begin", "over"}
        BY <2>3 DEF Past, Round
      <4> QED  BY <1>7, <4>1 DEF RunLater
    <3> QED  BY <1>3, <2>1, <2>3, <3>1
  <2> QED  BY <1>7, <2>2, <2>3 DEF RunLater
<1>8. CASE Wait(Ready)
  <2>1. UNCHANGED <<sleep, timers>> /\ phase = "wait"
    BY <1>8 DEF Wait, queues
  <2> QED  BY <1>4, <2>1
<1>9. CASE Handled \/ NoneExpired
  <2>1. UNCHANGED <<sleep, timers>>
    BY <1>9 DEF Handled, NoneExpired, queues
  <2>2. phase' \in {"second", "timers", "third", "begin", "over"}
    <3>1. \A q : Past("second", q) \in {"second", "timers"} /\ Past("third", q) \in {"third", "begin", "over"}
      BY DEF Past, Round
    <3> QED  BY <1>9, <3>1 DEF Handled, NoneExpired
  <2> QED  BY <1>3, <2>1, <2>2
<1>10. CASE Resume
  <2>1. UNCHANGED sleep /\ phase' \in {"fds", "blocked", "over"}
    BY <1>10, ClientGoesOn DEF Resume
  <2> QED  BY <1>3, <2>1
<1>11. CASE Others
  BY <1>4, <1>11 DEF Others, Arrive, Read, Leave, Ask, Say, Answer, Inside, pvars, queues
<1>12. CASE Signal
  BY <1>4, <1>12 DEF Signal, Close, queues
<1> QED  BY <1>1, <1>2, <1>5, <1>6, <1>7, <1>8, <1>9, <1>10, <1>11, <1>12 DEF LNext, Loop, Step

-----------------------------------------------------------------------------
(* Types *)

Clients == conn \in [Conn -> Client]

LEMMA ClientFields ==
  ASSUME NEW k \in Client
  PROVE  /\ k.inbox \in Request \cup {"none", "joined"} /\ k.owed \in BOOLEAN /\ k.unread \in 0..Room
         /\ \A x \in {"away", "waiting", "up", "left", "reset", "gone"} :
               [k EXCEPT !.state = x] \in Client
         /\ \A x \in Request \cup {"none", "joined"} : [k EXCEPT !.inbox = x] \in Client
         /\ \A x \in BOOLEAN : [k EXCEPT !.owed = x] \in Client
         /\ \A x \in 0..Room : [k EXCEPT !.unread = x] \in Client
BY DEF Client

\* One client changes, in one field after the other.
LEMMA ClientMoves ==
  ASSUME Clients, NEW c \in Conn, NEW x \in Client, conn' = [conn EXCEPT ![c] = x]
  PROVE  Clients'
BY DEF Clients

LEMMA StateMoves ==
  ASSUME Clients, NEW c \in Conn,
         NEW x \in {"away", "waiting", "up", "left", "reset", "gone"},
         conn' = [conn EXCEPT ![c].state = x]
  PROVE  Clients'
<1>1. conn[c] \in Client
  BY DEF Clients
<1>2. [conn[c] EXCEPT !.state = x] \in Client
  BY <1>1, ClientFields
<1>3. conn' = [conn EXCEPT ![c] = [conn[c] EXCEPT !.state = x]]
  BY DEF Clients
<1> QED  BY <1>2, <1>3, ClientMoves

LEMMA InboxMoves ==
  ASSUME Clients, NEW c \in Conn, conn' = [conn EXCEPT ![c].inbox = "none"]
  PROVE  Clients'
<1>1. conn[c] \in Client
  BY DEF Clients
<1>2. [conn[c] EXCEPT !.inbox = "none"] \in Client
  BY <1>1, ClientFields
<1>3. conn' = [conn EXCEPT ![c] = [conn[c] EXCEPT !.inbox = "none"]]
  BY DEF Clients
<1> QED  BY <1>2, <1>3, ClientMoves

LEMMA GoneMoves ==
  ASSUME Clients, NEW c \in Conn, conn' = [conn EXCEPT ![c] = Gone]
  PROVE  Clients'
<1>1. Gone \in Client
  BY EventLoopAssumption DEF Gone, Client
<1> QED  BY <1>1, ClientMoves

LEMMA WrittenMoves ==
  ASSUME Clients, NEW c \in Conn, conn[c].unread < Room,
         NEW o \in BOOLEAN, conn' = [conn EXCEPT ![c].unread = @ + 1, ![c].owed = o]
  PROVE  Clients'
<1>1. conn[c] \in Client
  BY DEF Clients
<1> DEFINE u == conn[c].unread + 1
<1>2. u \in 0..Room
  <2> DEFINE r == conn[c].unread
  <2>1. r \in 0..Room
    BY <1>1, ClientFields
  <2>2. r < Room /\ u = r + 1
    OBVIOUS
  <2> HIDE DEF r, u
  <2> QED  BY <2>1, <2>2, EventLoopAssumption
<1> HIDE DEF u
<1> DEFINE k == [conn[c] EXCEPT !.unread = u]  m == [k EXCEPT !.owed = o]
<1>3. k \in Client
  BY <1>1, <1>2, ClientFields
<1> HIDE DEF k
<1>4. m \in Client
  BY <1>3, ClientFields
<1> HIDE DEF m
<1>5. conn' = [conn EXCEPT ![c] = m]
  BY DEF Clients, u, k, m
<1> QED  BY <1>4, <1>5, ClientMoves

LEMMA ReadMoves ==
  ASSUME Clients, NEW c \in Conn, Read(c)
  PROVE  Clients'
<1>1. conn[c] \in Client /\ 0 \in 0..Room
  BY EventLoopAssumption DEF Clients
<1>2. [conn[c] EXCEPT !.unread = 0] \in Client
  BY <1>1, ClientFields
<1>3. conn' = [conn EXCEPT ![c] = [conn[c] EXCEPT !.unread = 0]]
  BY DEF Clients, Read
<1> QED  BY <1>2, <1>3, ClientMoves

LEMMA LeaveMoves ==
  ASSUME Clients, NEW c \in Conn, Leave(c)
  PROVE  Clients'
<1> DEFINE how == IF conn[c].unread > 0 THEN "reset" ELSE "left"
<1>0. conn' = [conn EXCEPT ![c].state = how, ![c].unread = 0, ![c].owed = FALSE]
  BY DEF Leave
<1>1. conn[c] \in Client /\ 0 \in 0..Room
  BY EventLoopAssumption DEF Clients
<1>2. how \in {"left", "reset"}
  OBVIOUS
<1> HIDE DEF how
<1> DEFINE k == [conn[c] EXCEPT !.state = how]
           l == [k EXCEPT !.unread = 0]  m == [l EXCEPT !.owed = FALSE]
<1>3. k \in Client
  BY <1>1, <1>2, ClientFields
<1> HIDE DEF k
<1>4. l \in Client
  BY <1>1, <1>3, ClientFields
<1> HIDE DEF l
<1>5. m \in Client
  BY <1>4, ClientFields
<1> HIDE DEF m
<1>6. conn' = [conn EXCEPT ![c] = m]
  BY <1>0 DEF Clients, k, l, m
<1> QED  BY <1>5, <1>6, ClientMoves

LEMMA AskMoves ==
  ASSUME Clients, NEW c \in Conn, NEW r \in Request, Ask(c, r)
  PROVE  Clients'
<1> DEFINE box == IF conn[c].inbox = "none" THEN r ELSE "joined"
           owe == conn[c].owed \/ r # "method" \/ conn[c].inbox # "none"
<1>1. conn[c] \in Client
  BY DEF Clients
<1>2. box \in Request \cup {"none", "joined"}
  OBVIOUS
<1>3. owe \in BOOLEAN
  BY <1>1, ClientFields
<1> DEFINE m == [conn[c] EXCEPT !.inbox = box]  n == [m EXCEPT !.owed = owe]
<1> HIDE DEF box, owe
<1>4. m \in Client
  BY <1>1, <1>2, ClientFields
<1>5. m.owed = conn[c].owed
  BY <1>1 DEF Client
<1> HIDE DEF m
<1>6. n \in Client
  BY <1>3, <1>4, ClientFields
<1> HIDE DEF n
<1>7. conn' = [conn EXCEPT ![c] = n]
  BY <1>5 DEF Clients, Ask, m, n, box, owe
<1> QED  BY <1>6, <1>7, ClientMoves

LEMMA ClientsKeep ==
  ASSUME Clients, LNext
  PROVE  Clients'
<1>1. CASE UNCHANGED conn
  BY <1>1 DEF Clients
<1>2. ASSUME NEW c \in Conn, OnClient(c) \/ Write(c) PROVE Clients'
  <2>1. CASE Closed(c)
    BY <2>1, GoneMoves DEF Closed
  <2>2. CASE Blocks(c)
    BY <1>1, <2>2 DEF Blocks
  <2>3. CASE NoMethod(c)
    BY <2>3, InboxMoves DEF NoMethod
  <2>4. CASE Command(c)
    BY <2>4, InboxMoves DEF Command
  <2>5. CASE Write(c)
    <3>1. CASE UNCHANGED conn
      BY <1>1, <3>1
    <3>2. CASE conn' = [conn EXCEPT ![c] = Gone]
      BY <3>2, GoneMoves
    <3>3. CASE /\ conn[c].unread < Room
               /\ conn' = [conn EXCEPT ![c].unread = @ + 1,
                                       ![c].owed = conn[c].inbox \notin {"none", "method"}]
      <4> DEFINE o == conn[c].inbox \notin {"none", "method"}
      <4>1. o \in BOOLEAN
        OBVIOUS
      <4>2. conn' = [conn EXCEPT ![c].unread = @ + 1, ![c].owed = o]
        BY <3>3
      <4> HIDE DEF o
      <4> QED  BY <3>3, <4>1, <4>2, WrittenMoves
    <3> QED  BY <2>5, <3>1, <3>2, <3>3 DEF Write
  <2> QED  BY <1>2, <2>1, <2>2, <2>3, <2>4, <2>5 DEF OnClient
<1>3. CASE OnListen
  BY <1>1, <1>3, StateMoves DEF OnListen
<1>4. CASE HandleFd
  <2>1. ASSUME OnServer \/ OnMade \/ \E fd : OnNobody(fd) PROVE UNCHANGED conn
    BY <2>1 DEF OnServer, OnMade, OnNobody, control
  <2> QED  BY <1>1, <1>2, <1>3, <1>4, <2>1 DEF HandleFd
<1>5. CASE Resume
  BY <1>2, <1>5 DEF Resume
<1>6. CASE Others
  <2>1. ASSUME NEW c \in Conn, Arrive(c) PROVE Clients'
    BY <2>1, StateMoves DEF Arrive
  <2>2. ASSUME Answer \/ \E s \in Session : Say(s) PROVE UNCHANGED conn
    BY <2>2 DEF Answer, Say
  <2> QED  BY <1>1, <1>6, <2>1, <2>2, ReadMoves, LeaveMoves, AskMoves DEF Others
<1>7. CASE Step \/ RunLater \/ RunTimer \/ Time \/ Signal
  BY <1>1, <1>7 DEF Step, RunLater, RunTimer, Time, Signal, control
<1> QED  BY <1>4, <1>5, <1>6, <1>7 DEF LNext, Loop

\* Where the round goes when nothing is left for later.
LEMMA PhasesAre ==
  ASSUME open \in BOOLEAN
  PROVE  \A q : /\ Past("first", q) \in Phase /\ Past("second", q) \in Phase
                /\ Past("third", q) \in Phase
BY DEF Past, Round, Phase

\* What a step may do to peers and to what they send to.
PeersMove ==
    \/ UNCHANGED <<peers, wires, cut>>
    \/ \E s \in Session : Begun(s)
    \/ \E ids : RemovePeers(ids) /\ cut' \subseteq cut \cup Session
    \/ Create \/ Connect \/ Disconnect

LEMMA ClientMovesPeers ==
  ASSUME NEW c \in Conn, OnClient(c) \/ Write(c)
  PROVE  PeersMove
<1>1. CASE Quiet
  BY <1>1 DEF Quiet, midi, PeersMove
<1>2. CASE Command(c)
  <2>1. CASE Other
    BY <2>1 DEF Other, midi, PeersMove
  <2>2. CASE RemovePeer
    BY <2>2 DEF RemovePeer, PeersMove
  <2>3. CASE Create \/ Connect \/ Disconnect
    BY <2>3 DEF PeersMove
  <2> QED  BY <1>2, <2>1, <2>2, <2>3 DEF Command
<1> QED  BY <1>1, <1>2 DEF OnClient, Closed, Blocks, NoMethod, Write

LEMMA StepsMovePeers == LNext => PeersMove
<1> SUFFICES ASSUME LNext PROVE PeersMove
  OBVIOUS
<1>1. ASSUME UNCHANGED midi PROVE PeersMove
  BY <1>1 DEF midi, PeersMove
<1>2. CASE HandleFd
  <2>1. CASE OnServer
    BY <1>1, <2>1 DEF OnServer, End, PeersMove
  <2>2. ASSUME OnListen \/ OnMade \/ \E fd : OnNobody(fd) PROVE UNCHANGED midi
    BY <2>2 DEF OnListen, OnMade, OnNobody, Quiet
  <2> QED  BY <1>1, <1>2, <2>1, <2>2, ClientMovesPeers DEF HandleFd
<1>3. CASE Resume
  BY <1>3, ClientMovesPeers DEF Resume
<1>4. CASE RunLater
  BY <1>1, <1>4 DEF RunLater, PeersMove
<1>5. CASE RunTimer
  BY <1>1, <1>5 DEF RunTimer, End
<1>6. CASE Others
  BY <1>1, <1>6 DEF Others, Arrive, Read, Leave, Ask, Say, Answer, Inside
<1>7. CASE Step \/ Time \/ Signal
  BY <1>1, <1>7 DEF Step, Time, Signal
<1> QED  BY <1>2, <1>3, <1>4, <1>5, <1>6, <1>7 DEF LNext, Loop

LEMMA WiredKeeps ==
  ASSUME Types, Wired, PeersMove
  PROVE  /\ peers' \subseteq PeerId /\ cut' \subseteq Session
         /\ wires' \in [Session -> SUBSET PeerId] /\ Wired'
<1>0. /\ peers \subseteq PeerId /\ cut \subseteq Session /\ wires \in [Session -> SUBSET PeerId]
      /\ Made \in PeerId /\ \A s \in Session : Net(s) \in PeerId /\ Alsa(s) \in PeerId
      /\ \A s \in Session : wires[s] \subseteq peers
  BY DEF Types, Wired, PeerId
<1>1. CASE UNCHANGED <<peers, wires, cut>>
  BY <1>0, <1>1 DEF Wired
<1>2. ASSUME NEW s \in Session, Begun(s) PROVE /\ peers' \subseteq PeerId /\ cut' \subseteq Session
         /\ wires' \in [Session -> SUBSET PeerId] /\ Wired'
  <2>1. /\ peers' = peers \cup {Net(s), Alsa(s)} /\ cut' = cut \ {s}
        /\ wires' = [wires EXCEPT ![s] = {Alsa(s)}]
    BY <1>2 DEF Begun
  <2>2. \A q \in Session : wires'[q] = IF q = s THEN {Alsa(s)} ELSE wires[q]
    BY <1>0, <2>1
  <2>3. wires' \in [Session -> SUBSET PeerId]
    BY <1>0, <2>1
  <2> QED  BY <1>0, <2>1, <2>2, <2>3 DEF Wired
<1>3. ASSUME NEW ids, RemovePeers(ids), cut' \subseteq cut \cup Session
      PROVE  /\ peers' \subseteq PeerId /\ cut' \subseteq Session
             /\ wires' \in [Session -> SUBSET PeerId] /\ Wired'
  <2>1. /\ peers' = peers \ ids
        /\ wires' = [s \in Session |-> IF Net(s) \in ids THEN {} ELSE wires[s] \ ids]
    BY <1>3 DEF RemovePeers
  <2> QED  BY <1>0, <1>3, <2>1 DEF Wired
<1>4. CASE Create
  BY <1>0, <1>4 DEF Create, Wired
<1>5. CASE Connect
  <2>1. PICK s \in Session, p \in peers : wires' = [wires EXCEPT ![s] = @ \cup {p}]
    BY <1>5 DEF Connect
  <2>2. UNCHANGED <<peers, cut>>
    BY <1>5 DEF Connect
  <2>3. \A q \in Session : wires'[q] = IF q = s THEN wires[s] \cup {p} ELSE wires[q]
    BY <1>0, <2>1
  <2>4. wires' \in [Session -> SUBSET PeerId]
    BY <1>0, <2>1
  <2> QED  BY <1>0, <2>2, <2>3, <2>4 DEF Wired
<1>6. CASE Disconnect
  <2>1. PICK s \in Session, p \in PeerId : wires' = [wires EXCEPT ![s] = @ \ {p}]
    BY <1>0, <1>6 DEF Disconnect
  <2>2. UNCHANGED peers /\ cut' \subseteq cut \cup Session
    BY <1>6 DEF Disconnect
  <2>3. \A q \in Session : wires'[q] = IF q = s THEN wires[s] \ {p} ELSE wires[q]
    BY <1>0, <2>1
  <2>4. wires' \in [Session -> SUBSET PeerId]
    BY <1>0, <2>1
  <2> QED  BY <1>0, <2>2, <2>3, <2>4 DEF Wired
<1> QED  BY <1>1, <1>2, <1>3, <1>4, <1>5, <1>6 DEF PeersMove

\* The daemon waits in a call of a client, or goes on.
LEMMA CallingKeeps ==
  ASSUME Types, Calling, LNext
  PROVE  waits' \in Waits /\ Calling'
<1>0. waits \in Waits
  BY DEF Types
<1>1. ASSUME UNCHANGED waits, phase' = "blocked" => phase = "blocked" PROVE waits' \in Waits /\ Calling'
  BY <1>0, <1>1 DEF Calling
<1>2. CASE HandleFd
  <2>1. ASSUME OnServer \/ OnListen \/ OnMade \/ \E fd : OnNobody(fd) PROVE UNCHANGED <<phase, waits>>
    BY <2>1 DEF OnServer, OnListen, OnMade, OnNobody, control
  <2>2. ASSUME NEW c \in Conn, OnClient(c) PROVE waits' \in Waits /\ Calling'
    BY <2>2, ClientGoesOn DEF Calling
  <2> QED  BY <1>1, <1>2, <2>1, <2>2 DEF HandleFd
<1>3. CASE Resume
  <2>1. ASSUME NEW c \in Conn, OnClient(c) \/ Write(c) PROVE waits' \in Waits /\ Calling'
    BY <2>1, ClientGoesOn DEF Calling
  <2> QED  BY <1>3, <2>1 DEF Resume
<1>4. CASE RunLater
  <2>1. \A q : Past(phase, q) \in {phase, "wait", "timers", "begin", "over"}
    BY <1>4 DEF RunLater, Past, Round
  <2>2. UNCHANGED waits /\ phase' \in {phase, "wait", "timers", "begin", "over"}
    BY <1>4, <2>1 DEF RunLater
  <2> QED  BY <1>1, <2>2
<1>5. CASE RunTimer
  BY <1>1, <1>5 DEF RunTimer, control
<1>6. CASE Others
  BY <1>1, <1>6 DEF Others, Arrive, Read, Leave, Ask, Say, Answer, Inside, pvars
<1>7. CASE Step
  <2>1. \A q : /\ Past("first", q) # "blocked" /\ Past("second", q) # "blocked"
               /\ Past("third", q) # "blocked"
    BY DEF Past, Round
  <2>2. UNCHANGED waits /\ phase' # "blocked"
    BY <1>7, <2>1 DEF Step, Begin, Wait, Handled, NoneExpired, control
  <2> QED  BY <1>1, <2>2
<1>8. CASE Time \/ Signal
  BY <1>1, <1>8 DEF Time, Tick, Signal, Close, control
<1> QED  BY <1>2, <1>3, <1>4, <1>5, <1>6, <1>7, <1>8 DEF LNext, Loop

LEMMA TypesKeep ==
  ASSUME Types, Calling, Wired, Table, LNext
  PROVE  Types' /\ Calling' /\ Wired'
<1>0. Clients'
  BY ClientsKeep DEF Types, Clients
<1>1. /\ open' \in BOOLEAN /\ batch' \subseteq Fd
  <2>1. CASE Step
    <3>1. Ready \subseteq Fd
      BY DEF Ready, Table
    <3> QED  BY <2>1, <3>1 DEF Step, Begin, Wait, Handled, NoneExpired, Types
  <2>2. CASE HandleFd
    BY <2>2 DEF HandleFd, Types
  <2>3. CASE Others
    BY <2>3 DEF Others, Arrive, Read, Leave, Ask, Say, Answer, Inside, pvars, Types
  <2>4. CASE RunLater \/ RunTimer \/ Time \/ Resume \/ Signal
    BY <2>4 DEF RunLater, RunTimer, Time, Tick, Resume, Signal, Close, Types
  <2> QED  BY <2>1, <2>2, <2>3, <2>4 DEF LNext, Loop
<1>2. phase' \in Phase
  <2>1. CASE Step
    <3>1. Wait(Ready) => phase' = "fds"
      BY DEF Wait
    <3> QED  BY <2>1, <3>1, PhasesAre DEF Step, Begin, Handled, NoneExpired, Types, Phase
  <2>2. CASE HandleFd
    <3>1. ASSUME OnServer \/ OnListen \/ OnMade \/ \E fd : OnNobody(fd) PROVE UNCHANGED phase
      BY <3>1 DEF OnServer, OnListen, OnMade, OnNobody
    <3> QED  BY <2>2, <3>1, ClientGoesOn DEF HandleFd, Types, Phase
  <2>3. CASE RunLater
    BY <2>3, PhasesAre DEF RunLater, Types, Phase
  <2>4. CASE RunTimer
    BY <2>4 DEF RunTimer, Types, Phase
  <2>5. CASE Others
    BY <2>5 DEF Others, Arrive, Read, Leave, Ask, Say, Answer, Inside, pvars, Types
  <2>6. CASE Time \/ Signal
    BY <2>6 DEF Time, Tick, Signal, Close, Types, Phase
  <2>7. CASE Resume
    BY <2>7, ClientGoesOn DEF Resume, Phase
  <2> QED  BY <2>1, <2>2, <2>3, <2>4, <2>5, <2>6, <2>7 DEF LNext, Loop
<1>3. later' \in Seq(Session)
  <2>0. later \in Seq(Session)
    BY DEF Types
  <2>1. ASSUME NEW s \in Session, End(s) PROVE later' \in Seq(Session)
    BY <2>0, <2>1 DEF End
  <2>2. ASSUME NEW c \in Conn, OnClient(c) \/ Write(c) PROVE UNCHANGED later
    BY <2>2 DEF OnClient, Closed, Blocks, NoMethod, Command, Write, Quiet
  <2>3. CASE HandleFd
    <3>1. CASE OnServer
      BY <2>0, <2>1, <3>1 DEF OnServer, Begun, Clock
    <3>2. ASSUME OnListen \/ OnMade \/ \E fd : OnNobody(fd) PROVE UNCHANGED later
      BY <3>2 DEF OnListen, OnMade, OnNobody, Quiet, queues
    <3> QED  BY <2>0, <2>2, <2>3, <3>1, <3>2 DEF HandleFd
  <2>4. CASE RunTimer
    BY <2>0, <2>1, <2>4 DEF RunTimer
  <2>5. CASE RunLater
    BY <2>0, <2>5 DEF RunLater
  <2>6. CASE Others
    BY <2>0, <2>6 DEF Others, Arrive, Read, Leave, Ask, Say, Answer, Inside, pvars, queues
  <2>7. CASE Step \/ Time \/ Signal
    BY <2>0, <2>7 DEF Step, Begin, Wait, Handled, NoneExpired, Time, Tick, Signal, Close, queues
  <2>8. CASE Resume
    BY <2>0, <2>2, <2>8 DEF Resume
  <2> QED  BY <2>3, <2>4, <2>5, <2>6, <2>7, <2>8 DEF LNext, Loop
<1>4. requests' \in 0..MaxRequests
  <2>1. ASSUME NEW c \in Conn, OnClient(c) \/ Write(c) PROVE UNCHANGED requests
    BY <2>1 DEF OnClient, Closed, Blocks, NoMethod, Command, Write, Quiet
  <2>2. CASE HandleFd
    <3>1. ASSUME OnServer \/ OnListen \/ OnMade \/ \E fd : OnNobody(fd) PROVE UNCHANGED requests
      BY <3>1 DEF OnServer, OnListen, OnMade, OnNobody, Quiet, control
    <3> QED  BY <2>1, <2>2, <3>1 DEF HandleFd, Types
  <2>3. CASE Others
    <3>1. ASSUME NEW c \in Conn, NEW r \in Request, Ask(c, r) PROVE requests' \in 0..MaxRequests
      BY <3>1, EventLoopAssumption DEF Ask, Types
    <3> QED  BY <2>3, <3>1 DEF Others, Arrive, Read, Leave, Say, Answer, Types
  <2>4. CASE Step \/ RunLater \/ RunTimer \/ Time \/ Signal
    BY <2>4 DEF Step, RunLater, RunTimer, Time, Signal, control, Types
  <2>5. CASE Resume
    BY <2>1, <2>5 DEF Resume, Types
  <2> QED  BY <2>2, <2>3, <2>4, <2>5 DEF LNext, Loop
<1>5. packet' \in [Session -> {"none", "hello", "clock", "bye"}]
  <2>1. ASSUME NEW c \in Conn, OnClient(c) \/ Write(c) PROVE UNCHANGED packet
    BY <2>1 DEF OnClient, Closed, Blocks, NoMethod, Command, Write, Quiet, network
  <2>2. CASE HandleFd
    <3>1. CASE OnServer
      BY <3>1 DEF OnServer, Types
    <3>2. ASSUME OnListen \/ OnMade \/ \E fd : OnNobody(fd) PROVE UNCHANGED packet
      BY <3>2 DEF OnListen, OnMade, OnNobody, Quiet, network
    <3> QED  BY <2>1, <2>2, <3>1, <3>2 DEF HandleFd, Types
  <2>3. CASE Others
    BY <2>3 DEF Others, Arrive, Read, Leave, Ask, Say, Answer, Types
  <2>4. CASE Step \/ RunLater \/ RunTimer \/ Time \/ Signal
    BY <2>4 DEF Step, RunLater, RunTimer, Time, Signal, network, Types
  <2>5. CASE Resume
    BY <2>1, <2>5 DEF Resume, Types
  <2> QED  BY <2>2, <2>3, <2>4, <2>5 DEF LNext, Loop
<1>6. answer' \in BOOLEAN
  <2>0. ASSUME answer' \in {answer, FALSE, TRUE} PROVE answer' \in BOOLEAN
    BY <2>0 DEF Types
  <2>1. ASSUME NEW ids, RemovePeers(ids) PROVE answer' = answer \/ answer' = FALSE
    BY <2>1 DEF RemovePeers
  <2>2. ASSUME NEW c \in Conn, OnClient(c) \/ Write(c) PROVE answer' = answer \/ answer' = FALSE
    <3>1. CASE Quiet
      BY <3>1 DEF Quiet, network
    <3>2. CASE Command(c)
      BY <2>1, <3>2 DEF Command, Other, Create, RemovePeer, Connect, Disconnect
    <3> QED  BY <2>2, <3>1, <3>2 DEF OnClient, Closed, Blocks, NoMethod, Write
  <2>3. CASE HandleFd
    <3>1. ASSUME OnServer \/ OnListen \/ OnMade \/ \E fd : OnNobody(fd) PROVE answer' = answer \/ answer' = FALSE
      BY <3>1 DEF OnServer, OnListen, OnMade, OnNobody, Quiet, network
    <3> QED  BY <2>0, <2>2, <2>3, <3>1 DEF HandleFd
  <2>4. CASE Others
    BY <2>0, <2>4 DEF Others, Arrive, Read, Leave, Ask, Say, Answer
  <2>5. CASE RunLater
    BY <2>0, <2>1, <2>5 DEF RunLater
  <2>6. CASE Resume
    BY <2>0, <2>2, <2>6 DEF Resume
  <2>7. CASE Step \/ RunTimer \/ Time \/ Signal
    BY <2>0, <2>7 DEF Step, RunTimer, Time, Signal, network
  <2> QED  BY <2>3, <2>4, <2>5, <2>6, <2>7 DEF LNext, Loop
<1>7. session' \in [Session -> BOOLEAN]
  <2>0. session \in [Session -> BOOLEAN]
    BY DEF Types
  <2>1. ASSUME NEW c \in Conn, OnClient(c) \/ Write(c) PROVE UNCHANGED session
    BY <2>1 DEF OnClient, Closed, Blocks, NoMethod, Command, Write, Quiet, network
  <2>2. CASE HandleFd
    <3>1. CASE OnServer
      BY <2>0, <3>1 DEF OnServer, Begun, End
    <3>2. ASSUME OnListen \/ OnMade \/ \E fd : OnNobody(fd) PROVE UNCHANGED session
      BY <3>2 DEF OnListen, OnMade, OnNobody, Quiet, network
    <3> QED  BY <2>0, <2>1, <2>2, <3>1, <3>2 DEF HandleFd
  <2>3. CASE RunTimer
    BY <2>0, <2>3 DEF RunTimer, End
  <2>4. CASE Others
    BY <2>0, <2>4 DEF Others, Arrive, Read, Leave, Ask, Say, Answer, Inside
  <2>5. CASE Step \/ Time \/ RunLater \/ Signal
    BY <2>0, <2>5 DEF Step, Time, RunLater, Signal, network
  <2>6. CASE Resume
    BY <2>0, <2>1, <2>6 DEF Resume
  <2> QED  BY <2>2, <2>3, <2>4, <2>5, <2>6 DEF LNext, Loop
<1>8. waits' \in Waits /\ Calling'
  BY CallingKeeps
<1>9. /\ peers' \subseteq PeerId /\ cut' \subseteq Session
      /\ wires' \in [Session -> SUBSET PeerId] /\ Wired'
  BY StepsMovePeers, WiredKeeps
<1> QED  BY <1>0, <1>1, <1>2, <1>3, <1>4, <1>5, <1>6, <1>7, <1>8, <1>9 DEF Types, Clients

-----------------------------------------------------------------------------
(* The invariant is kept *)

LEMMA LInvInit == LInit => LInv
<1> SUFFICES ASSUME LInit PROVE LInv
  OBVIOUS
<1>1. Types /\ Calling /\ Wired
  <2>1. conn \in [Conn -> Client]
    <3>1. [state |-> "away", inbox |-> "none", unread |-> 0, owed |-> FALSE] \in Client
      BY EventLoopAssumption DEF Client
    <3> QED  BY <3>1 DEF LInit
  <2>2. /\ peers \subseteq PeerId /\ cut \subseteq Session
        /\ wires \in [Session -> SUBSET PeerId] /\ \A s \in Session : wires[s] \subseteq peers
        /\ later \in Seq(Session) /\ batch \subseteq Fd
    BY DEF LInit, PInit
  <2>3. /\ open \in BOOLEAN /\ phase \in Phase /\ answer \in BOOLEAN
        /\ waits \in Waits /\ phase # "blocked"
    BY DEF LInit, PInit, Phase, Waits
  <2>4. requests \in 0..MaxRequests
    BY EventLoopAssumption DEF LInit
  <2>5. /\ packet \in [Session -> {"none", "hello", "clock", "bye"}]
        /\ session \in [Session -> BOOLEAN]
    BY DEF LInit
  <2> QED  BY <2>1, <2>2, <2>3, <2>4, <2>5 DEF Types, Calling, Wired
<1>2. Table
  <2>1. DOMAIN sockets = {ListenFd, ServerFd} /\ handlers = sockets /\ watched = {ListenFd, ServerFd} /\ open = TRUE
    BY DEF LInit, PInit
  <2>2. Range(sockets) \subseteq Owner
    BY DEF LInit, Range, Owner
  <2> QED  BY <2>1, <2>2, EventLoopAssumption DEF Table
<1>3. Owned
  <2>1. timers = <<>> /\ DOMAIN timers = {} /\ CallsOf(timers) = {} /\ peers = {}
    BY DEF LInit, PInit, CallsOf
  <2>2. \A s \in Session : session[s] = FALSE
    BY DEF LInit
  <2>3. Good(timers)
    BY <2>1 DEF Good
  <2> QED  BY <2>1, <2>2, <2>3 DEF Owned
<1>4. Rested
  BY EventLoopAssumption DEF LInit, PInit, Rested
<1> QED  BY <1>1, <1>2, <1>3, <1>4 DEF LInv

LEMMA LInvNext == LInv /\ [LNext]_lvars => LInv'
<1> SUFFICES ASSUME LInv, [LNext]_lvars PROVE LInv'
  OBVIOUS
<1>1. CASE LNext
  BY <1>1, TypesKeep, TableKeeps, OwnedKeeps, RestedKeeps DEF LInv
<1>2. CASE UNCHANGED lvars
  BY <1>2 DEF lvars, pvars, queues, control, network, midi, LInv, Types, Calling, Wired, Table, Owned, Rested
<1> QED  BY <1>1, <1>2

LEMMA LInvariant == LSpec => []LInv
BY LInvInit, LInvNext, PTL DEF LSpec

-----------------------------------------------------------------------------
(* What follows *)

\* Whatever handlers close, open and remove while a batch is handled, a
\* descriptor that is open has its handler and is watched, and each record and
\* the made peer have their one timer (poller_t, control_socket_t, rtpserver_t).
THEOREM EventLoopTypeCorrect == LSpec => []LTypeOK
<1>1. LInv => LTypeOK
  <2> SUFFICES ASSUME LInv PROVE LTypeOK
    OBVIOUS
  <2>1. /\ \A s \in Session : session[s] <=> \E i \in DOMAIN timers : timers[i].call = <<"watchdog", s>>
        /\ Made \in peers <=> \E i \in DOMAIN timers : timers[i].call = Made
    BY DEF LInv, Owned, CallsOf
  <2>2. \A i \in DOMAIN timers : timers[i] \in Timer
    BY DEF LInv, Owned, Good
  <2>3. Range(later) \subseteq Session
    BY DEF LInv, Types, Range
  <2> QED  BY <2>1, <2>2, <2>3 DEF LInv, Types, Calling, Wired, Table, Rested, LTypeOK
<1> QED  BY <1>1, LInvariant, PTL

\* The loop never sleeps beyond its first timer, though the time to sleep is
\* computed before what was left for later runs, and no timer runs before its
\* time, though milliseconds round towards zero (poller_t::wait, ms_to_now,
\* add_timer_event).
THEOREM EventLoopTimersOnTime == LSpec => []TimersOnTime
<1>1. LInv => TimersOnTime
  <2> SUFFICES ASSUME LInv PROVE TimersOnTime
    OBVIOUS
  <2>1. phase = "wait" => \A i \in DOMAIN timers : sleep <= timers[i].in
    BY DEF LInv, Rested
  <2>2. ASSUME NEW i \in DOMAIN timers, Expired(timers[i]) PROVE timers[i].asked = 0
    <3>1. timers[i] \in Timer /\ (timers[i].asked = 0 \/ timers[i].in = timers[i].asked + 2)
      BY DEF LInv, Owned, Good
    <3>2. timers[i].in \in Nat /\ timers[i].asked \in Nat
      BY <3>1, EventLoopAssumption DEF Timer
    <3>3. timers[i].in \div 2 = 0
      BY <2>2, <3>2 DEF Expired, Milliseconds
    <3>4. \A k \in Nat : k \div 2 = 0 => k < 2
      OBVIOUS
    <3> QED  BY <3>1, <3>2, <3>3, <3>4
  <2> QED  BY <2>1, <2>2 DEF TimersOnTime
<1> QED  BY <1>1, LInvariant, PTL
=============================================================================
