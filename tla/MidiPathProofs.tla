--------------------------- MODULE MidiPathProofs ---------------------------
(***************************************************************************)
(* What goes in comes out, proved for messages of every length, segments   *)
(* of every size and any number of packets under way.  A packet takes the  *)
(* half that receives from one state to the next: the packets under way    *)
(* lead from what it is to what was sent.  When packets are lost or        *)
(* reordered, every message that comes out, or that a packet carries, has  *)
(* one of its own among those that were sent.                              *)
(***************************************************************************)
EXTENDS MidiPath, SequenceTheorems, FiniteSetTheorems, WellFoundedInduction, TLAPS

Bytes == Seq(Nat)

\* The half that receives, and what is left of a packet.
Half == [sysex : Bytes, out : Seq(Bytes)]
St(x, o, running, left) ==
    [sysex |-> x, out |-> o, running |-> running, left |-> left, doubt |-> {}]

\* Parts of it are changed.
LEMMA Fields ==
  ASSUME NEW x, NEW o, NEW running, NEW left
  PROVE  LET st == St(x, o, running, left)
         IN  st.sysex = x /\ st.out = o /\ st.running = running /\ st.left = left /\ st.doubt = {}
BY DEF St

LEMMA Skipped ==
  ASSUME NEW x, NEW o, NEW running, NEW left, NEW n
  PROVE  Skip(St(x, o, running, left), n) = St(x, o, running, SubSeq(left, n + 1, Len(left)))
<1> DEFINE st    == St(x, o, running, left)
           left2 == SubSeq(left, n + 1, Len(left))
<1>1. Skip(st, n) = [st EXCEPT !.left = left2]
  <2>1. st.left = left
    BY Fields
  <2> HIDE DEF st
  <2> QED  BY <2>1 DEF Skip
<1> HIDE DEF left2
<1>2. [st EXCEPT !.left = left2] = St(x, o, running, left2)
  BY DEF St
<1> HIDE DEF st
<1>3. Skip(st, n) = St(x, o, running, left2)
  BY <1>1, <1>2
<1> QED  BY <1>3 DEF st, left2

LEMMA NewLeft ==
  ASSUME NEW x, NEW o, NEW running, NEW left, NEW n
  PROVE  Rest(St(x, o, running, left), n)
         = St(x, o, Running(left[1], running), SubSeq(left, n + 1, Len(left)))
<1> DEFINE st    == St(x, o, running, left)
           left2 == SubSeq(left, n + 1, Len(left))
           now   == Running(left[1], running)
           next  == Skip(st, n)
<1>1. st.left = left
  BY Fields
<1>2. next = St(x, o, running, left2)
  BY Skipped
<1> HIDE DEF left2
<1>3. next.running = running
  BY <1>2, Fields
<1> HIDE DEF st, next
<1>4. Rest(st, n) = [next EXCEPT !.running = now]
  BY <1>1, <1>3 DEF Rest, next
<1> HIDE DEF now
<1>5. [next EXCEPT !.running = now] = St(x, o, now, left2)
  BY <1>2 DEF St
<1>6. Rest(st, n) = St(x, o, now, left2)
  BY <1>4, <1>5
<1> QED  BY <1>6 DEF st, now, left2

LEMMA NewSysex ==
  ASSUME NEW x, NEW o, NEW running, NEW left, NEW x2
  PROVE  Keep(St(x, o, running, left), x2) = St(x2, o, running, left)
BY DEF St, Keep

LEMMA Emitted ==
  ASSUME NEW x, NEW o, NEW running, NEW left, NEW m
  PROVE  Emit(St(x, o, running, left), m) = St(x, Append(o, m), running, left)
<1> DEFINE st == St(x, o, running, left)
<1>1. st.out = o
  BY Fields
<1>2. \A y : [st EXCEPT !.out = y] = St(x, y, running, left)
  BY DEF St
<1> HIDE DEF st
<1>3. [st EXCEPT !.out = Append(@, m)] = St(x, Append(o, m), running, left)
  BY <1>1, <1>2
<1> QED  BY <1>3 DEF st, Emit

-----------------------------------------------------------------------------
(* Sequences *)

\* A set of naturals has a least element.
LEMMA LeastOf ==
  ASSUME NEW T \in SUBSET Nat, T # {}
  PROVE  \E m \in T : \A k \in T : m <= k
<1>1. PICK m \in T : \A k \in T : ~(<<k, m>> \in OpToRel(<, Nat))
  BY NatLessThanWellFounded, WFMin
<1>2. \A k \in T : ~(k < m)
  BY <1>1 DEF OpToRel
<1> QED  BY <1>2

\* The two parts of a sequence that was put together.
LEMMA Parts ==
  ASSUME NEW E, NEW s \in Seq(E), NEW t \in Seq(E)
  PROVE  /\ SubSeq(s \o t, 1, Len(s)) = s
         /\ SubSeq(s \o t, Len(s) + 1, Len(s \o t)) = t
<1>0. /\ s \o t \in Seq(E) /\ Len(s \o t) = Len(s) + Len(t)
      /\ \A i \in 1..Len(s) + Len(t) : (s \o t)[i] = IF i <= Len(s) THEN s[i] ELSE t[i - Len(s)]
      /\ Len(s) \in Nat /\ Len(t) \in Nat
  BY ConcatProperties
<1> DEFINE u == s \o t  n == Len(s)  a == SubSeq(u, 1, n)  b == SubSeq(u, n + 1, Len(u))
<1> HIDE DEF u, n
<1>1. /\ a \in Seq(E) /\ Len(a) = n /\ \A i \in 1..n : a[i] = u[i]
  BY <1>0, SubSeqProperties DEF u, n
<1>2. \A i \in 1..n : a[i] = s[i]
  BY <1>0, <1>1 DEF u, n
<1>3. /\ b \in Seq(E) /\ Len(b) = Len(t) /\ \A i \in 1..Len(t) : b[i] = u[n + i]
  <2>1. \A i \in n + 1..Len(u) : u[i] \in E
    <3>1. u \in Seq(E) /\ Len(u) \in Nat /\ n \in Nat
      BY <1>0 DEF u, n
    <3>2. \A i \in n + 1..Len(u) : i \in 1..Len(u)
      BY <3>1
    <3> QED  BY <3>1, <3>2, ElementOfSeq
  <2>2. /\ b \in Seq(E) /\ Len(b) = IF n + 1 <= Len(u) THEN Len(u) - (n + 1) + 1 ELSE 0
        /\ \A i \in 1..Len(u) - (n + 1) + 1 : b[i] = u[n + 1 + i - 1]
    <3>1. n + 1 \in Int /\ Len(u) \in Int
      BY <1>0 DEF u, n
    <3> QED  BY <2>1, <3>1, SubSeqProperties
  <2>3. Len(u) = n + Len(t) /\ n \in Nat /\ Len(t) \in Nat
    BY <1>0 DEF u, n
  <2> HIDE DEF b
  <2>4. Len(b) = Len(t)
    BY <2>2, <2>3
  <2>5. ASSUME NEW i \in 1..Len(t) PROVE b[i] = u[n + i]
    <3>1. i \in 1..Len(u) - (n + 1) + 1 /\ n + 1 + i - 1 = n + i
      BY <2>3
    <3> QED  BY <2>2, <3>1
  <2> QED  BY <2>2, <2>4, <2>5
<1>4. \A i \in 1..Len(t) : b[i] = t[i]
  <2> SUFFICES ASSUME NEW i \in 1..Len(t) PROVE b[i] = t[i]
    OBVIOUS
  <2>1. n + i \in 1..Len(s) + Len(t) /\ ~(n + i <= Len(s)) /\ (n + i) - Len(s) = i
    BY <1>0 DEF n
  <2>2. u[n + i] = t[i]
    BY <1>0, <2>1 DEF u
  <2> QED  BY <1>3, <2>2
<1> HIDE DEF a, b
<1>5. a = s
  BY <1>0, <1>1, <1>2, SeqEqual DEF n
<1>6. b = t
  BY <1>3, <1>4, SeqEqual
<1> QED  BY <1>5, <1>6 DEF a, b, u, n

\* The first byte, the last one, and what is between them.
Frame(p, x, s, y) == p = <<x>> \o s \o <<y>>
Middle(p) == SubSeq(p, 2, Len(p) - 1)
After(x, s) == <<x>> \o s

LEMMA Framed ==
  ASSUME NEW s, NEW x, NEW y, NEW p, s \in Bytes, x \in Nat, y \in Nat, Frame(p, x, s, y)
  PROVE  /\ p \in Bytes /\ p # <<>> /\ Len(p) = Len(s) + 2
         /\ p[1] = x /\ Last(p) = y /\ Middle(p) = s /\ Front(p) = After(x, s)
         /\ \A i \in 1..Len(s) : p[i + 1] = s[i]
<1> DEFINE E == Nat  v == <<x>> \o s  u == v \o <<y>>
<1>a. s \in Seq(E) /\ x \in E /\ y \in E
  BY DEF Bytes
<1> HIDE DEF E
<1>0. s \in Seq(E) /\ Len(s) \in Nat /\ <<x>> \in Seq(E) /\ <<y>> \in Seq(E) /\ Len(<<x>>) = 1 /\ Len(<<y>>) = 1 /\ <<x>>[1] = x /\ <<y>>[1] = y
  BY <1>a
<1>1. /\ v \in Seq(E) /\ Len(v) = Len(s) + 1
      /\ \A i \in 1..Len(s) + 1 : v[i] = IF i <= 1 THEN <<x>>[i] ELSE s[i - 1]
  <2>1. /\ v \in Seq(E) /\ Len(v) = Len(<<x>>) + Len(s)
        /\ \A i \in 1..Len(<<x>>) + Len(s) : v[i] = IF i <= Len(<<x>>) THEN <<x>>[i] ELSE s[i - Len(<<x>>)]
    BY <1>0, ConcatProperties
  <2> QED  BY <1>0, <2>1
<1> HIDE DEF v
<1>2. /\ u \in Seq(E) /\ Len(u) = Len(s) + 2
      /\ \A i \in 1..Len(s) + 2 : u[i] = IF i <= Len(s) + 1 THEN v[i] ELSE <<y>>[i - (Len(s) + 1)]
  <2>1. /\ u \in Seq(E) /\ Len(u) = Len(v) + Len(<<y>>)
        /\ \A i \in 1..Len(v) + Len(<<y>>) : u[i] = IF i <= Len(v) THEN v[i] ELSE <<y>>[i - Len(v)]
    BY <1>0, <1>1, ConcatProperties
  <2> QED  BY <1>0, <1>1, <2>1
<1>3. SubSeq(u, 1, Len(v)) = v
  BY <1>0, <1>1, Parts
<1> HIDE DEF u
<1>4. Front(u) = v
  <2>1. Len(u) - 1 = Len(v)
    BY <1>0, <1>1, <1>2
  <2> QED  BY <1>3, <2>1 DEF Front
<1>5. u[1] = x
  <2>1. 1 \in 1..Len(s) + 2 /\ 1 <= Len(s) + 1 /\ 1 \in 1..Len(s) + 1
    BY <1>0
  <2>2. u[1] = v[1]
    BY <1>2, <2>1
  <2>3. v[1] = <<x>>[1]
    <3>1. \A i \in 1..Len(s) + 1 : i <= 1 => v[i] = <<x>>[i]
      BY <1>1
    <3> HIDE DEF v
    <3> QED  BY <2>1, <3>1
  <2> QED  BY <1>0, <2>2, <2>3
<1>6. Last(u) = y
  <2>1. Len(s) + 2 \in 1..Len(s) + 2 /\ ~(Len(s) + 2 <= Len(s) + 1) /\ Len(s) + 2 - (Len(s) + 1) = 1
    BY <1>0
  <2> QED  BY <1>0, <1>2, <2>1 DEF Last
<1>7. \A i \in 1..Len(s) : u[i + 1] = s[i]
  <2> SUFFICES ASSUME NEW i \in 1..Len(s) PROVE u[i + 1] = s[i]
    OBVIOUS
  <2>1. i + 1 \in 1..Len(s) + 2 /\ i + 1 <= Len(s) + 1 /\ i + 1 \in 1..Len(s) + 1 /\ ~(i + 1 <= 1) /\ i + 1 - 1 = i
    BY <1>0
  <2> QED  BY <1>1, <1>2, <2>1
<1>8. Middle(u) = s
  <2> DEFINE w == SubSeq(u, 2, Len(u) - 1)
  <2>1. \A i \in 2..Len(u) - 1 : u[i] \in E
    BY <1>0, <1>2
  <2>2. /\ w \in Seq(E) /\ Len(w) = Len(s) /\ \A i \in 1..Len(s) : w[i] = u[i + 1]
    <3>1. 2 \in Int /\ Len(u) - 1 \in Int /\ Len(u) - 1 = Len(s) + 1
      BY <1>0, <1>2
    <3>2. /\ w \in Seq(E) /\ Len(w) = IF 2 <= Len(u) - 1 THEN Len(u) - 1 - 2 + 1 ELSE 0
          /\ \A i \in 1..Len(u) - 1 - 2 + 1 : w[i] = u[2 + i - 1]
      BY <2>1, <3>1, SubSeqProperties
    <3> HIDE DEF w
    <3>3. Len(w) = Len(s)
      BY <1>0, <3>1, <3>2
    <3>4. ASSUME NEW i \in 1..Len(s) PROVE w[i] = u[i + 1]
      <4>1. i \in 1..Len(u) - 1 - 2 + 1 /\ 2 + i - 1 = i + 1
        BY <1>0, <3>1
      <4> QED  BY <3>2, <4>1
    <3> QED  BY <3>2, <3>3, <3>4
  <2> HIDE DEF w
  <2>3. w = s
    BY <1>0, <1>7, <2>2, SeqEqual
  <2> QED  BY <2>3 DEF w, Middle
<1>9. u # <<>>
  BY <1>0, <1>2
<1>10. p = u
  BY DEF u, v, Frame
<1>11. v = After(x, s)
  BY DEF v, After
<1>12. u \in Bytes
  BY <1>2 DEF E, Bytes
<1> QED  BY <1>2, <1>4, <1>5, <1>6, <1>7, <1>8, <1>9, <1>10, <1>11, <1>12

-----------------------------------------------------------------------------
(* A list of commands.  It is over after as many commands as there are bytes, *)
(* and nothing happens once nothing is left.                                  *)

Parsing(st, f) ==
    f = [n \in 0..Len(st.left) |->
            IF n = 0 THEN st
            ELSE LET before == f[n - 1]
                 IN  IF before.left = <<>> THEN before ELSE NextCommand(before)]

\* The list parsed so far, for every number of commands.
LEMMA ParsingExists ==
  ASSUME NEW st, Len(st.left) \in Nat
  PROVE  \E f : Parsing(st, f)
<1> DEFINE F(m, f) == f = [n \in 0..m |-> IF n = 0 THEN st
                                          ELSE LET before == f[n - 1]
                                               IN  IF before.left = <<>> THEN before ELSE NextCommand(before)]
           Bad == {m \in Nat : ~\E f : F(m, f)}
<1>1. Bad = {}
  <2> SUFFICES ASSUME Bad # {} PROVE FALSE
    OBVIOUS
  <2>1. PICK m \in Bad : \A k \in Bad : m <= k
    <3>1. Bad \in SUBSET Nat
      OBVIOUS
    <3> HIDE DEF Bad
    <3> QED  BY <3>1, LeastOf
  <2>2. m \in Nat /\ ~\E f : F(m, f)
    BY <2>1
  <2>3. m # 0
    <3> SUFFICES ASSUME m = 0 PROVE FALSE
      OBVIOUS
    <3> DEFINE f == [n \in 0..0 |-> st]
    <3>1. F(m, f)
      OBVIOUS
    <3> QED  BY <2>2, <3>1
  <2>4. PICK g : F(m - 1, g)
    <3>1. m - 1 \in Nat /\ ~(m <= m - 1)
      BY <2>2, <2>3
    <3>2. m - 1 \notin Bad
      BY <2>1, <3>1
    <3> HIDE DEF F
    <3> QED  BY <3>1, <3>2
  <2> DEFINE last == IF g[m - 1].left = <<>> THEN g[m - 1] ELSE NextCommand(g[m - 1])
             f == [n \in 0..m |-> IF n = m THEN last ELSE g[n]]
  <2>5. \A n \in 0..m - 1 : n \in 0..m /\ n # m /\ f[n] = g[n]
    BY <2>2
  <2>6. ASSUME NEW n \in 0..m
        PROVE  f[n] = IF n = 0 THEN st
                      ELSE LET before == f[n - 1]
                           IN  IF before.left = <<>> THEN before ELSE NextCommand(before)
    <3>1. CASE n = m
      <4>1. m - 1 \in 0..m - 1 /\ n # 0
        BY <2>2, <2>3, <3>1
      <4>2. f[n - 1] = g[m - 1]
        BY <2>5, <3>1, <4>1
      <4>3. f[n] = last
        BY <3>1
      <4> HIDE DEF f
      <4> QED  BY <4>1, <4>2, <4>3
    <3>2. CASE n # m
      <4>1. n \in 0..m - 1 /\ (n # 0 => n - 1 \in 0..m - 1)
        BY <2>2, <3>2
      <4>2. f[n] = g[n] /\ (n # 0 => f[n - 1] = g[n - 1])
        BY <2>5, <4>1
      <4>3. g[n] = IF n = 0 THEN st
                   ELSE LET before == g[n - 1]
                        IN  IF before.left = <<>> THEN before ELSE NextCommand(before)
        BY <2>4, <4>1
      <4> HIDE DEF f
      <4> QED  BY <4>2, <4>3
    <3> QED  BY <3>1, <3>2
  <2>7. F(m, f)
    <3>1. f = [n \in 0..m |-> f[n]]
      OBVIOUS
    <3> HIDE DEF f
    <3> QED  BY <2>6, <3>1
  <2> HIDE DEF F, f
  <2> QED  BY <2>2, <2>7
<1>2. \E f : F(Len(st.left), f)
  BY <1>1
<1> QED  BY <1>2 DEF Parsing

LEMMA ParseListIs ==
  ASSUME NEW st, Len(st.left) \in Nat
  PROVE  \E f : Parsing(st, f) /\ ParseList(st) = f[Len(st.left)]
<1> DEFINE f == CHOOSE f : Parsing(st, f)
<1>1. Parsing(st, f)
  BY ParsingExists
<1>2. ParseList(st) = f[Len(st.left)]
  BY DEF ParseList, Parsing
<1> HIDE DEF f
<1> QED  BY <1>1, <1>2

\* Nothing happens once nothing is left.
LEMMA ParsedStays ==
  ASSUME NEW st, NEW N \in Nat, Len(st.left) = N, NEW f, Parsing(st, f),
         NEW k \in 0..N, f[k].left = <<>>
  PROVE  f[N] = f[k]
<1> DEFINE Bad == {m \in Nat : m \in k..N /\ f[m] # f[k]}
<1>1. Bad = {}
  <2> SUFFICES ASSUME Bad # {} PROVE FALSE
    OBVIOUS
  <2>1. PICK m \in Bad : \A j \in Bad : m <= j
    <3>1. Bad \in SUBSET Nat
      OBVIOUS
    <3> HIDE DEF Bad
    <3> QED  BY <3>1, LeastOf
  <2>2. m \in Nat /\ m \in k..N /\ f[m] # f[k] /\ m # k
    BY <2>1
  <2>3. m - 1 \in Nat /\ m - 1 \in k..N /\ ~(m <= m - 1) /\ m \in 0..N /\ m # 0
    BY <2>2
  <2>4. f[m - 1] = f[k]
    BY <2>1, <2>3
  <2>5. f[m] = LET before == f[m - 1]
               IN  IF before.left = <<>> THEN before ELSE NextCommand(before)
    BY <2>3 DEF Parsing
  <2> QED  BY <2>2, <2>4, <2>5
<1>2. N \in k..N
  OBVIOUS
<1> QED  BY <1>1, <1>2

\* A list of one command, and one of two.
LEMMA ParseOne ==
  ASSUME NEW st, NEW N \in Nat, Len(st.left) = N, N >= 1, st.left # <<>>,
         NextCommand(st).left = <<>>
  PROVE  ParseList(st) = NextCommand(st)
<1>1. PICK f : Parsing(st, f) /\ ParseList(st) = f[N]
  BY ParseListIs
<1>2. 0 \in 0..N /\ 1 \in 0..N /\ 1 - 1 = 0 /\ 1 # 0
  OBVIOUS
<1>3. f[0] = st
  BY <1>1, <1>2 DEF Parsing
<1>4. f[1] = LET before == f[1 - 1]
             IN  IF before.left = <<>> THEN before ELSE NextCommand(before)
  BY <1>1, <1>2 DEF Parsing
<1>5. f[1] = NextCommand(st)
  BY <1>2, <1>3, <1>4
<1>6. f[N] = f[1]
  BY <1>1, <1>2, <1>5, ParsedStays
<1> QED  BY <1>1, <1>5, <1>6

LEMMA ParseTwo ==
  ASSUME NEW st, NEW N \in Nat, Len(st.left) = N, N >= 2, st.left # <<>>,
         NEW next, next = NextCommand(st), next.left # <<>>, NextCommand(next).left = <<>>
  PROVE  ParseList(st) = NextCommand(next)
<1>1. PICK f : Parsing(st, f) /\ ParseList(st) = f[N]
  BY ParseListIs
<1>2. 0 \in 0..N /\ 1 \in 0..N /\ 2 \in 0..N /\ 1 - 1 = 0 /\ 2 - 1 = 1 /\ 1 # 0 /\ 2 # 0
  OBVIOUS
<1>3. f[0] = st
  BY <1>1, <1>2 DEF Parsing
<1>4. f[1] = LET before == f[1 - 1]
             IN  IF before.left = <<>> THEN before ELSE NextCommand(before)
  BY <1>1, <1>2 DEF Parsing
<1>5. f[1] = next
  BY <1>2, <1>3, <1>4
<1>6. f[2] = LET before == f[2 - 1]
             IN  IF before.left = <<>> THEN before ELSE NextCommand(before)
  BY <1>1, <1>2 DEF Parsing
<1>7. f[2] = NextCommand(next)
  BY <1>2, <1>5, <1>6
<1>8. f[N] = f[2]
  BY <1>1, <1>2, <1>7, ParsedStays
<1> QED  BY <1>1, <1>7, <1>8

-----------------------------------------------------------------------------
(* One command of a list: the bytes up to its length, and what comes after.  *)

Joined(all, chunk, after) == all = chunk \o after

LEMMA JoinedIs ==
  ASSUME NEW all, NEW chunk, NEW after, chunk \in Bytes, after \in Bytes, Joined(all, chunk, after)
  PROVE  /\ all \in Bytes /\ Len(all) = Len(chunk) + Len(after)
         /\ \A i \in 1..Len(chunk) : all[i] = chunk[i]
         /\ chunk # <<>> => all[1] = chunk[1]
<1>0. all = chunk \o after
  BY DEF Joined
<1>1. /\ all \in Bytes /\ Len(all) = Len(chunk) + Len(after)
      /\ \A i \in 1..Len(chunk) + Len(after) : all[i] = IF i <= Len(chunk) THEN chunk[i] ELSE after[i - Len(chunk)]
      /\ Len(chunk) \in Nat /\ Len(after) \in Nat
  BY <1>0, ConcatProperties, LenProperties DEF Bytes
<1>2. ASSUME NEW i \in 1..Len(chunk) PROVE all[i] = chunk[i]
  <2>1. i \in 1..Len(chunk) + Len(after) /\ i <= Len(chunk)
    BY <1>1
  <2> HIDE DEF Joined
  <2> QED  BY <1>1, <2>1
<1>3. chunk # <<>> => 1 \in 1..Len(chunk)
  BY <1>1, EmptySeq DEF Bytes
<1> QED  BY <1>1, <1>2, <1>3

LEMMA OneCommand ==
  ASSUME NEW x, NEW o, NEW running, NEW chunk, NEW after, NEW all,
         chunk \in Bytes, after \in Bytes, chunk # <<>>, Joined(all, chunk, after),
         PacketLength(all, running) = Len(chunk)
  PROVE  NextCommand(St(x, o, running, all)) =
             LET done == Done(St(x, o, Running(chunk[1], running), after), chunk)
             IN  IF done.left = <<>> THEN done ELSE SkipDelta(done)
<1> DEFINE st  == St(x, o, running, all)
           n   == Len(chunk)
           now == Running(chunk[1], running)
<1>0. all = chunk \o after
  BY DEF Joined
<1>1. /\ SubSeq(all, 1, n) = chunk /\ SubSeq(all, n + 1, Len(all)) = after /\ all[1] = chunk[1]
      /\ n \in Nat /\ n > 0 /\ Len(all) \in Nat /\ n <= Len(all)
  <2>1. SubSeq(all, 1, n) = chunk /\ SubSeq(all, n + 1, Len(all)) = after
    BY <1>0, Parts DEF Bytes
  <2>2. n \in Nat /\ n > 0 /\ Len(after) \in Nat
    BY EmptySeq, LenProperties DEF Bytes
  <2>3. /\ Len(all) = n + Len(after)
        /\ \A i \in 1..n + Len(after) : all[i] = IF i <= n THEN chunk[i] ELSE after[i - n]
    BY <1>0, ConcatProperties DEF Bytes
  <2>4. all[1] = chunk[1]
    <3>1. 1 \in 1..n + Len(after) /\ 1 <= n
      BY <2>2
    <3> HIDE DEF n
    <3> QED  BY <2>3, <3>1
  <2> QED  BY <2>1, <2>2, <2>3, <2>4
<1>2. /\ st.sysex = x /\ st.out = o /\ st.running = running /\ st.left = all
  BY DEF St
<1>3. NextCommand(st) = Command(st, n)
  <2>1. PacketLength(st.left, st.running) = n
    BY <1>2
  <2>2. ~(n < 0) /\ ~(n = 0 \/ n > Len(st.left))
    BY <1>1, <1>2
  <2> QED  BY <2>1, <2>2 DEF NextCommand
<1>4. Rest(st, n) = St(x, o, now, after)
  <2>1. Rest(st, n) = St(x, o, Running(all[1], running), SubSeq(all, n + 1, Len(all)))
    BY NewLeft
  <2> HIDE DEF st, n
  <2> QED  BY <1>1, <2>1
<1> HIDE DEF st
<1>5. Command(st, n) = LET done == Done(St(x, o, Running(chunk[1], running), after), chunk)
                       IN  IF done.left = <<>> THEN done ELSE SkipDelta(done)
  <2>1. SubSeq(st.left, 1, n) = chunk
    BY <1>1, <1>2
  <2> HIDE DEF n
  <2> QED  BY <1>4, <2>1 DEF Command
<1> QED  BY <1>3, <1>5 DEF st

\* A packet of one command.
LEMMA OnePacket ==
  ASSUME NEW x, NEW o, NEW chunk \in Bytes, chunk # <<>>, PacketLength(chunk, 0) = Len(chunk),
         Done(St(x, o, Running(chunk[1], 0), <<>>), chunk).left = <<>>
  PROVE  ParseList(St(x, o, 0, chunk)) = Done(St(x, o, Running(chunk[1], 0), <<>>), chunk)
<1> DEFINE st    == St(x, o, 0, chunk)
           after == <<>>
           done  == Done(St(x, o, Running(chunk[1], 0), after), chunk)
<1>1. after \in Bytes /\ Joined(chunk, chunk, after)
  BY ConcatEmptySeq DEF Bytes, Joined
<1>2. NextCommand(st) = done
  <2> HIDE DEF after
  <2>1. NextCommand(st) = IF done.left = <<>> THEN done ELSE SkipDelta(done)
    BY <1>1, OneCommand
  <2>2. done.left = <<>>
    BY DEF after
  <2> HIDE DEF done
  <2> QED  BY <1>1, <2>1, <2>2
<1>3. st.left = chunk
  BY DEF St
<1>4. Len(chunk) \in Nat /\ Len(chunk) >= 1
  BY EmptySeq DEF Bytes
<1> HIDE DEF st, done
<1>5. ParseList(st) = NextCommand(st)
  BY <1>2, <1>3, <1>4, ParseOne DEF done
<1> QED  BY <1>2, <1>5 DEF st, done

\* A SysEx chunk goes to the first status byte after its own.
LEMMA SysexLengthIs ==
  ASSUME NEW p \in Bytes, NEW n \in 2..Len(p), ~IsData(p[n]), \A i \in 2..n - 1 : IsData(p[i])
  PROVE  SysexLength(p) = n
<1> DEFINE ends == {i \in 2..Len(p) : ~IsData(p[i])}
<1>1. Len(p) \in Nat /\ n \in Nat
  BY LenProperties DEF Bytes
<1>2. n \in ends /\ ends # {}
  OBVIOUS
<1>3. \A i \in ends : i \in Nat /\ n <= i
  <2> SUFFICES ASSUME NEW i \in ends PROVE i \in Nat /\ n <= i
    OBVIOUS
  <2>1. i \in Nat /\ ~(i \in 2..n - 1) /\ i >= 2
    BY <1>1
  <2> QED  BY <1>1, <2>1
<1>4. SysexLength(p) = IF ends = {} THEN 0 ELSE Min(ends)
  BY DEF SysexLength
<1> HIDE DEF ends
<1>5. Min(ends) = n
  <2>1. Min(ends) \in ends /\ \A i \in ends : Min(ends) <= i
    BY <1>2, <1>3 DEF Min
  <2> DEFINE m == Min(ends)
  <2>2. m \in Nat /\ n <= m /\ m <= n
    BY <1>2, <1>3, <2>1
  <2> HIDE DEF m
  <2>3. m = n
    BY <1>1, <2>2
  <2> QED  BY <2>3 DEF m
<1> QED  BY <1>2, <1>4, <1>5

\* A packet that is a whole SysEx message, or a segment of one.
LEMMA FrameEnds ==
  ASSUME NEW x \in {Start, Stop}, NEW y \in {Start, Stop}, NEW d \in Seq(0..127),
         NEW p, Frame(p, x, d, y)
  PROVE  /\ p \in Bytes /\ p # <<>> /\ Len(p) = Len(d) + 2 /\ p[1] = x /\ Last(p) = y
         /\ Middle(p) = d /\ Front(p) = After(x, d) /\ d \in Bytes
         /\ \A i \in 1..Len(d) : p[i + 1] = d[i]
<1>1. x \in Nat /\ y \in Nat
  BY DEF Start, Stop
<1>2. d \in Bytes
  <2>1. 0..127 \subseteq Nat
    OBVIOUS
  <2> QED  BY <2>1, SeqMonotonic DEF Bytes
<1> QED  BY <1>1, <1>2, Framed

LEMMA ParseFrame ==
  ASSUME NEW x \in {Start, Stop}, NEW y \in {Start, Stop}, NEW d \in Seq(0..127),
         NEW p, Frame(p, x, d, y), NEW s \in Bytes, NEW o, s # <<>> \/ x = Start,
         ParseSysex(St(s, o, 0, <<>>), p).left = <<>>
  PROVE  ParseList(St(s, o, 0, p)) = ParseSysex(St(s, o, 0, <<>>), p)
<1>1. x \in {240, 247} /\ y \in {240, 247} /\ x \in Nat /\ y \in Nat
  BY DEF Start, Stop
<1>2. d \in Bytes
  <2>1. 0..127 \subseteq Nat
    OBVIOUS
  <2> QED  BY <2>1, SeqMonotonic DEF Bytes
<1>3. /\ p \in Bytes /\ p # <<>> /\ Len(p) = Len(d) + 2 /\ p[1] = x /\ Last(p) = y
      /\ \A i \in 1..Len(d) : p[i + 1] = d[i]
  <2>1. x \in Nat /\ y \in Nat /\ d \in Bytes /\ Frame(p, x, d, y)
    BY <1>1, <1>2
  <2> QED  BY <2>1, Framed
<1>4. Len(d) \in Nat
  BY LenProperties
<1>5. SysexLength(p) = Len(p)
  <2>1. Len(p) \in 2..Len(p)
    BY <1>3, <1>4
  <2>2. ~IsData(p[Len(p)])
    BY <1>1, <1>3 DEF Last, IsData
  <2>3. ASSUME NEW i \in 2..Len(p) - 1 PROVE IsData(p[i])
    <3>1. i - 1 \in 1..Len(d) /\ (i - 1) + 1 = i
      BY <1>3, <1>4
    <3>2. p[i] = d[i - 1] /\ d[i - 1] \in 0..127
      BY <1>3, <3>1, ElementOfSeq
    <3>3. \A b \in 0..127 : IsData(b)
      BY DEF IsData
    <3> QED  BY <3>2, <3>3
  <2> QED  BY <1>3, <2>1, <2>2, <2>3, SysexLengthIs
<1>6. PacketLength(p, 0) = Len(p)
  <2>1. p[1] \in {Start, Stop, Cancel} /\ ~IsData(p[1])
    BY <1>1, <1>3 DEF IsData
  <2> QED  BY <1>5, <2>1 DEF PacketLength
<1>7. Done(St(s, o, Running(p[1], 0), <<>>), p) = ParseSysex(St(s, o, 0, <<>>), p)
  <2>1. Running(p[1], 0) = 0
    BY <1>1, <1>3 DEF Running, Start, Stop
  <2>2. (s # <<>> \/ p[1] = Start) /\ ~IsData(p[1])
    BY <1>1, <1>3 DEF IsData
  <2>3. St(s, o, 0, <<>>).sysex = s
    BY Fields
  <2> QED  BY <2>1, <2>2, <2>3 DEF Done
<1> QED  BY <1>3, <1>6, <1>7, OnePacket

-----------------------------------------------------------------------------
(* What each kind of packet does to the half that receives it. *)

\* A note, or the choice of a program.
Short(m) == /\ m \in Bytes
            /\ \/ Len(m) = 3 /\ m[1] = 144
               \/ Len(m) = 2 /\ m[1] = 192

LEMMA ShortLength ==
  ASSUME NEW m, Short(m), NEW all, all[1] = m[1], NEW running
  PROVE  /\ m \in Bytes /\ m # <<>> /\ m[1] \in {144, 192}
         /\ PacketLength(all, running) = Len(m) /\ Running(m[1], running) = m[1]
<1>1. m \in Bytes /\ m # <<>> /\ m[1] \in {144, 192}
  BY DEF Short, Bytes
<1>2. PacketLength(all, running) = Len(m)
  <2>1. m[1] \notin {Start, Stop, Cancel} /\ ~IsData(m[1])
    BY <1>1 DEF Start, Stop, Cancel, IsData
  <2>2. StatusSize(m[1]) = Len(m)
    <3>1. CASE m[1] = 144
      <4>1. Len(m) = 3
        BY <3>1 DEF Short
      <4>2. StatusSize(144) = 3
        BY DEF StatusSize
      <4> QED  BY <3>1, <4>1, <4>2
    <3>2. CASE m[1] = 192
      <4>1. Len(m) = 2
        BY <3>2 DEF Short
      <4>2. StatusSize(192) = 2
        BY DEF StatusSize
      <4> QED  BY <3>2, <4>1, <4>2
    <3> QED  BY <1>1, <3>1, <3>2
  <2> QED  BY <2>1, <2>2 DEF PacketLength
<1>3. Running(m[1], running) = m[1]
  <2>1. Running(144, running) = 144 /\ Running(192, running) = 192
    BY DEF Running, Start, Stop
  <2> QED  BY <1>1, <2>1
<1> QED  BY <1>1, <1>2, <1>3

LEMMA DoneShort ==
  ASSUME NEW o, NEW m, Short(m), NEW running, NEW after
  PROVE  Done(St(<<>>, o, running, after), m) = St(<<>>, Append(o, m), running, after)
<1> DEFINE none == <<>>  st == St(none, o, running, after)
<1>1. st.sysex = <<>>
  BY Fields
<1>2. m[1] # Start /\ ~IsData(m[1])
  <2>1. m[1] \in {144, 192}
    BY DEF Short
  <2> QED  BY <2>1 DEF Start, IsData
<1> HIDE DEF st
<1>3. Done(st, m) = Emit(st, m)
  BY <1>1, <1>2 DEF Done
<1> HIDE DEF none
<1>4. Emit(st, m) = St(none, Append(o, m), running, after)
  BY Emitted DEF st
<1> QED  BY <1>3, <1>4 DEF st, none

LEMMA ParseShort ==
  ASSUME NEW o, NEW m, Short(m)
  PROVE  ParseList(St(<<>>, o, 0, m)) = St(<<>>, Append(o, m), m[1], <<>>)
<1> DEFINE none == <<>>
<1>1. m \in Bytes /\ m # <<>> /\ PacketLength(m, 0) = Len(m) /\ Running(m[1], 0) = m[1]
  BY ShortLength
<1>2. Done(St(none, o, m[1], none), m) = St(none, Append(o, m), m[1], none)
  BY DoneShort
<1>3. St(none, Append(o, m), m[1], none).left = <<>>
  BY Fields
<1> QED  BY <1>1, <1>2, <1>3, OnePacket

\* A whole SysEx message, the first segment of one, and those that follow.
LEMMA ParseWhole ==
  ASSUME NEW o, NEW p, NEW d \in Seq(0..127), Frame(p, Start, d, Stop)
  PROVE  ParseList(St(<<>>, o, 0, p)) = St(<<>>, Append(o, p), 0, <<>>)
<1> DEFINE none == <<>>  st == St(none, o, 0, none)
<1>1. Last(p) = Stop /\ none \in Bytes /\ Start \in {Start, Stop} /\ Stop \in {Start, Stop}
  BY FrameEnds DEF Bytes
<1>2. st.sysex = <<>>
  BY Fields
<1>3. ParseSysex(st, p) = Emit(st, p)
  <2> HIDE DEF st
  <2> QED  BY <1>1, <1>2 DEF ParseSysex, Begun
<1>4. Emit(st, p) = St(none, Append(o, p), 0, none)
  <2> HIDE DEF none
  <2> QED  BY Emitted
<1>5. St(none, Append(o, p), 0, none).left = <<>>
  BY Fields
<1> HIDE DEF st
<1>6. ParseList(St(none, o, 0, p)) = ParseSysex(st, p)
  BY <1>1, <1>3, <1>4, <1>5, ParseFrame DEF st
<1> QED  BY <1>3, <1>4, <1>6

LEMMA ParseFirst ==
  ASSUME NEW o, NEW p, NEW d \in Seq(0..127), Frame(p, Start, d, Start)
  PROVE  ParseList(St(<<>>, o, 0, p)) = St(After(Start, d), o, 0, <<>>)
<1> DEFINE none == <<>>  st == St(none, o, 0, none)
<1>1. /\ Last(p) = Start /\ Front(p) = After(Start, d)
      /\ none \in Bytes /\ Start \in {Start, Stop} /\ Start # Stop
  BY FrameEnds DEF Bytes, Start, Stop
<1>2. st.sysex = <<>>
  BY Fields
<1>3. ParseSysex(st, p) = Keep(st, Front(p))
  <2> HIDE DEF st
  <2> QED  BY <1>1, <1>2 DEF ParseSysex, Begun
<1>4. Keep(st, Front(p)) = St(Front(p), o, 0, none)
  BY NewSysex
<1>5. St(Front(p), o, 0, none).left = <<>>
  BY Fields
<1> HIDE DEF st
<1>6. ParseList(St(none, o, 0, p)) = ParseSysex(st, p)
  BY <1>1, <1>3, <1>4, <1>5, ParseFrame DEF st
<1> QED  BY <1>1, <1>3, <1>4, <1>6

LEMMA ParseNext ==
  ASSUME NEW o, NEW p, NEW d \in Seq(0..127), Frame(p, Stop, d, Start), NEW s \in Bytes, s # <<>>
  PROVE  ParseList(St(s, o, 0, p)) = St(s \o d, o, 0, <<>>)
<1> DEFINE none == <<>>  st == St(s, o, 0, none)  all == s \o d
<1>1. /\ p[1] = Stop /\ Last(p) = Start /\ Middle(p) = d
      /\ Start \in {Start, Stop} /\ Stop \in {Start, Stop}
      /\ Start # Stop /\ Start # Cancel /\ Stop # Cancel
  BY FrameEnds DEF Start, Stop, Cancel
<1>2. st.sysex = s
  BY Fields
<1>3. ParseSysex(st, p) = Keep(st, all)
  <2>1. s \o SubSeq(p, 2, Len(p) - 1) = all
    BY <1>1 DEF Middle
  <2> HIDE DEF st, all
  <2>2. ParseSysex(st, p) = Continued(st, p)
    BY <1>2 DEF ParseSysex
  <2> QED  BY <1>1, <1>2, <2>1, <2>2 DEF Continued
<1> HIDE DEF all
<1>4. Keep(st, all) = St(all, o, 0, none)
  BY NewSysex
<1>5. St(all, o, 0, none).left = <<>>
  BY Fields
<1> HIDE DEF st
<1>6. ParseList(St(s, o, 0, p)) = ParseSysex(st, p)
  BY <1>1, <1>3, <1>4, <1>5, ParseFrame DEF st
<1> QED  BY <1>3, <1>4, <1>6 DEF all

LEMMA ParseLast ==
  ASSUME NEW o, NEW p, NEW d \in Seq(0..127), Frame(p, Stop, d, Stop), NEW s \in Bytes, s # <<>>,
         s \o d # <<Start>>
  PROVE  ParseList(St(s, o, 0, p)) = St(<<>>, Append(o, Append(s \o d, Stop)), 0, <<>>)
<1> DEFINE none == <<>>  st == St(s, o, 0, none)  all == s \o d  closed == St(none, o, 0, none)
           m == Append(all, Stop)
<1>1. /\ p[1] = Stop /\ Last(p) = Stop /\ Middle(p) = d
      /\ Stop \in {Start, Stop} /\ Start # Stop /\ Start # Cancel /\ Stop # Cancel
  BY FrameEnds DEF Start, Stop, Cancel
<1>2. st.sysex = s
  BY Fields
<1>3. ParseSysex(st, p) = Emit(Keep(st, <<>>), m)
  <2>1. s \o SubSeq(p, 2, Len(p) - 1) = all /\ all # <<Start>>
    BY <1>1 DEF Middle
  <2> HIDE DEF st, all
  <2>2. ParseSysex(st, p) = Continued(st, p)
    BY <1>2 DEF ParseSysex
  <2> QED  BY <1>1, <1>2, <2>1, <2>2 DEF Continued
<1> HIDE DEF m
<1>4. Emit(Keep(st, <<>>), m) = St(none, Append(o, m), 0, none)
  <2>1. Keep(st, none) = closed
    BY NewSysex
  <2> HIDE DEF none, st
  <2>2. Emit(closed, m) = St(none, Append(o, m), 0, none)
    BY Emitted
  <2> QED  BY <2>1, <2>2 DEF none
<1>5. St(none, Append(o, m), 0, none).left = <<>>
  BY Fields
<1> HIDE DEF st
<1>6. ParseList(St(s, o, 0, p)) = ParseSysex(st, p)
  BY <1>1, <1>3, <1>4, <1>5, ParseFrame DEF st
<1> QED  BY <1>3, <1>4, <1>6 DEF m

-----------------------------------------------------------------------------
(* The lists of two commands that others send. *)

\* The time to the next command ends at its first byte without the high bit.
Delta(time) == /\ time \in Bytes /\ time # <<>>
               /\ IsData(time[Len(time)]) /\ \A i \in 1..Len(time) - 1 : ~IsData(time[i])

LEMMA DeltaSkipped ==
  ASSUME NEW x, NEW o, NEW running, NEW all, NEW time, NEW after,
         Delta(time), after \in Bytes, Joined(all, time, after)
  PROVE  SkipDelta(St(x, o, running, all)) = St(x, o, running, after)
<1> DEFINE st   == St(x, o, running, all)
           k    == Len(time)
           ends == {i \in 1..Len(all) : IsData(all[i])}
<1>0. /\ time \in Bytes /\ time # <<>>
      /\ IsData(time[Len(time)]) /\ \A i \in 1..Len(time) - 1 : ~IsData(time[i])
  BY DEF Delta
<1>1. /\ SubSeq(all, k + 1, Len(all)) = after /\ k \in Nat /\ k >= 1 /\ Len(all) \in Nat /\ k <= Len(all)
      /\ DOMAIN all = 1..Len(all) /\ \A i \in 1..k : all[i] = time[i]
  <2>1. all = time \o after
    BY DEF Joined
  <2>2. SubSeq(all, k + 1, Len(all)) = after
    BY <1>0, <2>1, Parts DEF Bytes
  <2>3. k \in Nat /\ k >= 1 /\ Len(after) \in Nat
    BY <1>0, EmptySeq, LenProperties DEF Bytes
  <2>4. /\ all \in Bytes /\ Len(all) = k + Len(after)
        /\ \A i \in 1..k + Len(after) : all[i] = IF i <= k THEN time[i] ELSE after[i - k]
    BY <1>0, <2>1, ConcatProperties DEF Bytes
  <2>5. DOMAIN all = 1..Len(all)
    BY <2>4, LenProperties DEF Bytes
  <2>6. ASSUME NEW i \in 1..k PROVE all[i] = time[i]
    <3>1. i \in 1..k + Len(after) /\ i <= k
      BY <2>3
    <3> HIDE DEF k
    <3> QED  BY <2>4, <3>1
  <2> QED  BY <2>2, <2>3, <2>4, <2>5, <2>6
<1>2. st.left = all
  BY Fields
<1>3. k \in ends /\ \A i \in ends : i \in Nat /\ k <= i
  <2>1. k \in ends
    BY <1>0, <1>1
  <2>2. ASSUME NEW i \in ends PROVE i \in Nat /\ k <= i
    <3>1. i \in Nat /\ i >= 1 /\ IsData(all[i])
      BY <1>1
    <3>2. i \in 1..k - 1 => FALSE
      BY <1>0, <1>1, <3>1
    <3> QED  BY <1>1, <3>1, <3>2
  <2> QED  BY <2>1, <2>2
<1>4. {i \in DOMAIN st.left : IsData(st.left[i])} = ends
  BY <1>1, <1>2
<1> HIDE DEF ends, st
<1>5. Min(ends) = k
  <2>1. Min(ends) \in ends /\ \A i \in ends : Min(ends) <= i
    BY <1>3 DEF Min
  <2> DEFINE m == Min(ends)
  <2>2. m \in Nat /\ k <= m /\ m <= k
    BY <1>3, <2>1
  <2> HIDE DEF m
  <2>3. m = k
    BY <1>1, <2>2
  <2> QED  BY <2>3 DEF m
<1>6. SkipDelta(st) = Skip(st, k)
  BY <1>3, <1>4, <1>5 DEF SkipDelta
<1>7. Skip(st, k) = St(x, o, running, SubSeq(all, k + 1, Len(all)))
  BY Skipped DEF st
<1> QED  BY <1>1, <1>6, <1>7 DEF st

\* A command, the time, and a command of one packet or what is left of one.
Fits(all, running, chunk) == PacketLength(all, running) = Len(chunk)
Now(chunk, running) == Running(chunk[1], running)

LEMMA TwoCommands ==
  ASSUME NEW x, NEW o, NEW all, NEW chunk, NEW after, NEW time, NEW more, NEW running, NEW running2,
         NEW o2, NEW o3, chunk \in Bytes, more \in Bytes, chunk # <<>>, more # <<>>, Delta(time),
         Joined(after, time, more), Joined(all, chunk, after),
         Fits(all, 0, chunk), Now(chunk, 0) = running,
         Done(St(x, o, running, after), chunk) = St(x, o2, running, after),
         Fits(more, running, more), Now(more, running) = running2,
         Done(St(x, o2, running2, <<>>), more) = St(x, o3, running2, <<>>)
  PROVE  ParseList(St(x, o, 0, all)) = St(x, o3, running2, <<>>)
<1> DEFINE none == <<>>
           st   == St(x, o, 0, all)
           next == St(x, o2, running, more)
           done == St(x, o3, running2, none)
<1>1. /\ after \in Bytes /\ after # <<>> /\ Len(all) \in Nat /\ Len(all) >= 2 /\ st.left # <<>> /\ st.left = all
      /\ next.left # <<>>
  <2>1. after = time \o more /\ all = chunk \o after
    BY DEF Joined
  <2>2. Len(time) \in Nat \ {0} /\ Len(chunk) \in Nat \ {0} /\ Len(more) \in Nat
    BY EmptySeq, LenProperties DEF Bytes, Delta
  <2>3. after \in Bytes /\ Len(after) = Len(time) + Len(more)
    BY <2>1, ConcatProperties DEF Bytes, Delta
  <2>4. all \in Bytes /\ Len(all) = Len(chunk) + Len(after)
    BY <2>1, <2>3, ConcatProperties DEF Bytes
  <2>5. st.left = all /\ next.left = more
    BY Fields
  <2> HIDE DEF st, next
  <2>6. Len(after) \in Nat \ {0} /\ Len(all) \in Nat /\ Len(all) >= 2
    BY <2>2, <2>3, <2>4
  <2>7. after # <<>> /\ all # <<>>
    BY <2>6
  <2> QED  BY <2>3, <2>5, <2>6, <2>7
<1>2. NextCommand(st) = next
  <2> DEFINE d == St(x, o2, running, after)
  <2>1. NextCommand(st) = IF d.left = <<>> THEN d ELSE SkipDelta(d)
    BY <1>1, OneCommand DEF Fits, Now
  <2>2. d.left = after
    BY Fields
  <2>3. SkipDelta(d) = next
    BY DeltaSkipped
  <2> HIDE DEF d
  <2> QED  BY <1>1, <2>1, <2>2, <2>3
<1>3. NextCommand(next) = done
  <2>1. none \in Bytes /\ Joined(more, more, none)
    BY ConcatEmptySeq DEF Bytes, Joined
  <2>2. done.left = <<>>
    BY Fields
  <2>3. Done(St(x, o2, running2, none), more) = done
    OBVIOUS
  <2> HIDE DEF none, done
  <2>4. NextCommand(next) = IF done.left = <<>> THEN done ELSE SkipDelta(done)
    BY <2>1, <2>3, OneCommand DEF Fits, Now
  <2> QED  BY <2>2, <2>4
<1>4. NextCommand(next).left = <<>>
  BY <1>3, Fields
<1> HIDE DEF st, next, done
<1>5. ParseList(st) = NextCommand(next)
  <2> DEFINE N == Len(all)
  <2>1. N \in Nat /\ N >= 2 /\ Len(st.left) = N
    BY <1>1
  <2> HIDE DEF N
  <2> QED  BY <1>1, <1>2, <1>4, <2>1, ParseTwo
<1> QED  BY <1>3, <1>5 DEF st, done

-----------------------------------------------------------------------------
(* The messages that are made. *)

LEMMA DataByteIs ==
  ASSUME NEW b \in Nat
  PROVE  DataByte(b) \in 0..127
BY DEF DataByte

LEMMA DataIs ==
  ASSUME made \in Nat, NEW k \in Nat
  PROVE  Data(k) \in Seq(0..127) /\ Len(Data(k)) = k
<1>1. \A i \in 1..k : DataByte(10 * made + i) \in 0..127
  <2> SUFFICES ASSUME NEW i \in 1..k PROVE DataByte(10 * made + i) \in 0..127
    OBVIOUS
  <2>1. 10 * made + i \in Nat
    OBVIOUS
  <2> QED  BY <2>1, DataByteIs
<1> DEFINE E == 0..127  d == Data(k)
<1>2. d = [i \in 1..k |-> DataByte(10 * made + i)]
  BY DEF Data
<1> HIDE DEF E, d
<1>3. d \in [1..k -> E]
  BY <1>1, <1>2 DEF E
<1>4. d \in Seq(E) /\ Len(d) = k
  <2>1. DOMAIN d = 1..k
    BY <1>3
  <2> QED  BY <1>3, <2>1, SeqDef
<1> QED  BY <1>4 DEF d, E

LEMMA MoreIs ==
  ASSUME made \in Nat
  PROVE  More \in Seq(0..127) /\ Len(More) = 2
<1> DEFINE E == 0..127  a == DataByte(10 * made + 8)  b == DataByte(10 * made + 9)
<1>1. a \in E /\ b \in E
  <2>1. 10 * made + 8 \in Nat /\ 10 * made + 9 \in Nat
    OBVIOUS
  <2> QED  BY <2>1, DataByteIs
<1> HIDE DEF E, a, b
<1>2. <<a, b>> \in Seq(E) /\ Len(<<a, b>>) = 2
  BY <1>1
<1>3. More = <<a, b>>
  BY DEF More, a, b
<1> QED  BY <1>2, <1>3 DEF E

LEMMA Septets ==
  ASSUME NEW d, d \in Seq(0..127)
  PROVE  /\ d \in Bytes /\ Len(d) \in Nat
         /\ \A i \in 1..Len(d) : d[i] \in 0..127 /\ IsData(d[i])
<1>1. d \in Bytes
  <2>1. 0..127 \subseteq Nat
    OBVIOUS
  <2> QED  BY <2>1, SeqMonotonic DEF Bytes
<1>2. ASSUME NEW i \in 1..Len(d) PROVE d[i] \in 0..127 /\ IsData(d[i])
  <2>1. d[i] \in 0..127
    BY ElementOfSeq
  <2>2. \A b \in 0..127 : IsData(b)
    BY DEF IsData
  <2> QED  BY <2>1, <2>2
<1>3. Len(d) \in Nat
  BY LenProperties
<1> QED  BY <1>1, <1>2, <1>3

\* A status byte and its data.
LEMMA AfterIs ==
  ASSUME NEW x, NEW d, x \in Nat, d \in Bytes
  PROVE  /\ After(x, d) \in Bytes /\ After(x, d) # <<>> /\ Len(After(x, d)) = Len(d) + 1
         /\ After(x, d)[1] = x /\ \A i \in 1..Len(d) : After(x, d)[i + 1] = d[i]
<1> DEFINE p == After(x, d)  h == <<x>>
<1>1. h \in Bytes /\ Len(h) = 1 /\ h[1] = x /\ Len(d) \in Nat
  BY LenProperties DEF Bytes
<1> HIDE DEF h
<1>2. p = h \o d
  BY DEF After, h
<1> HIDE DEF p
<1>3. /\ p \in Bytes /\ Len(p) = Len(h) + Len(d)
      /\ \A i \in 1..Len(h) + Len(d) : p[i] = IF i <= Len(h) THEN h[i] ELSE d[i - Len(h)]
  BY <1>1, <1>2, ConcatProperties DEF Bytes
<1>4. p[1] = x
  <2>1. 1 \in 1..Len(h) + Len(d) /\ 1 <= Len(h)
    BY <1>1
  <2> QED  BY <1>1, <1>3, <2>1
<1>5. ASSUME NEW i \in 1..Len(d) PROVE p[i + 1] = d[i]
  <2>1. i + 1 \in 1..Len(h) + Len(d) /\ ~(i + 1 <= Len(h)) /\ i + 1 - Len(h) = i
    BY <1>1
  <2> QED  BY <1>3, <2>1
<1>6. p # <<>> /\ Len(p) = Len(d) + 1
  <2>1. p \in Seq(Nat) /\ Len(p) = Len(d) + 1 /\ Len(d) \in Nat
    BY <1>1, <1>3 DEF Bytes
  <2>2. Len(p) # 0
    BY <2>1
  <2> QED  BY <2>1, <2>2, EmptySeq
<1> QED  BY <1>3, <1>4, <1>5, <1>6 DEF p

Shape(x, n) == (x = 144 /\ n = 3) \/ (x = 192 /\ n = 2)

LEMMA ShortIs ==
  ASSUME NEW x, NEW d, NEW n, x \in Nat, d \in Bytes, Len(d) = n, Shape(x, n + 1)
  PROVE  Short(After(x, d)) /\ Len(After(x, d)) = n + 1 /\ After(x, d)[1] = x
<1> DEFINE p == After(x, d)  k == Len(p)
<1>1. p \in Bytes /\ k = n + 1 /\ p[1] = x
  BY AfterIs
<1> HIDE DEF p, k
<1>2. (x = 144 /\ k = 3) \/ (x = 192 /\ k = 2)
  BY <1>1 DEF Shape
<1>3. Short(p)
  BY <1>1, <1>2 DEF Short, k
<1> QED  BY <1>1, <1>3 DEF p, k

LEMMA MadeIs ==
  ASSUME made \in Nat
  PROVE  /\ Short(Note) /\ Len(Note) = 3 /\ Note[1] = 144
         /\ Short(Program) /\ Len(Program) = 2 /\ Program[1] = 192
         /\ Short(After(144, More))
         /\ \A k \in Nat : Frame(Sysex(k), Start, Data(k), Stop)
<1>1. Short(Note) /\ Len(Note) = 3 /\ Note[1] = 144
  <2> DEFINE d == Data(2)  n == 2
  <2>1. d \in Bytes /\ Len(d) = n
    BY DataIs, Septets
  <2>2. Note = After(144, d)
    BY DEF Note, After
  <2>3. Shape(144, n + 1) /\ n + 1 = 3
    BY DEF Shape
  <2> HIDE DEF d, n
  <2>4. Short(After(144, d)) /\ Len(After(144, d)) = n + 1 /\ After(144, d)[1] = 144
    BY <2>1, <2>3, ShortIs
  <2> QED  BY <2>2, <2>3, <2>4
<1>2. Short(Program) /\ Len(Program) = 2 /\ Program[1] = 192
  <2> DEFINE d == Data(1)  n == 1
  <2>1. d \in Bytes /\ Len(d) = n
    BY DataIs, Septets
  <2>2. Program = After(192, d)
    BY DEF Program, After
  <2>3. Shape(192, n + 1) /\ n + 1 = 2
    BY DEF Shape
  <2> HIDE DEF d, n
  <2>4. Short(After(192, d)) /\ Len(After(192, d)) = n + 1 /\ After(192, d)[1] = 192
    BY <2>1, <2>3, ShortIs
  <2> QED  BY <2>2, <2>3, <2>4
<1>3. Short(After(144, More))
  <2> DEFINE d == More  n == 2
  <2>1. d \in Bytes /\ Len(d) = n
    BY MoreIs, Septets
  <2>2. Shape(144, n + 1)
    BY DEF Shape
  <2> HIDE DEF d, n
  <2>3. Short(After(144, d))
    BY <2>1, <2>2, ShortIs
  <2> QED  BY <2>3 DEF d
<1>4. \A k \in Nat : Frame(Sysex(k), Start, Data(k), Stop)
  BY DEF Frame, Sysex
<1> QED  BY <1>1, <1>2, <1>3, <1>4

\* A note, and the data of another one.
Pair(more) == more \in Seq(0..127) /\ Len(more) = 2

LEMMA ParseNotes ==
  ASSUME NEW o, NEW p, NEW after, NEW note, NEW more, NEW time,
         Short(note), note[1] = 144, Pair(more),
         Delta(time), Joined(after, time, more), Joined(p, note, after)
  PROVE  ParseList(St(<<>>, o, 0, p))
         = St(<<>>, Append(Append(o, note), After(144, more)), 144, <<>>)
<1> DEFINE none == <<>>  o2 == Append(o, note)  o3 == Append(o2, After(144, more))
<1>1. time \in Bytes /\ time # <<>>
  BY DEF Delta
<1>2. more \in Bytes /\ more # <<>> /\ more[1] \in 0..127 /\ IsData(more[1])
  <2>1. 1 \in 1..Len(more) /\ more # <<>>
    <3> DEFINE n == Len(more)
    <3>1. n = 2
      BY DEF Pair
    <3>2. more \in Seq(0..127)
      BY DEF Pair
    <3> HIDE DEF n
    <3>3. 1 \in 1..n /\ n # 0
      BY <3>1
    <3> QED  BY <3>2, <3>3, EmptySeq DEF n
  <2>2. more \in Bytes /\ \A i \in 1..Len(more) : more[i] \in 0..127 /\ IsData(more[i])
    BY Septets DEF Pair
  <2> QED  BY <2>1, <2>2
<1>3. note \in Bytes /\ note # <<>> /\ p[1] = note[1]
  <2>1. note \in Bytes /\ note # <<>>
    BY ShortLength
  <2>2. after \in Bytes
    BY <1>1, <1>2, JoinedIs
  <2> QED  BY <2>1, <2>2, JoinedIs
<1>4. Fits(p, 0, note) /\ Now(note, 0) = 144
  BY <1>3, ShortLength DEF Fits, Now
<1>5. Done(St(none, o, 144, after), note) = St(none, o2, 144, after)
  BY DoneShort
<1>6. Fits(more, 144, more)
  <2>1. more[1] \notin {Start, Stop, Cancel}
    <3>1. \A b \in 0..127 : b \notin {Start, Stop, Cancel}
      BY DEF Start, Stop, Cancel
    <3> QED  BY <1>2, <3>1
  <2>2. StatusSize(144) = 3
    BY DEF StatusSize
  <2>3. PacketLength(more, 144) = StatusSize(144) - 1
    BY <1>2, <2>1 DEF PacketLength
  <2>4. Len(more) = 2
    BY DEF Pair
  <2> QED  BY <2>2, <2>3, <2>4 DEF Fits
<1>7. Now(more, 144) = 144
  <2>1. \A b \in 0..127 : Running(b, 144) = 144
    BY DEF Running, Start, Stop
  <2> QED  BY <1>2, <2>1 DEF Now
<1>8. Done(St(none, o2, 144, none), more) = St(none, o3, 144, none)
  <2> DEFINE st == St(none, o2, 144, none)
  <2>1. st.sysex = <<>> /\ st.running = 144
    BY Fields
  <2>2. more[1] # Start
    <3>1. \A b \in 0..127 : b # Start
      BY DEF Start
    <3> QED  BY <1>2, <3>1
  <2>3. <<144>> \o more = After(144, more)
    BY DEF After
  <2> HIDE DEF st
  <2>4. Done(st, more) = Emit(st, After(144, more))
    BY <1>2, <2>1, <2>2, <2>3 DEF Done
  <2> HIDE DEF none, o2
  <2>5. Emit(st, After(144, more)) = St(none, o3, 144, none)
    BY Emitted DEF st
  <2> QED  BY <2>4, <2>5 DEF st
<1> HIDE DEF o2, o3
<1> QED  BY <1>1, <1>2, <1>3, <1>4, <1>5, <1>6, <1>7, <1>8, TwoCommands DEF o2, o3

\* A SysEx message, and a command.
LEMMA ParseSysexShort ==
  ASSUME NEW o, NEW p, NEW after, NEW d, NEW whole, NEW m, NEW time,
         d \in Seq(0..127), Frame(whole, Start, d, Stop), Short(m),
         Delta(time), Joined(after, time, m), Joined(p, whole, after)
  PROVE  ParseList(St(<<>>, o, 0, p)) = St(<<>>, Append(Append(o, whole), m), m[1], <<>>)
<1> DEFINE none == <<>>  o2 == Append(o, whole)  o3 == Append(o2, m)
<1>1. time \in Bytes /\ time # <<>>
  BY DEF Delta
<1>2. /\ m \in Bytes /\ m # <<>> /\ Fits(m, 0, m) /\ Now(m, 0) = m[1]
  BY ShortLength DEF Fits, Now
<1>3. after \in Bytes
  BY <1>1, <1>2, JoinedIs
<1>4. /\ whole \in Bytes /\ whole # <<>> /\ Len(whole) = Len(d) + 2 /\ whole[1] = Start /\ Last(whole) = Stop
      /\ \A i \in 1..Len(d) : whole[i + 1] = d[i]
  <2>1. Start \in {Start, Stop} /\ Stop \in {Start, Stop}
    OBVIOUS
  <2> QED  BY <2>1, FrameEnds
<1>5. p \in Bytes /\ Len(p) = Len(whole) + Len(after) /\ \A i \in 1..Len(whole) : p[i] = whole[i]
  <2>1. whole \in Bytes /\ after \in Bytes /\ Joined(p, whole, after)
    BY <1>3, <1>4
  <2> QED  BY ONLY <2>1, JoinedIs
<1>6. Len(d) \in Nat /\ Len(after) \in Nat /\ \A i \in 1..Len(d) : IsData(d[i])
  BY <1>3, Septets, LenProperties DEF Bytes
<1>7. SysexLength(p) = Len(whole)
  <2> DEFINE n == Len(whole)
  <2>1. n \in 2..Len(p)
    BY <1>4, <1>5, <1>6
  <2>2. ~IsData(p[n])
    <3>1. n \in 1..Len(whole)
      BY <2>1
    <3>2. p[n] = Stop
      BY <1>4, <1>5, <3>1 DEF Last
    <3> QED  BY <3>2 DEF IsData, Stop
  <2>3. ASSUME NEW i \in 2..n - 1 PROVE IsData(p[i])
    <3>1. i \in 1..Len(whole) /\ i - 1 \in 1..Len(d) /\ i - 1 + 1 = i
      BY <1>4, <1>6
    <3>2. p[i] = d[i - 1]
      BY <1>4, <1>5, <3>1
    <3> QED  BY <1>6, <3>1, <3>2
  <2> HIDE DEF n
  <2>4. SysexLength(p) = n
    BY <1>5, <2>1, <2>2, <2>3, SysexLengthIs
  <2> QED  BY <2>4 DEF n
<1>8. Fits(p, 0, whole)
  <2>1. 1 \in 1..Len(whole)
    BY <1>4, <1>6
  <2>2. p[1] \in {Start, Stop, Cancel} /\ ~IsData(p[1])
    BY <1>4, <1>5, <2>1 DEF IsData, Start
  <2> QED  BY <1>7, <2>2 DEF PacketLength, Fits
<1>9. Now(whole, 0) = 0
  BY <1>4 DEF Now, Running, Start, Stop
<1>10. Done(St(none, o, 0, after), whole) = St(none, o2, 0, after)
  <2> DEFINE st == St(none, o, 0, after)
  <2>1. st.sysex = <<>>
    BY Fields
  <2>2. ~IsData(Start)
    BY DEF IsData, Start
  <2> HIDE DEF st
  <2>3. Done(st, whole) = ParseSysex(st, whole)
    BY <1>4, <2>1, <2>2 DEF Done
  <2>4. ParseSysex(st, whole) = Emit(st, whole)
    BY <1>4, <2>1 DEF ParseSysex, Begun
  <2> HIDE DEF none
  <2>5. Emit(st, whole) = St(none, o2, 0, after)
    BY Emitted DEF st
  <2> QED  BY <2>3, <2>4, <2>5 DEF st
<1>11. Done(St(none, o2, m[1], none), m) = St(none, o3, m[1], none)
  <2> HIDE DEF o2
  <2> QED  BY DoneShort
<1> HIDE DEF o2, o3
<1>12. whole \in Bytes /\ whole # <<>>
  BY <1>4
<1> DEFINE now == m[1]
<1>13. Now(m, 0) = now /\ Done(St(none, o2, now, none), m) = St(none, o3, now, none)
  BY <1>2, <1>11
<1> HIDE DEF now
<1>14. ParseList(St(none, o, 0, p)) = St(none, o3, now, none)
  BY <1>1, <1>2, <1>8, <1>9, <1>10, <1>12, <1>13, TwoCommands
<1> QED  BY <1>14 DEF o2, o3, now

-----------------------------------------------------------------------------
(* Packets lead from one state of the half that receives to another one, if *)
(* each takes it to the next on the way, and messages only come out.        *)

HalfOf(x, o) == [sysex |-> x, out |-> o]

Takes(a, p, b) ==
    LET st == ParseList(St(a.sysex, a.out, 0, p))
    IN  Len(p) <= Mtu /\ st.sysex = b.sysex /\ st.out = b.out /\ st.doubt = {}

Before(s, t) == Len(s) <= Len(t) /\ \A i \in 1..Len(s) : s[i] = t[i]

Way(f, n, a, packets, b) ==
    /\ f \in [0..n -> Half] /\ f[0] = a /\ f[n] = b
    /\ \A k \in 1..n : Takes(f[k - 1], packets[k], f[k])
    /\ \A k \in 0..n : Before(f[k].out, b.out)

Leads(a, packets, b) == \E f : Way(f, Len(packets), a, packets, b)

LEMMA HalfIs ==
  ASSUME NEW x, NEW o, x \in Bytes, o \in Seq(Bytes)
  PROVE  HalfOf(x, o) \in Half /\ HalfOf(x, o).sysex = x /\ HalfOf(x, o).out = o
BY DEF HalfOf, Half

LEMMA BeforeStays ==
  ASSUME NEW s, s \in Seq(Bytes)
  PROVE  Before(s, s)
BY LenProperties DEF Before

LEMMA BeforeAppend ==
  ASSUME NEW s, NEW m, s \in Seq(Bytes), m \in Bytes
  PROVE  Append(s, m) \in Seq(Bytes) /\ Before(s, Append(s, m))
BY LenProperties DEF Before

LEMMA BeforeBefore ==
  ASSUME NEW s, NEW t, NEW u, s \in Seq(Bytes), t \in Seq(Bytes), u \in Seq(Bytes),
         Before(s, t), Before(t, u)
  PROVE  Before(s, u)
<1>1. Len(s) \in Nat /\ Len(t) \in Nat /\ Len(u) \in Nat /\ Len(s) <= Len(t) /\ Len(t) <= Len(u)
  BY LenProperties DEF Before
<1>2. ASSUME NEW i \in 1..Len(s) PROVE s[i] = u[i]
  <2>1. i \in 1..Len(t)
    BY <1>1
  <2> QED  BY <2>1 DEF Before
<1> QED  BY <1>1, <1>2 DEF Before

\* In the words of the property.
LEMMA BeforeIsPrefix ==
  ASSUME NEW s, NEW t, s \in Seq(Bytes), t \in Seq(Bytes), Before(s, t)
  PROVE  IsPrefix(s, t)
<1> DEFINE E == Bytes  n == Len(s)  v == SubSeq(t, 1, n)
<1>1. /\ n \in Nat /\ Len(t) \in Nat /\ n <= Len(t) /\ \A i \in 1..n : s[i] = t[i]
      /\ s \in Seq(E) /\ t \in Seq(E)
  BY LenProperties DEF Before
<1>2. SubSeq(s, 1, n) = s
  BY SubSeqFull
<1> HIDE DEF E
<1>3. \A i \in 1..n : t[i] \in E
  <2> SUFFICES ASSUME NEW i \in 1..n PROVE t[i] \in E
    OBVIOUS
  <2>1. i \in 1..Len(t)
    BY <1>1
  <2> QED  BY <1>1, <2>1, ElementOfSeq
<1>4. v \in Seq(E) /\ Len(v) = n /\ \A i \in 1..n : v[i] = t[i]
  <2> HIDE DEF n
  <2> QED  BY <1>1, <1>3, SubSeqProperties
<1>5. v = s
  <2> HIDE DEF v
  <2> QED  BY <1>1, <1>4, SeqEqual
<1> QED  BY <1>1, <1>2, <1>5 DEF IsPrefix

LEMMA LeadsNone ==
  ASSUME NEW a, a \in Half
  PROVE  Leads(a, <<>>, a)
<1> DEFINE f == [k \in 0..0 |-> a]
<1>1. f \in [0..0 -> Half] /\ f[0] = a
  OBVIOUS
<1>2. Before(a.out, a.out)
  BY BeforeStays DEF Half
<1> HIDE DEF f
<1>3. Way(f, 0, a, <<>>, a)
  BY <1>1, <1>2 DEF Way
<1>4. Len(<<>>) = 0
  OBVIOUS
<1> QED  BY <1>3, <1>4 DEF Leads

LEMMA LeadsOne ==
  ASSUME NEW a, NEW b, NEW packets, NEW p, a \in Half, b \in Half,
         packets \in Seq(Bytes), Len(packets) = 1, packets[1] = p, Takes(a, p, b), Before(a.out, b.out)
  PROVE  Leads(a, packets, b)
<1> DEFINE f == [k \in 0..1 |-> IF k = 0 THEN a ELSE b]
<1>1. f \in [0..1 -> Half] /\ f[0] = a /\ f[1] = b
  OBVIOUS
<1>2. Before(b.out, b.out)
  BY BeforeStays DEF Half
<1> HIDE DEF f
<1>3. \A k \in 1..1 : Takes(f[k - 1], packets[k], f[k])
  BY <1>1
<1>4. \A k \in 0..1 : Before(f[k].out, b.out)
  BY <1>1, <1>2
<1>5. Way(f, 1, a, packets, b)
  BY <1>1, <1>3, <1>4 DEF Way
<1> QED  BY <1>5 DEF Leads

LEMMA LeadsTail ==
  ASSUME NEW a, NEW b, NEW packets, NEW rest, packets \in Seq(Bytes), rest \in Seq(Bytes),
         Leads(a, packets, b), NEW n \in Nat, Len(rest) = n, Len(packets) = n + 1,
         \A k \in 1..n : rest[k] = packets[k + 1]
  PROVE  \E c \in Half : Takes(a, packets[1], c) /\ Leads(c, rest, b)
<1>1. PICK f : Way(f, n + 1, a, packets, b)
  BY DEF Leads
<1> DEFINE g == [k \in 0..n |-> f[k + 1]]
<1>2. /\ f \in [0..n + 1 -> Half] /\ f[0] = a /\ f[n + 1] = b
      /\ \A k \in 1..n + 1 : Takes(f[k - 1], packets[k], f[k])
      /\ \A k \in 0..n + 1 : Before(f[k].out, b.out)
  BY <1>1 DEF Way
<1>3. f[1] \in Half /\ Takes(a, packets[1], f[1])
  <2>1. 1 \in 1..n + 1 /\ 1 \in 0..n + 1 /\ 1 - 1 = 0
    OBVIOUS
  <2> QED  BY <1>2, <2>1
<1>4. Way(g, n, f[1], rest, b)
  <2>1. g \in [0..n -> Half]
    <3>1. \A k \in 0..n : k + 1 \in 0..n + 1
      OBVIOUS
    <3> QED  BY <1>2, <3>1
  <2>2. g[0] = f[1] /\ g[n] = b
    BY <1>2
  <2>3. ASSUME NEW k \in 1..n PROVE Takes(g[k - 1], rest[k], g[k])
    <3>1. /\ k - 1 \in 0..n /\ k \in 0..n /\ k + 1 \in 1..n + 1 /\ k + 1 - 1 = k /\ k - 1 + 1 = k
      OBVIOUS
    <3>2. g[k - 1] = f[k] /\ g[k] = f[k + 1]
      BY <3>1
    <3>3. Takes(f[k], packets[k + 1], f[k + 1])
      BY <1>2, <3>1
    <3> HIDE DEF g
    <3> QED  BY <3>2, <3>3
  <2>4. ASSUME NEW k \in 0..n PROVE Before(g[k].out, b.out)
    <3>1. k + 1 \in 0..n + 1
      OBVIOUS
    <3> QED  BY <1>2, <3>1
  <2> HIDE DEF g
  <2> QED  BY <2>1, <2>2, <2>3, <2>4 DEF Way
<1> HIDE DEF g
<1>5. Leads(f[1], rest, b)
  BY <1>4 DEF Leads
<1> QED  BY <1>3, <1>5

LEMMA LeadsJoin ==
  ASSUME NEW a, NEW b, NEW c, NEW packets, NEW more, packets \in Seq(Bytes), more \in Seq(Bytes),
         Leads(a, packets, b), Leads(b, more, c)
  PROVE  Leads(a, packets \o more, c)
<1> DEFINE all == packets \o more  m == Len(packets)  n == Len(more)
<1>1. /\ m \in Nat /\ n \in Nat /\ Len(all) = m + n
      /\ \A k \in 1..m + n : all[k] = IF k <= m THEN packets[k] ELSE more[k - m]
  BY ConcatProperties, LenProperties
<1>2. PICK f : Way(f, m, a, packets, b)
  BY DEF Leads
<1>3. PICK g : Way(g, n, b, more, c)
  BY DEF Leads
<1> HIDE DEF all, m, n
<1>4. /\ f \in [0..m -> Half] /\ f[0] = a /\ f[m] = b
      /\ \A k \in 1..m : Takes(f[k - 1], packets[k], f[k])
      /\ \A k \in 0..m : Before(f[k].out, b.out)
  BY <1>2 DEF Way
<1>5. /\ g \in [0..n -> Half] /\ g[0] = b /\ g[n] = c
      /\ \A k \in 1..n : Takes(g[k - 1], more[k], g[k])
      /\ \A k \in 0..n : Before(g[k].out, c.out)
  BY <1>3 DEF Way
<1> DEFINE h == [k \in 0..m + n |-> IF k <= m THEN f[k] ELSE g[k - m]]
<1>6. /\ \A k \in 0..m : k \in 0..m + n /\ h[k] = f[k]
      /\ \A k \in 0..n : m + k \in 0..m + n /\ h[m + k] = g[k]
  <2>1. ASSUME NEW k \in 0..m PROVE k \in 0..m + n /\ h[k] = f[k]
    BY <1>1
  <2>2. ASSUME NEW k \in 0..n PROVE m + k \in 0..m + n /\ h[m + k] = g[k]
    <3>1. m + k \in 0..m + n /\ m + k - m = k
      BY <1>1
    <3>2. CASE k = 0
      <4>1. m + k <= m /\ m + k = m
        BY <1>1, <3>2
      <4>2. h[m + k] = f[m + k]
        BY <3>1, <4>1
      <4>3. f[m + k] = b /\ g[k] = b
        BY <1>4, <1>5, <3>2, <4>1
      <4> HIDE DEF h
      <4>4. h[m + k] = g[k]
        BY <4>2, <4>3
      <4> QED  BY <3>1, <4>4
    <3>3. CASE k # 0
      <4>1. ~(m + k <= m)
        BY <1>1, <3>3
      <4> DEFINE i == m + k
      <4>2. i \in 0..m + n /\ ~(i <= m) /\ i - m = k
        BY <1>1, <3>1, <4>1
      <4> HIDE DEF i
      <4>3. h[i] = g[i - m]
        BY <4>2
      <4> HIDE DEF h
      <4>4. h[i] = g[k]
        BY <4>2, <4>3
      <4> QED  BY <4>2, <4>4 DEF i
    <3> QED  BY <3>2, <3>3
  <2> QED  BY <2>1, <2>2
<1>7. h \in [0..m + n -> Half]
  <2>1. ASSUME NEW k \in 0..m + n PROVE (IF k <= m THEN f[k] ELSE g[k - m]) \in Half
    <3>1. CASE k <= m
      <4>1. k \in 0..m
        BY <1>1, <3>1
      <4> QED  BY <1>4, <3>1, <4>1
    <3>2. CASE ~(k <= m)
      <4>1. k - m \in 0..n
        BY <1>1, <3>2
      <4> QED  BY <1>5, <3>2, <4>1
    <3> QED  BY <3>1, <3>2
  <2> QED  BY <2>1
<1> HIDE DEF h
<1>8. h[0] = a /\ h[m + n] = c
  <2>1. 0 \in 0..m /\ n \in 0..n
    BY <1>1
  <2> QED  BY <1>4, <1>5, <1>6, <2>1
<1>9. ASSUME NEW k \in 1..m + n PROVE Takes(h[k - 1], all[k], h[k])
  <2>1. CASE k <= m
    <3>1. k - 1 \in 0..m /\ k \in 0..m /\ k \in 1..m
      BY <1>1, <2>1
    <3>2. h[k - 1] = f[k - 1] /\ h[k] = f[k] /\ all[k] = packets[k]
      BY <1>1, <1>6, <2>1, <3>1
    <3> QED  BY <1>4, <3>1, <3>2
  <2>2. CASE ~(k <= m)
    <3> DEFINE j == k - m
    <3>1. j \in 1..n /\ j \in 0..n /\ j - 1 \in 0..n /\ m + j = k /\ m + (j - 1) = k - 1
      BY <1>1, <2>2
    <3>2. all[k] = more[j]
      BY <1>1, <2>2
    <3> HIDE DEF j
    <3>3. h[k] = g[j] /\ h[k - 1] = g[j - 1]
      BY <1>6, <3>1
    <3> QED  BY <1>5, <3>1, <3>2, <3>3
  <2> QED  BY <2>1, <2>2
<1>10. ASSUME NEW k \in 0..m + n PROVE Before(h[k].out, c.out)
  <2>1. CASE k <= m
    <3>1. k \in 0..m /\ 0 \in 0..n /\ m \in 0..m
      BY <1>1, <2>1
    <3>2. Before(f[k].out, b.out) /\ Before(b.out, c.out) /\ h[k] = f[k]
      BY <1>4, <1>5, <1>6, <3>1
    <3>3. f[k] \in Half /\ b \in Half /\ c \in Half
      <4>1. n \in 0..n
        BY <1>1
      <4> QED  BY <1>4, <1>5, <3>1, <4>1
    <3>4. f[k].out \in Seq(Bytes) /\ b.out \in Seq(Bytes) /\ c.out \in Seq(Bytes)
      BY <3>3 DEF Half
    <3> QED  BY <3>2, <3>4, BeforeBefore
  <2>2. CASE ~(k <= m)
    <3> DEFINE j == k - m
    <3>1. j \in 0..n /\ m + j = k
      BY <1>1, <2>2
    <3> HIDE DEF j
    <3> QED  BY <1>5, <1>6, <3>1
  <2> QED  BY <2>1, <2>2
<1>11. Way(h, m + n, a, all, c)
  BY <1>7, <1>8, <1>9, <1>10 DEF Way
<1> QED  BY <1>1, <1>11 DEF Leads, all

-----------------------------------------------------------------------------
(* Where each kind of packet leads. *)

\* One packet, from a state where no message has begun.
LEMMA OneLeads ==
  ASSUME NEW o, NEW o2, NEW p, NEW running, o \in Seq(Bytes), o2 \in Seq(Bytes), p \in Bytes,
         Len(p) <= Mtu, ParseList(St(<<>>, o, 0, p)) = St(<<>>, o2, running, <<>>), Before(o, o2)
  PROVE  Leads(HalfOf(<<>>, o), <<p>>, HalfOf(<<>>, o2))
<1> DEFINE none == <<>>  a == HalfOf(none, o)  b == HalfOf(none, o2)  packets == <<p>>
<1>1. none \in Bytes
  BY DEF Bytes
<1>2. a \in Half /\ a.sysex = none /\ a.out = o
  <2> HIDE DEF none
  <2> QED  BY <1>1, HalfIs
<1>3. b \in Half /\ b.sysex = none /\ b.out = o2
  <2> HIDE DEF none
  <2> QED  BY <1>1, HalfIs
<1>4. Takes(a, p, b)
  <2> DEFINE st == St(none, o2, running, none)
  <2>1. st.sysex = none /\ st.out = o2 /\ st.doubt = {}
    BY Fields
  <2>2. ParseList(St(none, o, 0, p)) = st
    OBVIOUS
  <2> HIDE DEF a, b, st, none
  <2> QED  BY <1>2, <1>3, <2>1, <2>2 DEF Takes
<1>5. packets \in Seq(Bytes) /\ Len(packets) = 1 /\ packets[1] = p
  OBVIOUS
<1> HIDE DEF a, b, packets
<1>6. Leads(a, packets, b)
  BY <1>2, <1>3, <1>4, <1>5, LeadsOne
<1> QED  BY <1>6 DEF a, b, packets

LEMMA ShortLeads ==
  ASSUME NEW o, NEW m, o \in Seq(Bytes), Short(m)
  PROVE  Leads(HalfOf(<<>>, o), <<m>>, HalfOf(<<>>, Append(o, m)))
<1>1. m \in Bytes /\ Len(m) <= Mtu
  <2>1. m \in Bytes /\ (Len(m) = 3 \/ Len(m) = 2)
    BY DEF Short
  <2>2. 3 <= Mtu /\ 2 <= Mtu
    BY MidiPathAssumption
  <2> QED  BY <2>1, <2>2
<1>2. Append(o, m) \in Seq(Bytes) /\ Before(o, Append(o, m))
  BY <1>1, BeforeAppend
<1>3. ParseList(St(<<>>, o, 0, m)) = St(<<>>, Append(o, m), m[1], <<>>)
  BY ParseShort
<1> QED  BY <1>1, <1>2, <1>3, OneLeads

LEMMA WholeLeads ==
  ASSUME NEW o, NEW p, NEW d, o \in Seq(Bytes), d \in Seq(0..127), Frame(p, Start, d, Stop), Len(p) <= Mtu
  PROVE  Leads(HalfOf(<<>>, o), <<p>>, HalfOf(<<>>, Append(o, p)))
<1>1. p \in Bytes
  BY FrameEnds
<1>2. Append(o, p) \in Seq(Bytes) /\ Before(o, Append(o, p))
  BY <1>1, BeforeAppend
<1>3. ParseList(St(<<>>, o, 0, p)) = St(<<>>, Append(o, p), 0, <<>>)
  BY ParseWhole
<1> QED  BY <1>1, <1>2, <1>3, OneLeads

LEMMA JoinedTwice ==
  ASSUME NEW a, NEW b, NEW c, a \in Bytes, b \in Bytes, c \in Bytes
  PROVE  Joined(a \o b \o c, a, b \o c)
<1> DEFINE E == Nat
<1>1. a \in Seq(E) /\ b \in Seq(E) /\ c \in Seq(E)
  BY DEF Bytes
<1> HIDE DEF E
<1>2. (a \o b) \o c = a \o (b \o c)
  BY <1>1, ConcatAssociative
<1> QED  BY <1>2 DEF Joined

LEMMA NotesLead ==
  ASSUME NEW o, o \in Seq(Bytes), made \in Nat
  PROVE  /\ Leads(HalfOf(<<>>, o), <<Note \o <<0>> \o More>>,
                  HalfOf(<<>>, Append(Append(o, Note), After(144, More))))
         /\ Note \o <<0>> \o More \in Bytes
         /\ Note \in Bytes /\ After(144, More) \in Bytes
<1> DEFINE time == <<0>>  after == time \o More  p == Note \o time \o More
           o2 == Append(o, Note)  o3 == Append(o2, After(144, More))
<1>1. Short(Note) /\ Note[1] = 144 /\ Len(Note) = 3 /\ Pair(More)
  BY MadeIs, MoreIs DEF Pair
<1>2. Delta(time) /\ Len(time) = 1 /\ time \in Bytes
  BY DEF Delta, Bytes, IsData
<1> HIDE DEF time
<1>3. Note \in Bytes /\ More \in Bytes /\ Len(More) = 2 /\ After(144, More) \in Bytes
  <2>1. Note \in Bytes
    BY <1>1 DEF Short
  <2>2. More \in Bytes /\ Len(More) = 2
    BY MoreIs, Septets
  <2>3. After(144, More) \in Bytes
    BY <2>2, AfterIs
  <2> QED  BY <2>1, <2>2, <2>3
<1>4. Joined(after, time, More)
  BY DEF Joined
<1>5. Joined(p, Note, after)
  BY <1>2, <1>3, JoinedTwice
<1> HIDE DEF after, p
<1>6. p \in Bytes /\ Len(p) = 3 + (1 + 2)
  <2> DEFINE k == Len(Note)  l == Len(time)  n == Len(More)
  <2>1. k = 3 /\ l = 1 /\ n = 2
    BY <1>1, <1>2, <1>3
  <2>2. after \in Bytes /\ Len(after) = l + n
    <3>1. time \in Bytes /\ More \in Bytes
      BY <1>2, <1>3
    <3> QED  BY ONLY <3>1, <1>4, JoinedIs
  <2>3. p \in Bytes /\ Len(p) = k + Len(after)
    <3>1. Note \in Bytes /\ after \in Bytes
      BY <1>3, <2>2
    <3> QED  BY ONLY <3>1, <1>5, JoinedIs
  <2> HIDE DEF k, l, n
  <2> QED  BY ONLY <2>1, <2>2, <2>3
<1>7. Len(p) <= Mtu
  <2>1. 3 + (1 + 2) <= Mtu
    BY MidiPathAssumption
  <2> QED  BY <1>6, <2>1
<1>8. ParseList(St(<<>>, o, 0, p)) = St(<<>>, o3, 144, <<>>)
  BY <1>1, <1>2, <1>4, <1>5, ParseNotes
<1>9. o3 \in Seq(Bytes) /\ Before(o, o3)
  <2>1. o2 \in Seq(Bytes) /\ Before(o, o2)
    BY <1>3, BeforeAppend
  <2> HIDE DEF o2
  <2>2. o3 \in Seq(Bytes) /\ Before(o2, o3)
    BY <1>3, <2>1, BeforeAppend
  <2> HIDE DEF o3
  <2> QED  BY <2>1, <2>2, BeforeBefore
<1> HIDE DEF o3
<1>10. Leads(HalfOf(<<>>, o), <<p>>, HalfOf(<<>>, o3))
  BY <1>6, <1>7, <1>8, <1>9, OneLeads
<1> QED  BY <1>3, <1>6, <1>10 DEF o3, p, time

LEMMA SysexShortLeads ==
  ASSUME NEW o, o \in Seq(Bytes), made \in Nat
  PROVE  /\ Leads(HalfOf(<<>>, o), <<Sysex(1) \o <<129, 0>> \o Program>>,
                  HalfOf(<<>>, Append(Append(o, Sysex(1)), Program)))
         /\ Sysex(1) \o <<129, 0>> \o Program \in Bytes
         /\ Sysex(1) \in Bytes /\ Program \in Bytes
<1> DEFINE time == <<129, 0>>  whole == Sysex(1)  d == Data(1)
           after == time \o Program  p == whole \o time \o Program
           o2 == Append(o, whole)  o3 == Append(o2, Program)
<1>1. Short(Program) /\ Program \in Bytes /\ Len(Program) = 2 /\ Frame(whole, Start, d, Stop)
  BY MadeIs DEF Short
<1>2. d \in Seq(0..127) /\ Len(d) = 1
  BY DataIs
<1> HIDE DEF d, whole
<1>3. whole \in Bytes /\ Len(whole) = 3
  <2>1. Start \in {Start, Stop} /\ Stop \in {Start, Stop}
    OBVIOUS
  <2>2. whole \in Bytes /\ Len(whole) = Len(d) + 2
    BY <1>1, <1>2, <2>1, FrameEnds
  <2> QED  BY <1>2, <2>2
<1>4. Delta(time) /\ Len(time) = 2 /\ time \in Bytes
  <2>1. time \in Bytes /\ Len(time) = 2 /\ time[1] = 129 /\ time[2] = 0
    BY DEF Bytes
  <2>2. IsData(0) /\ ~IsData(129)
    BY DEF IsData
  <2>3. \A i \in 1..2 - 1 : i = 1
    OBVIOUS
  <2> HIDE DEF time
  <2>4. time # <<>>
    <3>1. Len(time) # Len(<<>>)
      BY <2>1
    <3> QED  BY <3>1
  <2> QED  BY <2>1, <2>2, <2>3, <2>4 DEF Delta
<1> HIDE DEF time
<1>5. Joined(after, time, Program)
  BY DEF Joined
<1>6. Joined(p, whole, after)
  BY <1>1, <1>3, <1>4, JoinedTwice
<1> HIDE DEF after, p
<1>7. p \in Bytes /\ Len(p) = 3 + (2 + 2)
  <2> DEFINE k == Len(whole)  l == Len(time)  n == Len(Program)
  <2>1. k = 3 /\ l = 2 /\ n = 2
    BY <1>1, <1>3, <1>4
  <2>2. after \in Bytes /\ Len(after) = l + n
    <3>1. time \in Bytes /\ Program \in Bytes
      BY <1>1, <1>4
    <3> QED  BY ONLY <3>1, <1>5, JoinedIs
  <2>3. p \in Bytes /\ Len(p) = k + Len(after)
    <3>1. whole \in Bytes /\ after \in Bytes
      BY <1>3, <2>2
    <3> QED  BY ONLY <3>1, <1>6, JoinedIs
  <2> HIDE DEF k, l, n
  <2> QED  BY ONLY <2>1, <2>2, <2>3
<1>8. Len(p) <= Mtu
  <2>1. 3 + (2 + 2) <= Mtu
    BY MidiPathAssumption
  <2> QED  BY <1>7, <2>1
<1>9. ParseList(St(<<>>, o, 0, p)) = St(<<>>, o3, Program[1], <<>>)
  BY <1>1, <1>2, <1>4, <1>5, <1>6, ParseSysexShort
<1>10. o3 \in Seq(Bytes) /\ Before(o, o3)
  <2>1. o2 \in Seq(Bytes) /\ Before(o, o2)
    BY <1>3, BeforeAppend
  <2> HIDE DEF o2
  <2>2. o3 \in Seq(Bytes) /\ Before(o2, o3)
    BY <1>1, <2>1, BeforeAppend
  <2> HIDE DEF o3
  <2> QED  BY <2>1, <2>2, BeforeBefore
<1> HIDE DEF o3
<1>11. Leads(HalfOf(<<>>, o), <<p>>, HalfOf(<<>>, o3))
  BY <1>7, <1>8, <1>9, <1>10, OneLeads
<1> QED  BY <1>1, <1>3, <1>7, <1>11 DEF o3, p, time, whole

-----------------------------------------------------------------------------
(* Segments lead from no message begun to one message more. *)

LEMMA TakesIs ==
  ASSUME NEW x, NEW o, NEW p, NEW x2, NEW o2, NEW running, x \in Bytes, o \in Seq(Bytes),
         x2 \in Bytes, o2 \in Seq(Bytes), Len(p) <= Mtu,
         ParseList(St(x, o, 0, p)) = St(x2, o2, running, <<>>)
  PROVE  Takes(HalfOf(x, o), p, HalfOf(x2, o2))
<1> DEFINE none == <<>>  a == HalfOf(x, o)  b == HalfOf(x2, o2)  st == St(x2, o2, running, none)
<1>1. a.sysex = x /\ a.out = o /\ b.sysex = x2 /\ b.out = o2
  BY HalfIs
<1>2. st.sysex = x2 /\ st.out = o2 /\ st.doubt = {}
  BY Fields
<1>3. ParseList(St(x, o, 0, p)) = st
  OBVIOUS
<1> HIDE DEF a, b, st
<1>4. Takes(a, p, b)
  BY <1>1, <1>2, <1>3 DEF Takes
<1> QED  BY <1>4 DEF a, b

LEMMA FrameAppend ==
  ASSUME NEW p, NEW x, NEW d, NEW y, x \in Nat, d \in Bytes, y \in Nat, Frame(p, x, d, y)
  PROVE  p = Append(After(x, d), y)
<1> DEFINE s == After(x, d)  E == Nat
<1>1. s \in Seq(E) /\ y \in E
  BY AfterIs DEF Bytes
<1>2. p = s \o <<y>>
  BY DEF Frame, After
<1> HIDE DEF s, E
<1>3. Append(s, y) = s \o <<y>>
  BY <1>1, AppendIsConcat
<1> QED  BY <1>2, <1>3 DEF s

\* A packet is one of several, with a part of the data between its two ends.
Cut(p, k, last, d) == Frame(p, IF k = 1 THEN Start ELSE Stop, d, IF k = last THEN Stop ELSE Start)

\* What was put together before and after it.
Grown(s, t, d) == /\ s \in Bytes /\ s # <<>> /\ t \in Bytes /\ t # <<Start>>
                  /\ Joined(t, s, d)

\* What the half that receives has between the packets.
Between(k, last, up, o, m) ==
    CASE k = 0 -> HalfOf(<<>>, o)
      [] k > 0 /\ k < last -> HalfOf(up[k], o)
      [] k > 0 /\ k >= last -> HalfOf(<<>>, Append(o, m))

LEMMA CutTakes ==
  ASSUME NEW o, o \in Seq(Bytes), NEW last, last \in Nat, NEW k, k \in 1..last,
         NEW p, NEW d, Cut(p, k, last, d), Len(p) <= Mtu, d \in Seq(0..127),
         NEW up, NEW m, m \in Bytes, up[k] \in Bytes,
         k = 1 => up[k] = After(Start, d),
         k # 1 => Grown(up[k - 1], up[k], d),
         k = last => m = Append(up[k], Stop)
  PROVE  Takes(Between(k - 1, last, up, o, m), p, Between(k, last, up, o, m))
<1> DEFINE none == <<>>  o2 == Append(o, m)
           s == up[k - 1]  t == up[k]
<1>1. none \in Bytes /\ o2 \in Seq(Bytes) /\ d \in Bytes /\ Start \in Nat /\ Stop \in Nat
  BY BeforeAppend, Septets DEF Bytes, Start, Stop
<1> HIDE DEF none, o2
<1>2. CASE k = 1 /\ k = last
  <2>1. Frame(p, Start, d, Stop)
    BY <1>2 DEF Cut
  <2>2. p = m
    <3>1. p = Append(After(Start, d), Stop)
      BY <1>1, <2>1, FrameAppend
    <3> QED  BY <1>2, <3>1
  <2>3. ParseList(St(none, o, 0, p)) = St(none, o2, 0, none)
    BY <2>1, <2>2, ParseWhole DEF none, o2
  <2>4. Takes(HalfOf(none, o), p, HalfOf(none, o2))
    BY <1>1, <2>3, TakesIs DEF none
  <2>5. Between(k - 1, last, up, o, m) = HalfOf(none, o) /\ Between(k, last, up, o, m) = HalfOf(none, o2)
    BY <1>2 DEF Between, none, o2
  <2> QED  BY <2>4, <2>5
<1>3. CASE k = 1 /\ k # last
  <2>1. Frame(p, Start, d, Start)
    BY <1>3 DEF Cut
  <2>2. t = After(Start, d) /\ t \in Bytes
    BY <1>3
  <2> HIDE DEF t
  <2>3. ParseList(St(none, o, 0, p)) = St(t, o, 0, none)
    BY <2>1, <2>2, ParseFirst DEF none
  <2>4. Takes(HalfOf(none, o), p, HalfOf(t, o))
    BY <1>1, <2>2, <2>3, TakesIs DEF none
  <2>5. k - 1 = 0 /\ k > 0 /\ k < last
    BY <1>3
  <2>6. Between(k - 1, last, up, o, m) = HalfOf(none, o) /\ Between(k, last, up, o, m) = HalfOf(t, o)
    BY <2>5 DEF Between, none, t
  <2> QED  BY <2>4, <2>6
<1>4. CASE k # 1 /\ k = last
  <2>1. Frame(p, Stop, d, Stop)
    BY <1>4 DEF Cut
  <2>2. /\ s \in Bytes /\ s # none /\ s \o d # <<Start>> /\ s \o d \in Bytes
        /\ m = Append(s \o d, Stop)
    BY <1>4 DEF Grown, Joined, none
  <2> HIDE DEF s
  <2>3. ParseList(St(s, o, 0, p)) = St(none, o2, 0, none)
    BY <2>1, <2>2, ParseLast DEF none, o2
  <2>4. Takes(HalfOf(s, o), p, HalfOf(none, o2))
    BY <1>1, <2>2, <2>3, TakesIs DEF none
  <2>5. k - 1 > 0 /\ k - 1 < last /\ k - 1 # 0 /\ k > 0 /\ ~(k < last) /\ k >= last /\ k # 0
    BY <1>4
  <2>6. Between(k - 1, last, up, o, m) = HalfOf(s, o) /\ Between(k, last, up, o, m) = HalfOf(none, o2)
    BY <2>5 DEF Between, none, s, o2
  <2> QED  BY <2>4, <2>6
<1>5. CASE k # 1 /\ k # last
  <2>1. Frame(p, Stop, d, Start)
    BY <1>5 DEF Cut
  <2>2. s \in Bytes /\ s # none /\ t = s \o d /\ t \in Bytes
    BY <1>5 DEF Grown, Joined, none
  <2> HIDE DEF s, t
  <2>3. ParseList(St(s, o, 0, p)) = St(t, o, 0, none)
    BY <2>1, <2>2, ParseNext DEF none
  <2>4. Takes(HalfOf(s, o), p, HalfOf(t, o))
    BY <1>1, <2>2, <2>3, TakesIs DEF none
  <2>5. k - 1 > 0 /\ k - 1 < last /\ k - 1 # 0 /\ k > 0 /\ k < last /\ k # 0
    BY <1>5
  <2>6. Between(k - 1, last, up, o, m) = HalfOf(s, o) /\ Between(k, last, up, o, m) = HalfOf(t, o)
    BY <2>5 DEF Between, s, t
  <2> QED  BY <2>4, <2>6
<1> QED  BY <1>2, <1>3, <1>4, <1>5

\* The segments of a message, the part of the data in each, and what has been put
\* together with it.
SegmentsOf(packets, last, part, up, m) ==
    /\ last \in Nat /\ last >= 1 /\ packets \in Seq(Bytes) /\ Len(packets) = last
    /\ m \in Bytes /\ m = Append(up[last], Stop)
    /\ \A k \in 1..last : /\ Cut(packets[k], k, last, part[k]) /\ Len(packets[k]) <= Mtu
                          /\ part[k] \in Seq(0..127) /\ up[k] \in Bytes
                          /\ k = 1 => up[k] = After(Start, part[k])
                          /\ k # 1 => Grown(up[k - 1], up[k], part[k])

LEMMA CutLeads ==
  ASSUME NEW o, o \in Seq(Bytes), NEW packets, NEW last, NEW part, NEW up, NEW m,
         SegmentsOf(packets, last, part, up, m)
  PROVE  Leads(HalfOf(<<>>, o), packets, HalfOf(<<>>, Append(o, m)))
<1> SUFFICES ASSUME last \in Nat, last >= 1, packets \in Seq(Bytes), Len(packets) = last,
                    m \in Bytes, m = Append(up[last], Stop),
                    \A k \in 1..last : /\ Cut(packets[k], k, last, part[k]) /\ Len(packets[k]) <= Mtu
                                       /\ part[k] \in Seq(0..127) /\ up[k] \in Bytes
                                       /\ k = 1 => up[k] = After(Start, part[k])
                                       /\ k # 1 => Grown(up[k - 1], up[k], part[k])
             PROVE  Leads(HalfOf(<<>>, o), packets, HalfOf(<<>>, Append(o, m)))
  BY DEF SegmentsOf
<1> DEFINE none == <<>>  o2 == Append(o, m)
           f == [k \in 0..last |-> Between(k, last, up, o, m)]
           a == HalfOf(none, o)  b == HalfOf(none, o2)
<1>1. none \in Bytes /\ o2 \in Seq(Bytes) /\ Before(o, o2) /\ Before(o2, o2)
  <2>1. none \in Bytes
    BY DEF Bytes
  <2>2. o2 \in Seq(Bytes) /\ Before(o, o2)
    BY BeforeAppend
  <2> HIDE DEF none, o2
  <2>3. Before(o2, o2)
    BY <2>2, BeforeStays
  <2> QED  BY <2>1, <2>2, <2>3
<1>2. a \in Half /\ a.out = o /\ b \in Half /\ b.out = o2
  <2> HIDE DEF none, o2
  <2> QED  BY <1>1, HalfIs
<1>3. ASSUME NEW k \in 0..last
      PROVE  Between(k, last, up, o, m) \in Half /\ Before(Between(k, last, up, o, m).out, o2)
  <2> DEFINE t == up[k]  w == Between(k, last, up, o, m)
  <2>1. ASSUME k = 0 PROVE w \in Half /\ Before(w.out, o2)
    <3>1. w = a
      BY <2>1 DEF Between
    <3> HIDE DEF a, w, o2
    <3> QED  BY <1>1, <1>2, <3>1
  <2>2. ASSUME k > 0 /\ k < last PROVE w \in Half /\ Before(w.out, o2)
    <3>1. t \in Bytes /\ k # 0
      BY <2>2
    <3>2. w = HalfOf(t, o)
      BY <2>2, <3>1 DEF Between
    <3> HIDE DEF t, w, o2
    <3>3. HalfOf(t, o) \in Half /\ HalfOf(t, o).out = o
      BY <3>1, HalfIs
    <3> QED  BY <1>1, <3>2, <3>3
  <2>3. ASSUME k > 0 /\ k >= last PROVE w \in Half /\ Before(w.out, o2)
    <3>1. k # 0 /\ ~(k < last)
      BY <2>3
    <3>2. w = b
      BY <2>3, <3>1 DEF Between
    <3> HIDE DEF b, w, o2
    <3> QED  BY <1>1, <1>2, <3>2
  <2>4. k = 0 \/ (k > 0 /\ k < last) \/ (k > 0 /\ k >= last)
    OBVIOUS
  <2> QED  BY <2>1, <2>2, <2>3, <2>4
<1>4. f \in [0..last -> Half] /\ \A k \in 0..last : f[k] = Between(k, last, up, o, m)
  BY <1>3
<1> HIDE DEF f
<1>5. f[0] = a /\ f[last] = b
  <2>1. 0 \in 0..last /\ last \in 0..last /\ last # 0 /\ last > 0 /\ ~(last < last) /\ last >= last
    OBVIOUS
  <2>2. Between(0, last, up, o, m) = a
    BY DEF Between
  <2>3. Between(last, last, up, o, m) = b
    BY <2>1 DEF Between
  <2> HIDE DEF a, b
  <2> QED  BY <1>4, <2>1, <2>2, <2>3
<1>6. ASSUME NEW k \in 1..last PROVE Takes(f[k - 1], packets[k], f[k])
  <2>1. k - 1 \in 0..last /\ k \in 0..last
    OBVIOUS
  <2>2. k = last => m = Append(up[k], Stop)
    OBVIOUS
  <2> DEFINE p == packets[k]  d == part[k]
  <2>3. /\ Cut(p, k, last, d) /\ Len(p) <= Mtu /\ d \in Seq(0..127) /\ up[k] \in Bytes
        /\ k = 1 => up[k] = After(Start, d)
        /\ k # 1 => Grown(up[k - 1], up[k], d)
    OBVIOUS
  <2> HIDE DEF p, d
  <2>4. Takes(Between(k - 1, last, up, o, m), p, Between(k, last, up, o, m))
    BY <2>2, <2>3, CutTakes
  <2> QED  BY <1>4, <2>1, <2>4 DEF p
<1>7. ASSUME NEW k \in 0..last PROVE Before(f[k].out, b.out)
  BY <1>2, <1>3, <1>4
<1> HIDE DEF a, b
<1>8. Way(f, last, a, packets, b)
  BY <1>4, <1>5, <1>6, <1>7 DEF Way
<1> QED  BY <1>8 DEF Leads, a, b

\* Where the parts of the data end.
LEMMA LastPart ==
  ASSUME NEW l, l \in Nat, NEW s, s \in Nat, s >= 1
  PROVE  LET last == IF l = 0 THEN 1 ELSE (l + s - 1) \div s
         IN  last \in Nat /\ last >= 1 /\ (last - 1) * s <= l /\ l <= last * s
<1> DEFINE q == (l + s - 1) \div s
<1>1. CASE l = 0
  BY <1>1
<1>2. CASE l # 0
  <2>1. q \in Nat /\ s * q <= l + s - 1 /\ l + s - 1 < s * q + s
    <3> DEFINE a == l + s - 1
    <3>1. a \in Nat
      OBVIOUS
    <3> HIDE DEF a
    <3>2. a \div s \in Nat /\ s * (a \div s) <= a /\ a < s * (a \div s) + s
      BY <3>1
    <3> QED  BY <3>2 DEF a
  <2> HIDE DEF q
  <2>2. q # 0
    <3> SUFFICES ASSUME q = 0 PROVE FALSE
      OBVIOUS
    <3>1. s * q = 0
      OBVIOUS
    <3> QED  BY <1>2, <2>1, <3>1
  <2>3. q >= 1 /\ (q - 1) * s = s * q - s /\ q * s = s * q /\ s * q \in Nat
    BY <2>1, <2>2
  <2>4. (q - 1) * s <= l /\ l <= q * s
    <3> DEFINE t == s * q  u == (q - 1) * s  v == q * s
    <3>1. t \in Nat /\ t <= l + s - 1 /\ l + s - 1 < t + s /\ u = t - s /\ v = t
      BY <2>1, <2>3
    <3> HIDE DEF t, u, v
    <3>2. u <= l /\ l <= v
      BY <3>1
    <3> QED  BY <3>2 DEF u, v
  <2> QED  BY <1>2, <2>1, <2>3, <2>4 DEF q
<1> QED  BY <1>1, <1>2

LEMMA TimesMonotone ==
  ASSUME NEW s, s \in Nat
  PROVE  \A i, j \in Nat : i <= j => i * s <= j * s
OBVIOUS

EndOf(k, last, l, s) == IF k = last THEN l ELSE k * s

LEMMA PartEnds ==
  ASSUME NEW l, l \in Nat, NEW s, s \in Nat, s >= 1, NEW last, last \in Nat, last >= 1,
         (last - 1) * s <= l, l <= last * s, NEW k, k \in 1..last
  PROVE  /\ (k - 1) * s \in 0..l /\ EndOf(k, last, l, s) \in (k - 1) * s..l
         /\ EndOf(k, last, l, s) - (k - 1) * s <= s
         /\ k # 1 => EndOf(k - 1, last, l, s) = (k - 1) * s /\ (k - 1) * s >= 1
         /\ k = 1 => (k - 1) * s = 0
<1> DEFINE a == (k - 1) * s  b == k * s  t == (last - 1) * s  e == EndOf(k, last, l, s)
<1>1. a \in Nat /\ b \in Nat /\ b = a + s /\ t \in Nat
  BY SMT
<1>2. a <= t
  <2>1. k - 1 \in Nat /\ last - 1 \in Nat /\ k - 1 <= last - 1
    OBVIOUS
  <2>2. \A i, j \in Nat : i <= j => i * s <= j * s
    BY TimesMonotone
  <2> QED  BY <2>1, <2>2
<1>3. k # last => b <= t
  <2>1. k # last => k \in Nat /\ last - 1 \in Nat /\ k <= last - 1
    OBVIOUS
  <2>2. \A i, j \in Nat : i <= j => i * s <= j * s
    BY TimesMonotone
  <2> QED  BY <2>1, <2>2
<1>4. k # 1 => a >= s
  <2>1. k # 1 => 1 \in Nat /\ k - 1 \in Nat /\ 1 <= k - 1
    OBVIOUS
  <2>2. \A i, j \in Nat : i <= j => i * s <= j * s
    BY TimesMonotone
  <2>3. 1 * s = s
    OBVIOUS
  <2> QED  BY <2>1, <2>2, <2>3
<1>5. k = 1 => a = 0
  OBVIOUS
<1>6. k = last => l <= b
  OBVIOUS
<1>7. k # 1 => k - 1 # last
  OBVIOUS
<1>8. t <= l
  OBVIOUS
<1>9. (k = last => e = l) /\ (k # last => e = b)
  BY DEF EndOf
<1>10. k # 1 => EndOf(k - 1, last, l, s) = a
  BY <1>7 DEF EndOf
<1> HIDE DEF a, b, t, e
<1>11. a \in 0..l /\ e \in a..l /\ e - a <= s /\ (k # 1 => a >= 1)
  <2>1. CASE k = last
    <3>1. e = l /\ l <= b
      BY <1>6, <1>9, <2>1
    <3> QED  BY <1>1, <1>2, <1>4, <1>8, <3>1
  <2>2. CASE k # last
    <3>1. e = b /\ b <= t
      BY <1>3, <1>9, <2>2
    <3> QED  BY <1>1, <1>2, <1>4, <1>8, <3>1
  <2> QED  BY <2>1, <2>2
<1> QED  BY <1>5, <1>10, <1>11 DEF a, e

Upto(d, e) == After(Start, SubSeq(d, 1, e))
Part(d, a, e) == SubSeq(d, a + 1, e)

LEMMA AfterJoined ==
  ASSUME NEW x, NEW s, NEW p, x \in Nat, s \in Bytes, p \in Bytes
  PROVE  Joined(After(x, s \o p), After(x, s), p)
<1> DEFINE b == <<x>>  E == Nat
<1>1. b \in Seq(E) /\ s \in Seq(E) /\ p \in Seq(E)
  BY DEF Bytes
<1> HIDE DEF b, E
<1>2. (b \o s) \o p = b \o (s \o p)
  BY ONLY <1>1, ConcatAssociative
<1> QED  BY <1>2 DEF Joined, After, b

LEMMA PartOf ==
  ASSUME NEW d, d \in Seq(0..127), NEW a, NEW e, a \in 0..Len(d), e \in a..Len(d)
  PROVE  /\ Part(d, a, e) \in Seq(0..127) /\ Len(Part(d, a, e)) = e - a
         /\ Upto(d, e) \in Bytes
         /\ a = 0 => Upto(d, e) = After(Start, Part(d, a, e))
         /\ a >= 1 => Grown(Upto(d, a), Upto(d, e), Part(d, a, e))
<1> DEFINE E == 0..127  l == Len(d)  p == SubSeq(d, a + 1, e)  s == SubSeq(d, 1, a)  t == SubSeq(d, 1, e)
<1>1. d \in Seq(E) /\ l \in Nat /\ a \in 0..l /\ e \in a..l /\ a \in Nat /\ e \in Nat
  BY LenProperties
<1> HIDE DEF E
<1>2. \A i \in 1..l : d[i] \in E
  BY <1>1, ElementOfSeq
<1> HIDE DEF l
<1>3. p \in Seq(E) /\ Len(p) = e - a
  <2>1. \A i \in a + 1..e : d[i] \in E
    <3>1. \A i \in a + 1..e : i \in 1..l
      BY <1>1
    <3> QED  BY <1>2, <3>1
  <2>2. p \in Seq(E) /\ Len(p) = IF a + 1 <= e THEN e - (a + 1) + 1 ELSE 0
    <3>1. a + 1 \in Int /\ e \in Int
      BY <1>1
    <3> QED  BY <2>1, <3>1, SubSeqProperties
  <2>3. (IF a + 1 <= e THEN e - (a + 1) + 1 ELSE 0) = e - a
    BY <1>1
  <2> QED  BY <2>2, <2>3
<1>4. ASSUME NEW n \in 0..l
      PROVE  SubSeq(d, 1, n) \in Seq(E) /\ Len(SubSeq(d, 1, n)) = n
  <2>1. \A i \in 1..n : d[i] \in E
    <3>1. \A i \in 1..n : i \in 1..l
      BY <1>1
    <3> QED  BY <1>2, <3>1
  <2>2. SubSeq(d, 1, n) \in Seq(E) /\ Len(SubSeq(d, 1, n)) = IF 1 <= n THEN n - 1 + 1 ELSE 0
    <3>1. 1 \in Int /\ n \in Int
      OBVIOUS
    <3> QED  BY <2>1, <3>1, SubSeqProperties
  <2>3. (IF 1 <= n THEN n - 1 + 1 ELSE 0) = n
    OBVIOUS
  <2> QED  BY <2>2, <2>3
<1>5. s \in Seq(E) /\ Len(s) = a /\ t \in Seq(E) /\ Len(t) = e
  <2>1. a \in 0..l /\ e \in 0..l
    BY <1>1
  <2> QED  BY <1>4, <2>1
<1>6. s \o p = t
  <2>1. 1 \in 1..Len(d) + 1 /\ a \in 1 - 1..Len(d) /\ e \in a..Len(d)
    BY <1>1 DEF l
  <2> QED  BY <1>1, <2>1, ConcatAdjacentSubSeq
<1>7. p \in Bytes /\ s \in Bytes /\ t \in Bytes
  <2> HIDE DEF p, s, t
  <2> QED  BY <1>3, <1>5, Septets DEF E
<1>8. Upto(d, a) = After(Start, s) /\ Upto(d, e) = After(Start, t) /\ Part(d, a, e) = p
  BY DEF Upto, Part
<1>9. a = 0 => t = p
  BY <1>1
<1> HIDE DEF p, s, t
<1>10. After(Start, s) \in Bytes /\ After(Start, s) # <<>> /\ After(Start, t) \in Bytes /\ Len(After(Start, t)) = e + 1
  <2>1. Start \in Nat
    BY DEF Start
  <2> QED  BY <1>5, <1>7, <2>1, AfterIs
<1>11. Joined(After(Start, t), After(Start, s), p)
  <2>1. Start \in Nat
    BY DEF Start
  <2>2. Joined(After(Start, s \o p), After(Start, s), p)
    BY <1>7, <2>1, AfterJoined
  <2> QED  BY <1>6, <2>2
<1>12. a >= 1 => After(Start, t) # <<Start>>
  <2> SUFFICES ASSUME a >= 1, After(Start, t) = <<Start>> PROVE FALSE
    OBVIOUS
  <2>1. Len(<<Start>>) = 1
    OBVIOUS
  <2>2. e + 1 = 1
    BY <1>10, <2>1
  <2> QED  BY <1>1, <2>2
<1>13. a >= 1 => Grown(After(Start, s), After(Start, t), p)
  BY <1>10, <1>11, <1>12 DEF Grown
<1>14. a = 0 => After(Start, t) = After(Start, p)
  BY <1>9
<1> QED  BY <1>3, <1>8, <1>10, <1>13, <1>14 DEF E

LEMMA SegmentsAre ==
  ASSUME NEW d, d \in Seq(0..127), NEW m, Frame(m, Start, d, Stop)
  PROVE  \E last, part, up : SegmentsOf(Segments(d), last, part, up, m)
<1> DEFINE l == Len(d)
           last == IF l = 0 THEN 1 ELSE (l + Segment - 1) \div Segment
           end(k) == EndOf(k, last, l, Segment)
           part == [k \in 1..last |-> Part(d, (k - 1) * Segment, end(k))]
           up == [k \in 1..last |-> Upto(d, end(k))]
           packets == Segments(d)
<1>1. l \in Nat /\ (d = <<>> <=> l = 0)
  BY LenProperties, EmptySeq
<1>2. packets = [k \in 1..last |->
                    <<IF k = 1 THEN Start ELSE Stop>> \o Part(d, (k - 1) * Segment, end(k))
                    \o <<IF k = last THEN Stop ELSE Start>>]
  BY <1>1 DEF Segments, EndOf, Part
<1>3. Segment \in Nat /\ Segment >= 1 /\ Segment + 2 <= Mtu
  BY MidiPathAssumption
<1>4. last \in Nat /\ last >= 1 /\ (last - 1) * Segment <= l /\ l <= last * Segment
  <2> HIDE DEF l
  <2> QED  BY <1>1, <1>3, LastPart
<1> HIDE DEF packets, last, l
<1>5. ASSUME NEW k \in 1..last
      PROVE  /\ Cut(packets[k], k, last, part[k]) /\ packets[k] \in Bytes /\ Len(packets[k]) <= Mtu
             /\ part[k] \in Seq(0..127) /\ up[k] \in Bytes
             /\ k = 1 => up[k] = After(Start, part[k])
             /\ k # 1 => Grown(up[k - 1], up[k], part[k])
  <2> DEFINE a == (k - 1) * Segment  e == end(k)  p == packets[k]  q == Part(d, a, e)
  <2>1. /\ a \in 0..l /\ e \in a..l /\ e - a <= Segment
        /\ k # 1 => end(k - 1) = a /\ a >= 1
        /\ k = 1 => a = 0
    <3> DEFINE g == Segment
    <3>1. /\ l \in Nat /\ g \in Nat /\ g >= 1 /\ last \in Nat /\ last >= 1
          /\ (last - 1) * g <= l /\ l <= last * g
      BY <1>1, <1>3, <1>4
    <3> HIDE DEF g
    <3>2. /\ (k - 1) * g \in 0..l /\ EndOf(k, last, l, g) \in (k - 1) * g..l
          /\ EndOf(k, last, l, g) - (k - 1) * g <= g
          /\ k # 1 => EndOf(k - 1, last, l, g) = (k - 1) * g /\ (k - 1) * g >= 1
          /\ k = 1 => (k - 1) * g = 0
      BY ONLY <3>1, k \in 1..last, PartEnds
    <3> QED  BY <3>2 DEF g
  <2>2. /\ part[k] = q /\ up[k] = Upto(d, e)
        /\ k # 1 => up[k - 1] = Upto(d, end(k - 1))
    <3>1. k # 1 => k - 1 \in 1..last
      BY <1>4
    <3> QED  BY <3>1
  <2>3. Cut(p, k, last, q)
    BY <1>2 DEF Cut, Frame
  <2> HIDE DEF a, e, part, up, end, p, q
  <2>4. k # 1 => up[k - 1] = Upto(d, a)
    BY <2>1, <2>2
  <2>5. /\ q \in Seq(0..127) /\ Len(q) = e - a /\ Upto(d, e) \in Bytes
        /\ a = 0 => Upto(d, e) = After(Start, q)
        /\ a >= 1 => Grown(Upto(d, a), Upto(d, e), q)
    BY <2>1, PartOf DEF l, q
  <2>6. p \in Bytes /\ Len(p) <= Mtu
    <3> DEFINE x == IF k = 1 THEN Start ELSE Stop  y == IF k = last THEN Stop ELSE Start  n == Len(q)
    <3>1. x \in {Start, Stop} /\ y \in {Start, Stop} /\ Frame(p, x, q, y)
      BY <2>3 DEF Cut
    <3>2. n = e - a
      BY <2>5
    <3> HIDE DEF x, y
    <3>3. p \in Bytes /\ Len(p) = n + 2
      BY <2>5, <3>1, FrameEnds
    <3> HIDE DEF n
    <3>4. n + 2 <= Mtu
      BY <1>3, <2>1, <3>2, <1>1, MidiPathAssumption
    <3> QED  BY <3>3, <3>4
  <2>7. k # 1 => Grown(up[k - 1], up[k], q)
    BY <2>1, <2>2, <2>4, <2>5
  <2>8. k = 1 => up[k] = After(Start, q)
    BY <2>1, <2>2, <2>5
  <2> QED  BY <2>2, <2>3, <2>5, <2>6, <2>7, <2>8 DEF p
<1>6. packets \in Seq(Bytes) /\ Len(packets) = last
  <2>1. packets \in [1..last -> Bytes]
    BY <1>2, <1>5
  <2>2. packets \in Seq(Bytes)
    BY <1>4, <2>1
  <2>3. Len(packets) = last
    BY <1>4, <2>1, <2>2
  <2> QED  BY <2>2, <2>3
<1>7. up[last] = After(Start, d)
  <2>1. last \in 1..last /\ end(last) = l
    BY <1>4 DEF EndOf
  <2>2. SubSeq(d, 1, l) = d
    BY SubSeqFull DEF l
  <2> QED  BY <2>1, <2>2 DEF Upto
<1>8. m = Append(up[last], Stop) /\ m \in Bytes
  <2>1. d \in Bytes /\ Start \in Nat /\ Stop \in Nat
    BY Septets DEF Start, Stop
  <2>2. m = Append(After(Start, d), Stop) /\ m \in Bytes
    BY <2>1, FrameAppend, Framed
  <2> QED  BY <1>7, <2>2
<1> HIDE DEF part, up, end
<1>9. SegmentsOf(packets, last, part, up, m)
  BY <1>4, <1>5, <1>6, <1>8 DEF SegmentsOf
<1> QED  BY <1>9 DEF packets

LEMMA SegmentsLead ==
  ASSUME NEW o, o \in Seq(Bytes), NEW d, d \in Seq(0..127), NEW m, Frame(m, Start, d, Stop)
  PROVE  /\ Leads(HalfOf(<<>>, o), Segments(d), HalfOf(<<>>, Append(o, m)))
         /\ Segments(d) \in Seq(Bytes)
<1> DEFINE packets == Segments(d)
<1>1. PICK last, part, up : SegmentsOf(packets, last, part, up, m)
  BY SegmentsAre
<1> HIDE DEF packets
<1>2. Leads(HalfOf(<<>>, o), packets, HalfOf(<<>>, Append(o, m)))
  BY <1>1, CutLeads
<1> QED  BY <1>1, <1>2 DEF SegmentsOf, packets

-----------------------------------------------------------------------------
(* What goes in. *)

Whole(m) == \E d : d \in Seq(0..127) /\ Frame(m, Start, d, Stop)
Known(m) == Short(m) \/ Whole(m)

LEMMA MessagesKnown ==
  ASSUME made \in Nat, NEW sizes, sizes \subseteq Nat, NEW m, m \in Messages(sizes)
  PROVE  Known(m)
<1>1. CASE m = Note \/ m = Program
  BY <1>1, MadeIs DEF Known
<1>2. CASE \E k \in sizes : m = Sysex(k)
  <2>1. PICK k \in Nat : m = Sysex(k)
    BY <1>2
  <2> DEFINE d == Data(k)
  <2>2. d \in Seq(0..127) /\ Frame(m, Start, d, Stop)
    BY <2>1, DataIs, MadeIs
  <2> HIDE DEF d
  <2> QED  BY <2>2 DEF Known, Whole
<1> QED  BY <1>1, <1>2 DEF Messages

LEMMA KnownIs ==
  ASSUME NEW m, Known(m)
  PROVE  /\ m \in Bytes /\ Len(m) \in Nat /\ Len(m) >= 2
         /\ Short(m) => m[1] \in {144, 192} /\ CommandSize(m[1]) = Len(m)
         /\ Whole(m) => m[1] = Start /\ CommandSize(m[1]) = 0
<1>1. Short(m) => /\ m \in Bytes /\ Len(m) \in Nat /\ Len(m) >= 2
                  /\ m[1] \in {144, 192} /\ CommandSize(m[1]) = Len(m)
  <2> SUFFICES ASSUME Short(m)
               PROVE  /\ m \in Bytes /\ Len(m) \in Nat /\ Len(m) >= 2
                      /\ m[1] \in {144, 192} /\ CommandSize(m[1]) = Len(m)
    OBVIOUS
  <2> DEFINE n == Len(m)  b == m[1]
  <2>1. m \in Bytes /\ ((n = 3 /\ b = 144) \/ (n = 2 /\ b = 192))
    BY DEF Short
  <2>2. CommandSize(144) = 3 /\ CommandSize(192) = 2
    BY DEF CommandSize, Start
  <2> HIDE DEF n, b
  <2>3. n \in Nat /\ n >= 2 /\ b \in {144, 192} /\ CommandSize(b) = n
    BY <2>1, <2>2
  <2> QED  BY <2>1, <2>3 DEF n, b
<1>2. Whole(m) => /\ m \in Bytes /\ Len(m) \in Nat /\ Len(m) >= 2
                  /\ m[1] = Start /\ CommandSize(m[1]) = 0
  <2> SUFFICES ASSUME Whole(m)
               PROVE  /\ m \in Bytes /\ Len(m) \in Nat /\ Len(m) >= 2
                      /\ m[1] = Start /\ CommandSize(m[1]) = 0
    OBVIOUS
  <2>1. PICK d : d \in Seq(0..127) /\ Frame(m, Start, d, Stop)
    BY DEF Whole
  <2>2. m \in Bytes /\ Len(m) = Len(d) + 2 /\ m[1] = Start /\ Len(d) \in Nat
    BY <2>1, FrameEnds, Septets
  <2>3. CommandSize(Start) = 0
    BY DEF CommandSize, Start
  <2> DEFINE n == Len(m)  k == Len(d)
  <2>4. n = k + 2 /\ k \in Nat
    BY <2>2
  <2> HIDE DEF n, k
  <2>5. n \in Nat /\ n >= 2
    BY <2>4
  <2> QED  BY <2>2, <2>3, <2>5 DEF n
<1> QED  BY <1>1, <1>2 DEF Known

\* What a message leads to when it is sent as it is, and as segments.
LEMMA KnownLeads ==
  ASSUME NEW o, o \in Seq(Bytes), NEW m, Known(m), Len(m) <= Mtu
  PROVE  /\ Leads(HalfOf(<<>>, o), <<m>>, HalfOf(<<>>, Append(o, m)))
         /\ <<m>> \in Seq(Bytes) /\ Append(o, m) \in Seq(Bytes)
<1>1. m \in Bytes
  BY KnownIs
<1>2. <<m>> \in Seq(Bytes) /\ Append(o, m) \in Seq(Bytes)
  BY <1>1
<1>3. CASE Short(m)
  BY <1>2, <1>3, ShortLeads
<1>4. CASE Whole(m)
  <2>1. PICK d : d \in Seq(0..127) /\ Frame(m, Start, d, Stop)
    BY <1>4 DEF Whole
  <2> QED  BY <1>2, <2>1, WholeLeads
<1> QED  BY <1>3, <1>4 DEF Known

LEMMA DecodedLeads ==
  ASSUME NEW o, o \in Seq(Bytes), NEW m, Known(m)
  PROVE  /\ Leads(HalfOf(<<>>, o), Decoded(m), HalfOf(<<>>, Append(o, m)))
         /\ Decoded(m) \in Seq(Bytes) /\ Append(o, m) \in Seq(Bytes)
<1>1. m \in Bytes
  BY KnownIs
<1>2. Append(o, m) \in Seq(Bytes)
  BY <1>1
<1>3. CASE Short(m)
  <2>1. m[1] # Start
    BY <1>3, KnownIs DEF Start
  <2>2. Decoded(m) = <<m>>
    BY <2>1 DEF Decoded
  <2>3. <<m>> \in Seq(Bytes)
    BY <1>1
  <2> QED  BY <1>2, <1>3, <2>2, <2>3, ShortLeads
<1>4. CASE Whole(m)
  <2>1. PICK d : d \in Seq(0..127) /\ Frame(m, Start, d, Stop)
    BY <1>4 DEF Whole
  <2>2. m[1] = Start /\ Middle(m) = d
    BY <2>1, FrameEnds
  <2>3. Decoded(m) = Segments(d)
    BY <2>2 DEF Decoded, Middle
  <2> QED  BY <1>2, <2>1, <2>3, SegmentsLead
<1> QED  BY <1>3, <1>4 DEF Known

-----------------------------------------------------------------------------
(* The device: what was read of a message and what is left of it. *)

Idle == device.left = <<>> /\ buffer = <<>> /\ waiting = -1

Reading(m, bytes, left) ==
    /\ Known(m) /\ bytes \in Bytes /\ left \in Bytes /\ left # <<>> /\ Joined(m, bytes, left)

Busy == /\ Reading(device.message, buffer, device.left)
        /\ waiting = IF buffer = <<>> THEN -1 ELSE CommandSize(device.message[1])

\* One byte more.
LEMMA OneMore ==
  ASSUME NEW m, NEW bytes, NEW left, Reading(m, bytes, left)
  PROVE  LET more == Append(bytes, Head(left)) rest == Tail(left)
         IN  /\ more \in Bytes /\ more # <<>> /\ rest \in Bytes
             /\ Joined(m, more, rest) /\ Len(m) \in Nat /\ Len(left) \in Nat
             /\ Len(left) = 1 <=> rest = <<>>
             /\ rest = <<>> => more = m
             /\ rest # <<>> => Reading(m, more, rest)
             /\ bytes = <<>> => Head(left) = m[1] /\ rest # <<>>
<1> DEFINE b == Head(left)  more == Append(bytes, b)  rest == Tail(left)  one == <<b>>  E == Nat
<1>1. /\ bytes \in Seq(E) /\ left \in Seq(E) /\ left # <<>> /\ Known(m)
      /\ bytes \in Bytes /\ left \in Bytes /\ m = bytes \o left
  BY DEF Reading, Bytes, Joined
<1> HIDE DEF E
<1>2. b \in E /\ rest \in Seq(E) /\ Len(rest) = Len(left) - 1 /\ Len(left) \in Nat /\ left = one \o rest
  <2>1. b \in E /\ rest \in Seq(E) /\ Len(rest) = Len(left) - 1 /\ Len(left) \in Nat
    BY <1>1, HeadTailProperties, LenProperties
  <2>2. left = one \o rest
    BY <1>1
  <2> QED  BY <2>1, <2>2
<1>3. more \in Seq(E) /\ more # <<>> /\ more = bytes \o one /\ one \in Seq(E)
  <2>1. one \in Seq(E)
    BY <1>2
  <2>2. more = bytes \o one
    BY <1>1, <1>2, AppendIsConcat
  <2> QED  BY <1>1, <1>2, <2>1, <2>2, AppendProperties
<1> HIDE DEF more, one, rest, b
<1>4. m = more \o rest
  <2>1. (bytes \o one) \o rest = bytes \o (one \o rest)
    BY <1>1, <1>2, <1>3, ConcatAssociative
  <2> QED  BY <1>1, <1>2, <1>3, <2>1
<1>5. more \in Bytes /\ rest \in Bytes
  BY <1>2, <1>3 DEF Bytes, E
<1>6. Len(left) = 1 <=> rest = <<>>
  <2> DEFINE n == Len(left)  k == Len(rest)
  <2>1. k = n - 1 /\ n \in Nat /\ k \in Nat /\ (rest = <<>> <=> k = 0)
    BY <1>2, EmptySeq, LenProperties
  <2> HIDE DEF n, k
  <2>2. n = 1 <=> rest = <<>>
    BY <2>1
  <2> QED  BY <2>2 DEF n
<1>7. rest = <<>> => more = m
  BY <1>3, <1>4, ConcatEmptySeq
<1>8. rest # <<>> => Reading(m, more, rest)
  BY <1>1, <1>4, <1>5 DEF Reading, Joined
<1>9. bytes = <<>> => b = m[1] /\ rest # <<>>
  <2> SUFFICES ASSUME bytes = <<>> PROVE b = m[1] /\ rest # <<>>
    OBVIOUS
  <2>1. m = left
    BY <1>1, ConcatEmptySeq
  <2>2. b = m[1]
    BY <2>1 DEF b
  <2>3. Len(m) # 1
    <3> DEFINE n == Len(m)
    <3>1. n \in Nat /\ n >= 2
      BY <1>1, KnownIs
    <3> HIDE DEF n
    <3>2. n # 1
      BY <3>1
    <3> QED  BY <3>2 DEF n
  <2> QED  BY <1>6, <2>1, <2>2, <2>3
<1>10. Len(m) \in Nat
  BY <1>1, KnownIs
<1> QED  BY <1>2, <1>3, <1>4, <1>5, <1>6, <1>7, <1>8, <1>9, <1>10 DEF Joined, more, rest, b

\* A command is complete when all of the message was read.
LEMMA CompleteIs ==
  ASSUME NEW m, Known(m), NEW more, NEW rest, more \in Bytes, more # <<>>, rest \in Bytes,
         Joined(m, more, rest), waiting = CommandSize(m[1]), rest # <<>> => Len(more) >= 2
  PROVE  Complete(more) <=> rest = <<>>
<1> DEFINE k == Len(more)  l == Len(rest)  n == Len(m)
<1>1. k \in Nat /\ l \in Nat /\ k # 0 /\ (rest = <<>> <=> l = 0)
  BY EmptySeq, LenProperties DEF Bytes
<1>2. n = k + l /\ \A i \in 1..k : m[i] = more[i]
  BY ONLY more \in Bytes, rest \in Bytes, Joined(m, more, rest), JoinedIs
<1>3. Last(more) = m[k]
  <2>1. Last(more) = more[k]
    BY DEF Last
  <2> HIDE DEF k
  <2>2. k \in 1..k
    BY <1>1
  <2> QED  BY <1>2, <2>1, <2>2
<1>4. Short(m) => (waiting = n /\ n # 0 /\ n \in Nat)
  <2> SUFFICES ASSUME Short(m) PROVE waiting = n /\ n # 0 /\ n \in Nat
    OBVIOUS
  <2>1. waiting = n
    BY KnownIs
  <2>2. n \in Nat /\ n >= 2
    BY KnownIs
  <2> HIDE DEF n
  <2> QED  BY <2>1, <2>2
<1>5. Whole(m) => waiting = 0 /\ (m[k] = Stop <=> l = 0)
  <2> SUFFICES ASSUME Whole(m) PROVE waiting = 0 /\ (m[k] = Stop <=> l = 0)
    OBVIOUS
  <2>1. waiting = 0
    BY KnownIs
  <2>2. PICK d : d \in Seq(0..127) /\ Frame(m, Start, d, Stop)
    BY DEF Whole
  <2> DEFINE j == Len(d)
  <2>3. n = j + 2 /\ j \in Nat /\ Last(m) = Stop /\ \A i \in 1..j : m[i + 1] = d[i]
    BY <2>2, FrameEnds, Septets
  <2>4. \A i \in 1..j : d[i] \in 0..127
    BY <2>2, Septets
  <2>5. Last(m) = m[n]
    BY DEF Last
  <2>6. rest # <<>> => k >= 2
    OBVIOUS
  <2> HIDE DEF j, k, l, n
  <2>7. CASE l = 0
    <3>1. k = n
      BY <1>1, <1>2, <2>7
    <3> QED  BY <2>1, <2>3, <2>5, <2>7, <3>1
  <2>8. CASE l # 0
    <3>1. k - 1 \in 1..j /\ k - 1 + 1 = k
      BY <1>1, <1>2, <2>3, <2>6, <2>8
    <3>2. m[k] \in 0..127
      BY <2>3, <2>4, <3>1
    <3>3. Stop \notin 0..127
      BY DEF Stop
    <3> QED  BY <2>1, <2>8, <3>2, <3>3
  <2> QED  BY <2>7, <2>8
<1>6. Complete(more) <=> (waiting = 0 /\ m[k] = Stop) \/ (waiting > 0 /\ k = waiting)
  BY <1>3 DEF Complete
<1> HIDE DEF k, l, n
<1>7. CASE Short(m)
  <2>1. waiting = n /\ n # 0 /\ n \in Nat
    BY <1>4, <1>7
  <2>2. waiting # 0 /\ waiting > 0
    BY <2>1
  <2>3. k = n <=> l = 0
    BY <1>1, <1>2
  <2> QED  BY <1>1, <1>6, <2>1, <2>2, <2>3
<1>8. CASE Whole(m)
  <2>1. waiting = 0 /\ ~(waiting > 0)
    BY <1>5, <1>8
  <2> QED  BY <1>1, <1>5, <1>6, <1>8, <2>1
<1> QED  BY <1>7, <1>8 DEF Known

\* A byte of the device is read: the message goes on, or it is over and sent.
LEMMA ByteRead ==
  ASSUME Busy, device \in [message : Bytes, left : Bytes],
         MidiByte(Head(device.left)), device' = [device EXCEPT !.left = Tail(@)]
  PROVE  /\ device' \in [message : Bytes, left : Bytes]
         /\ Len(device.left) # 1 => Busy' /\ UNCHANGED net
         /\ Len(device.left) = 1 /\ ~(connected /\ Len(device.message) > MaxPayload) =>
               Idle' /\ SendMidi(<<device.message>>)
<1> DEFINE m == device.message  left == device.left  b == Head(left)
           more == Append(buffer, b)  rest == Tail(left)
<1>1. /\ more \in Bytes /\ more # <<>> /\ rest \in Bytes
      /\ Joined(m, more, rest) /\ Len(m) \in Nat
      /\ Len(left) = 1 <=> rest = <<>>
      /\ rest = <<>> => more = m
      /\ rest # <<>> => Reading(m, more, rest)
      /\ buffer = <<>> => b = m[1] /\ rest # <<>>
  BY OneMore DEF Busy
<1>2. device'.message = m /\ device'.left = rest /\ device' \in [message : Bytes, left : Bytes]
  <2> HIDE DEF rest
  <2>1. device' = [device EXCEPT !.left = rest]
    BY DEF rest
  <2> QED  BY <1>1, <2>1
<1>3. Known(m) /\ buffer \in Bytes /\ waiting = IF buffer = <<>> THEN -1 ELSE CommandSize(m[1])
  BY DEF Busy, Reading
<1>4. \/ waiting = -1 /\ buffer' = more /\ waiting' = CommandSize(b) /\ UNCHANGED net
      \/ waiting # -1 /\ ~Complete(more) /\ buffer' = more /\ UNCHANGED <<waiting, net>>
      \/ waiting # -1 /\ Complete(more) /\ buffer' = <<>> /\ waiting' = -1 /\ SendMidi(<<more>>)
      \/ waiting # -1 /\ Complete(more) /\ connected /\ Len(more) > MaxPayload
  BY DEF MidiByte
<1>5. Busy' <=> /\ Reading(device'.message, buffer', device'.left)
                /\ waiting' = IF buffer' = <<>> THEN -1 ELSE CommandSize(device'.message[1])
  BY DEF Busy
<1>6. Idle' <=> device'.left = <<>> /\ buffer' = <<>> /\ waiting' = -1
  BY DEF Idle
<1>7. CommandSize(m[1]) # -1
  <2> DEFINE size == CommandSize(m[1])
  <2>1. size \in Nat
    BY <1>3, KnownIs DEF Known
  <2> HIDE DEF size
  <2>2. size # -1
    BY <2>1
  <2> QED  BY <2>2 DEF size
<1>8. buffer # <<>> => Len(more) >= 2
  <2> DEFINE n == Len(buffer)  k == Len(more)
  <2>1. n \in Nat /\ (buffer # <<>> => n # 0)
    BY <1>3, EmptySeq, LenProperties DEF Bytes
  <2>2. k = n + 1
    <3>1. b \in Nat
      BY HeadTailProperties DEF Busy, Reading, Bytes
    <3> HIDE DEF b
    <3> QED  BY <1>3, <3>1, AppendProperties DEF Bytes
  <2> HIDE DEF n, k
  <2>3. buffer # <<>> => k >= 2
    BY <2>1, <2>2
  <2> QED  BY <2>3 DEF k
<1> HIDE DEF m, left, b, more, rest
<1>9. CASE buffer = <<>>
  <2>1. waiting = -1 /\ rest # <<>> /\ b = m[1]
    BY <1>1, <1>3, <1>9
  <2>2. buffer' = more /\ waiting' = CommandSize(m[1]) /\ UNCHANGED net
    BY <1>4, <2>1
  <2>3. Busy'
    BY <1>1, <1>2, <1>5, <2>1, <2>2
  <2> QED  BY <1>1, <1>2, <2>1, <2>2, <2>3 DEF left
<1>10. CASE buffer # <<>>
  <2>1. waiting = CommandSize(m[1]) /\ waiting # -1
    BY <1>3, <1>7, <1>10
  <2>2. Complete(more) <=> rest = <<>>
    BY <1>1, <1>3, <1>8, <1>10, <2>1, CompleteIs
  <2>3. CASE rest # <<>>
    <3>1. buffer' = more /\ waiting' = waiting /\ UNCHANGED net
      BY <1>4, <2>1, <2>2, <2>3
    <3>2. Busy'
      BY <1>1, <1>2, <1>5, <2>1, <2>3, <3>1
    <3> QED  BY <1>1, <1>2, <2>3, <3>1, <3>2 DEF left
  <2>4. CASE rest = <<>>
    <3>1. SUFFICES ASSUME ~(connected /\ Len(m) > MaxPayload) PROVE Idle' /\ SendMidi(<<m>>)
      BY <1>1, <1>2, <2>4 DEF m, left
    <3>2. more = m
      BY <1>1, <2>4
    <3>3. ~(connected /\ Len(more) > MaxPayload)
      BY <3>1, <3>2
    <3>4. buffer' = <<>> /\ waiting' = -1 /\ SendMidi(<<more>>)
      BY <1>4, <2>1, <2>2, <2>4, <3>3
    <3> QED  BY <1>2, <1>6, <2>4, <3>2, <3>4
  <2> QED  BY <2>3, <2>4
<1> QED  BY <1>9, <1>10

-----------------------------------------------------------------------------
(* The steps, while there is no fault. *)

Exact ==
    /\ net \in Seq(Bytes) /\ sent \in Seq(Bytes) /\ sysex \in Bytes /\ out \in Seq(Bytes)
    /\ device \in [message : Bytes, left : Bytes]
    /\ Idle \/ Busy
    /\ Leads(HalfOf(sysex, out), net, HalfOf(<<>>, sent))

PathInv == made \in Nat /\ (seen = {} => Exact)

\* More is sent.
LEMMA MoreSent ==
  ASSUME Exact, NEW packets, packets \in Seq(Bytes), NEW sent2, sent2 \in Seq(Bytes),
         Leads(HalfOf(<<>>, sent), packets, HalfOf(<<>>, sent2)),
         net' = net \o packets, sent' = sent2, UNCHANGED <<sysex, out>>
  PROVE  /\ net' \in Seq(Bytes) /\ sent' \in Seq(Bytes) /\ sysex' \in Bytes /\ out' \in Seq(Bytes)
         /\ Leads(HalfOf(sysex', out'), net', HalfOf(<<>>, sent'))
<1> DEFINE a == HalfOf(sysex, out)  b == HalfOf(<<>>, sent)  c == HalfOf(<<>>, sent2)
<1>1. Leads(a, net, b) /\ Leads(b, packets, c) /\ net \in Seq(Bytes)
  BY DEF Exact
<1>2. HalfOf(sysex', out') = a /\ HalfOf(<<>>, sent') = c
  OBVIOUS
<1>3. net \o packets \in Seq(Bytes)
  BY <1>1, ConcatProperties
<1> HIDE DEF a, b, c
<1>4. Leads(a, net \o packets, c)
  BY <1>1, LeadsJoin
<1>5. sysex \in Bytes /\ out \in Seq(Bytes)
  BY DEF Exact
<1> QED  BY <1>2, <1>3, <1>4, <1>5

LEMMA NothingSent ==
  ASSUME Exact, UNCHANGED <<net, sent, sysex, out>>
  PROVE  /\ net' \in Seq(Bytes) /\ sent' \in Seq(Bytes) /\ sysex' \in Bytes /\ out' \in Seq(Bytes)
         /\ Leads(HalfOf(sysex', out'), net', HalfOf(<<>>, sent'))
BY DEF Exact

LEMMA DeviceSame ==
  ASSUME Exact, UNCHANGED <<device, buffer, waiting>>
  PROVE  device' \in [message : Bytes, left : Bytes] /\ (Idle' \/ Busy')
BY DEF Exact, Idle, Busy

LEMMA ExactStays ==
  ASSUME Exact, UNCHANGED <<net, sent, sysex, out, device, buffer, waiting>>
  PROVE  Exact'
<1>1. /\ net' \in Seq(Bytes) /\ sent' \in Seq(Bytes) /\ sysex' \in Bytes /\ out' \in Seq(Bytes)
      /\ Leads(HalfOf(sysex', out'), net', HalfOf(<<>>, sent'))
  BY NothingSent
<1>2. device' \in [message : Bytes, left : Bytes] /\ (Idle' \/ Busy')
  BY DeviceSame
<1> QED  BY <1>1, <1>2 DEF Exact

LEMMA AlsaEventStep ==
  ASSUME made \in Nat, Exact, AlsaEvent
  PROVE  Exact'
<1>1. device' \in [message : Bytes, left : Bytes] /\ (Idle' \/ Busy')
  BY DeviceSame DEF AlsaEvent, source
<1>2. PICK m \in Messages(AlsaSizes) : /\ SendMidi(Decoded(m))
                                       /\ sent' = IF connected THEN Append(sent, m) ELSE sent
  BY DEF AlsaEvent
<1>3. UNCHANGED <<sysex, out>> /\ sent \in Seq(Bytes)
  BY DEF AlsaEvent, sink, Exact
<1>4. Known(m)
  <2>1. AlsaSizes \subseteq Nat
    BY MidiPathAssumption
  <2> QED  BY <2>1, MessagesKnown
<1> DEFINE packets == Decoded(m)  sent2 == Append(sent, m)
<1>5. /\ Leads(HalfOf(<<>>, sent), packets, HalfOf(<<>>, sent2))
      /\ packets \in Seq(Bytes) /\ sent2 \in Seq(Bytes)
  BY <1>3, <1>4, DecodedLeads
<1>6. /\ connected => net' = net \o packets /\ sent' = sent2
      /\ ~connected => net' = net /\ sent' = sent
  BY <1>2 DEF SendMidi
<1> HIDE DEF packets, sent2
<1>7. /\ net' \in Seq(Bytes) /\ sent' \in Seq(Bytes) /\ sysex' \in Bytes /\ out' \in Seq(Bytes)
      /\ Leads(HalfOf(sysex', out'), net', HalfOf(<<>>, sent'))
  <2>1. CASE connected
    BY <1>3, <1>5, <1>6, <2>1, MoreSent
  <2>2. CASE ~connected
    BY <1>3, <1>6, <2>2, NothingSent
  <2> QED  BY <2>1, <2>2
<1> QED  BY <1>1, <1>7 DEF Exact

LEMMA DeviceBeginsStep ==
  ASSUME made \in Nat, Exact, DeviceBegins
  PROVE  Exact'
<1>1. PICK m \in Messages(DeviceSizes) : device' = [message |-> m, left |-> m]
  BY DEF DeviceBegins
<1>2. device.left = <<>> /\ UNCHANGED <<buffer, waiting, net, sysex, out, sent>>
  BY DEF DeviceBegins, sink
<1>3. buffer = <<>> /\ waiting = -1
  BY <1>2 DEF Exact, Idle, Busy, Reading
<1>4. Known(m)
  <2>1. DeviceSizes \subseteq Nat
    BY MidiPathAssumption
  <2> QED  BY <2>1, MessagesKnown
<1>5. m \in Bytes /\ m # <<>>
  <2>1. m \in Bytes /\ Len(m) \in Nat /\ Len(m) >= 2
    BY <1>4, KnownIs
  <2> DEFINE n == Len(m)
  <2>2. n # 0
    <3> HIDE DEF n
    <3>1. n \in Nat /\ n >= 2
      BY <2>1 DEF n
    <3> QED  BY <3>1
  <2> QED  BY <2>1, <2>2, EmptySeq
<1>6. device'.message = m /\ device'.left = m /\ device' \in [message : Bytes, left : Bytes]
  BY <1>1, <1>5
<1>7. Reading(m, <<>>, m)
  <2>1. <<>> \in Bytes
    BY DEF Bytes
  <2>2. <<>> \o m = m
    BY <1>5, ConcatEmptySeq DEF Bytes
  <2> QED  BY <1>4, <1>5, <2>1, <2>2 DEF Reading, Joined
<1>8. Busy'
  BY <1>2, <1>3, <1>6, <1>7 DEF Busy
<1>9. /\ net' \in Seq(Bytes) /\ sent' \in Seq(Bytes) /\ sysex' \in Bytes /\ out' \in Seq(Bytes)
      /\ Leads(HalfOf(sysex', out'), net', HalfOf(<<>>, sent'))
  BY <1>2, NothingSent
<1> QED  BY <1>6, <1>8, <1>9 DEF Exact

LEMMA ReadMidiStep ==
  ASSUME Exact, ReadMidi, seen' = {}
  PROVE  Exact'
<1> DEFINE m == device.message  over == Len(device.left) = 1  fits == Len(m) <= Mtu
           long == Len(m) > MaxPayload
<1>1. Busy
  BY DEF Exact, Idle, ReadMidi
<1>2. /\ device \in [message : Bytes, left : Bytes] /\ sent \in Seq(Bytes)
      /\ MidiByte(Head(device.left)) /\ device' = [device EXCEPT !.left = Tail(@)]
      /\ UNCHANGED <<sysex, out>>
  BY DEF Exact, ReadMidi, sink
<1>3. /\ device' \in [message : Bytes, left : Bytes]
      /\ ~over => Busy' /\ net' = net
      /\ over /\ ~(connected /\ long) => Idle' /\ SendMidi(<<m>>)
  BY <1>1, <1>2, ByteRead
<1>4. /\ sent' = IF (connected /\ over) /\ fits THEN Append(sent, m) ELSE sent
      /\ seen' = IF (connected /\ over) /\ ~fits THEN seen \cup {"size"} ELSE seen
  BY DEF ReadMidi
<1>5. Known(m) /\ (fits => ~long)
  <2>1. Known(m) /\ Len(m) \in Nat
    BY <1>1, KnownIs DEF Busy, Reading
  <2> DEFINE n == Len(m)
  <2> HIDE DEF n
  <2>2. n \in Nat => (n <= Mtu => ~(n > MaxPayload))
    BY MidiPathAssumption
  <2> QED  BY <2>1, <2>2 DEF n
<1> HIDE DEF over, fits, long, m
<1>6. connected /\ over => fits
  BY <1>4
<1>7. CASE over /\ connected
  <2>1. Idle' /\ SendMidi(<<m>>) /\ fits
    BY <1>3, <1>5, <1>6, <1>7
  <2> DEFINE packets == <<m>>  sent2 == Append(sent, m)
  <2>2. net' = net \o packets /\ sent' = sent2
    BY <1>4, <1>7, <2>1 DEF SendMidi
  <2>3. /\ Leads(HalfOf(<<>>, sent), packets, HalfOf(<<>>, sent2))
        /\ packets \in Seq(Bytes) /\ sent2 \in Seq(Bytes)
    BY <1>2, <1>5, <2>1, KnownLeads DEF fits
  <2> HIDE DEF packets, sent2
  <2>4. /\ net' \in Seq(Bytes) /\ sent' \in Seq(Bytes) /\ sysex' \in Bytes /\ out' \in Seq(Bytes)
        /\ Leads(HalfOf(sysex', out'), net', HalfOf(<<>>, sent'))
    BY <1>2, <2>2, <2>3, MoreSent
  <2> QED  BY <1>3, <2>1, <2>4 DEF Exact
<1>8. CASE ~(over /\ connected)
  <2>1. net' = net /\ sent' = sent /\ (Idle' \/ Busy')
    <3>1. CASE over
      BY <1>3, <1>4, <1>8, <3>1 DEF SendMidi
    <3>2. CASE ~over
      BY <1>3, <1>4, <3>2
    <3> QED  BY <3>1, <3>2
  <2>2. /\ net' \in Seq(Bytes) /\ sent' \in Seq(Bytes) /\ sysex' \in Bytes /\ out' \in Seq(Bytes)
        /\ Leads(HalfOf(sysex', out'), net', HalfOf(<<>>, sent'))
    BY <1>2, <2>1, NothingSent
  <2> QED  BY <1>3, <2>1, <2>2 DEF Exact
<1> QED  BY <1>7, <1>8

LEMMA AppendTwice ==
  ASSUME NEW s, NEW a, NEW b, s \in Seq(Bytes), a \in Bytes, b \in Bytes
  PROVE  s \o <<a, b>> = Append(Append(s, a), b)
<1> DEFINE E == Bytes  x == <<a>>  y == <<b>>
<1>1. s \in Seq(E) /\ x \in Seq(E) /\ y \in Seq(E) /\ a \in E /\ b \in E /\ <<a, b>> = x \o y
  <2>1. <<a, b>> = Append(x, b)
    OBVIOUS
  <2>2. s \in Seq(E) /\ x \in Seq(E) /\ y \in Seq(E) /\ a \in E /\ b \in E
    OBVIOUS
  <2> HIDE DEF E, x
  <2>3. Append(x, b) = x \o y
    BY <2>2, AppendIsConcat
  <2> QED  BY <2>1, <2>2, <2>3
<1> HIDE DEF E
<1>2. Append(s, a) = s \o x /\ Append(s, a) \in Seq(E)
  BY <1>1, AppendIsConcat, AppendProperties
<1>3. Append(Append(s, a), b) = (s \o x) \o y
  BY <1>1, <1>2, AppendIsConcat
<1> HIDE DEF x, y
<1>4. (s \o x) \o y = s \o (x \o y)
  BY <1>1, ConcatAssociative
<1> QED  BY <1>1, <1>3, <1>4

LEMMA RemoteStep ==
  ASSUME made \in Nat, Exact, Remote
  PROVE  Exact'
<1>1. device' \in [message : Bytes, left : Bytes] /\ (Idle' \/ Busy')
  BY DeviceSame DEF Remote, source
<1>2. UNCHANGED <<sysex, out>> /\ sent \in Seq(Bytes) /\ net \in Seq(Bytes)
  BY DEF Remote, sink, Exact
<1>3. ASSUME NEW p, NEW a, NEW b, p \in Bytes, a \in Bytes, b \in Bytes,
             net' = Append(net, p), sent' = sent \o <<a, b>>,
             Leads(HalfOf(<<>>, sent), <<p>>, HalfOf(<<>>, Append(Append(sent, a), b)))
      PROVE  /\ net' \in Seq(Bytes) /\ sent' \in Seq(Bytes) /\ sysex' \in Bytes /\ out' \in Seq(Bytes)
             /\ Leads(HalfOf(sysex', out'), net', HalfOf(<<>>, sent'))
  <2> DEFINE packets == <<p>>  sent2 == Append(Append(sent, a), b)
  <2>1. packets \in Seq(Bytes) /\ net' = net \o packets
    BY <1>2, <1>3, AppendIsConcat
  <2>2. sent2 \in Seq(Bytes) /\ sent' = sent2
    BY <1>2, <1>3, AppendTwice, AppendProperties
  <2>3. Leads(HalfOf(<<>>, sent), packets, HalfOf(<<>>, sent2))
    BY <1>3
  <2> HIDE DEF packets, sent2
  <2> QED  BY <1>2, <2>1, <2>2, <2>3, MoreSent
<1>4. CASE net' = Append(net, Note \o <<0>> \o More) /\ sent' = sent \o <<Note, <<144>> \o More>>
  <2> DEFINE p == Note \o <<0>> \o More  a == Note  b == After(144, More)
  <2>1. /\ Leads(HalfOf(<<>>, sent), <<p>>, HalfOf(<<>>, Append(Append(sent, a), b)))
        /\ p \in Bytes /\ a \in Bytes /\ b \in Bytes
    BY <1>2, NotesLead
  <2>2. net' = Append(net, p) /\ sent' = sent \o <<a, b>>
    BY <1>4 DEF After
  <2> HIDE DEF p, a, b
  <2>3. /\ net' \in Seq(Bytes) /\ sent' \in Seq(Bytes) /\ sysex' \in Bytes /\ out' \in Seq(Bytes)
        /\ Leads(HalfOf(sysex', out'), net', HalfOf(<<>>, sent'))
    BY <1>3, <2>1, <2>2
  <2> QED  BY <1>1, <2>3 DEF Exact
<1>5. CASE net' = Append(net, Sysex(1) \o <<129, 0>> \o Program) /\ sent' = sent \o <<Sysex(1), Program>>
  <2> DEFINE p == Sysex(1) \o <<129, 0>> \o Program  a == Sysex(1)  b == Program
  <2>1. /\ Leads(HalfOf(<<>>, sent), <<p>>, HalfOf(<<>>, Append(Append(sent, a), b)))
        /\ p \in Bytes /\ a \in Bytes /\ b \in Bytes
    <3>1. Program \in Bytes
      BY MadeIs DEF Short
    <3> QED  BY <1>2, <3>1, SysexShortLeads
  <2>2. net' = Append(net, p) /\ sent' = sent \o <<a, b>>
    BY <1>5
  <2> HIDE DEF p, a, b
  <2>3. /\ net' \in Seq(Bytes) /\ sent' \in Seq(Bytes) /\ sysex' \in Bytes /\ out' \in Seq(Bytes)
        /\ Leads(HalfOf(sysex', out'), net', HalfOf(<<>>, sent'))
    BY <1>3, <2>1, <2>2
  <2> QED  BY <1>1, <2>3 DEF Exact
<1> QED  BY <1>4, <1>5 DEF Remote

\* Without the first packet.
LEMMA FirstRemoved ==
  ASSUME NEW s, s \in Seq(Bytes), 1 \in DOMAIN s
  PROVE  LET n == Len(s) - 1  rest == RemoveAt(s, 1)
         IN  /\ n \in Nat /\ rest \in Seq(Bytes) /\ Len(rest) = n
             /\ \A k \in 1..n : rest[k] = s[k + 1]
<1> DEFINE E == Bytes  l == Len(s)  n == l - 1  none == SubSeq(s, 1, 1 - 1)  rest == SubSeq(s, 2, l)
<1>1. l \in Nat /\ DOMAIN s = 1..l /\ s \in Seq(E)
  BY LenProperties
<1>2. l >= 1 /\ n \in Nat
  <2> HIDE DEF l
  <2>1. 1 \in 1..l
    BY <1>1
  <2> QED  BY <1>1, <2>1
<1>3. RemoveAt(s, 1) = none \o rest
  BY DEF RemoveAt
<1>4. none = <<>>
  BY SubSeqEmpty
<1> HIDE DEF E
<1>5. rest \in Seq(E) /\ Len(rest) = n /\ \A k \in 1..n : rest[k] = s[k + 1]
  <2> HIDE DEF l
  <2>1. \A i \in 2..l : s[i] \in E
    <3>1. \A i \in 2..l : i \in 1..l
      BY <1>1
    <3>2. \A i \in 1..l : s[i] \in E
      BY <1>1, ElementOfSeq DEF l
    <3> QED  BY <3>1, <3>2
  <2>2. 2 \in Int /\ l \in Int
    BY <1>1
  <2>3. /\ rest \in Seq(E) /\ Len(rest) = IF 2 <= l THEN l - 2 + 1 ELSE 0
        /\ \A k \in 1..l - 2 + 1 : rest[k] = s[2 + k - 1]
    BY <2>1, <2>2, SubSeqProperties
  <2>4. (IF 2 <= l THEN l - 2 + 1 ELSE 0) = n /\ l - 2 + 1 = n /\ \A k \in 1..n : 2 + k - 1 = k + 1
    BY <1>1, <1>2
  <2> QED  BY <2>3, <2>4
<1> HIDE DEF none, rest, n
<1>6. none \o rest = rest
  BY <1>4, <1>5, ConcatEmptySeq
<1>7. RemoveAt(s, 1) = rest
  BY <1>3, <1>6
<1> QED  BY <1>2, <1>5, <1>7 DEF E, n, l

LEMMA ReceiveStep ==
  ASSUME Exact, Receive, seen' = {}
  PROVE  Exact'
<1>1. device' \in [message : Bytes, left : Bytes] /\ (Idle' \/ Busy')
  BY DeviceSame DEF Receive, source
<1>2. /\ sent' = sent /\ net \in Seq(Bytes) /\ sent \in Seq(Bytes) /\ sysex \in Bytes /\ out \in Seq(Bytes)
      /\ Leads(HalfOf(sysex, out), net, HalfOf(<<>>, sent))
  BY DEF Receive, Exact
<1>3. /\ 1 \in DOMAIN net /\ net' = RemoveAt(net, 1)
      /\ IF Len(net[1]) <= Mtu
         THEN sysex' = ParseMidi(net[1]).sysex /\ out' = ParseMidi(net[1]).out
         ELSE UNCHANGED sink
  <2>1. PICK i \in DOMAIN net :
           /\ net' = RemoveAt(net, i)
           /\ i # 1 => seen' # {}
           /\ IF Len(net[i]) <= Mtu
              THEN sysex' = ParseMidi(net[i]).sysex /\ out' = ParseMidi(net[i]).out
              ELSE UNCHANGED sink
    BY DEF Receive
  <2>2. i = 1
    BY <2>1
  <2> QED  BY <2>1, <2>2
<1> DEFINE p == net[1]  st == ParseList(St(sysex, out, 0, p))
           a == HalfOf(sysex, out)  b == HalfOf(<<>>, sent)  rest == RemoveAt(net, 1)  n == Len(net) - 1
<1>4. ParseMidi(p) = st
  BY DEF ParseMidi, St
<1>5. /\ n \in Nat /\ rest \in Seq(Bytes) /\ Len(rest) = n /\ Len(net) = n + 1
      /\ \A k \in 1..n : rest[k] = net[k + 1]
  <2>1. /\ n \in Nat /\ rest \in Seq(Bytes) /\ Len(rest) = n
        /\ \A k \in 1..n : rest[k] = net[k + 1]
    BY <1>2, <1>3, FirstRemoved
  <2>2. Len(net) = n + 1
    <3> DEFINE l == Len(net)
    <3>1. l \in Nat
      BY <1>2, LenProperties
    <3> HIDE DEF l
    <3>2. l = l - 1 + 1
      BY <3>1
    <3> QED  BY <3>2 DEF l
  <2> HIDE DEF n, rest
  <2> QED  BY <2>1, <2>2
<1>6. Leads(a, net, b)
  BY <1>2
<1>7. a.sysex = sysex /\ a.out = out
  BY <1>2, HalfIs
<1>8. net' = rest /\ HalfOf(<<>>, sent') = b
  BY <1>2, <1>3
<1> HIDE DEF a, b, rest, n
<1>9. PICK c \in Half : Takes(a, p, c) /\ Leads(c, rest, b)
  BY <1>2, <1>5, <1>6, LeadsTail
<1>10. Len(p) <= Mtu /\ st.sysex = c.sysex /\ st.out = c.out
  BY <1>7, <1>9 DEF Takes
<1>11. sysex' = c.sysex /\ out' = c.out
  BY <1>3, <1>4, <1>10
<1>12. HalfOf(sysex', out') = c /\ sysex' \in Bytes /\ out' \in Seq(Bytes)
  BY <1>11 DEF Half, HalfOf
<1> HIDE DEF p, st
<1> QED  BY <1>1, <1>2, <1>5, <1>8, <1>9, <1>12 DEF Exact

-----------------------------------------------------------------------------
(* What was sent comes out, in every behaviour. *)

LEMMA PathInit == MInit => PathInv
<1> SUFFICES ASSUME MInit PROVE PathInv
  OBVIOUS
<1> DEFINE a == HalfOf(<<>>, <<>>)
<1>1. /\ made = 0 /\ net = <<>> /\ sent = <<>> /\ sysex = <<>> /\ out = <<>>
      /\ device = [message |-> <<>>, left |-> <<>>] /\ buffer = <<>> /\ waiting = -1
  BY DEF MInit
<1>2. <<>> \in Bytes /\ <<>> \in Seq(Bytes)
  BY DEF Bytes
<1>3. a \in Half
  BY <1>2, HalfIs
<1> HIDE DEF a
<1>4. Leads(a, <<>>, a)
  BY <1>3, LeadsNone
<1>5. Idle /\ device \in [message : Bytes, left : Bytes]
  BY <1>1, <1>2 DEF Idle
<1> QED  BY <1>1, <1>2, <1>4, <1>5 DEF PathInv, Exact, a

LEMMA PathStep == PathInv /\ [MNext]_vars => PathInv'
<1> SUFFICES ASSUME PathInv, [MNext]_vars PROVE PathInv'
  OBVIOUS
<1>1. made \in Nat
  BY DEF PathInv
<1>2. made' \in Nat
  <2>1. made' = made \/ made' = made + 1
    BY DEF MNext, DeviceBegins, ReadMidi, RealTime, Connect, Others, AlsaEvent, Remote, Receive, Lose, Make, vars
  <2> QED  BY <1>1, <2>1
<1>3. ASSUME seen' = {} PROVE Exact'
  <2>1. seen = {}
    BY <1>3 DEF MNext, DeviceBegins, ReadMidi, RealTime, Connect, Others, AlsaEvent, Remote, Receive, Lose, vars
  <2>2. Exact
    BY <2>1 DEF PathInv
  <2>3. CASE DeviceBegins
    BY <1>1, <2>2, <2>3, DeviceBeginsStep
  <2>4. CASE ReadMidi
    BY <1>3, <2>2, <2>4, ReadMidiStep
  <2>5. CASE RealTime
    BY <1>3, <2>5 DEF RealTime
  <2>6. CASE Connect
    BY <2>2, <2>6, ExactStays DEF Connect, source, sink
  <2>7. CASE AlsaEvent
    BY <1>1, <2>2, <2>7, AlsaEventStep
  <2>8. CASE Remote
    BY <1>1, <2>2, <2>8, RemoteStep
  <2>9. CASE Receive
    BY <1>3, <2>2, <2>9, ReceiveStep
  <2>10. CASE Lose
    BY <1>3, <2>10 DEF Lose
  <2>11. CASE UNCHANGED vars
    BY <2>2, <2>11, ExactStays DEF vars, source, sink
  <2> QED  BY <2>3, <2>4, <2>5, <2>6, <2>7, <2>8, <2>9, <2>10, <2>11 DEF MNext, Others
<1> QED  BY <1>2, <1>3 DEF PathInv

LEMMA PathExact == PathInv => FaultFreeIsExact
<1> SUFFICES ASSUME PathInv, seen = {}
             PROVE  IsPrefix(out, sent) /\ (net = <<>> => out = sent /\ sysex = <<>>)
  BY DEF FaultFreeIsExact
<1> DEFINE a == HalfOf(sysex, out)  b == HalfOf(<<>>, sent)  n == Len(net)
<1>1. /\ net \in Seq(Bytes) /\ sent \in Seq(Bytes) /\ sysex \in Bytes /\ out \in Seq(Bytes)
      /\ Leads(a, net, b)
  BY DEF PathInv, Exact
<1>2. a.sysex = sysex /\ a.out = out /\ b.sysex = <<>> /\ b.out = sent
  <2>1. <<>> \in Bytes
    BY DEF Bytes
  <2> QED  BY <1>1, <2>1, HalfIs
<1>3. n \in Nat /\ (net = <<>> => n = 0)
  BY <1>1, LenProperties
<1> HIDE DEF a, b, n
<1>4. PICK f : Way(f, n, a, net, b)
  BY <1>1 DEF Leads, n
<1>5. f[0] = a /\ f[n] = b /\ Before(f[0].out, b.out)
  <2>1. 0 \in 0..n
    BY <1>3
  <2> QED  BY <1>4, <2>1 DEF Way
<1>6. IsPrefix(out, sent)
  BY <1>1, <1>2, <1>5, BeforeIsPrefix
<1>7. ASSUME net = <<>> PROVE out = sent /\ sysex = <<>>
  <2>1. a = b
    BY <1>3, <1>5, <1>7
  <2> QED  BY <1>2, <2>1
<1> QED  BY <1>6, <1>7

\* The inductive invariant: until the first fault, the packets under way take
\* the half that receives (rtppeer_t::parse_midi), one after the other, from what
\* it has now to all that was sent, and the normalizer (midi_normalizer_t) has
\* read the first bytes of what the device is sending.
THEOREM MidiPathInvariant == MSpec => []PathInv
<1>1. MInit => PathInv
  BY PathInit
<1>2. PathInv /\ [MNext]_vars => PathInv'
  BY PathStep
<1> QED  BY <1>1, <1>2, PTL DEF MSpec

\* As long as nothing is lost, overtaken, too long or interrupted by a real
\* time byte, parse_midi gives the participant what was sent, in its order, and all of it
\* when no packet is under way: however many bytes a SysEx message, a segment
\* or a packet may have, and whichever way messages came in.
THEOREM MidiPathFaultFreeIsExact == MSpec => []FaultFreeIsExact
<1>1. PathInv => FaultFreeIsExact
  BY PathExact
<1> QED  BY <1>1, MidiPathInvariant, PTL

-----------------------------------------------------------------------------
(* What a packet does, whatever came out before it. *)

\* What came out, and what came out after it.
Added(o, y, o2) ==
    /\ o2 \in Seq(Bytes) /\ Len(o2) = Len(o) + Len(y)
    /\ \A i \in 1..Len(o) : o2[i] = o[i]
    /\ \A n \in 1..Len(y) : o2[Len(o) + n] = y[n]

\* It takes the message that has begun from x to x2, and y comes out.
Turn(x, p, x2, y) ==
    \A o \in Seq(Bytes) :
        LET st == ParseList(St(x, o, 0, p))
        IN  st.sysex = x2 /\ Added(o, y, st.out)

LEMMA AddedNone ==
  ASSUME NEW o, o \in Seq(Bytes)
  PROVE  Added(o, <<>>, o)
BY EmptySeq, LenProperties DEF Added

LEMMA AddedOne ==
  ASSUME NEW o, o \in Seq(Bytes), NEW m, m \in Bytes
  PROVE  Added(o, <<m>>, Append(o, m))
<1> DEFINE y == <<m>>  o2 == Append(o, m)  n == Len(o)
<1>1. Len(y) = 1 /\ y[1] = m
  OBVIOUS
<1>2. /\ o2 \in Seq(Bytes) /\ Len(o2) = n + 1 /\ o2[n + 1] = m /\ n \in Nat
      /\ \A i \in 1..n : o2[i] = o[i]
  BY AppendProperties, LenProperties
<1> HIDE DEF y, o2, n
<1>3. \A k \in 1..1 : o2[n + k] = y[k]
  BY <1>1, <1>2
<1>4. Added(o, y, o2)
  BY <1>1, <1>2, <1>3 DEF Added, n
<1> QED  BY <1>4 DEF y, o2

LEMMA AddedTwo ==
  ASSUME NEW o, o \in Seq(Bytes), NEW a, NEW b, a \in Bytes, b \in Bytes
  PROVE  Added(o, <<a, b>>, Append(Append(o, a), b))
<1> DEFINE y == <<a, b>>  o1 == Append(o, a)  o2 == Append(o1, b)  n == Len(o)
<1>1. Len(y) = 2 /\ y[1] = a /\ y[2] = b
  OBVIOUS
<1>2. /\ o1 \in Seq(Bytes) /\ Len(o1) = n + 1 /\ o1[n + 1] = a /\ n \in Nat
      /\ \A i \in 1..n : o1[i] = o[i]
  BY AppendProperties, LenProperties
<1> HIDE DEF o1, n
<1>3. /\ o2 \in Seq(Bytes) /\ Len(o2) = Len(o1) + 1 /\ o2[Len(o1) + 1] = b
      /\ \A i \in 1..Len(o1) : o2[i] = o1[i]
  BY <1>2, AppendProperties
<1> HIDE DEF y, o2
<1>4. Len(o2) = n + 2 /\ o2[n + 2] = b
  BY <1>2, <1>3
<1>5. \A i \in 1..n + 1 : o2[i] = o1[i]
  BY <1>2, <1>3
<1>6. \A i \in 1..n : o2[i] = o[i]
  BY <1>2, <1>5
<1>7. o2[n + 1] = a
  BY <1>2, <1>5
<1>8. \A k \in 1..2 : o2[n + k] = y[k]
  <2>1. \A k \in 1..2 : k = 1 \/ k = 2
    OBVIOUS
  <2> QED  BY <1>1, <1>4, <1>7, <2>1
<1>9. Added(o, y, o2)
  BY <1>1, <1>3, <1>4, <1>6, <1>8 DEF Added, n
<1> QED  BY <1>9 DEF y, o2, o1

\* Nothing comes out of a packet.
LEMMA TurnNone ==
  ASSUME NEW x, NEW p, NEW x2,
         \A o \in Seq(Bytes) : \E running : ParseList(St(x, o, 0, p)) = St(x2, o, running, <<>>)
  PROVE  Turn(x, p, x2, <<>>)
<1> SUFFICES ASSUME NEW o \in Seq(Bytes)
             PROVE  LET st == ParseList(St(x, o, 0, p))
                    IN  st.sysex = x2 /\ Added(o, <<>>, st.out)
  BY DEF Turn
<1> DEFINE none == <<>>
<1>1. PICK running : ParseList(St(x, o, 0, p)) = St(x2, o, running, none)
  OBVIOUS
<1>2. St(x2, o, running, none).sysex = x2 /\ St(x2, o, running, none).out = o
  BY Fields
<1>3. Added(o, none, o)
  BY AddedNone
<1> QED  BY <1>1, <1>2, <1>3

\* A message comes out of it.
LEMMA TurnOne ==
  ASSUME NEW x, NEW p, NEW x2, NEW m, m \in Bytes,
         \A o \in Seq(Bytes) : \E running :
             ParseList(St(x, o, 0, p)) = St(x2, Append(o, m), running, <<>>)
  PROVE  Turn(x, p, x2, <<m>>)
<1> SUFFICES ASSUME NEW o \in Seq(Bytes)
             PROVE  LET st == ParseList(St(x, o, 0, p))
                    IN  st.sysex = x2 /\ Added(o, <<m>>, st.out)
  BY DEF Turn
<1> DEFINE none == <<>>  o2 == Append(o, m)  y == <<m>>
<1>1. PICK running : ParseList(St(x, o, 0, p)) = St(x2, o2, running, none)
  OBVIOUS
<1>3. Added(o, y, o2)
  BY AddedOne
<1> HIDE DEF o2, y
<1>2. St(x2, o2, running, none).sysex = x2 /\ St(x2, o2, running, none).out = o2
  BY Fields
<1>4. ParseList(St(x, o, 0, p)).sysex = x2 /\ Added(o, y, ParseList(St(x, o, 0, p)).out)
  BY <1>1, <1>2, <1>3
<1> QED  BY <1>4 DEF y

\* Two messages do.
LEMMA TurnTwo ==
  ASSUME NEW x, NEW p, NEW x2, NEW a, NEW b, a \in Bytes, b \in Bytes,
         \A o \in Seq(Bytes) : \E running :
             ParseList(St(x, o, 0, p)) = St(x2, Append(Append(o, a), b), running, <<>>)
  PROVE  Turn(x, p, x2, <<a, b>>)
<1> SUFFICES ASSUME NEW o \in Seq(Bytes)
             PROVE  LET st == ParseList(St(x, o, 0, p))
                    IN  st.sysex = x2 /\ Added(o, <<a, b>>, st.out)
  BY DEF Turn
<1> DEFINE none == <<>>  o2 == Append(Append(o, a), b)  y == <<a, b>>
<1>1. PICK running : ParseList(St(x, o, 0, p)) = St(x2, o2, running, none)
  OBVIOUS
<1>3. Added(o, y, o2)
  BY AddedTwo
<1> HIDE DEF o2, y
<1>2. St(x2, o2, running, none).sysex = x2 /\ St(x2, o2, running, none).out = o2
  BY Fields
<1>4. ParseList(St(x, o, 0, p)).sysex = x2 /\ Added(o, y, ParseList(St(x, o, 0, p)).out)
  BY <1>1, <1>2, <1>3
<1> QED  BY <1>4 DEF y

LEMMA NothingLeft ==
  ASSUME NEW x, NEW o, NEW running, NEW left
  PROVE  Thrown(St(x, o, running, left)) = St(x, o, running, <<>>)
<1> DEFINE st == St(x, o, running, left)
<1>1. \A new : [st EXCEPT !.left = new] = St(x, o, running, new)
  BY DEF St
<1> HIDE DEF st
<1> DEFINE none == <<>>
<1>2. Thrown(st) = [st EXCEPT !.left = none]
  BY DEF Thrown
<1> HIDE DEF none
<1>3. Thrown(st) = St(x, o, running, none)
  BY <1>1, <1>2
<1> QED  BY <1>3 DEF st, none

\* A message has begun, and something else comes than what continues it.
LEMMA ParseThrown ==
  ASSUME NEW x, NEW o, NEW all, NEW chunk, NEW after, x # <<>>,
         chunk \in Bytes, after \in Bytes, chunk # <<>>, chunk[1] # Stop,
         Joined(all, chunk, after), Fits(all, 0, chunk)
  PROVE  ParseList(St(x, o, 0, all)) = St(x, o, Now(chunk, 0), <<>>)
<1> DEFINE none == <<>>  now == Now(chunk, 0)
           st == St(x, o, now, after)  done == St(x, o, now, none)  all0 == St(x, o, 0, all)
<1>1. Done(st, chunk) = done
  <2>1. st.sysex = x
    BY Fields
  <2>2. Done(st, chunk) = Continued(st, chunk)
    <3> HIDE DEF st
    <3> QED  BY <2>1 DEF Done, ParseSysex
  <2>3. Continued(st, chunk) = Thrown(st)
    <3> HIDE DEF st
    <3> QED  BY DEF Continued
  <2>4. Thrown(st) = done
    <3> HIDE DEF now
    <3> QED  BY NothingLeft
  <2> QED  BY <2>2, <2>3, <2>4
<1>2. done.left = none
  BY Fields
<1>3. NextCommand(all0) = done
  <2>1. NextCommand(all0) = LET d == Done(st, chunk) IN IF d.left = <<>> THEN d ELSE SkipDelta(d)
    BY OneCommand DEF Fits, Now
  <2> HIDE DEF st, done, all0
  <2> QED  BY <1>1, <1>2, <2>1
<1>4. all0.left = all
  BY Fields
<1>5. all # <<>> /\ Len(all) \in Nat /\ Len(all) >= 1
  <2>1. all \in Bytes /\ Len(all) = Len(chunk) + Len(after)
    BY JoinedIs
  <2>2. Len(chunk) \in Nat \ {0} /\ Len(after) \in Nat
    BY EmptySeq, LenProperties DEF Bytes
  <2>3. Len(all) \in Nat /\ Len(all) >= 1
    BY <2>1, <2>2
  <2> QED  BY <2>3
<1> HIDE DEF all0, done
<1>6. ParseList(all0) = NextCommand(all0)
  <2> DEFINE N == Len(all)
  <2>1. N \in Nat /\ N >= 1 /\ Len(all0.left) = N
    BY <1>4, <1>5
  <2> HIDE DEF N
  <2> QED  BY <1>2, <1>3, <1>4, <1>5, <2>1, ParseOne
<1> QED  BY <1>3, <1>6 DEF all0, done

\* Packets that are commands: what comes out of them when no message has begun,
\* and otherwise nothing does.
Gives(p, y) ==
    /\ y \in Seq(Bytes) /\ Turn(<<>>, p, <<>>, y)
    /\ \A x \in Bytes : x # <<>> => Turn(x, p, x, <<>>)

LEMMA GivesWhen ==
  ASSUME NEW p, NEW y, y \in Seq(Bytes), Turn(<<>>, p, <<>>, y),
         NEW chunk, NEW after, chunk \in Bytes, after \in Bytes, chunk # <<>>, chunk[1] # Stop,
         Joined(p, chunk, after), Fits(p, 0, chunk)
  PROVE  Gives(p, y)
<1> DEFINE none == <<>>
<1>1. ASSUME NEW x, x \in Bytes, x # <<>> PROVE Turn(x, p, x, none)
  <2>1. ASSUME NEW o \in Seq(Bytes) PROVE \E running : ParseList(St(x, o, 0, p)) = St(x, o, running, <<>>)
    <3>1. ParseList(St(x, o, 0, p)) = St(x, o, Now(chunk, 0), <<>>)
      BY <1>1, ParseThrown
    <3> QED  BY <3>1
  <2> QED  BY <2>1, TurnNone
<1> QED  BY <1>1 DEF Gives

\* A message of the ALSA sequencer or of a device begins a packet, or is all of it.
LEMMA FrameFits ==
  ASSUME NEW x, NEW y, x \in {Start, Stop}, y \in {Start, Stop}, NEW d, d \in Seq(0..127),
         NEW whole, Frame(whole, x, d, y), NEW after, NEW p, after \in Bytes, Joined(p, whole, after)
  PROVE  Fits(p, 0, whole)
<1>1. /\ whole \in Bytes /\ whole # <<>> /\ Len(whole) = Len(d) + 2 /\ whole[1] = x /\ Last(whole) = y
      /\ \A i \in 1..Len(d) : whole[i + 1] = d[i]
  BY FrameEnds
<1>2. p \in Bytes /\ Len(p) = Len(whole) + Len(after) /\ \A i \in 1..Len(whole) : p[i] = whole[i]
  <2>1. whole \in Bytes /\ after \in Bytes /\ Joined(p, whole, after)
    BY <1>1
  <2> QED  BY ONLY <2>1, JoinedIs
<1>3. Len(d) \in Nat /\ Len(after) \in Nat /\ \A i \in 1..Len(d) : IsData(d[i])
  BY Septets, LenProperties DEF Bytes
<1>4. SysexLength(p) = Len(whole)
  <2> DEFINE n == Len(whole)
  <2>1. n \in 2..Len(p)
    BY <1>1, <1>2, <1>3
  <2>2. ~IsData(p[n])
    <3>1. n \in 1..Len(whole)
      BY <2>1
    <3>2. p[n] = y
      BY <1>1, <1>2, <3>1 DEF Last
    <3> QED  BY <3>2 DEF IsData, Start, Stop
  <2>3. ASSUME NEW i \in 2..n - 1 PROVE IsData(p[i])
    <3>1. i \in 1..Len(whole) /\ i - 1 \in 1..Len(d) /\ i - 1 + 1 = i
      BY <1>1, <1>3
    <3>2. p[i] = d[i - 1]
      BY <1>1, <1>2, <3>1
    <3> QED  BY <1>3, <3>1, <3>2
  <2> HIDE DEF n
  <2>4. SysexLength(p) = n
    BY <1>2, <2>1, <2>2, <2>3, SysexLengthIs
  <2> QED  BY <2>4 DEF n
<1>5. 1 \in 1..Len(whole)
  BY <1>1, <1>3
<1>6. p[1] \in {Start, Stop, Cancel} /\ ~IsData(p[1])
  BY <1>1, <1>2, <1>5 DEF IsData, Start, Stop
<1> QED  BY <1>4, <1>6 DEF PacketLength, Fits

LEMMA JoinedNone ==
  ASSUME NEW p, p \in Bytes
  PROVE  <<>> \in Bytes /\ Joined(p, p, <<>>)
BY ConcatEmptySeq DEF Bytes, Joined

LEMMA ShortGives ==
  ASSUME NEW m, Short(m)
  PROVE  Gives(m, <<m>>)
<1> DEFINE none == <<>>  y == <<m>>
<1>1. m \in Bytes /\ m # <<>> /\ m[1] # Stop /\ Fits(m, 0, m)
  <2>1. m \in Bytes /\ m # <<>> /\ m[1] \in {144, 192} /\ PacketLength(m, 0) = Len(m)
    BY ShortLength
  <2> QED  BY <2>1 DEF Fits, Stop
<1>2. none \in Bytes /\ Joined(m, m, none)
  BY <1>1, JoinedNone
<1>3. Turn(<<>>, m, <<>>, y)
  <2>1. ASSUME NEW o \in Seq(Bytes)
        PROVE  \E running : ParseList(St(<<>>, o, 0, m)) = St(<<>>, Append(o, m), running, <<>>)
    BY ParseShort
  <2> QED  BY <1>1, <2>1, TurnOne
<1>4. y \in Seq(Bytes)
  BY <1>1
<1> HIDE DEF none, y
<1>5. Gives(m, y)
  BY <1>1, <1>2, <1>3, <1>4, GivesWhen
<1> QED  BY <1>5 DEF y

LEMMA WholeGives ==
  ASSUME NEW p, NEW d, d \in Seq(0..127), Frame(p, Start, d, Stop)
  PROVE  Gives(p, <<p>>)
<1> DEFINE none == <<>>  y == <<p>>
<1>1. Start \in {Start, Stop} /\ Stop \in {Start, Stop}
  OBVIOUS
<1>2. p \in Bytes /\ p # <<>> /\ p[1] = Start
  BY <1>1, FrameEnds
<1>3. none \in Bytes /\ Joined(p, p, none)
  BY <1>2, JoinedNone
<1>4. Fits(p, 0, p)
  <2> HIDE DEF none
  <2> QED  BY <1>1, <1>3, FrameFits
<1>5. p[1] # Stop
  BY <1>2 DEF Start, Stop
<1>6. Turn(<<>>, p, <<>>, y)
  <2>1. ASSUME NEW o \in Seq(Bytes)
        PROVE  \E running : ParseList(St(<<>>, o, 0, p)) = St(<<>>, Append(o, p), running, <<>>)
    BY ParseWhole
  <2> QED  BY <1>2, <2>1, TurnOne
<1>7. y \in Seq(Bytes)
  BY <1>2
<1> HIDE DEF none, y
<1>8. Gives(p, y)
  BY <1>2, <1>3, <1>4, <1>5, <1>6, <1>7, GivesWhen
<1> QED  BY <1>8 DEF y

LEMMA NotesGive ==
  ASSUME made \in Nat
  PROVE  Gives(Note \o <<0>> \o More, <<Note, After(144, More)>>)
<1> DEFINE time == <<0>>  after == time \o More  p == Note \o time \o More
           a == Note  b == After(144, More)  y == <<a, b>>
<1>1. Short(a) /\ a[1] = 144 /\ Pair(More)
  BY MadeIs, MoreIs DEF Pair
<1>2. Delta(time) /\ time \in Bytes
  BY DEF Delta, Bytes, IsData
<1> HIDE DEF time
<1>3. a \in Bytes /\ a # <<>> /\ a[1] # Stop /\ More \in Bytes /\ b \in Bytes
  <2>1. a \in Bytes /\ a # <<>> /\ a[1] \in {144, 192}
    BY <1>1, ShortLength
  <2>2. More \in Bytes
    BY MoreIs, Septets
  <2>3. b \in Bytes
    BY <2>2, AfterIs
  <2> QED  BY <2>1, <2>2, <2>3 DEF Stop
<1>4. Joined(after, time, More)
  BY DEF Joined
<1>5. Joined(p, a, after)
  BY <1>2, <1>3, JoinedTwice
<1> HIDE DEF after, p
<1>6. after \in Bytes
  BY <1>2, <1>3, <1>4, JoinedIs
<1>7. Fits(p, 0, a)
  <2>1. p[1] = a[1]
    BY <1>3, <1>5, <1>6, JoinedIs
  <2> QED  BY <1>1, <2>1, ShortLength DEF Fits
<1> HIDE DEF a, b
<1>8. Turn(<<>>, p, <<>>, y)
  <2>1. ASSUME NEW o \in Seq(Bytes)
        PROVE  \E running :
                   ParseList(St(<<>>, o, 0, p)) = St(<<>>, Append(Append(o, a), b), running, <<>>)
    <3>1. ParseList(St(<<>>, o, 0, p)) = St(<<>>, Append(Append(o, a), After(144, More)), 144, <<>>)
      BY <1>1, <1>2, <1>4, <1>5, ParseNotes
    <3> QED  BY <3>1 DEF b
  <2> QED  BY <1>3, <2>1, TurnTwo
<1>9. y \in Seq(Bytes)
  BY <1>3
<1> HIDE DEF y
<1>10. Gives(p, y)
  BY <1>3, <1>5, <1>6, <1>7, <1>8, <1>9, GivesWhen
<1> QED  BY <1>10 DEF y, p, a, b, time

LEMMA SysexShortGives ==
  ASSUME made \in Nat
  PROVE  Gives(Sysex(1) \o <<129, 0>> \o Program, <<Sysex(1), Program>>)
<1> DEFINE time == <<129, 0>>  a == Sysex(1)  b == Program  d == Data(1)
           after == time \o b  p == a \o time \o b  y == <<a, b>>
<1>1. Short(b) /\ b \in Bytes /\ Frame(a, Start, d, Stop)
  BY MadeIs DEF Short
<1>2. d \in Seq(0..127)
  BY DataIs
<1> HIDE DEF d, a
<1>3. a \in Bytes /\ a # <<>> /\ a[1] # Stop /\ Start \in {Start, Stop} /\ Stop \in {Start, Stop}
  <2>1. Start \in {Start, Stop} /\ Stop \in {Start, Stop}
    OBVIOUS
  <2>2. a \in Bytes /\ a # <<>> /\ a[1] = Start
    BY <1>1, <1>2, <2>1, FrameEnds
  <2> QED  BY <2>1, <2>2 DEF Start, Stop
<1>4. Delta(time) /\ time \in Bytes
  <2>1. time \in Bytes /\ Len(time) = 2 /\ time[1] = 129 /\ time[2] = 0
    BY DEF Bytes
  <2>2. IsData(0) /\ ~IsData(129)
    BY DEF IsData
  <2>3. \A i \in 1..2 - 1 : i = 1
    OBVIOUS
  <2> HIDE DEF time
  <2>4. time # <<>>
    <3>1. Len(time) # Len(<<>>)
      BY <2>1
    <3> QED  BY <3>1
  <2> QED  BY <2>1, <2>2, <2>3, <2>4 DEF Delta
<1> HIDE DEF time, b
<1>5. Joined(after, time, b)
  BY DEF Joined
<1>6. Joined(p, a, after)
  BY <1>1, <1>3, <1>4, JoinedTwice
<1> HIDE DEF after, p
<1>7. after \in Bytes
  BY <1>1, <1>4, <1>5, JoinedIs
<1>8. Fits(p, 0, a)
  BY <1>1, <1>2, <1>3, <1>6, <1>7, FrameFits
<1>9. Turn(<<>>, p, <<>>, y)
  <2>1. ASSUME NEW o \in Seq(Bytes)
        PROVE  \E running :
                   ParseList(St(<<>>, o, 0, p)) = St(<<>>, Append(Append(o, a), b), running, <<>>)
    <3>1. ParseList(St(<<>>, o, 0, p)) = St(<<>>, Append(Append(o, a), b), b[1], <<>>)
      BY <1>1, <1>2, <1>4, <1>5, <1>6, ParseSysexShort
    <3> QED  BY <3>1
  <2> QED  BY <1>1, <1>3, <2>1, TurnTwo
<1>10. y \in Seq(Bytes)
  BY <1>1, <1>3
<1> HIDE DEF y
<1>11. Gives(p, y)
  BY <1>3, <1>6, <1>7, <1>8, <1>9, <1>10, GivesWhen
<1> QED  BY <1>11 DEF y, p, a, b, time

-----------------------------------------------------------------------------
(* What a segment does, in the middle of a message and out of it. *)

\* A message that has begun, or none.
Open(x) == x \in Bytes /\ (x # <<>> => x[1] = Start)

\* Messages that are no promise once segments were lost.
Marked(y) == y \in Seq(Bytes) /\ \A n \in 1..Len(y) : y[n] # <<>> /\ y[n][1] \in {Start, Stop}

\* A segment takes every state of the other half to one like it.
Piece(p) ==
    /\ IsSegment(p)
    /\ \A x : Open(x) => \E x2, y : Open(x2) /\ Marked(y) /\ Turn(x, p, x2, y)

LEMMA MarkedOne ==
  ASSUME NEW m, m \in Bytes, m # <<>>, m[1] \in {Start, Stop}
  PROVE  Marked(<<m>>)
<1> DEFINE y == <<m>>
<1>1. y \in Seq(Bytes) /\ Len(y) = 1 /\ y[1] = m
  OBVIOUS
<1> HIDE DEF y
<1>2. \A n \in 1..Len(y) : y[n] = m
  BY <1>1
<1>3. Marked(y)
  BY <1>1, <1>2 DEF Marked
<1> QED  BY <1>3 DEF y

LEMMA MarkedNone == Marked(<<>>)
BY EmptySeq DEF Marked

\* What begins with Start still does with more bytes after it.
LEMMA OpenMore ==
  ASSUME NEW x, NEW d, NEW t, x \in Bytes, x # <<>>, x[1] = Start, d \in Bytes, Joined(t, x, d)
  PROVE  /\ t \in Bytes /\ t # <<>> /\ t[1] = Start
         /\ Append(t, Stop) \in Bytes /\ Append(t, Stop) # <<>> /\ Append(t, Stop)[1] = Start
<1>1. t \in Bytes /\ Len(t) = Len(x) + Len(d) /\ t[1] = Start
  BY JoinedIs
<1>2. Len(x) \in Nat \ {0} /\ Len(d) \in Nat
  BY EmptySeq, LenProperties DEF Bytes
<1>3. Len(t) \in Nat \ {0} /\ t # <<>>
  BY <1>1, <1>2
<1>4. Stop \in Nat
  BY DEF Stop
<1> DEFINE E == Nat  m == Append(t, Stop)  n == Len(t)
<1>5. t \in Seq(E) /\ Stop \in E
  BY <1>1, <1>4 DEF Bytes
<1> HIDE DEF E
<1>6. m \in Seq(E) /\ Len(m) = n + 1 /\ \A i \in 1..n : m[i] = t[i]
  BY <1>5, AppendProperties
<1>7. 1 \in 1..n /\ n + 1 # 0
  BY <1>3
<1> HIDE DEF m, n
<1>8. m # <<>> /\ m[1] = Start
  BY <1>1, <1>6, <1>7, EmptySeq
<1> QED  BY <1>1, <1>3, <1>6, <1>8 DEF E, Bytes, m

\* A segment that is not the first one comes when no message has begun: it is
\* taken for a message.
LEMMA ParseAlone ==
  ASSUME NEW o, NEW y, y \in {Start, Stop}, NEW p, NEW d, d \in Seq(0..127), Frame(p, Stop, d, y)
  PROVE  ParseList(St(<<>>, o, 0, p)) = St(<<>>, Append(o, p), Now(p, 0), <<>>)
<1> DEFINE none == <<>>  now == Now(p, 0)  st == St(none, o, now, none)
           done == St(none, Append(o, p), now, none)
<1>1. Stop \in {Start, Stop}
  OBVIOUS
<1>2. p \in Bytes /\ p # <<>> /\ p[1] = Stop
  BY <1>1, FrameEnds
<1>3. none \in Bytes /\ Joined(p, p, none)
  BY <1>2, JoinedNone
<1> HIDE DEF none
<1>4. PacketLength(p, 0) = Len(p)
  <2>1. Fits(p, 0, p)
    BY <1>1, <1>3, FrameFits
  <2> QED  BY <2>1 DEF Fits
<1>5. p[1] # Start /\ ~IsData(p[1])
  BY <1>2 DEF Start, Stop, IsData
<1>6. Done(st, p) = done
  <2>1. st.sysex = none
    BY Fields
  <2> HIDE DEF st
  <2>2. Done(st, p) = Emit(st, p)
    BY <1>5, <2>1 DEF Done, none
  <2> HIDE DEF now
  <2>3. Emit(st, p) = done
    BY Emitted DEF st
  <2> QED  BY <2>2, <2>3
<1>7. done.left = none
  BY Fields
<1>8. Done(St(none, o, Running(p[1], 0), none), p) = done
  BY <1>6 DEF Now
<1> HIDE DEF done
<1>9. ParseList(St(none, o, 0, p)) = done
  BY <1>2, <1>4, <1>7, <1>8, OnePacket DEF none
<1> QED  BY <1>9 DEF done, none

\* The last segment of a message without any data.
LEMMA ParseClosed ==
  ASSUME NEW o, NEW p, NEW d \in Seq(0..127), Frame(p, Stop, d, Stop), NEW s \in Bytes, s # <<>>,
         s \o d = <<Start>>
  PROVE  ParseList(St(s, o, 0, p)) = St(<<>>, o, 0, <<>>)
<1> DEFINE none == <<>>  st == St(s, o, 0, none)  all == s \o d  closed == St(none, o, 0, none)
<1>1. /\ p[1] = Stop /\ Last(p) = Stop /\ Middle(p) = d
      /\ Stop \in {Start, Stop} /\ Start # Stop /\ Start # Cancel /\ Stop # Cancel
  BY FrameEnds DEF Start, Stop, Cancel
<1>2. st.sysex = s
  BY Fields
<1>3. ParseSysex(st, p) = Keep(st, none)
  <2>1. s \o SubSeq(p, 2, Len(p) - 1) = all /\ all = <<Start>>
    BY <1>1 DEF Middle
  <2> HIDE DEF st, all
  <2>2. ParseSysex(st, p) = Continued(st, p)
    BY <1>2 DEF ParseSysex
  <2> QED  BY <1>1, <1>2, <2>1, <2>2 DEF Continued
<1>4. Keep(st, none) = closed
  BY NewSysex
<1>5. closed.left = <<>>
  BY Fields
<1> HIDE DEF st, closed
<1>6. ParseList(St(s, o, 0, p)) = ParseSysex(st, p)
  BY <1>1, <1>3, <1>4, <1>5, ParseFrame DEF st
<1> QED  BY <1>3, <1>4, <1>6 DEF closed

\* A packet that is begun or ended like no message is.
Segmental(p, x, d, y) ==
    Frame(p, x, d, y) /\ d \in Seq(0..127) /\ x \in {Start, Stop} /\ y \in {Start, Stop}
    /\ (x = Stop \/ y = Start)

LEMMA SegmentalTurns ==
  ASSUME NEW p, NEW a, NEW d, NEW b, Segmental(p, a, d, b), NEW x, Open(x)
  PROVE  \E x2, y : Open(x2) /\ Marked(y) /\ Turn(x, p, x2, y)
<1> DEFINE none == <<>>
<1>1. /\ d \in Seq(0..127) /\ Frame(p, a, d, b) /\ p \in Bytes /\ p # <<>> /\ p[1] = a
      /\ d \in Bytes /\ x \in Bytes /\ Start \in Nat /\ Start # Stop
  BY FrameEnds DEF Segmental, Open, Start, Stop
<1>2. Open(none) /\ Marked(none)
  BY MarkedNone, JoinedNone DEF Open, Bytes
<1>3. CASE a = Start /\ x # <<>>
  <2>1. none \in Bytes /\ Joined(p, p, none)
    BY <1>1, JoinedNone
  <2>2. Fits(p, 0, p)
    <3> HIDE DEF none
    <3> QED  BY <1>1, <2>1, FrameFits DEF Segmental
  <2>3. p[1] # Stop
    BY <1>1, <1>3
  <2>4. ASSUME NEW o \in Seq(Bytes) PROVE \E running : ParseList(St(x, o, 0, p)) = St(x, o, running, <<>>)
    <3>1. ParseList(St(x, o, 0, p)) = St(x, o, Now(p, 0), <<>>)
      <4> HIDE DEF none
      <4> QED  BY <1>1, <1>3, <2>1, <2>2, <2>3, ParseThrown
    <3> QED  BY <3>1
  <2>5. Turn(x, p, x, none)
    BY <2>4, TurnNone
  <2> QED  BY <1>2, <2>5
<1>4. CASE a = Start /\ x = <<>>
  <2>1. b = Start
    BY <1>1, <1>4 DEF Segmental
  <2> DEFINE x2 == After(Start, d)
  <2>2. Open(x2)
    BY <1>1, AfterIs DEF Open
  <2>3. ASSUME NEW o \in Seq(Bytes) PROVE \E running : ParseList(St(<<>>, o, 0, p)) = St(x2, o, running, <<>>)
    <3>1. ParseList(St(<<>>, o, 0, p)) = St(After(Start, d), o, 0, <<>>)
      BY <1>1, <1>4, <2>1, ParseFirst
    <3> QED  BY <3>1
  <2>4. Turn(x, p, x2, none)
    BY <1>4, <2>3, TurnNone
  <2> HIDE DEF x2, none
  <2> QED  BY <1>2, <2>2, <2>4
<1>5. CASE a = Stop /\ x = <<>>
  <2> DEFINE y == <<p>>
  <2>1. Marked(y)
    BY <1>1, <1>5, MarkedOne
  <2>2. ASSUME NEW o \in Seq(Bytes)
        PROVE  \E running : ParseList(St(<<>>, o, 0, p)) = St(<<>>, Append(o, p), running, <<>>)
    <3>1. ParseList(St(<<>>, o, 0, p)) = St(<<>>, Append(o, p), Now(p, 0), <<>>)
      BY <1>1, <1>5, ParseAlone DEF Segmental
    <3> QED  BY <3>1
  <2>3. Turn(x, p, none, y)
    BY <1>1, <1>5, <2>2, TurnOne
  <2> HIDE DEF y, none
  <2> QED  BY <1>2, <2>1, <2>3
<1>6. CASE a = Stop /\ x # <<>> /\ b = Start
  <2> DEFINE x2 == x \o d
  <2>1. Joined(x2, x, d) /\ x[1] = Start
    BY <1>6 DEF Joined, Open
  <2>2. Open(x2)
    <3> HIDE DEF x2
    <3> QED  BY <1>1, <1>6, <2>1, OpenMore DEF Open
  <2>3. ASSUME NEW o \in Seq(Bytes) PROVE \E running : ParseList(St(x, o, 0, p)) = St(x2, o, running, <<>>)
    <3>1. ParseList(St(x, o, 0, p)) = St(x \o d, o, 0, <<>>)
      BY <1>1, <1>6, ParseNext
    <3> QED  BY <3>1
  <2>4. Turn(x, p, x2, none)
    BY <2>3, TurnNone
  <2> HIDE DEF x2, none
  <2> QED  BY <1>2, <2>2, <2>4
<1>7. CASE a = Stop /\ x # <<>> /\ b = Stop
  <2> DEFINE t == x \o d  m == Append(t, Stop)  y == <<m>>
  <2>1. CASE t = <<Start>>
    <3>1. ASSUME NEW o \in Seq(Bytes)
          PROVE  \E running : ParseList(St(x, o, 0, p)) = St(<<>>, o, running, <<>>)
      <4>1. ParseList(St(x, o, 0, p)) = St(<<>>, o, 0, <<>>)
        BY <1>1, <1>7, <2>1, ParseClosed
      <4> QED  BY <4>1
    <3>2. Turn(x, p, none, none)
      BY <3>1, TurnNone
    <3> HIDE DEF none
    <3> QED  BY <1>2, <3>2
  <2>2. CASE t # <<Start>>
    <3>1. Joined(t, x, d) /\ x[1] = Start
      BY <1>7 DEF Joined, Open
    <3>2. m \in Bytes /\ m # <<>> /\ m[1] = Start
      <4> HIDE DEF t
      <4> QED  BY <1>1, <1>7, <3>1, OpenMore
    <3>3. ASSUME NEW o \in Seq(Bytes)
          PROVE  \E running : ParseList(St(x, o, 0, p)) = St(<<>>, Append(o, m), running, <<>>)
      <4>1. ParseList(St(x, o, 0, p)) = St(<<>>, Append(o, Append(x \o d, Stop)), 0, <<>>)
        BY <1>1, <1>7, <2>2, ParseLast
      <4> QED  BY <4>1
    <3> HIDE DEF m
    <3>4. Turn(x, p, <<>>, y)
      BY <3>2, <3>3, TurnOne
    <3>5. Marked(y)
      BY <3>2, MarkedOne
    <3> HIDE DEF y
    <3> QED  BY <1>2, <3>4, <3>5
  <2> QED  BY <2>1, <2>2
<1> QED  BY <1>3, <1>4, <1>5, <1>6, <1>7 DEF Segmental

LEMMA SegmentalIs ==
  ASSUME NEW p, NEW a, NEW d, NEW b, Segmental(p, a, d, b)
  PROVE  Piece(p) /\ p \in Bytes
<1>1. IsSegment(p) /\ p \in Bytes
  BY FrameEnds DEF Segmental, IsSegment
<1> QED  BY <1>1, SegmentalTurns DEF Piece

-----------------------------------------------------------------------------
(* Whose messages come out.  Each message that was sent belongs to a packet  *)
(* under way that carries it or its end, to a message that came out, or to   *)
(* none: to[k] is the place of the packet, or the one of the message below   *)
(* zero, and nth[k] tells the messages of one packet apart.                  *)

Mark(m) == m # <<>> /\ m[1] \in {Start, Stop}
Intact(f) == "segment" \notin f

Claim(m, n, j, s, to, nth) == \E k \in 1..Len(s) : to[k] = j /\ nth[k] = n /\ s[k] = m
Claimed(y, j, s, to, nth) == \A n \in 1..Len(y) : Claim(y[n], n, j, s, to, nth)

\* A packet is too long, or carries messages, or a segment; when no segment was
\* lost it takes what the other half has from a to b.
Good(p, j, a, b, s, to, nth, f) ==
    \/ Len(p) > Mtu /\ (Intact(f) => a = b)
    \/ (\E y : Gives(p, y) /\ Claimed(y, j, s, to, nth)) /\ (Intact(f) => a = b)
    \/ /\ Piece(p) /\ Len(p) <= Mtu
       /\ Intact(f) => \E y \in Seq(Bytes) : Turn(a, p, b, y) /\ Claimed(y, j, s, to, nth)

OutOwned(o, s, to, f) ==
    \A i \in 1..Len(o) : Intact(f) \/ ~Mark(o[i]) => \E k \in 1..Len(s) : to[k] = -i /\ s[k] = o[i]

Ownership(packets, s, x0, o, f, to, nth, x) ==
    /\ to \in [Nat -> Int] /\ nth \in [Nat -> Nat] /\ x \in [Nat -> Bytes]
    /\ OutOwned(o, s, to, f)
    /\ \A j \in 1..Len(packets) : Good(packets[j], j, x[j - 1], x[j], s, to, nth, f)
    /\ Intact(f) => x[0] = x0 /\ x[Len(packets)] = <<>>

Owned(packets, s, x0, o, f) ==
    /\ packets \in Seq(Bytes) /\ s \in Seq(Bytes) /\ o \in Seq(Bytes) /\ Open(x0)
    /\ \E to, nth, x : Ownership(packets, s, x0, o, f, to, nth, x)

\* What is claimed still is.
Kept(j, s, to, nth, j2, s2, to2, nth2) ==
    \A k \in 1..Len(s) : /\ k \in 1..Len(s2) /\ s2[k] = s[k] /\ nth2[k] = nth[k]
                         /\ to[k] = j => to2[k] = j2

LEMMA ClaimedStays ==
  ASSUME NEW j, NEW s, NEW to, NEW nth, NEW j2, NEW s2, NEW to2, NEW nth2,
         Kept(j, s, to, nth, j2, s2, to2, nth2), NEW y, Claimed(y, j, s, to, nth)
  PROVE  Claimed(y, j2, s2, to2, nth2)
<1> SUFFICES ASSUME NEW n \in 1..Len(y) PROVE Claim(y[n], n, j2, s2, to2, nth2)
  BY DEF Claimed
<1>1. PICK k \in 1..Len(s) : to[k] = j /\ nth[k] = n /\ s[k] = y[n]
  BY DEF Claimed, Claim
<1>2. k \in 1..Len(s2) /\ to2[k] = j2 /\ nth2[k] = n /\ s2[k] = y[n]
  BY <1>1 DEF Kept
<1> QED  BY <1>2 DEF Claim

LEMMA GoodMoved ==
  ASSUME NEW j, NEW s, NEW to, NEW nth, NEW j2, NEW s2, NEW to2, NEW nth2,
         Kept(j, s, to, nth, j2, s2, to2, nth2),
         NEW p, NEW a, NEW b, NEW f, Good(p, j, a, b, s, to, nth, f), NEW a2, NEW b2, NEW f2,
         Intact(f2) => Intact(f) /\ ((a2 = a /\ b2 = b) \/ (~IsSegment(p) /\ a2 = b2))
  PROVE  Good(p, j2, a2, b2, s2, to2, nth2, f2)
<1>1. CASE Len(p) > Mtu /\ (Intact(f) => a = b)
  <2>1. Intact(f2) => a2 = b2
    BY <1>1
  <2> QED  BY <1>1, <2>1 DEF Good
<1>2. CASE (\E y : Gives(p, y) /\ Claimed(y, j, s, to, nth)) /\ (Intact(f) => a = b)
  <2>1. \E y : Gives(p, y) /\ Claimed(y, j2, s2, to2, nth2)
    BY <1>2, ClaimedStays
  <2>2. Intact(f2) => a2 = b2
    BY <1>2
  <2> QED  BY <2>1, <2>2 DEF Good
<1>3. CASE /\ Piece(p) /\ Len(p) <= Mtu
           /\ Intact(f) => \E y \in Seq(Bytes) : Turn(a, p, b, y) /\ Claimed(y, j, s, to, nth)
  <2>1. ASSUME Intact(f2)
        PROVE  \E y \in Seq(Bytes) : Turn(a2, p, b2, y) /\ Claimed(y, j2, s2, to2, nth2)
    <3>1. IsSegment(p)
      BY <1>3 DEF Piece
    <3>2. a2 = a /\ b2 = b /\ Intact(f)
      BY <2>1, <3>1
    <3>3. PICK y \in Seq(Bytes) : Turn(a, p, b, y) /\ Claimed(y, j, s, to, nth)
      BY <1>3, <3>2
    <3>4. Claimed(y, j2, s2, to2, nth2)
      BY <3>3, ClaimedStays
    <3> QED  BY <3>2, <3>3, <3>4
  <2> QED  BY <1>3, <2>1 DEF Good
<1> QED  BY <1>1, <1>2, <1>3 DEF Good

\* Without one of the packets.
Older(k, j) == IF k < j THEN k ELSE k + 1

LEMMA OneRemoved ==
  ASSUME NEW s, s \in Seq(Bytes), NEW j, j \in DOMAIN s
  PROVE  LET n == Len(s) - 1  rest == RemoveAt(s, j)
         IN  /\ n \in Nat /\ j \in 1..n + 1 /\ rest \in Seq(Bytes) /\ Len(rest) = n
             /\ \A k \in 1..n : Older(k, j) \in 1..n + 1 /\ rest[k] = s[Older(k, j)]
<1> DEFINE E == Bytes  l == Len(s)  n == l - 1
           front == SubSeq(s, 1, j - 1)  back == SubSeq(s, j + 1, l)  rest == RemoveAt(s, j)
<1>1. l \in Nat /\ j \in 1..l /\ s \in Seq(E) /\ \A i \in 1..l : s[i] \in E
  BY LenProperties, ElementOfSeq
<1>2. rest = front \o back
  BY DEF RemoveAt
<1> HIDE DEF E, l, rest
<1>3. l >= 1 /\ n \in Nat /\ j \in 1..n + 1 /\ n + 1 = l /\ j - 1 \in Nat /\ n - (j - 1) \in Nat
  BY <1>1
<1> HIDE DEF n
<1>4. front \in Seq(E) /\ Len(front) = j - 1 /\ \A k \in 1..j - 1 : front[k] = s[k]
  <2>1. \A i \in 1..j - 1 : s[i] \in E
    BY <1>1
  <2>2. 1 \in Int /\ j - 1 \in Int
    BY <1>1
  <2>3. /\ front \in Seq(E) /\ Len(front) = IF 1 <= j - 1 THEN (j - 1) - 1 + 1 ELSE 0
        /\ \A k \in 1..(j - 1) - 1 + 1 : front[k] = s[1 + k - 1]
    BY <2>1, <2>2, SubSeqProperties
  <2> HIDE DEF front
  <2>4. (IF 1 <= j - 1 THEN (j - 1) - 1 + 1 ELSE 0) = j - 1 /\ (j - 1) - 1 + 1 = j - 1
        /\ \A k \in 1..j - 1 : 1 + k - 1 = k
    BY <1>1
  <2> QED  BY <2>3, <2>4
<1>5. back \in Seq(E) /\ Len(back) = n - (j - 1) /\ \A k \in 1..n - (j - 1) : back[k] = s[j + k]
  <2>1. \A i \in j + 1..l : s[i] \in E
    BY <1>1
  <2>2. j + 1 \in Int /\ l \in Int
    BY <1>1
  <2>3. /\ back \in Seq(E) /\ Len(back) = IF j + 1 <= l THEN l - (j + 1) + 1 ELSE 0
        /\ \A k \in 1..l - (j + 1) + 1 : back[k] = s[j + 1 + k - 1]
    BY <2>1, <2>2, SubSeqProperties
  <2> HIDE DEF back
  <2>4. (IF j + 1 <= l THEN l - (j + 1) + 1 ELSE 0) = n - (j - 1) /\ l - (j + 1) + 1 = n - (j - 1)
        /\ \A k \in 1..n - (j - 1) : j + 1 + k - 1 = j + k
    BY <1>1, <1>3
  <2> QED  BY <2>3, <2>4
<1> HIDE DEF front, back
<1>6. /\ rest \in Seq(E) /\ Len(rest) = Len(front) + Len(back)
      /\ \A k \in 1..Len(front) + Len(back) :
             rest[k] = IF k <= Len(front) THEN front[k] ELSE back[k - Len(front)]
  BY <1>2, <1>4, <1>5, ConcatProperties
<1>7. Len(front) + Len(back) = n
  BY <1>3, <1>4, <1>5
<1>8. ASSUME NEW k \in 1..n PROVE Older(k, j) \in 1..n + 1 /\ rest[k] = s[Older(k, j)]
  <2>1. rest[k] = IF k <= j - 1 THEN front[k] ELSE back[k - (j - 1)]
    BY <1>4, <1>6, <1>7
  <2>2. CASE k < j
    <3>1. k <= j - 1 /\ k \in 1..j - 1 /\ Older(k, j) = k /\ k \in 1..n + 1
      BY <1>3, <2>2 DEF Older
    <3> QED  BY <1>4, <2>1, <3>1
  <2>3. CASE ~(k < j)
    <3>1. ~(k <= j - 1) /\ k - (j - 1) \in 1..n - (j - 1) /\ j + (k - (j - 1)) = k + 1 /\ k + 1 \in 1..n + 1
      BY <1>3, <2>3
    <3>2. Older(k, j) = k + 1
      BY <2>3 DEF Older
    <3>3. back[k - (j - 1)] = s[j + (k - (j - 1))]
      BY <1>5, <3>1
    <3> QED  BY <2>1, <3>1, <3>2, <3>3
  <2> QED  BY <2>2, <2>3
<1> QED  BY <1>3, <1>6, <1>7, <1>8 DEF E, rest, n, l

\* A packet is lost or comes, and y comes out of it: the messages of the packets
\* that are left are theirs, and those of y are now messages that came out.
\* What the other half has is given by x2, which differs from x for whole
\* packets alone.
Passed(to, j, n, nth) ==
    [k \in Nat |-> IF to[k] > j THEN to[k] - 1 ELSE IF to[k] = j THEN -(n + nth[k]) ELSE to[k]]

Passes(to, nth, j, n, to2) ==
    \A k \in Nat : /\ to[k] = j => to2[k] = -(n + nth[k])
                   /\ to[k] < j => to2[k] = to[k]
                   /\ to[k] > j => to2[k] = to[k] - 1

LEMMA PassedIs ==
  ASSUME NEW to, NEW nth, to \in [Nat -> Int], nth \in [Nat -> Nat], NEW j, j \in Nat, j >= 1, NEW n, n \in Nat
  PROVE  /\ Passed(to, j, n, nth) \in [Nat -> Int]
         /\ Passes(to, nth, j, n, Passed(to, j, n, nth))
<1> DEFINE f == Passed(to, j, n, nth)
<1>1. ASSUME NEW k \in Nat
      PROVE  (IF to[k] > j THEN to[k] - 1 ELSE IF to[k] = j THEN -(n + nth[k]) ELSE to[k]) \in Int
  <2>1. to[k] \in Int /\ nth[k] \in Nat
    OBVIOUS
  <2> QED  BY <2>1
<1>2. f \in [Nat -> Int]
  BY <1>1 DEF Passed
<1>3. ASSUME NEW k \in Nat
      PROVE  /\ to[k] = j => f[k] = -(n + nth[k])
             /\ to[k] < j => f[k] = to[k]
             /\ to[k] > j => f[k] = to[k] - 1
  <2>1. f[k] = IF to[k] > j THEN to[k] - 1 ELSE IF to[k] = j THEN -(n + nth[k]) ELSE to[k]
    BY DEF Passed
  <2>2. to[k] \in Int /\ nth[k] \in Nat
    OBVIOUS
  <2> HIDE DEF f
  <2> QED  BY <2>1, <2>2
<1> QED  BY <1>2, <1>3 DEF Passes

LEMMA OutPassed ==
  ASSUME NEW o, o \in Seq(Bytes), NEW s, s \in Seq(Bytes), NEW f, NEW f2, Intact(f2) => Intact(f),
         NEW to, NEW nth, to \in [Nat -> Int], nth \in [Nat -> Nat], OutOwned(o, s, to, f),
         NEW j, j \in Nat, j >= 1, NEW y, y \in Seq(Bytes), NEW o2, Added(o, y, o2),
         \A n \in 1..Len(y) : Intact(f2) \/ ~Mark(y[n]) => Claim(y[n], n, j, s, to, nth)
  PROVE  OutOwned(o2, s, Passed(to, j, Len(o), nth), f2)
<1> DEFINE l == Len(o)  to2 == Passed(to, j, l, nth)
<1>1. l \in Nat /\ Len(s) \in Nat /\ Len(y) \in Nat
  BY LenProperties
<1>2. \A k \in Nat : /\ to[k] \in Int /\ nth[k] \in Nat
                     /\ to[k] = j => to2[k] = -(l + nth[k])
                     /\ to[k] < j => to2[k] = to[k]
  <2>1. l \in Nat
    BY <1>1
  <2> HIDE DEF l
  <2>2. \A k \in Nat : /\ to[k] = j => to2[k] = -(l + nth[k])
                       /\ to[k] < j => to2[k] = to[k]
    <3>1. Passes(to, nth, j, l, to2)
      BY <2>1, PassedIs
    <3> HIDE DEF to2
    <3> QED  BY <3>1 DEF Passes
  <2>3. \A k \in Nat : to[k] \in Int /\ nth[k] \in Nat
    OBVIOUS
  <2> QED  BY <2>2, <2>3
<1>3. \A k \in 1..Len(s) : k \in Nat
  OBVIOUS
<1>4. /\ Len(o2) = l + Len(y) /\ \A i \in 1..l : o2[i] = o[i]
      /\ \A n \in 1..Len(y) : o2[l + n] = y[n]
  BY DEF Added
<1> HIDE DEF l, to2
<1>5. ASSUME NEW i \in 1..l, Intact(f2) \/ ~Mark(o2[i])
      PROVE  \E k \in 1..Len(s) : to2[k] = -i /\ s[k] = o2[i]
  <2>1. o2[i] = o[i] /\ (Intact(f) \/ ~Mark(o[i]))
    BY <1>4, <1>5
  <2>2. PICK k \in 1..Len(s) : to[k] = -i /\ s[k] = o[i]
    BY <2>1 DEF OutOwned, l
  <2>3. -i < j
    BY <1>1
  <2> QED  BY <1>2, <1>3, <2>1, <2>2, <2>3
<1>6. ASSUME NEW n \in 1..Len(y), Intact(f2) \/ ~Mark(o2[l + n])
      PROVE  \E k \in 1..Len(s) : to2[k] = -(l + n) /\ s[k] = o2[l + n]
  <2>1. o2[l + n] = y[n]
    BY <1>4
  <2>2. PICK k \in 1..Len(s) : to[k] = j /\ nth[k] = n /\ s[k] = y[n]
    BY <1>6, <2>1 DEF Claim
  <2> QED  BY <1>2, <1>3, <2>1, <2>2
<1>7. ASSUME NEW i \in 1..Len(o2), ~(i \in 1..l) PROVE i - l \in 1..Len(y) /\ l + (i - l) = i
  BY <1>1, <1>4, <1>7
<1>8. ASSUME NEW i \in 1..Len(o2), Intact(f2) \/ ~Mark(o2[i])
      PROVE  \E k \in 1..Len(s) : to2[k] = -i /\ s[k] = o2[i]
  <2>1. CASE i \in 1..l
    BY <1>5, <1>8, <2>1
  <2>2. CASE ~(i \in 1..l)
    <3> DEFINE n == i - l
    <3>1. n \in 1..Len(y) /\ l + n = i
      BY <1>7, <2>2
    <3> HIDE DEF n
    <3>2. Intact(f2) \/ ~Mark(o2[l + n])
      BY <1>8, <3>1
    <3>3. \E k \in 1..Len(s) : to2[k] = -(l + n) /\ s[k] = o2[l + n]
      BY <1>6, <3>1, <3>2
    <3> QED  BY <3>1, <3>3
  <2> QED  BY <2>1, <2>2
<1> QED  BY <1>8 DEF OutOwned, l, to2

\* The packets that are left.
LEMMA PacketPassed ==
  ASSUME NEW s, s \in Seq(Bytes), NEW f, NEW f2,
         NEW to, NEW nth, to \in [Nat -> Int], nth \in [Nat -> Nat],
         NEW j, j \in Nat, j >= 1, NEW l, l \in Nat, NEW k, k \in Nat, k >= 1,
         NEW p, NEW a, NEW b, Good(p, Older(k, j), a, b, s, to, nth, f), NEW a2, NEW b2,
         Intact(f2) => Intact(f) /\ ((a2 = a /\ b2 = b) \/ (~IsSegment(p) /\ a2 = b2))
  PROVE  Good(p, k, a2, b2, s, Passed(to, j, l, nth), nth, f2)
<1> DEFINE to2 == Passed(to, j, l, nth)  i == Older(k, j)
<1>1. \A n \in Nat : /\ to[n] < j => to2[n] = to[n]
                     /\ to[n] > j => to2[n] = to[n] - 1
  <2>1. Passes(to, nth, j, l, to2)
    BY PassedIs
  <2> HIDE DEF to2
  <2> QED  BY <2>1 DEF Passes
<1>2. (k < j /\ i = k) \/ (k >= j /\ i = k + 1)
  BY DEF Older
<1> HIDE DEF to2, i
<1>3. ASSUME NEW n \in 1..Len(s), to[n] = i PROVE to2[n] = k
  <2>1. n \in Nat /\ Len(s) \in Nat
    BY LenProperties
  <2>2. to[n] \in Int
    BY <2>1
  <2>3. /\ to[n] < j => to2[n] = to[n]
        /\ to[n] > j => to2[n] = to[n] - 1
    BY <1>1, <2>1
  <2> QED  BY ONLY <1>2, <1>3, <2>2, <2>3, j \in Nat, k \in Nat
<1>4. Kept(i, s, to, nth, k, s, to2, nth)
  BY <1>3 DEF Kept
<1>5. Good(p, i, a, b, s, to, nth, f)
  BY DEF i
<1>6. Good(p, k, a2, b2, s, to2, nth, f2)
  BY <1>4, <1>5, GoodMoved
<1> QED  BY <1>6 DEF to2

Without(rest, packets, j) == rest = RemoveAt(packets, j)

\* The messages of a packet are its own, those that are promised at least.
Due(y, j, s, to, nth, f) ==
    \A n \in 1..Len(y) : Intact(f) \/ ~Mark(y[n]) => Claim(y[n], n, j, s, to, nth)

\* What the other half has between the packets that are left.
Follows(x2, x, x1, packets, j) ==
    /\ x2[0] = x1 /\ x2[Len(packets) - 1] = <<>>
    /\ \A k \in 1..Len(packets) - 1 :
           \/ x2[k - 1] = x[Older(k, j) - 1] /\ x2[k] = x[Older(k, j)]
           \/ ~IsSegment(packets[Older(k, j)]) /\ x2[k - 1] = x2[k]

LEMMA PacketRemoved ==
  ASSUME NEW packets, packets \in Seq(Bytes), NEW s, s \in Seq(Bytes), NEW x0, NEW o, o \in Seq(Bytes),
         NEW f, NEW to, NEW nth, NEW x, Ownership(packets, s, x0, o, f, to, nth, x),
         NEW j, j \in DOMAIN packets, NEW y, y \in Seq(Bytes), NEW o2, Added(o, y, o2),
         NEW f2, Intact(f2) => Intact(f),
         Due(y, j, s, to, nth, f2),
         NEW x2, x2 \in [Nat -> Bytes], NEW x1, Open(x1),
         NEW rest, Without(rest, packets, j), Intact(f2) => Follows(x2, x, x1, packets, j)
  PROVE  Owned(rest, s, x1, o2, f2)
<1> DEFINE n == Len(packets) - 1  l == Len(o)  to2 == Passed(to, j, l, nth)
<1>1. /\ n \in Nat /\ j \in 1..n + 1 /\ rest \in Seq(Bytes) /\ Len(rest) = n
      /\ \A k \in 1..n : Older(k, j) \in 1..n + 1 /\ rest[k] = packets[Older(k, j)]
  <2> DEFINE r == RemoveAt(packets, j)
  <2>1. /\ n \in Nat /\ j \in 1..n + 1 /\ r \in Seq(Bytes) /\ Len(r) = n
        /\ \A k \in 1..n : Older(k, j) \in 1..n + 1 /\ r[k] = packets[Older(k, j)]
    BY OneRemoved
  <2>2. rest = r
    BY DEF Without
  <2> HIDE DEF r, n
  <2> QED  BY <2>1, <2>2
<1>2. n + 1 = Len(packets)
  <2>1. Len(packets) \in Nat
    BY LenProperties
  <2> QED  BY <2>1
<1>3. to \in [Nat -> Int] /\ nth \in [Nat -> Nat] /\ OutOwned(o, s, to, f)
  BY DEF Ownership
<1>4. j \in Nat /\ j >= 1 /\ l \in Nat
  BY <1>1, LenProperties
<1>5. OutOwned(o2, s, to2, f2)
  <2>1. \A i \in 1..Len(y) : Intact(f2) \/ ~Mark(y[i]) => Claim(y[i], i, j, s, to, nth)
    BY DEF Due
  <2> QED  BY <1>3, <1>4, <2>1, OutPassed
<1>6. \A k \in 1..n + 1 : Good(packets[k], k, x[k - 1], x[k], s, to, nth, f)
  BY <1>2 DEF Ownership
<1>7. to2 \in [Nat -> Int]
  <2> HIDE DEF l
  <2> QED  BY <1>3, <1>4, PassedIs
<1>8. Intact(f2) => /\ x2[0] = x1 /\ x2[n] = <<>>
                    /\ \A k \in 1..n :
                           \/ x2[k - 1] = x[Older(k, j) - 1] /\ x2[k] = x[Older(k, j)]
                           \/ ~IsSegment(packets[Older(k, j)]) /\ x2[k - 1] = x2[k]
  BY DEF Follows
<1> HIDE DEF n, l
<1>9. ASSUME NEW k \in 1..n PROVE Good(rest[k], k, x2[k - 1], x2[k], s, to2, nth, f2)
  <2> DEFINE i == Older(k, j)  p == rest[k]  a == x[i - 1]  b == x[i]  a2 == x2[k - 1]  b2 == x2[k]
  <2>1. p = packets[i] /\ Good(p, i, a, b, s, to, nth, f)
    BY <1>1, <1>6
  <2>2. Intact(f2) => Intact(f) /\ ((a2 = a /\ b2 = b) \/ (~IsSegment(p) /\ a2 = b2))
    BY <1>8, <2>1
  <2>3. k \in Nat /\ k >= 1
    OBVIOUS
  <2>4. Good(p, Older(k, j), a, b, s, to, nth, f)
    BY <2>1
  <2> HIDE DEF p, a, b, a2, b2, to2, i
  <2>5. Good(p, k, a2, b2, s, to2, nth, f2)
    BY <1>3, <1>4, <2>2, <2>3, <2>4, PacketPassed DEF to2
  <2> QED  BY <2>5 DEF p, a2, b2
<1>10. o2 \in Seq(Bytes)
  BY DEF Added
<1> HIDE DEF to2
<1>11. Ownership(rest, s, x1, o2, f2, to2, nth, x2)
  BY <1>1, <1>3, <1>5, <1>7, <1>8, <1>9 DEF Ownership
<1> QED  BY <1>1, <1>10, <1>11 DEF Owned

\* A packet that changed nothing of what the other half has of a message, or any
\* after segments were lost.
LEMMA PacketGone ==
  ASSUME NEW packets, packets \in Seq(Bytes), NEW s, s \in Seq(Bytes), NEW x0, NEW o, o \in Seq(Bytes),
         NEW f, NEW to, NEW nth, NEW x, Ownership(packets, s, x0, o, f, to, nth, x),
         NEW j, j \in DOMAIN packets, NEW y, y \in Seq(Bytes), NEW o2, Added(o, y, o2),
         NEW x1, Open(x1), NEW f2, Intact(f2) => Intact(f) /\ x[j - 1] = x[j] /\ x1 = x0,
         Due(y, j, s, to, nth, f2),
         NEW rest, Without(rest, packets, j)
  PROVE  Owned(rest, s, x1, o2, f2)
<1> DEFINE n == Len(packets) - 1  x2 == [k \in Nat |-> x[Older(k, j)]]
<1>1. n \in Nat /\ j \in 1..n + 1 /\ Len(packets) = n + 1
  <2>1. Len(packets) \in Nat /\ j \in 1..Len(packets)
    BY LenProperties
  <2> QED  BY <2>1
<1>2. \A k \in Nat : Older(k, j) \in Nat
  BY DEF Older
<1>3. x \in [Nat -> Bytes]
  BY DEF Ownership
<1>4. x2 \in [Nat -> Bytes] /\ \A k \in Nat : x2[k] = x[Older(k, j)]
  BY <1>2, <1>3
<1> HIDE DEF x2
<1>5. ASSUME Intact(f2)
      PROVE  /\ x2[0] = x1 /\ x2[n] = <<>>
             /\ \A k \in 1..n : x2[k - 1] = x[Older(k, j) - 1] /\ x2[k] = x[Older(k, j)]
  <2>1. x[0] = x0 /\ x[n + 1] = <<>> /\ x[j - 1] = x[j] /\ x1 = x0
    <3>1. x[0] = x0 /\ x[Len(packets)] = <<>>
      BY <1>5 DEF Ownership
    <3> QED  BY <1>1, <1>5, <3>1
  <2> HIDE DEF n
  <2>2. x2[0] = x1
    <3>1. 0 \in Nat /\ Older(0, j) = 0
      BY <1>1 DEF Older
    <3> QED  BY <1>4, <2>1, <3>1
  <2>3. x2[n] = <<>>
    <3>1. CASE n < j
      <4>1. n + 1 = j /\ Older(n, j) = n /\ j - 1 = n
        BY <1>1, <3>1 DEF Older
      <4> QED  BY <1>1, <1>4, <2>1, <4>1
    <3>2. CASE ~(n < j)
      <4>1. Older(n, j) = n + 1
        BY <3>2 DEF Older
      <4> QED  BY <1>1, <1>4, <2>1, <4>1
    <3> QED  BY <3>1, <3>2
  <2>4. ASSUME NEW k \in 1..n PROVE x2[k - 1] = x[Older(k, j) - 1] /\ x2[k] = x[Older(k, j)]
    <3>1. k \in Nat /\ k - 1 \in Nat
      BY <1>1
    <3>2. x2[k] = x[Older(k, j)] /\ x2[k - 1] = x[Older(k - 1, j)]
      BY <1>4, <3>1
    <3>3. CASE k < j
      <4>1. Older(k, j) = k /\ Older(k - 1, j) = k - 1
        BY <1>1, <3>1, <3>3 DEF Older
      <4> QED  BY <3>2, <4>1
    <3>4. CASE k = j
      <4>1. Older(k, j) = j + 1 /\ Older(k - 1, j) = j - 1 /\ (j + 1) - 1 = j
        BY <1>1, <3>1, <3>4 DEF Older
      <4>2. x[Older(k - 1, j)] = x[Older(k, j) - 1]
        BY <2>1, <4>1
      <4> QED  BY <3>2, <4>2
    <3>5. CASE k > j
      <4>1. Older(k, j) = k + 1 /\ Older(k - 1, j) = k /\ (k + 1) - 1 = k
        BY <1>1, <3>1, <3>5 DEF Older
      <4> QED  BY <3>2, <4>1
    <3> QED  BY <1>1, <3>1, <3>3, <3>4, <3>5
  <2> QED  BY <2>2, <2>3, <2>4
<1>6. Intact(f2) => Follows(x2, x, x1, packets, j)
  BY <1>5 DEF Follows
<1>7. Intact(f2) => Intact(f)
  OBVIOUS
<1> QED  BY <1>4, <1>6, <1>7, PacketRemoved

\* Whole packets leave what the other half has of a message as it is.
LEMMA GoodWhole ==
  ASSUME NEW p, NEW j, NEW a, NEW b, NEW s, NEW to, NEW nth, NEW f,
         Good(p, j, a, b, s, to, nth, f), Intact(f), ~IsSegment(p)
  PROVE  a = b
BY DEF Good, Piece

LEMMA NothingUntil ==
  ASSUME NEW x, NEW j, j \in Nat, \A k \in 1..j : x[k - 1] = x[k]
  PROVE  x[j] = x[0]
<1> DEFINE T == {k \in 0..j : x[k] # x[0]}
<1>1. T = {}
  <2> SUFFICES ASSUME T # {} PROVE FALSE
    OBVIOUS
  <2>1. T \subseteq Nat
    OBVIOUS
  <2> HIDE DEF T
  <2>2. PICK m \in T : \A k \in T : m <= k
    BY <2>1, LeastOf
  <2>3. m \in 0..j /\ x[m] # x[0]
    BY <2>2 DEF T
  <2>4. m # 0 /\ m \in 1..j /\ m - 1 \in 0..j /\ ~(m <= m - 1)
    BY <2>3
  <2>5. x[m - 1] = x[m]
    BY <2>4
  <2>6. m - 1 \in T
    BY <2>3, <2>4, <2>5 DEF T
  <2> QED  BY <2>2, <2>4, <2>6
<1> QED  BY <1>1

\* The first segment under way comes, maybe before whole packets.
LEMMA SegmentCame ==
  ASSUME NEW packets, packets \in Seq(Bytes), NEW s, s \in Seq(Bytes), NEW x0, NEW o, o \in Seq(Bytes),
         NEW f, NEW to, NEW nth, NEW x, Ownership(packets, s, x0, o, f, to, nth, x), Intact(f),
         NEW j, j \in DOMAIN packets, \A k \in 1..j - 1 : ~IsSegment(packets[k]),
         NEW y, y \in Seq(Bytes), NEW o2, Added(o, y, o2), Claimed(y, j, s, to, nth),
         Open(x[j]), NEW f2, NEW rest, Without(rest, packets, j)
  PROVE  Owned(rest, s, x[j], o2, f2)
<1> DEFINE n == Len(packets) - 1  x2 == [k \in Nat |-> IF k < j THEN x[j] ELSE x[k + 1]]
<1>1. n \in Nat /\ j \in 1..n + 1 /\ Len(packets) = n + 1
  <2>1. Len(packets) \in Nat /\ j \in 1..Len(packets)
    BY LenProperties
  <2> QED  BY <2>1
<1>2. x \in [Nat -> Bytes] /\ x[0] = x0 /\ x[n + 1] = <<>>
  BY <1>1 DEF Ownership
<1> HIDE DEF n
<1>3. x2 \in [Nat -> Bytes]
  <2>1. j \in Nat /\ \A k \in Nat : k + 1 \in Nat
    BY <1>1
  <2> QED  BY <1>2, <2>1
<1>4. \A k \in Nat : x2[k] = IF k < j THEN x[j] ELSE x[k + 1]
  OBVIOUS
<1> HIDE DEF x2
<1>5. x2[0] = x[j]
  <2>1. 0 \in Nat /\ 0 < j
    BY <1>1
  <2> QED  BY <1>4, <2>1
<1>6. x2[n] = <<>>
  <2>1. CASE n < j
    <3>1. j = n + 1
      BY <1>1, <2>1
    <3> QED  BY <1>1, <1>2, <1>4, <2>1, <3>1
  <2>2. CASE ~(n < j)
    BY <1>1, <1>2, <1>4, <2>2
  <2> QED  BY <2>1, <2>2
<1>7. ASSUME NEW k \in 1..n
      PROVE  \/ x2[k - 1] = x[Older(k, j) - 1] /\ x2[k] = x[Older(k, j)]
             \/ ~IsSegment(packets[Older(k, j)]) /\ x2[k - 1] = x2[k]
  <2>1. k \in Nat /\ k - 1 \in Nat
    BY <1>1
  <2>2. /\ x2[k] = IF k < j THEN x[j] ELSE x[k + 1]
        /\ x2[k - 1] = IF k - 1 < j THEN x[j] ELSE x[(k - 1) + 1]
    BY <1>4, <2>1
  <2>3. CASE k < j
    <3>1. k - 1 < j /\ Older(k, j) = k /\ k \in 1..j - 1
      BY <1>1, <2>1, <2>3 DEF Older
    <3>2. ~IsSegment(packets[k])
      BY <3>1
    <3>3. x2[k - 1] = x2[k]
      BY <2>2, <2>3, <3>1
    <3> QED  BY <3>1, <3>2, <3>3
  <2>4. CASE k = j
    <3>1. ~(k < j) /\ k - 1 < j /\ Older(k, j) = k + 1 /\ (k + 1) - 1 = j
      BY <1>1, <2>1, <2>4 DEF Older
    <3>2. x2[k] = x[k + 1] /\ x2[k - 1] = x[j]
      BY <2>2, <3>1
    <3> QED  BY <3>1, <3>2
  <2>5. CASE k > j
    <3>1. ~(k < j) /\ ~(k - 1 < j) /\ Older(k, j) = k + 1 /\ (k - 1) + 1 = (k + 1) - 1
      BY <1>1, <2>1, <2>5 DEF Older
    <3>2. x2[k] = x[k + 1] /\ x2[k - 1] = x[(k - 1) + 1]
      BY <2>2, <3>1
    <3> QED  BY <3>1, <3>2
  <2> QED  BY <1>1, <2>1, <2>3, <2>4, <2>5
<1> DEFINE x1 == x[j]
<1>8. Follows(x2, x, x1, packets, j)
  BY <1>5, <1>6, <1>7 DEF Follows, n
<1>9. Due(y, j, s, to, nth, f2)
  BY DEF Claimed, Due
<1>10. Open(x1)
  OBVIOUS
<1> HIDE DEF x1
<1>11. Owned(rest, s, x1, o2, f2)
  BY <1>3, <1>8, <1>9, <1>10, PacketRemoved DEF n
<1> QED  BY <1>11 DEF x1

LEMMA OwnedIs ==
  ASSUME NEW packets, NEW s, NEW x0, NEW o, NEW f, NEW to, NEW nth, NEW x,
         Ownership(packets, s, x0, o, f, to, nth, x), NEW j, j \in 1..Len(packets)
  PROVE  /\ Good(packets[j], j, x[j - 1], x[j], s, to, nth, f)
         /\ x \in [Nat -> Bytes] /\ (Intact(f) => x[0] = x0)
BY DEF Ownership

LEMMA LoseOwned ==
  ASSUME Owned(net, sent, sysex, out, seen), Lose
  PROVE  Owned(net', sent', sysex', out', seen')
<1>1. PICK j \in DOMAIN net : /\ net' = RemoveAt(net, j) /\ seen' = seen \cup {Kind(net[j])}
                              /\ UNCHANGED <<sysex, out, sent>>
  BY DEF Lose, sink
<1>2. /\ net \in Seq(Bytes) /\ sent \in Seq(Bytes) /\ out \in Seq(Bytes) /\ Open(sysex)
  BY DEF Owned
<1>3. PICK to, nth, x : Ownership(net, sent, sysex, out, seen, to, nth, x)
  BY DEF Owned
<1> DEFINE none == <<>>  p == net[j]  f2 == seen'  rest == net'  a == x[j - 1]  b == x[j]
<1>4. Good(p, j, a, b, sent, to, nth, seen)
  <2>1. j \in 1..Len(net)
    BY <1>2
  <2> QED  BY <1>3, <2>1, OwnedIs
<1>5. none \in Seq(Bytes) /\ Added(out, none, out) /\ Due(none, j, sent, to, nth, f2)
  BY <1>2, AddedNone, EmptySeq DEF Due
<1>6. ASSUME Intact(f2) PROVE Intact(seen) /\ a = b
  <2>1. Intact(seen) /\ ~IsSegment(p)
    BY <1>1, <1>6 DEF Intact, Kind
  <2> HIDE DEF p, a, b
  <2> QED  BY <1>4, <2>1, GoodWhole
<1>7. Without(rest, net, j)
  BY <1>1 DEF Without
<1> HIDE DEF none, f2, rest
<1>8. Owned(rest, sent, sysex, out, f2)
  BY <1>2, <1>3, <1>5, <1>6, <1>7, PacketGone
<1> QED  BY <1>1, <1>8 DEF rest, f2

\* What a packet does to what the other half has, and what comes out of it.
LEMMA TurnIs ==
  ASSUME NEW x, NEW p, NEW x2, NEW y, Turn(x, p, x2, y), NEW o, o \in Seq(Bytes),
         NEW st, st = ParseList(St(x, o, 0, p))
  PROVE  st.sysex = x2 /\ Added(o, y, st.out)
BY DEF Turn

\* A packet that is not too long comes.
Comes(p, j, packets, f, f2) ==
    /\ Intact(f2) => Intact(f)
    /\ Intact(f2) /\ IsSegment(p) => \A k \in 1..j - 1 : ~IsSegment(packets[k])

LEMMA CameOwned ==
  ASSUME NEW packets, NEW s, NEW x0, NEW o, NEW f, Owned(packets, s, x0, o, f),
         NEW j, j \in DOMAIN packets, NEW p, p = packets[j], Len(p) <= Mtu,
         NEW f2, Comes(p, j, packets, f, f2), NEW rest, Without(rest, packets, j),
         NEW st, st = ParseList(St(x0, o, 0, p))
  PROVE  Owned(rest, s, st.sysex, st.out, f2)
<1>1. /\ packets \in Seq(Bytes) /\ s \in Seq(Bytes) /\ o \in Seq(Bytes) /\ Open(x0) /\ x0 \in Bytes
  BY DEF Owned, Open
<1>2. PICK to, nth, x : Ownership(packets, s, x0, o, f, to, nth, x)
  BY DEF Owned
<1> DEFINE none == <<>>  a == x[j - 1]  b == x[j]  x1 == st.sysex  o2 == st.out
<1>3. j \in 1..Len(packets) /\ Len(packets) \in Nat
  BY <1>1, LenProperties
<1>4. Good(p, j, a, b, s, to, nth, f) /\ x \in [Nat -> Bytes] /\ (Intact(f) => x[0] = x0)
  BY <1>2, <1>3, OwnedIs
<1>5. ~(Len(p) > Mtu)
  <2>1. Mtu \in Nat /\ p \in Bytes
    BY <1>1, <1>3, MidiPathAssumption, ElementOfSeq
  <2>2. Len(p) \in Nat
    BY <2>1, LenProperties DEF Bytes
  <2> QED  BY <2>1, <2>2
<1>6. Intact(f2) => Intact(f)
  BY DEF Comes
<1>7. CASE (\E y : Gives(p, y) /\ Claimed(y, j, s, to, nth)) /\ (Intact(f) => a = b)
  <2>1. PICK y : Gives(p, y) /\ Claimed(y, j, s, to, nth)
    BY <1>7
  <2>2. \E z \in Seq(Bytes) : Turn(x0, p, x0, z) /\ Due(z, j, s, to, nth, f2)
    <3>1. CASE x0 = <<>>
      <4>1. y \in Seq(Bytes) /\ Turn(x0, p, x0, y)
        BY <2>1, <3>1 DEF Gives
      <4>2. Due(y, j, s, to, nth, f2)
        BY <2>1 DEF Due, Claimed
      <4> QED  BY <4>1, <4>2
    <3>2. CASE x0 # <<>>
      <4>1. none \in Seq(Bytes) /\ Turn(x0, p, x0, none)
        BY <1>1, <2>1, <3>2 DEF Gives
      <4>2. Due(none, j, s, to, nth, f2)
        BY EmptySeq DEF Due
      <4> HIDE DEF none
      <4> QED  BY <4>1, <4>2
    <3> QED  BY <3>1, <3>2
  <2>3. PICK z \in Seq(Bytes) : Turn(x0, p, x0, z) /\ Due(z, j, s, to, nth, f2)
    BY <2>2
  <2>4. x1 = x0 /\ Added(o, z, o2)
    BY <1>1, <2>3, TurnIs
  <2>5. Intact(f2) => Intact(f) /\ a = b /\ x0 = x0
    BY <1>6, <1>7
  <2> HIDE DEF x1, o2
  <2>6. Owned(rest, s, x0, o2, f2)
    BY <1>1, <1>2, <2>3, <2>4, <2>5, PacketGone
  <2> QED  BY <2>4, <2>6 DEF x1, o2
<1>8. CASE /\ Piece(p) /\ Len(p) <= Mtu
           /\ Intact(f) => \E y \in Seq(Bytes) : Turn(a, p, b, y) /\ Claimed(y, j, s, to, nth)
  <2>1. PICK x2, y : Open(x2) /\ Marked(y) /\ Turn(x0, p, x2, y)
    BY <1>1, <1>8 DEF Piece
  <2>2. x1 = x2 /\ Added(o, y, o2) /\ y \in Seq(Bytes)
    BY <1>1, <2>1, TurnIs DEF Marked
  <2>3. Open(x1)
    BY <2>1, <2>2
  <2>4. IsSegment(p)
    BY <1>8 DEF Piece
  <2>5. CASE Intact(f2)
    <3>1. Intact(f) /\ \A k \in 1..j - 1 : ~IsSegment(packets[k])
      BY <1>6, <2>4, <2>5 DEF Comes
    <3>2. a = x0
      <4> DEFINE i == j - 1
      <4>1. i \in Nat /\ \A k \in 1..i : k \in 1..Len(packets)
        BY <1>3
      <4>2. ASSUME NEW k \in 1..i PROVE x[k - 1] = x[k]
        <5> DEFINE q == packets[k]  c == x[k - 1]  d == x[k]
        <5>1. Good(q, k, c, d, s, to, nth, f)
          BY <1>2, <4>1, OwnedIs
        <5>2. ~IsSegment(q)
          BY <3>1
        <5> HIDE DEF q, c, d
        <5>3. c = d
          BY <3>1, <5>1, <5>2, GoodWhole
        <5> QED  BY <5>3 DEF c, d
      <4> HIDE DEF i
      <4>3. x[i] = x[0]
        BY <4>1, <4>2, NothingUntil
      <4> QED  BY <1>4, <3>1, <4>3 DEF i
    <3>3. PICK z \in Seq(Bytes) : Turn(a, p, b, z) /\ Claimed(z, j, s, to, nth)
      BY <1>8, <3>1
    <3> HIDE DEF a, b
    <3>4. x1 = b /\ Added(o, z, o2)
      BY <1>1, <3>2, <3>3, TurnIs
    <3>5. Open(b)
      BY <2>3, <3>4
    <3> HIDE DEF x1, o2
    <3>6. Open(x[j]) /\ x[j] = x1
      BY <3>4, <3>5 DEF b
    <3>7. Owned(rest, s, x[j], o2, f2)
      BY <1>1, <1>2, <3>1, <3>3, <3>4, <3>6, SegmentCame
    <3> QED  BY <3>6, <3>7 DEF x1, o2
  <2>6. CASE ~Intact(f2)
    <3>1. Due(y, j, s, to, nth, f2)
      BY <2>1, <2>6 DEF Due, Marked, Mark
    <3>2. Intact(f2) => Intact(f) /\ x[j - 1] = x[j] /\ x1 = x0
      BY <2>6
    <3> HIDE DEF x1, o2
    <3>3. Owned(rest, s, x1, o2, f2)
      BY <1>1, <1>2, <2>2, <2>3, <3>1, <3>2, PacketGone
    <3> QED  BY <3>3 DEF x1, o2
  <2> QED  BY <2>5, <2>6
<1> QED  BY <1>4, <1>5, <1>7, <1>8 DEF Good

LEMMA ReceiveOwned ==
  ASSUME Owned(net, sent, sysex, out, seen), Receive
  PROVE  Owned(net', sent', sysex', out', seen') /\ seen \subseteq seen'
<1>1. PICK j \in DOMAIN net :
          LET st == ParseMidi(net[j])
          IN  /\ net' = RemoveAt(net, j)
              /\ seen' = seen
                    \cup (IF j = 1 THEN {}
                          ELSE IF IsSegment(net[j]) /\ \E i \in 1..j - 1 : IsSegment(net[i])
                               THEN {"segment"} ELSE {"whole"})
                    \cup (IF Len(net[j]) <= Mtu THEN st.doubt ELSE {})
              /\ IF Len(net[j]) <= Mtu THEN sysex' = st.sysex /\ out' = st.out
                                       ELSE UNCHANGED <<sysex, out>>
              /\ UNCHANGED sent
  BY DEF Receive, sink
<1>2. /\ net \in Seq(Bytes) /\ sent \in Seq(Bytes) /\ out \in Seq(Bytes) /\ Open(sysex)
  BY DEF Owned
<1> DEFINE p == net[j]  f2 == seen'  rest == net'  st == ParseMidi(net[j])
<1>3. j \in 1..Len(net) /\ Len(net) \in Nat
  BY <1>2, LenProperties
<1>4. Comes(p, j, net, seen, f2) /\ seen \subseteq f2
  <2>1. seen \subseteq f2
    BY <1>1
  <2>2. ASSUME Intact(f2), IsSegment(p), NEW k \in 1..j - 1 PROVE ~IsSegment(net[k])
    <3> SUFFICES ASSUME IsSegment(net[k]) PROVE FALSE
      OBVIOUS
    <3>1. j # 1
      BY <1>3
    <3>2. "segment" \in f2
      BY <1>1, <2>2, <3>1
    <3> QED  BY <2>2, <3>2 DEF Intact
  <2>3. Intact(f2) => Intact(seen)
    BY <2>1 DEF Intact
  <2> HIDE DEF f2, p
  <2> QED  BY <2>1, <2>2, <2>3 DEF Comes
<1>5. Without(rest, net, j)
  BY <1>1 DEF Without
<1>6. CASE Len(p) <= Mtu
  <2>1. st = ParseList(St(sysex, out, 0, p))
    BY DEF ParseMidi, St
  <2>2. sysex' = st.sysex /\ out' = st.out
    BY <1>1, <1>6
  <2>3. p = net[j]
    OBVIOUS
  <2> HIDE DEF st, p, f2, rest
  <2>4. Owned(rest, sent, st.sysex, st.out, f2)
    BY <1>4, <1>5, <1>6, <2>1, <2>3, CameOwned
  <2> QED  BY <1>1, <1>4, <2>2, <2>4 DEF f2, rest
<1>7. CASE ~(Len(p) <= Mtu)
  <2>1. PICK to, nth, x : Ownership(net, sent, sysex, out, seen, to, nth, x)
    BY DEF Owned
  <2> DEFINE none == <<>>  a == x[j - 1]  b == x[j]
  <2>2. Good(p, j, a, b, sent, to, nth, seen)
    BY <1>3, <2>1, OwnedIs
  <2>3. none \in Seq(Bytes) /\ Added(out, none, out) /\ Due(none, j, sent, to, nth, f2)
    BY <1>2, AddedNone, EmptySeq DEF Due
  <2> HIDE DEF p, a, b, none
  <2>4. Intact(seen) => a = b
    BY <1>7, <2>2 DEF Good
  <2>5. Intact(f2) => Intact(seen) /\ a = b /\ sysex = sysex
    BY <1>4, <2>4 DEF Comes
  <2> HIDE DEF f2, rest
  <2>6. Owned(rest, sent, sysex, out, f2)
    BY <1>2, <1>5, <2>1, <2>3, <2>5, PacketGone DEF a, b
  <2>7. UNCHANGED <<sysex, out, sent>>
    BY <1>1, <1>7 DEF p
  <2> QED  BY <1>4, <2>6, <2>7 DEF f2, rest
<1> QED  BY <1>6, <1>7

-----------------------------------------------------------------------------
(* More is sent: the messages that go in belong to the last of the packets. *)

Fresh(p, k, last, a, b, y) ==
    \/ Len(p) > Mtu /\ k = last /\ y = <<>> /\ a = b
    \/ Gives(p, y) /\ k = last /\ a = b
    \/ /\ Piece(p) /\ Len(p) <= Mtu
       /\ IF k = last THEN y \in Seq(Bytes) /\ Turn(a, p, b, y) ELSE Turn(a, p, b, <<>>)

FreshAll(packets, z, y) ==
    /\ z \in [Nat -> Bytes] /\ z[0] = <<>> /\ z[Len(packets)] = <<>>
    /\ \A k \in 1..Len(packets) : Fresh(packets[k], k, Len(packets), z[k - 1], z[k], y)

Then(u, n, w) == [k \in Nat |-> IF k <= n THEN u[k] ELSE w[k - n]]
OwnerThen(to, n, j) == [k \in Nat |-> IF k <= n THEN to[k] ELSE j]
NthThen(nth, n) == [k \in Nat |-> IF k <= n THEN nth[k] ELSE k - n]

\* A new packet, one of several.
LEMMA FreshGood ==
  ASSUME NEW p, NEW k, NEW last, NEW a, NEW b, NEW y, Fresh(p, k, last, a, b, y),
         NEW j, NEW s, NEW to, NEW nth, NEW f, k = last => Claimed(y, j, s, to, nth)
  PROVE  Good(p, j, a, b, s, to, nth, f)
<1> DEFINE none == <<>>
<1>1. CASE Len(p) > Mtu /\ k = last /\ y = <<>> /\ a = b
  BY <1>1 DEF Good
<1>2. CASE Gives(p, y) /\ k = last /\ a = b
  BY <1>2 DEF Good
<1>3. CASE /\ Piece(p) /\ Len(p) <= Mtu
           /\ IF k = last THEN y \in Seq(Bytes) /\ Turn(a, p, b, y) ELSE Turn(a, p, b, <<>>)
  <2>1. none \in Seq(Bytes) /\ Claimed(none, j, s, to, nth)
    BY EmptySeq DEF Claimed
  <2>2. CASE k = last
    BY <1>3, <2>2 DEF Good
  <2>3. CASE k # last
    <3>1. Turn(a, p, b, none)
      BY <1>3, <2>3
    <3> HIDE DEF none
    <3> QED  BY <1>3, <2>1, <3>1 DEF Good
  <2> QED  BY <2>2, <2>3
<1> QED  BY <1>1, <1>2, <1>3 DEF Fresh

LEMMA MoreOwned ==
  ASSUME NEW packets, NEW s, NEW x0, NEW o, NEW f, Owned(packets, s, x0, o, f),
         NEW more, more \in Seq(Bytes), NEW packets2, Added(packets, more, packets2),
         NEW y, y \in Seq(Bytes), NEW s2, Added(s, y, s2),
         NEW z, FreshAll(more, z, y)
  PROVE  Owned(packets2, s2, x0, o, f)
<1>1. packets \in Seq(Bytes) /\ s \in Seq(Bytes) /\ o \in Seq(Bytes) /\ Open(x0)
  BY DEF Owned
<1>2. PICK to, nth, x : Ownership(packets, s, x0, o, f, to, nth, x)
  BY DEF Owned
<1> DEFINE n == Len(packets)  last == Len(more)  l == Len(s)  m == Len(y)
           to2 == OwnerThen(to, l, n + last)  nth2 == NthThen(nth, l)  x2 == Then(x, n, z)
<1>3. n \in Nat /\ last \in Nat /\ l \in Nat /\ m \in Nat
  BY <1>1, LenProperties
<1>4. /\ packets2 \in Seq(Bytes) /\ Len(packets2) = n + last
      /\ \A k \in 1..n : packets2[k] = packets[k]
      /\ \A k \in 1..last : packets2[n + k] = more[k]
  BY DEF Added
<1>5. /\ s2 \in Seq(Bytes) /\ Len(s2) = l + m
      /\ \A k \in 1..l : s2[k] = s[k]
      /\ \A k \in 1..m : s2[l + k] = y[k]
  BY DEF Added
<1>6. /\ to \in [Nat -> Int] /\ nth \in [Nat -> Nat] /\ x \in [Nat -> Bytes] /\ OutOwned(o, s, to, f)
      /\ \A j \in 1..n : Good(packets[j], j, x[j - 1], x[j], s, to, nth, f)
      /\ Intact(f) => x[0] = x0 /\ x[n] = <<>>
  BY <1>2 DEF Ownership
<1>7. /\ z \in [Nat -> Bytes] /\ z[0] = <<>> /\ z[last] = <<>>
      /\ \A k \in 1..last : Fresh(more[k], k, last, z[k - 1], z[k], y)
  BY DEF FreshAll
<1> HIDE DEF n, last, l, m
<1>8. /\ to2 \in [Nat -> Int]
      /\ \A k \in Nat : /\ k <= l => to2[k] = to[k]
                        /\ ~(k <= l) => to2[k] = n + last
  <2>1. n + last \in Int
    BY <1>3
  <2> QED  BY <1>6, <2>1 DEF OwnerThen
<1>9. /\ nth2 \in [Nat -> Nat]
      /\ \A k \in Nat : /\ k <= l => nth2[k] = nth[k]
                        /\ ~(k <= l) => nth2[k] = k - l
  <2>1. \A k \in Nat : ~(k <= l) => k - l \in Nat
    BY <1>3
  <2> QED  BY <1>6, <2>1 DEF NthThen
<1>10. /\ x2 \in [Nat -> Bytes]
       /\ \A k \in Nat : /\ k <= n => x2[k] = x[k]
                         /\ ~(k <= n) => x2[k] = z[k - n]
  <2>1. \A k \in Nat : ~(k <= n) => k - n \in Nat
    BY <1>3
  <2> QED  BY <1>6, <1>7, <2>1 DEF Then
<1> HIDE DEF to2, nth2, x2
<1>11. OutOwned(o, s2, to2, f)
  <2> SUFFICES ASSUME NEW i \in 1..Len(o), Intact(f) \/ ~Mark(o[i])
               PROVE  \E k \in 1..Len(s2) : to2[k] = -i /\ s2[k] = o[i]
    BY DEF OutOwned
  <2>1. PICK k \in 1..l : to[k] = -i /\ s[k] = o[i]
    BY <1>6 DEF OutOwned, l
  <2>2. k \in Nat /\ k <= l /\ k \in 1..Len(s2)
    BY <1>3, <1>5
  <2>3. to2[k] = to[k] /\ s2[k] = s[k]
    BY <1>5, <1>8, <2>2
  <2> QED  BY <2>1, <2>2, <2>3
<1>12. ASSUME NEW j \in 1..n PROVE Good(packets2[j], j, x2[j - 1], x2[j], s2, to2, nth2, f)
  <2> DEFINE p == packets[j]  a == x[j - 1]  b == x[j]
  <2>1. packets2[j] = p /\ x2[j - 1] = a /\ x2[j] = b
    <3>1. j \in Nat /\ j - 1 \in Nat /\ j <= n /\ j - 1 <= n
      BY <1>3
    <3> QED  BY <1>4, <1>10, <3>1
  <2>2. Good(p, j, a, b, s, to, nth, f)
    BY <1>6
  <2>3. Kept(j, s, to, nth, j, s2, to2, nth2)
    <3> SUFFICES ASSUME NEW k \in 1..l
                 PROVE  /\ k \in 1..Len(s2) /\ s2[k] = s[k] /\ nth2[k] = nth[k]
                        /\ to[k] = j => to2[k] = j
      BY DEF Kept, l
    <3>1. k \in Nat /\ k <= l /\ k \in 1..Len(s2)
      BY <1>3, <1>5
    <3> QED  BY <1>5, <1>8, <1>9, <3>1
  <2> HIDE DEF p, a, b
  <2>4. Good(p, j, a, b, s2, to2, nth2, f)
    BY <2>2, <2>3, GoodMoved
  <2> QED  BY <2>1, <2>4
<1>13. Claimed(y, n + last, s2, to2, nth2)
  <2> SUFFICES ASSUME NEW i \in 1..m
               PROVE  \E k \in 1..Len(s2) : to2[k] = n + last /\ nth2[k] = i /\ s2[k] = y[i]
    BY DEF Claimed, Claim, m
  <2> DEFINE k == l + i
  <2>1. k \in 1..Len(s2) /\ k \in Nat /\ ~(k <= l) /\ k - l = i
    BY <1>3, <1>5
  <2>2. s2[k] = y[i]
    BY <1>5
  <2> HIDE DEF k
  <2>3. to2[k] = n + last /\ nth2[k] = i
    BY <1>8, <1>9, <2>1
  <2> QED  BY <2>1, <2>2, <2>3
<1> DEFINE Fine(j) == Good(packets2[j], j, x2[j - 1], x2[j], s2, to2, nth2, f)
<1>14. ASSUME NEW i \in 1..last PROVE Fine(n + i)
  <2> DEFINE p == more[i]  a == z[i - 1]  b == z[i]  j == n + i
  <2>1. j \in Nat /\ j - 1 \in Nat /\ ~(j <= n) /\ j - n = i /\ (j - 1 <= n <=> i = 1)
        /\ (j - 1) - n = i - 1 /\ (i = 1 => j - 1 = n /\ i - 1 = 0) /\ (i = last => j = n + last)
    BY <1>3
  <2>2. packets2[j] = p
    BY <1>4
  <2>3. Fresh(p, i, last, a, b, y)
    BY <1>7
  <2> HIDE DEF j
  <2>4. x2[j] = b
    BY <1>10, <2>1
  <2>5. Intact(f) => x2[j - 1] = a
    <3>1. CASE i = 1
      <4>1. Intact(f) => x[n] = <<>> /\ a = <<>>
        BY <1>6, <1>7, <3>1
      <4>2. x2[j - 1] = x[n]
        BY <1>3, <1>10, <2>1, <3>1
      <4> QED  BY <4>1, <4>2
    <3>2. CASE i # 1
      BY <1>10, <2>1, <3>2
    <3> QED  BY <3>1, <3>2
  <2> HIDE DEF p, a, b
  <2>6. i = last => Claimed(y, j, s2, to2, nth2)
    BY <1>13, <2>1
  <2>7. Good(p, j, a, b, s2, to2, nth2, f)
    BY <2>3, <2>6, FreshGood
  <2>8. Kept(j, s2, to2, nth2, j, s2, to2, nth2)
    BY DEF Kept
  <2> DEFINE a2 == x2[j - 1]  b2 == x2[j]
  <2>9. Intact(f) => Intact(f) /\ ((a2 = a /\ b2 = b) \/ (~IsSegment(p) /\ a2 = b2))
    BY <2>4, <2>5
  <2> HIDE DEF a2, b2
  <2>10. Good(p, j, a2, b2, s2, to2, nth2, f)
    BY <2>7, <2>8, <2>9, GoodMoved
  <2>11. Fine(j)
    BY <2>2, <2>10 DEF a2, b2
  <2> HIDE DEF Fine
  <2> QED  BY <2>11 DEF j
<1>15. ASSUME NEW j \in 1..n + last PROVE Fine(j)
  <2>1. CASE j <= n
    <3>1. j \in 1..n
      BY <1>3, <2>1
    <3> QED  BY <1>12, <3>1
  <2>2. CASE ~(j <= n)
    <3> DEFINE i == j - n
    <3>1. i \in 1..last /\ n + i = j
      BY <1>3, <2>2
    <3> HIDE DEF i
    <3> HIDE DEF Fine
    <3>2. Fine(n + i)
      BY <1>14, <3>1
    <3> QED  BY <3>1, <3>2
  <2> QED  BY <2>1, <2>2
<1>16. Intact(f) => x2[0] = x0 /\ x2[n + last] = <<>>
  <2>1. 0 \in Nat /\ 0 <= n /\ n + last \in Nat /\ (n + last <= n <=> last = 0) /\ (n + last) - n = last
    BY <1>3
  <2>2. Intact(f) => x2[0] = x0
    BY <1>6, <1>10, <2>1
  <2>3. CASE last = 0
    <3>1. n + last = n
      BY <1>3, <2>3
    <3>2. x2[n + last] = x[n]
      BY <1>10, <2>1, <3>1
    <3> QED  BY <1>6, <2>2, <3>2
  <2>4. CASE last # 0
    <3>1. x2[n + last] = z[last]
      BY <1>10, <2>1, <2>4
    <3> QED  BY <1>7, <2>2, <3>1
  <2> QED  BY <2>3, <2>4
<1>17. Ownership(packets2, s2, x0, o, f, to2, nth2, x2)
  BY <1>4, <1>8, <1>9, <1>10, <1>11, <1>15, <1>16 DEF Ownership
<1> QED  BY <1>1, <1>4, <1>5, <1>17 DEF Owned

\* Nothing is sent, and no message is promised but maybe one that no packet has.
LEMMA NoPacket ==
  ASSUME NEW packets, NEW s, NEW x0, NEW o, NEW f, Owned(packets, s, x0, o, f),
         NEW y, y \in Seq(Bytes), NEW s2, Added(s, y, s2)
  PROVE  Owned(packets, s2, x0, o, f)
<1> DEFINE none == <<>>  z == [k \in Nat |-> none]
<1>1. packets \in Seq(Bytes)
  BY DEF Owned
<1>2. none \in Seq(Bytes) /\ Added(packets, none, packets) /\ Len(none) = 0 /\ none \in Bytes
  BY <1>1, AddedNone, EmptySeq DEF Bytes
<1> HIDE DEF none
<1>3. z \in [Nat -> Bytes] /\ \A k \in Nat : z[k] = none
  BY <1>2
<1> HIDE DEF z
<1>4. FreshAll(none, z, y)
  BY <1>2, <1>3 DEF FreshAll, none
<1> QED  BY <1>2, <1>4, MoreOwned

\* One packet that is a command or two, or too long.
LEMMA OnePacketMore ==
  ASSUME NEW packets, NEW s, NEW x0, NEW o, NEW f, Owned(packets, s, x0, o, f),
         NEW p, p \in Bytes, NEW y, y \in Seq(Bytes), Gives(p, y) \/ (Len(p) > Mtu /\ y = <<>>),
         NEW s2, Added(s, y, s2)
  PROVE  Owned(Append(packets, p), s2, x0, o, f)
<1> DEFINE none == <<>>  z == [k \in Nat |-> none]  more == <<p>>  packets2 == Append(packets, p)
<1>1. packets \in Seq(Bytes) /\ none \in Bytes
  BY DEF Owned, Bytes
<1>2. more \in Seq(Bytes) /\ Len(more) = 1 /\ more[1] = p
  OBVIOUS
<1>3. Added(packets, more, packets2)
  BY <1>1, AddedOne
<1> HIDE DEF none, more, packets2
<1>4. z \in [Nat -> Bytes] /\ \A k \in Nat : z[k] = none
  BY <1>1
<1> HIDE DEF z
<1>5. ASSUME NEW k \in 1..Len(more) PROVE Fresh(more[k], k, Len(more), z[k - 1], z[k], y)
  <2>1. k = 1 /\ k - 1 \in Nat /\ k \in Nat /\ k = Len(more)
    BY <1>2
  <2>2. more[k] = p /\ z[k - 1] = z[k]
    BY <1>2, <1>4, <2>1
  <2> QED  BY <2>1, <2>2 DEF Fresh
<1>6. FreshAll(more, z, y)
  BY <1>2, <1>4, <1>5 DEF FreshAll, none
<1>7. Owned(packets2, s2, x0, o, f)
  BY <1>2, <1>3, <1>6, MoreOwned
<1> QED  BY <1>7 DEF packets2

\* The segments of a message, and the message with the last one.
Held(up, last) == [k \in Nat |-> IF k = 0 \/ k >= last THEN <<>> ELSE up[k]]

LEMMA CutFresh ==
  ASSUME NEW packets, NEW last, NEW part, NEW up, NEW m, SegmentsOf(packets, last, part, up, m),
         NEW k, k \in 1..last
  PROVE  Fresh(packets[k], k, last, Held(up, last)[k - 1], Held(up, last)[k], <<m>>)
<1> DEFINE none == <<>>  p == packets[k]  d == part[k]  z == Held(up, last)
           s == up[k - 1]  t == up[k]  y == <<m>>
<1>1. last \in Nat /\ last >= 1 /\ m \in Bytes /\ m = Append(up[last], Stop)
  BY DEF SegmentsOf
<1>2. /\ Cut(p, k, last, d) /\ Len(p) <= Mtu /\ d \in Seq(0..127) /\ t \in Bytes
      /\ k = 1 => t = After(Start, d)
      /\ k # 1 => Grown(s, t, d)
  BY DEF SegmentsOf
<1>3. d \in Bytes /\ Start \in Nat /\ Stop \in Nat /\ y \in Seq(Bytes)
  BY <1>1, <1>2, Septets DEF Start, Stop
<1>4. /\ k = 1 => z[k - 1] = none
      /\ k # 1 => z[k - 1] = s
      /\ k = last => z[k] = none
      /\ k # last => z[k] = t
  <2>1. /\ k \in Nat /\ k - 1 \in Nat /\ k # 0 /\ (k - 1 = 0 <=> k = 1) /\ (k >= last <=> k = last)
        /\ ~(k - 1 >= last)
    BY <1>1
  <2> QED  BY <2>1 DEF Held
<1> HIDE DEF z, none, s, t
<1>5. CASE k = 1 /\ k = last
  <2>1. Frame(p, Start, d, Stop)
    BY <1>2, <1>5 DEF Cut
  <2>2. p = Append(After(Start, d), Stop)
    BY <1>3, <2>1, FrameAppend
  <2>3. p = m
    BY <1>1, <1>2, <1>5, <2>2 DEF t
  <2>4. Gives(p, <<p>>)
    BY <1>2, <2>1, WholeGives
  <2> QED  BY <1>4, <1>5, <2>3, <2>4 DEF Fresh, z, p
<1>6. CASE ~(k = 1 /\ k = last)
  <2> DEFINE a == IF k = 1 THEN Start ELSE Stop  b == IF k = last THEN Stop ELSE Start
  <2>1. Segmental(p, a, d, b)
    <3>1. Frame(p, a, d, b) /\ a \in {Start, Stop} /\ b \in {Start, Stop} /\ (a = Stop \/ b = Start)
      BY <1>2, <1>6 DEF Cut
    <3> QED  BY <1>2, <3>1 DEF Segmental
  <2>2. Piece(p)
    BY <2>1, SegmentalIs
  <2>3. CASE k = 1 /\ k # last
    <3>1. Frame(p, Start, d, Start) /\ t = After(Start, d)
      BY <1>2, <2>3 DEF Cut
    <3>2. ASSUME NEW o \in Seq(Bytes) PROVE \E running : ParseList(St(<<>>, o, 0, p)) = St(t, o, running, <<>>)
      <4>1. ParseList(St(<<>>, o, 0, p)) = St(After(Start, d), o, 0, <<>>)
        BY <1>2, <3>1, ParseFirst
      <4> QED  BY <3>1, <4>1
    <3>3. Turn(<<>>, p, t, <<>>)
      BY <3>2, TurnNone
    <3>4. Turn(z[k - 1], p, z[k], <<>>)
      BY <1>4, <2>3, <3>3 DEF none
    <3> QED  BY <1>2, <2>2, <2>3, <3>4 DEF Fresh, z, p
  <2>4. CASE k # 1 /\ k # last
    <3>1. Frame(p, Stop, d, Start) /\ s \in Bytes /\ s # <<>> /\ t = s \o d
      BY <1>2, <2>4 DEF Cut, Grown, Joined
    <3>2. ASSUME NEW o \in Seq(Bytes) PROVE \E running : ParseList(St(s, o, 0, p)) = St(t, o, running, <<>>)
      <4>1. ParseList(St(s, o, 0, p)) = St(s \o d, o, 0, <<>>)
        BY <1>2, <3>1, ParseNext
      <4> QED  BY <3>1, <4>1
    <3>3. Turn(s, p, t, <<>>)
      BY <3>2, TurnNone
    <3>4. Turn(z[k - 1], p, z[k], <<>>)
      BY <1>4, <2>4, <3>3
    <3> QED  BY <1>2, <2>2, <2>4, <3>4 DEF Fresh, z, p
  <2>5. CASE k # 1 /\ k = last
    <3>1. /\ Frame(p, Stop, d, Stop) /\ s \in Bytes /\ s # <<>> /\ t = s \o d /\ t # <<Start>>
          /\ m = Append(t, Stop)
      BY <1>1, <1>2, <2>5 DEF Cut, Grown, Joined, t
    <3>2. ASSUME NEW o \in Seq(Bytes)
          PROVE  \E running : ParseList(St(s, o, 0, p)) = St(<<>>, Append(o, m), running, <<>>)
      <4>1. ParseList(St(s, o, 0, p)) = St(<<>>, Append(o, Append(s \o d, Stop)), 0, <<>>)
        BY <1>2, <3>1, ParseLast
      <4> QED  BY <3>1, <4>1
    <3>3. Turn(s, p, <<>>, <<m>>)
      BY <1>1, <3>2, TurnOne
    <3>4. Turn(z[k - 1], p, z[k], y)
      BY <1>4, <2>5, <3>3 DEF none
    <3> HIDE DEF y
    <3>5. Fresh(p, k, last, z[k - 1], z[k], y)
      BY <1>2, <1>3, <2>2, <2>5, <3>4 DEF Fresh
    <3> QED  BY <3>5 DEF y, z, p
  <2> QED  BY <1>6, <2>3, <2>4, <2>5
<1> QED  BY <1>5, <1>6

LEMMA AddedJoined ==
  ASSUME NEW s, NEW t, s \in Seq(Bytes), t \in Seq(Bytes)
  PROVE  Added(s, t, s \o t)
<1> DEFINE E == Bytes  u == s \o t  n == Len(s)  l == Len(t)
<1>1. s \in Seq(E) /\ t \in Seq(E) /\ n \in Nat /\ l \in Nat
  BY LenProperties
<1> HIDE DEF E
<1>2. /\ u \in Seq(E) /\ Len(u) = n + l
      /\ \A i \in 1..n + l : u[i] = IF i <= n THEN s[i] ELSE t[i - n]
  BY <1>1, ConcatProperties
<1> HIDE DEF u, n, l
<1>3. ASSUME NEW i \in 1..n PROVE u[i] = s[i]
  <2>1. i \in 1..n + l /\ i <= n
    BY <1>1
  <2> QED  BY <1>2, <2>1
<1>4. ASSUME NEW i \in 1..l PROVE u[n + i] = t[i]
  <2>1. n + i \in 1..n + l /\ ~(n + i <= n) /\ (n + i) - n = i
    BY <1>1
  <2> QED  BY <1>2, <2>1
<1>5. Added(s, t, u)
  BY <1>2, <1>3, <1>4 DEF Added, E, n, l
<1> QED  BY <1>5 DEF u

LEMMA SegmentsMore ==
  ASSUME NEW packets, NEW s, NEW x0, NEW o, NEW f, Owned(packets, s, x0, o, f),
         NEW d, d \in Seq(0..127), NEW m, Frame(m, Start, d, Stop)
  PROVE  Owned(packets \o Segments(d), Append(s, m), x0, o, f)
<1> DEFINE more == Segments(d)  y == <<m>>  packets2 == packets \o more  s2 == Append(s, m)
<1>1. PICK last, part, up : SegmentsOf(more, last, part, up, m)
  BY SegmentsAre
<1> HIDE DEF more
<1>2. /\ packets \in Seq(Bytes) /\ s \in Seq(Bytes) /\ more \in Seq(Bytes) /\ Len(more) = last
      /\ last \in Nat /\ last >= 1 /\ m \in Bytes
  BY <1>1 DEF Owned, SegmentsOf
<1>3. y \in Seq(Bytes) /\ Added(s, y, s2)
  BY <1>2, AddedOne
<1>4. Added(packets, more, packets2)
  BY <1>2, AddedJoined
<1> DEFINE z == Held(up, last)
<1>5. FreshAll(more, z, y)
  <2>1. ASSUME NEW k \in 1..last PROVE Fresh(more[k], k, last, z[k - 1], z[k], y)
    BY <1>1, CutFresh
  <2>2. z \in [Nat -> Bytes] /\ z[0] = <<>> /\ z[last] = <<>>
    <3>1. \A k \in Nat : (IF k = 0 \/ k >= last THEN <<>> ELSE up[k]) \in Bytes
      <4>1. \A k \in Nat : ~(k = 0 \/ k >= last) => k \in 1..last
        BY <1>2
      <4>2. \A k \in 1..last : up[k] \in Bytes
        BY <1>1 DEF SegmentsOf
      <4>3. <<>> \in Bytes
        BY DEF Bytes
      <4> QED  BY <4>1, <4>2, <4>3
    <3> QED  BY <1>2, <3>1 DEF Held
  <2> HIDE DEF z, y
  <2>3. \A k \in 1..Len(more) : Fresh(more[k], k, Len(more), z[k - 1], z[k], y)
    <3> DEFINE n == Len(more)
    <3>1. n = last
      BY <1>2
    <3> HIDE DEF n
    <3>2. \A k \in 1..n : Fresh(more[k], k, n, z[k - 1], z[k], y)
      BY <2>1, <3>1
    <3> QED  BY <3>2 DEF n
  <2>4. z[Len(more)] = <<>>
    BY <1>2, <2>2
  <2> QED  BY <2>2, <2>3, <2>4 DEF FreshAll
<1> HIDE DEF packets2, y, s2, z
<1>6. Owned(packets2, s2, x0, o, f)
  BY <1>2, <1>3, <1>4, <1>5, MoreOwned
<1> QED  BY <1>6 DEF packets2, s2, more

\* A message sent as one packet, whose bytes the other half gives as they are.
LEMMA KnownGives ==
  ASSUME NEW m, Known(m)
  PROVE  Gives(m, <<m>>) /\ m \in Bytes /\ <<m>> \in Seq(Bytes)
<1> DEFINE y == <<m>>
<1>1. m \in Bytes
  BY KnownIs
<1>2. y \in Seq(Bytes)
  BY <1>1
<1>3. ASSUME Short(m) PROVE Gives(m, y)
  BY <1>3, ShortGives
<1>4. ASSUME Whole(m) PROVE Gives(m, y)
  <2>1. PICK d : d \in Seq(0..127) /\ Frame(m, Start, d, Stop)
    BY <1>4 DEF Whole
  <2> QED  BY <2>1, WholeGives
<1> HIDE DEF y
<1>5. Gives(m, y)
  BY <1>3, <1>4 DEF Known
<1> QED  BY <1>1, <1>2, <1>5 DEF y

LEMMA AppendJoined ==
  ASSUME NEW s, NEW m, s \in Seq(Bytes), m \in Bytes
  PROVE  s \o <<m>> = Append(s, m)
<1> DEFINE E == Bytes
<1>1. s \in Seq(E) /\ m \in E
  OBVIOUS
<1> HIDE DEF E
<1> QED  BY <1>1, AppendIsConcat

LEMMA KnownMore ==
  ASSUME NEW packets, NEW s, NEW x0, NEW o, NEW f, Owned(packets, s, x0, o, f), NEW m, Known(m)
  PROVE  Owned(Append(packets, m), Append(s, m), x0, o, f)
<1> DEFINE y == <<m>>  s2 == Append(s, m)
<1>1. s \in Seq(Bytes)
  BY DEF Owned
<1>2. Gives(m, y) /\ m \in Bytes /\ y \in Seq(Bytes)
  BY KnownGives
<1>3. Added(s, y, s2)
  BY <1>1, <1>2, AddedOne
<1> HIDE DEF y, s2
<1>4. Owned(Append(packets, m), s2, x0, o, f)
  BY <1>2, <1>3, OnePacketMore
<1> QED  BY <1>4 DEF s2

LEMMA DecodedMore ==
  ASSUME NEW packets, NEW s, NEW x0, NEW o, NEW f, Owned(packets, s, x0, o, f), NEW m, Known(m)
  PROVE  Owned(packets \o Decoded(m), Append(s, m), x0, o, f)
<1>1. packets \in Seq(Bytes) /\ m \in Bytes
  BY KnownIs DEF Owned
<1>2. CASE Short(m)
  <2>1. m[1] # Start
    BY <1>2, KnownIs DEF Start
  <2>2. Decoded(m) = <<m>>
    BY <2>1 DEF Decoded
  <2>3. packets \o Decoded(m) = Append(packets, m)
    BY <1>1, <2>2, AppendJoined
  <2>4. Owned(Append(packets, m), Append(s, m), x0, o, f)
    BY KnownMore
  <2> QED  BY <2>3, <2>4
<1>3. CASE Whole(m)
  <2>1. PICK d : d \in Seq(0..127) /\ Frame(m, Start, d, Stop)
    BY <1>3 DEF Whole
  <2>2. m[1] = Start /\ Middle(m) = d
    BY <2>1, FrameEnds
  <2>3. Decoded(m) = Segments(d)
    BY <2>2 DEF Decoded, Middle
  <2> QED  BY <2>1, <2>3, SegmentsMore
<1> QED  BY <1>2, <1>3 DEF Known

\* The faults that are no matter of segments change nothing.
LEMMA OwnedFaults ==
  ASSUME NEW packets, NEW s, NEW x0, NEW o, NEW f, Owned(packets, s, x0, o, f), NEW f2,
         Intact(f2) <=> Intact(f)
  PROVE  Owned(packets, s, x0, o, f2)
<1>1. PICK to, nth, x : Ownership(packets, s, x0, o, f, to, nth, x)
  BY DEF Owned
<1>2. OutOwned(o, s, to, f2)
  BY <1>1 DEF Ownership, OutOwned
<1>3. ASSUME NEW j \in 1..Len(packets)
      PROVE  Good(packets[j], j, x[j - 1], x[j], s, to, nth, f2)
  <2> DEFINE p == packets[j]  a == x[j - 1]  b == x[j]
  <2>1. Good(p, j, a, b, s, to, nth, f)
    BY <1>1, OwnedIs
  <2> HIDE DEF p, a, b
  <2>2. Good(p, j, a, b, s, to, nth, f2)
    BY <2>1 DEF Good
  <2> QED  BY <2>2 DEF p, a, b
<1>4. Ownership(packets, s, x0, o, f2, to, nth, x)
  BY <1>1, <1>2, <1>3 DEF Ownership
<1> QED  BY <1>4 DEF Owned

-----------------------------------------------------------------------------
(* The device, also when it has sent what is too long. *)

\* The buffer of the normalizer is never empty again.
Stuck == connected /\ waiting = 0 /\ buffer \in Bytes /\ Len(buffer) > MaxPayload

DeviceKnown == device \in [message : Bytes, left : Bytes] /\ (Idle \/ Busy \/ Stuck)

LEMMA DeviceStays ==
  ASSUME DeviceKnown, UNCHANGED <<connected, device, buffer, waiting>>
  PROVE  DeviceKnown'
BY DEF DeviceKnown, Idle, Busy, Stuck

\* The last byte of a message that does not fit the buffer to send.
LEMMA ByteStuck ==
  ASSUME Busy, Len(device.left) = 1, connected, Len(device.message) > MaxPayload,
         MidiByte(Head(device.left)), connected' = connected
  PROVE  Stuck' /\ UNCHANGED net
<1> DEFINE m == device.message  left == device.left  b == Head(left)
           more == Append(buffer, b)  rest == Tail(left)  long == Len(m) > MaxPayload
<1>1. /\ more \in Bytes /\ more # <<>> /\ rest \in Bytes
      /\ Joined(m, more, rest)
      /\ rest = <<>> /\ more = m
      /\ buffer # <<>>
  BY OneMore DEF Busy
<1>2. Known(m) /\ waiting = IF buffer = <<>> THEN -1 ELSE CommandSize(m[1])
  BY DEF Busy, Reading
<1>3. waiting = CommandSize(m[1])
  BY <1>1, <1>2
<1>4. ~Short(m)
  <2> SUFFICES ASSUME Short(m) PROVE FALSE
    OBVIOUS
  <2> DEFINE n == Len(m)
  <2>1. n = 2 \/ n = 3
    BY DEF Short
  <2>2. n > MaxPayload
    OBVIOUS
  <2> HIDE DEF n
  <2> QED  BY <2>1, <2>2, MidiPathAssumption
<1>5. waiting = 0
  BY <1>2, <1>3, <1>4, KnownIs DEF Known
<1>6. \/ waiting = -1
      \/ ~Complete(more)
      \/ waiting' = -1 /\ ~connected
      \/ Len(more) <= MaxPayload
      \/ buffer' = more /\ UNCHANGED <<waiting, net>>
  BY DEF MidiByte
<1>7. long /\ Len(m) \in Nat
  BY <1>2, KnownIs
<1> HIDE DEF m, left, b, more, rest
<1>8. Complete(more)
  BY <1>1, <1>2, <1>3, CompleteIs
<1>9. ~(Len(more) <= MaxPayload)
  <2> DEFINE n == Len(more)
  <2>1. n \in Nat /\ n > MaxPayload
    BY <1>1, <1>7
  <2> HIDE DEF n
  <2>2. ~(n <= MaxPayload)
    BY <2>1, MidiPathAssumption
  <2> QED  BY <2>2 DEF n
<1>10. waiting # -1
  BY <1>5
<1>11. buffer' = more /\ UNCHANGED <<waiting, net>>
  BY <1>6, <1>8, <1>9, <1>10
<1>12. Len(more) > MaxPayload
  BY <1>1, <1>7
<1> QED  BY <1>1, <1>5, <1>11, <1>12 DEF Stuck

\* Bytes that come later make it longer.
LEMMA StuckStays ==
  ASSUME Stuck, NEW b \in Nat, MidiByte(b), connected' = connected
  PROVE  Stuck' /\ UNCHANGED net
<1> DEFINE n == Len(buffer)  more == Append(buffer, b)  k == Len(more)
<1>1. connected /\ waiting = 0 /\ buffer \in Bytes /\ n > MaxPayload
  BY DEF Stuck
<1>2. more \in Bytes /\ k = n + 1 /\ n \in Nat
  BY <1>1, AppendProperties, LenProperties DEF Bytes
<1>3. \/ waiting = -1
      \/ ~connected
      \/ Len(more) <= MaxPayload
      \/ buffer' = more /\ UNCHANGED <<waiting, net>>
  BY DEF MidiByte
<1> HIDE DEF n, more
<1>4. k > MaxPayload /\ ~(k <= MaxPayload)
  <2> HIDE DEF k
  <2> QED  BY <1>1, <1>2, MidiPathAssumption
<1>5. waiting # -1
  BY <1>1
<1>6. buffer' = more /\ UNCHANGED <<waiting, net>>
  BY <1>1, <1>3, <1>4, <1>5
<1> QED  BY <1>1, <1>2, <1>4, <1>6 DEF Stuck

-----------------------------------------------------------------------------
(* The steps, whatever is lost, overtaken or too long. *)

Sound == DeviceKnown /\ Owned(net, sent, sysex, out, seen)

OwnedInv == made \in Nat /\ (seen \cap {"real time", "unsure"} = {} => Sound)

LEMMA SoundStays ==
  ASSUME Sound, UNCHANGED <<connected, net, sent, sysex, out, seen, device, buffer, waiting>>
  PROVE  Sound'
<1>1. DeviceKnown'
  BY DeviceStays DEF Sound
<1> QED  BY <1>1 DEF Sound

LEMMA AlsaEventSound ==
  ASSUME made \in Nat, Sound, AlsaEvent
  PROVE  Sound'
<1>1. DeviceKnown'
  BY DeviceStays DEF AlsaEvent, source, Sound
<1>2. PICK m \in Messages(AlsaSizes) : /\ SendMidi(Decoded(m))
                                       /\ sent' = IF connected THEN Append(sent, m) ELSE sent
  BY DEF AlsaEvent
<1>3. UNCHANGED <<sysex, out, seen>> /\ Owned(net, sent, sysex, out, seen)
  BY DEF AlsaEvent, sink, Sound
<1>4. Known(m)
  <2>1. AlsaSizes \subseteq Nat
    BY MidiPathAssumption
  <2> QED  BY <2>1, MessagesKnown
<1> DEFINE net2 == net \o Decoded(m)  sent2 == Append(sent, m)
<1>5. Owned(net2, sent2, sysex, out, seen)
  BY <1>3, <1>4, DecodedMore
<1>6. /\ connected => net' = net2 /\ sent' = sent2
      /\ ~connected => net' = net /\ sent' = sent
  BY <1>2 DEF SendMidi
<1> HIDE DEF net2, sent2
<1>7. Owned(net', sent', sysex', out', seen')
  BY <1>3, <1>5, <1>6
<1> QED  BY <1>1, <1>7 DEF Sound

LEMMA DeviceBeginsSound ==
  ASSUME made \in Nat, Sound, DeviceBegins
  PROVE  Sound'
<1>1. PICK m \in Messages(DeviceSizes) : device' = [message |-> m, left |-> m]
  BY DEF DeviceBegins
<1>2. /\ device.left = <<>>
      /\ UNCHANGED <<connected, buffer, waiting, net, sysex, out, sent, seen>>
  BY DEF DeviceBegins, sink
<1>3. Known(m)
  <2>1. DeviceSizes \subseteq Nat
    BY MidiPathAssumption
  <2> QED  BY <2>1, MessagesKnown
<1>4. m \in Bytes /\ m # <<>>
  <2>1. m \in Bytes /\ Len(m) \in Nat /\ Len(m) >= 2
    BY <1>3, KnownIs
  <2> DEFINE n == Len(m)
  <2>2. n # 0
    <3> HIDE DEF n
    <3>1. n \in Nat /\ n >= 2
      BY <2>1 DEF n
    <3> QED  BY <3>1
  <2> QED  BY <2>1, <2>2, EmptySeq
<1>5. device'.message = m /\ device'.left = m /\ device' \in [message : Bytes, left : Bytes]
  BY <1>1, <1>4
<1>6. CASE Stuck
  <2>1. Stuck'
    BY <1>2, <1>6 DEF Stuck
  <2> QED  BY <1>2, <1>5, <2>1 DEF Sound, DeviceKnown
<1>7. CASE ~Stuck
  <2>1. buffer = <<>> /\ waiting = -1
    BY <1>2, <1>7 DEF Sound, DeviceKnown, Idle, Busy, Reading
  <2>2. Reading(m, <<>>, m)
    <3>1. <<>> \in Bytes
      BY DEF Bytes
    <3>2. <<>> \o m = m
      BY <1>4, ConcatEmptySeq DEF Bytes
    <3> QED  BY <1>3, <1>4, <3>1, <3>2 DEF Reading, Joined
  <2>3. Busy'
    BY <1>2, <1>5, <2>1, <2>2 DEF Busy
  <2> QED  BY <1>2, <1>5, <2>3 DEF Sound, DeviceKnown
<1> QED  BY <1>6, <1>7

\* A device that is stuck: what it sends is counted as sent, and is not.
LEMMA ReadMidiStuck ==
  ASSUME Sound, ReadMidi, Stuck
  PROVE  DeviceKnown' /\ Owned(net', sent', sysex', out', seen)
<1> DEFINE m == device.message  left == device.left  rest == Tail(left)
<1>1. /\ m \in Bytes /\ left \in Bytes /\ left # <<>> /\ device \in [message : Bytes, left : Bytes]
      /\ Owned(net, sent, sysex, out, seen)
  BY DEF Sound, DeviceKnown, ReadMidi
<1>2. Head(left) \in Nat /\ rest \in Bytes
  BY <1>1, HeadTailProperties DEF Bytes
<1>3. Stuck' /\ net' = net /\ UNCHANGED <<sysex, out>>
  BY <1>2, StuckStays DEF ReadMidi, sink
<1>4. device' \in [message : Bytes, left : Bytes]
  <2>1. device' = [device EXCEPT !.left = rest]
    BY DEF ReadMidi
  <2> HIDE DEF rest
  <2> QED  BY <1>1, <1>2, <2>1
<1>5. sent' = sent \/ sent' = Append(sent, m)
  BY DEF ReadMidi
<1> DEFINE sent2 == Append(sent, m)  y == <<m>>
<1>6. Owned(net, sent2, sysex, out, seen)
  <2>1. y \in Seq(Bytes) /\ Added(sent, y, sent2)
    BY <1>1, AddedOne DEF Owned
  <2> HIDE DEF y, sent2
  <2> QED  BY <1>1, <2>1, NoPacket
<1> HIDE DEF sent2
<1>7. Owned(net', sent', sysex', out', seen)
  BY <1>1, <1>3, <1>5, <1>6 DEF sent2
<1> QED  BY <1>3, <1>4, <1>7 DEF DeviceKnown

\* A device that is not: a byte of a message, and the last one.
LEMMA ReadMidiBusy ==
  ASSUME Sound, ReadMidi, Busy
  PROVE  DeviceKnown' /\ Owned(net', sent', sysex', out', seen)
<1> DEFINE m == device.message  over == Len(device.left) = 1  fits == Len(m) <= Mtu
           long == Len(m) > MaxPayload  D == [message : Bytes, left : Bytes]
<1>1. /\ device \in D /\ Owned(net, sent, sysex, out, seen) /\ sent \in Seq(Bytes)
      /\ MidiByte(Head(device.left)) /\ device' = [device EXCEPT !.left = Tail(@)]
      /\ UNCHANGED <<connected, sysex, out>>
  BY DEF Sound, DeviceKnown, Owned, ReadMidi, sink
<1>2. /\ device' \in D
      /\ ~over => Busy' /\ net' = net
      /\ over /\ ~(connected /\ long) => Idle' /\ SendMidi(<<m>>)
  BY <1>1, ByteRead
<1>3. over /\ connected /\ long => Stuck' /\ net' = net
  BY <1>1, ByteStuck
<1>4. sent' = IF (connected /\ over) /\ fits THEN Append(sent, m) ELSE sent
  BY DEF ReadMidi
<1>5. Known(m) /\ m \in Bytes /\ (fits => ~long) /\ (~fits => Len(m) > Mtu)
  <2>1. Known(m) /\ Len(m) \in Nat /\ m \in Bytes
    BY KnownIs DEF Busy, Reading
  <2> DEFINE n == Len(m)
  <2> HIDE DEF n
  <2>2. n \in Nat => (n <= Mtu => ~(n > MaxPayload)) /\ (~(n <= Mtu) => n > Mtu)
    BY MidiPathAssumption
  <2> QED  BY <2>1, <2>2 DEF n
<1> HIDE DEF over, long, m, D
<1>6. DeviceKnown' <=> device' \in D /\ (Idle' \/ Busy' \/ Stuck')
  BY DEF DeviceKnown, D
<1>7. CASE ~(over /\ connected)
  <2>1. net' = net /\ sent' = sent /\ DeviceKnown'
    <3>1. CASE over
      BY <1>2, <1>4, <1>6, <1>7, <3>1 DEF SendMidi
    <3>2. CASE ~over
      BY <1>2, <1>4, <1>6, <3>2
    <3> QED  BY <3>1, <3>2
  <2> QED  BY <1>1, <2>1
<1>8. CASE over /\ connected /\ long
  <2>1. net' = net /\ sent' = sent /\ DeviceKnown'
    BY <1>2, <1>3, <1>4, <1>5, <1>6, <1>8
  <2> QED  BY <1>1, <2>1
<1>9. CASE over /\ connected /\ ~long
  <2> DEFINE net2 == Append(net, m)  sent2 == Append(sent, m)
  <2>1. net' = net2 /\ DeviceKnown'
    <3>1. Idle' /\ SendMidi(<<m>>)
      BY <1>2, <1>9
    <3>2. net' = net \o <<m>>
      BY <1>9, <3>1 DEF SendMidi
    <3>3. net \in Seq(Bytes)
      BY <1>1 DEF Owned
    <3> QED  BY <1>2, <1>5, <1>6, <3>1, <3>2, <3>3, AppendJoined
  <2>2. CASE fits
    <3>1. Owned(net2, sent2, sysex, out, seen)
      BY <1>1, <1>5, KnownMore
    <3>2. sent' = sent2
      BY <1>4, <1>9, <2>2
    <3> HIDE DEF net2, sent2
    <3> QED  BY <1>1, <2>1, <3>1, <3>2
  <2>3. CASE ~fits
    <3> DEFINE none == <<>>
    <3>1. none \in Seq(Bytes) /\ Added(sent, none, sent) /\ Len(m) > Mtu
      BY <1>1, <1>5, <2>3, AddedNone
    <3>2. Owned(net2, sent, sysex, out, seen)
      BY <1>1, <1>5, <3>1, OnePacketMore
    <3>3. sent' = sent
      BY <1>4, <2>3
    <3> HIDE DEF net2
    <3> QED  BY <1>1, <2>1, <3>2, <3>3
  <2> QED  BY <2>2, <2>3
<1> QED  BY <1>7, <1>8, <1>9

LEMMA ReadMidiSound ==
  ASSUME Sound, ReadMidi
  PROVE  Sound'
<1>1. Busy \/ Stuck
  BY DEF Sound, DeviceKnown, Idle, ReadMidi
<1>2. DeviceKnown' /\ Owned(net', sent', sysex', out', seen)
  BY <1>1, ReadMidiBusy, ReadMidiStuck
<1>3. Intact(seen') <=> Intact(seen)
  BY DEF ReadMidi, Intact
<1>4. Owned(net', sent', sysex', out', seen')
  BY <1>2, <1>3, OwnedFaults
<1> QED  BY <1>2, <1>4 DEF Sound

LEMMA RemoteSound ==
  ASSUME made \in Nat, Sound, Remote
  PROVE  Sound'
<1>1. DeviceKnown'
  BY DeviceStays DEF Remote, source, Sound
<1>2. /\ UNCHANGED <<sysex, out, seen>> /\ Owned(net, sent, sysex, out, seen)
      /\ sent \in Seq(Bytes) /\ net \in Seq(Bytes)
  BY DEF Remote, sink, Sound, Owned
<1>3. ASSUME NEW p, NEW y, p \in Bytes, Gives(p, y), net' = Append(net, p), sent' = sent \o y
      PROVE  Owned(net', sent', sysex', out', seen')
  <2> DEFINE sent2 == sent \o y  net2 == Append(net, p)
  <2>1. y \in Seq(Bytes)
    BY <1>3 DEF Gives
  <2>2. Added(sent, y, sent2)
    BY <1>2, <2>1, AddedJoined
  <2>3. net' = net2 /\ sent' = sent2
    BY <1>3
  <2> HIDE DEF sent2
  <2>4. Owned(net2, sent2, sysex, out, seen)
    BY <1>2, <1>3, <2>1, <2>2, OnePacketMore
  <2> HIDE DEF net2
  <2> QED  BY <1>2, <2>3, <2>4
<1>4. CASE net' = Append(net, Note \o <<0>> \o More) /\ sent' = sent \o <<Note, <<144>> \o More>>
  <2> DEFINE p == Note \o <<0>> \o More  y == <<Note, After(144, More)>>
  <2>1. Gives(p, y)
    BY NotesGive
  <2>2. p \in Bytes
    BY NotesLead, <1>2
  <2>3. net' = Append(net, p) /\ sent' = sent \o y
    BY <1>4 DEF After
  <2> HIDE DEF p, y
  <2>4. Owned(net', sent', sysex', out', seen')
    BY <1>3, <2>1, <2>2, <2>3
  <2> QED  BY <1>1, <2>4 DEF Sound
<1>5. CASE net' = Append(net, Sysex(1) \o <<129, 0>> \o Program) /\ sent' = sent \o <<Sysex(1), Program>>
  <2> DEFINE p == Sysex(1) \o <<129, 0>> \o Program  y == <<Sysex(1), Program>>
  <2>1. Gives(p, y)
    BY SysexShortGives
  <2>2. p \in Bytes
    BY SysexShortLeads, <1>2
  <2>3. net' = Append(net, p) /\ sent' = sent \o y
    BY <1>5
  <2> HIDE DEF p, y
  <2>4. Owned(net', sent', sysex', out', seen')
    BY <1>3, <2>1, <2>2, <2>3
  <2> QED  BY <1>1, <2>4 DEF Sound
<1> QED  BY <1>4, <1>5 DEF Remote

LEMMA NetworkSound ==
  ASSUME Sound, Receive \/ Lose
  PROVE  Sound' /\ seen \subseteq seen'
<1>1. DeviceKnown'
  BY DeviceStays DEF Receive, Lose, source, Sound
<1>2. Owned(net, sent, sysex, out, seen)
  BY DEF Sound
<1>3. CASE Receive
  BY <1>1, <1>2, <1>3, ReceiveOwned DEF Sound
<1>4. CASE Lose
  <2>1. seen \subseteq seen'
    BY <1>4 DEF Lose
  <2> QED  BY <1>1, <1>2, <1>4, <2>1, LoseOwned DEF Sound
<1> QED  BY <1>3, <1>4

LEMMA ConnectSound ==
  ASSUME Sound, Connect
  PROVE  Sound'
<1>1. /\ ~connected /\ UNCHANGED <<device, buffer, waiting>>
      /\ UNCHANGED <<net, sent, sysex, out, seen>>
  BY DEF Connect, source, sink
<1>2. DeviceKnown'
  <2>1. Idle \/ Busy
    BY <1>1 DEF Sound, DeviceKnown, Stuck
  <2>2. Idle' \/ Busy'
    BY <1>1, <2>1 DEF Idle, Busy
  <2>3. device' \in [message : Bytes, left : Bytes]
    BY <1>1 DEF Sound, DeviceKnown
  <2> QED  BY <2>2, <2>3 DEF DeviceKnown
<1> QED  BY <1>1, <1>2 DEF Sound

\* Before anything was sent.
LEMMA OwnedNone == Owned(<<>>, <<>>, <<>>, <<>>, {})
<1> DEFINE none == <<>>  to == [k \in Nat |-> 0]  x == [k \in Nat |-> none]
<1>1. none \in Seq(Bytes) /\ none \in Bytes /\ Open(none) /\ Len(none) = 0
  BY EmptySeq DEF Open, Bytes
<1> HIDE DEF none
<1>2. to \in [Nat -> Int] /\ to \in [Nat -> Nat] /\ x \in [Nat -> Bytes] /\ x[0] = none
  BY <1>1
<1>3. 1..Len(none) = {}
  BY <1>1
<1> HIDE DEF to, x
<1>4. OutOwned(none, none, to, {})
  BY <1>3 DEF OutOwned
<1>5. Ownership(none, none, none, none, {}, to, to, x)
  BY <1>1, <1>2, <1>3, <1>4 DEF Ownership, none
<1>6. Owned(none, none, none, none, {})
  BY <1>1, <1>5 DEF Owned
<1> QED  BY <1>6 DEF none

LEMMA OwnedInit == MInit => OwnedInv
<1> SUFFICES ASSUME MInit PROVE OwnedInv
  OBVIOUS
<1>1. /\ made = 0 /\ net = <<>> /\ sent = <<>> /\ sysex = <<>> /\ out = <<>> /\ seen = {}
      /\ device = [message |-> <<>>, left |-> <<>>] /\ buffer = <<>> /\ waiting = -1
  BY DEF MInit
<1>2. <<>> \in Bytes
  BY DEF Bytes
<1>3. Idle /\ device \in [message : Bytes, left : Bytes]
  BY <1>1, <1>2 DEF Idle
<1>4. Owned(net, sent, sysex, out, seen)
  BY <1>1, OwnedNone
<1> QED  BY <1>1, <1>3, <1>4 DEF OwnedInv, Sound, DeviceKnown

LEMMA OwnedStep == OwnedInv /\ [MNext]_vars => OwnedInv'
<1> SUFFICES ASSUME OwnedInv, [MNext]_vars PROVE OwnedInv'
  OBVIOUS
<1> DEFINE Clean(f) == f \cap {"real time", "unsure"} = {}
<1>1. made \in Nat
  BY DEF OwnedInv
<1>2. made' \in Nat
  <2>1. made' = made \/ made' = made + 1
    BY DEF MNext, DeviceBegins, ReadMidi, RealTime, Connect, Others, AlsaEvent, Remote, Receive, Lose, Make, vars
  <2> QED  BY <1>1, <2>1
<1>3. ASSUME Clean(seen') PROVE Sound'
  <2>1. seen \subseteq seen' \/ Receive
    BY DEF MNext, DeviceBegins, ReadMidi, RealTime, Connect, Others, AlsaEvent, Remote, Lose, vars
  <2>2. seen \subseteq seen'
    BY <2>1 DEF Receive
  <2>3. Sound
    <3>1. Clean(seen)
      BY <1>3, <2>2
    <3> QED  BY <3>1 DEF OwnedInv
  <2>4. CASE DeviceBegins
    BY <1>1, <2>3, <2>4, DeviceBeginsSound
  <2>5. CASE ReadMidi
    BY <2>3, <2>5, ReadMidiSound
  <2>6. CASE RealTime
    BY <1>3, <2>6 DEF RealTime
  <2>7. CASE Connect
    BY <2>3, <2>7, ConnectSound
  <2>8. CASE AlsaEvent
    BY <1>1, <2>3, <2>8, AlsaEventSound
  <2>9. CASE Remote
    BY <1>1, <2>3, <2>9, RemoteSound
  <2>10. CASE Receive \/ Lose
    BY <2>3, <2>10, NetworkSound
  <2>11. CASE UNCHANGED vars
    BY <2>3, <2>11, SoundStays DEF vars, source, sink
  <2> QED  BY <2>4, <2>5, <2>6, <2>7, <2>8, <2>9, <2>10, <2>11 DEF MNext, Others
<1> QED  BY <1>2, <1>3 DEF OwnedInv

-----------------------------------------------------------------------------
(* No message comes out more often than it went in. *)

\* Messages that come out are told apart by the messages that were sent: each of
\* them has one of its own, with the same bytes.
LEMMA TimesOwned ==
  ASSUME NEW o, NEW s, NEW to, o \in Seq(Bytes), s \in Seq(Bytes), to \in [Nat -> Int], NEW m,
         \A i \in 1..Len(o) : o[i] = m => \E k \in 1..Len(s) : to[k] = -i /\ s[k] = m
  PROVE  Times(o, m) <= Times(s, m)
<1> DEFINE A == {i \in DOMAIN o : o[i] = m}  B == {k \in DOMAIN s : s[k] = m}
           F(i) == CHOOSE k \in 1..Len(s) : to[k] = -i /\ s[k] = m
           f == [i \in A |-> F(i)]  n == Len(s)
<1>1. DOMAIN o = 1..Len(o) /\ DOMAIN s = 1..n /\ n \in Nat
  BY LenProperties
<1>2. ASSUME NEW i \in A PROVE F(i) \in B /\ to[F(i)] = -i /\ i \in Int
  <2>1. i \in 1..Len(o) /\ o[i] = m
    BY <1>1
  <2>2. \E k \in 1..Len(s) : to[k] = -i /\ s[k] = m
    BY <2>1
  <2>3. F(i) \in 1..Len(s) /\ to[F(i)] = -i /\ s[F(i)] = m
    BY <2>2
  <2>4. i \in Int
    <3>1. Len(o) \in Nat
      BY LenProperties
    <3> QED  BY <2>1, <3>1
  <2> QED  BY <1>1, <2>3, <2>4
<1> HIDE DEF F
<1>3. f \in [A -> B] /\ \A i \in A : f[i] = F(i)
  BY <1>2
<1>4. ASSUME NEW i \in A, NEW j \in A, f[i] = f[j] PROVE i = j
  <2>1. -i = -j /\ i \in Int /\ j \in Int
    <3>1. F(i) = F(j)
      BY <1>3, <1>4
    <3> QED  BY <1>2, <3>1
  <2> QED  BY <2>1
<1> HIDE DEF f
<1>5. f \in Injection(A, B)
  BY <1>3, <1>4 DEF Injection, IsInjective
<1>6. IsFiniteSet(B)
  <2>1. IsFiniteSet(1..n)
    <3>1. 1 \in Int /\ n \in Int
      BY <1>1
    <3> QED  BY <3>1, FS_Interval
  <2>2. B \in SUBSET (1..n)
    BY <1>1
  <2> QED  BY <2>1, <2>2, FS_Subset
<1> HIDE DEF A, B
<1>7. Cardinality(A) <= Cardinality(B)
  BY <1>5, <1>6, FS_Injection
<1> QED  BY <1>7 DEF Times, A, B

LEMMA OwnedNothingIsInvented == OwnedInv => NothingIsInvented
<1> SUFFICES ASSUME OwnedInv, seen \cap {"real time", "unsure"} = {},
                    NEW m \in Range(out),
                    m[1] \notin {Start, Stop} \/ "segment" \notin seen
             PROVE  Times(out, m) <= Times(sent, m)
  BY DEF NothingIsInvented
<1>1. Owned(net, sent, sysex, out, seen)
  BY DEF OwnedInv, Sound
<1>2. PICK to, nth, x : Ownership(net, sent, sysex, out, seen, to, nth, x)
  BY <1>1 DEF Owned
<1>3. out \in Seq(Bytes) /\ sent \in Seq(Bytes) /\ to \in [Nat -> Int]
  BY <1>1, <1>2 DEF Owned, Ownership
<1>4. Intact(seen) \/ ~Mark(m)
  BY DEF Intact, Mark
<1>5. \A i \in 1..Len(out) : out[i] = m => \E k \in 1..Len(sent) : to[k] = -i /\ sent[k] = m
  <2>1. OutOwned(out, sent, to, seen)
    BY <1>2 DEF Ownership
  <2> QED  BY <1>4, <2>1 DEF OutOwned
<1> QED  BY <1>3, <1>5, TimesOwned

\* The inductive invariant, with losses and reordering: each message that came
\* out of parse_midi, and each one that a packet under way carries, has a
\* message of its own among those that were sent, and the two have the same
\* bytes; each packet is one that the sending half makes (send_midi, the
\* segments of ev_to_mididata_f), and until segments are lost they
\* lead the SysEx buffer of rtppeer_t from what it holds now to empty.  The
\* normalizer has read the first bytes of what the device is sending, or waits
\* for good with a buffer that is too long.
THEOREM MidiPathOwned == MSpec => []OwnedInv
<1>1. MInit => OwnedInv
  BY OwnedInit
<1>2. OwnedInv /\ [MNext]_vars => OwnedInv'
  BY OwnedStep
<1> QED  BY <1>1, <1>2, PTL DEF MSpec

\* However many packets are lost or overtake each other, and whatever is too
\* long for a packet: parse_midi passes no command on that was not sent, or more
\* often than it was sent, and no SysEx message either unless segments were lost
\* or overtook each other, after which parse_sysex may join what does not
\* belong together.
THEOREM MidiPathNothingIsInvented == MSpec => []NothingIsInvented
<1>1. OwnedInv => NothingIsInvented
  BY OwnedNothingIsInvented
<1> QED  BY <1>1, MidiPathOwned, PTL
=============================================================================
