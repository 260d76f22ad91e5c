--------------------------- MODULE RawMidiProofs ---------------------------
(***************************************************************************)
(* Raw MIDI devices behind the router, proved for every set of peers and   *)
(* every bound: a device is open only while it counts a session and is in  *)
(* the registry, so that its assertion never fails.  The router under them *)
(* keeps its own invariant, whatever the devices do.                       *)
(***************************************************************************)
EXTENDS RawMidi, MidiRouterProofs, FiniteSetTheorems, WellFoundedInduction

DevicesOK == /\ count \in [Raw -> Int]
             /\ fd \in [Raw -> {"closed", "open"}]

DInv == RInv /\ DevicesOK /\ OpenIsCounted /\ NeverAborts

LEMMA DInvInit == DInit => DInv
<1> SUFFICES ASSUME DInit PROVE DInv
  OBVIOUS
<1>1. RInv
  BY InitInv DEF DInit
<1> QED  BY <1>1 DEF DInit, DInv, DevicesOK, OpenIsCounted, NeverAborts

\* Only peers in the registry get events, each a number of times.
LEMMA CopiesCount ==
  ASSUME RInv, NEW o \in Obj, NEW r \in Raw
  PROVE  Copies(o, r) \in Nat /\ (Copies(o, r) > 0 => Live(r))
<1>1. r \in Obj
  BY KindsAssumption
<1>2. idOf[o] \in 0..MaxId /\ idOf[r] \in 0..MaxId /\ live \subseteq Id
  BY <1>1 DEF RInv, RTypeOK
<1>3. links \in [Id -> [Id -> Nat]]
  BY DEF RInv, RTypeOK
<1>4. CASE Live(o) /\ Live(r)
  BY <1>2, <1>3, <1>4 DEF Copies, Live
<1>5. CASE ~(Live(o) /\ Live(r))
  BY <1>5 DEF Copies
<1> QED  BY <1>4, <1>5

\* An event that is connected opens only devices that then count it.
LEMMA ConnectedDInv ==
  ASSUME DInv, NEW o \in Obj, NEW s, Connected(o, s), UNCHANGED rvars
  PROVE  DInv'
<1>1. \A r \in Raw : Copies(o, r) \in Nat /\ (Copies(o, r) > 0 => Live(r))
  BY CopiesCount DEF DInv
<1>2. PICK opens \in SUBSET Opening(o) : fd' = [r \in Raw |-> IF r \in opens THEN "open" ELSE fd[r]]
  BY DEF Connected
<1>3. count' = [r \in Raw |-> count[r] + Copies(o, r)]
  BY DEF Connected
<1>4. \A r \in opens : count[r] < 1 /\ count[r] + Copies(o, r) >= 1 /\ r \in Raw
  BY DEF Opening
<1>5. DevicesOK'
  BY <1>1, <1>2, <1>3 DEF DInv, DevicesOK
<1>6. RInv' /\ \A r \in Raw : Live(r)' = Live(r)
  BY DEF rvars, DInv, RInv, RTypeOK, NoDangling, IdsNameOneObject, IdsBelowMax,
         NeverHearsTooManyEnds, Live
<1>7. OpenIsCounted'
  BY <1>1, <1>2, <1>3, <1>4, <1>6 DEF DInv, DevicesOK, OpenIsCounted
<1>8. \A r \in Opening(o) : fd[r] # "open"
  BY DEF Opening, DInv, DevicesOK, OpenIsCounted
<1>9. NeverAborts'
  BY <1>8 DEF Connected, DInv, NeverAborts
<1> QED  BY <1>5, <1>6, <1>7, <1>9 DEF DInv

\* The end of a session closes every device that then counts none.
LEMMA DisconnectedDInv ==
  ASSUME DInv, NEW o \in Obj, NEW s, Disconnected(o, s), UNCHANGED rvars
  PROVE  DInv'
<1>1. \A r \in Raw : Copies(o, r) \in Nat
  BY CopiesCount DEF DInv
<1>2. /\ count' = [r \in Raw |-> count[r] - Copies(o, r)]
      /\ fd' = [r \in Raw |-> IF r \in Closing(o) THEN "closed" ELSE fd[r]]
      /\ aborted' = aborted
  BY DEF Disconnected
<1>3. DevicesOK'
  BY <1>1, <1>2 DEF DInv, DevicesOK
<1>4. RInv' /\ \A r \in Raw : Live(r)' = Live(r)
  BY DEF rvars, DInv, RInv, RTypeOK, NoDangling, IdsNameOneObject, IdsBelowMax,
         NeverHearsTooManyEnds, Live
<1>5. OpenIsCounted'
  BY <1>1, <1>2, <1>4 DEF DInv, DevicesOK, OpenIsCounted, Closing
<1> QED  BY <1>2, <1>3, <1>4, <1>5 DEF DInv, NeverAborts

\* Devices that leave the registry close; the others stay in it.
LEMMA DestroyDInv ==
  ASSUME DInv, RInv', UNCHANGED idOf, Destroy
  PROVE  DInv'
<1>1. /\ count' = [r \in Raw |-> IF Gone(r) THEN 0 ELSE count[r]]
      /\ fd' = [r \in Raw |-> IF Gone(r) THEN "closed" ELSE fd[r]]
      /\ aborted' = aborted
  BY DEF Destroy
<1>2. \A r \in Raw : Live(r) /\ ~Gone(r) => Live(r)'
  BY DEF Live, Gone
<1> QED  BY <1>1, <1>2 DEF DInv, DevicesOK, OpenIsCounted, NeverAborts

LEMMA DInvStep == DInv /\ [DNext]_dvars => DInv'
<1> SUFFICES ASSUME DInv, [DNext]_dvars PROVE DInv'
  OBVIOUS
<1>0. RInv
  BY DEF DInv
<1>1. CASE UNCHANGED dvars
  BY <1>1 DEF dvars, rvars, device, DInv, RInv, RTypeOK, NoDangling, IdsNameOneObject, IdsBelowMax,
              NeverHearsTooManyEnds, DevicesOK, OpenIsCounted, NeverAborts, Live
<1>2. ASSUME NEW o \in Obj, Add(o) PROVE DInv'
  <2>1. RInv'
    BY <1>0, <1>2, AddPeerInv DEF Add
  <2>2. \A r \in Raw : Live(r) => Live(r)'
    <3>1. \A r \in Raw : r \in Obj /\ idOf[r] \in 0..MaxId
      BY <1>0, KindsAssumption DEF RInv, RTypeOK
    <3>2. ASSUME NEW r \in Raw, Live(r) PROVE Live(r)'
      <4>1. idOf[r] \in Id
        BY <1>0, <3>2 DEF RInv, RTypeOK, Live
      <4>2. r # o
        BY <1>2, <4>1 DEF Add, AddPeer, Id
      <4> QED  BY <1>0, <1>2, <3>1, <3>2, <4>2 DEF Add, AddPeer, Live, RInv, RTypeOK
    <3> QED  BY <3>2
  <2>3. UNCHANGED <<count, fd, aborted>>
    BY <1>2 DEF Add, device
  <2> QED  BY <2>1, <2>2, <2>3 DEF DInv, DevicesOK, OpenIsCounted, NeverAborts
<1>3. ASSUME NEW i \in Id, NEW j \in Id, Wire(i, j) PROVE DInv'
  <2>1. RInv'
    BY <1>0, <1>3, ConnectInv, DisconnectInv DEF Wire
  <2>2. UNCHANGED <<idOf, live, count, fd, aborted>>
    BY <1>3 DEF Wire, Connect, Disconnect, registry
  <2> QED  BY <2>1, <2>2 DEF DInv, DevicesOK, OpenIsCounted, NeverAborts, Live
<1>4. ASSUME NEW i \in Id, RemovePeer(i), Destroy PROVE DInv'
  BY <1>0, <1>4, RemovePeerInv, DestroyDInv DEF RemovePeer
<1>5. ASSUME Clear, Destroy PROVE DInv'
  BY <1>0, <1>5, ClearInv, DestroyDInv DEF Clear
<1>6. ASSUME NEW n \in Listener, NEW s \in Sessions, ListenerSays(n, s) PROVE DInv'
  <2>1. n \in Obj /\ UNCHANGED rvars
    BY <1>6, KindsAssumption DEF ListenerSays
  <2>2. Connected(n, s) \/ Disconnected(n, s) \/ UNCHANGED device
    BY <1>6 DEF ListenerSays
  <2>3. CASE UNCHANGED device
    BY <2>1, <2>3 DEF rvars, device, DInv, RInv, RTypeOK, NoDangling, IdsNameOneObject,
                  IdsBelowMax, NeverHearsTooManyEnds, DevicesOK, OpenIsCounted, NeverAborts, Live
  <2> QED  BY <2>1, <2>2, <2>3, ConnectedDInv, DisconnectedDInv
<1>7. ASSUME NEW c \in Caller, CallerSays(c) PROVE DInv'
  BY <1>7, KindsAssumption, ConnectedDInv, DisconnectedDInv DEF CallerSays
<1> QED  BY <1>1, <1>2, <1>3, <1>4, <1>5, <1>6, <1>7 DEF DNext

THEOREM DevicesInvariant == DSpec => []DInv
  BY DInvInit, DInvStep, PTL DEF DSpec

\* The assertion of local_rawmidi_peer_t::open holds, in every order of sessions
\* that begin and end, wires and removals (src/local_rawmidi_peer.cpp, open).
THEOREM DevicesNeverAbort == DSpec => []NeverAborts
<1>1. DInv => NeverAborts
  BY DEF DInv
<1> QED  BY <1>1, DevicesInvariant, PTL

\* A device that is open counts a session and has not been removed
\* (src/local_rawmidi_peer.cpp, connected, disconnected, the destructor).
THEOREM DevicesOpenIsCounted == DSpec => []OpenIsCounted
<1>1. DInv => OpenIsCounted
  BY DEF DInv
<1> QED  BY <1>1, DevicesInvariant, PTL

-----------------------------------------------------------------------------
(* Sums.  A sum over a finite set takes its elements in an order of its own: *)
(* that no order matters is what makes the sum of a set with one element     *)
(* more, or less, what one expects.                                          *)

\* A set of naturals has a least element.
LEMMA Least ==
  ASSUME NEW T \in SUBSET Nat, T # {}
  PROVE  \E m \in T : \A k \in T : m <= k
<1>1. PICK m \in T : \A k \in T : ~(<<k, m>> \in OpToRel(<, Nat))
  BY NatLessThanWellFounded, WFMin
<1>2. \A k \in T : ~(k < m)
  BY <1>1 DEF OpToRel
<1> QED  BY <1>2

\* The sums of the subsets of S, as the library's fold defines them.
Adds(w, iter, S) ==
    iter = [s \in SUBSET S |-> IF s = {} THEN 0
                               ELSE LET x == CHOOSE x \in s : TRUE IN w[x] + iter[s \ {x}]]

\* The subsets of S, and how many elements they have.
Counted(S) ==
    /\ Cardinality(S) \in Nat
    /\ \A s \in SUBSET S : Cardinality(s) \in Nat /\ Cardinality(s) <= Cardinality(S)
    /\ \A s \in SUBSET S : Cardinality(s) = 0 => s = {}
    /\ \A s \in SUBSET S : \A x \in s : Cardinality(s \ {x}) = Cardinality(s) - 1

LEMMA SubsetsCount ==
  ASSUME NEW S, IsFiniteSet(S)
  PROVE  Counted(S)
<1>1. ASSUME NEW s \in SUBSET S
      PROVE  /\ IsFiniteSet(s) /\ Cardinality(s) \in Nat /\ Cardinality(s) <= Cardinality(S)
             /\ Cardinality(s) = 0 => s = {}
  BY FS_Subset, FS_CardinalityType, FS_EmptySet
<1>2. ASSUME NEW s \in SUBSET S, NEW x \in s
      PROVE  Cardinality(s \ {x}) = Cardinality(s) - 1
  BY <1>1, FS_RemoveElement
<1> QED  BY <1>1, <1>2, FS_CardinalityType DEF Counted

\* One element of a set.
Pick(s) == CHOOSE x \in s : TRUE

LEMMA PickIs == ASSUME NEW s, s # {} PROVE Pick(s) \in s
BY DEF Pick

\* The sums of the subsets of S that have n elements at most.
Upto(S, n) == {s \in SUBSET S : Cardinality(s) <= n}
Step(w, f, s) == IF s = {} THEN 0 ELSE w[Pick(s)] + f[s \ {Pick(s)}]
Part(w, S, f, n) == f = [s \in Upto(S, n) |-> Step(w, f, s)]

LEMMA PartExists ==
  ASSUME NEW w, NEW S, IsFiniteSet(S), NEW n \in Nat
  PROVE  \E f : Part(w, S, f, n)
<1>c. Counted(S)
  BY SubsetsCount
<1> DEFINE Bad == {m \in Nat : \A f : ~Part(w, S, f, m)}
<1> SUFFICES ASSUME Bad # {} PROVE FALSE
  OBVIOUS
<1>1. PICK m \in Bad : \A k \in Bad : m <= k
  <2>1. Bad \in SUBSET Nat
    OBVIOUS
  <2> HIDE DEF Bad
  <2> QED  BY <2>1, Least
<1>2. m \in Nat /\ \A f : ~Part(w, S, f, m)
  BY <1>1
<1>3. CASE m = 0
  <2> DEFINE f == [s \in Upto(S, 0) |-> 0]
  <2>1. \A s \in Upto(S, 0) : s = {}
    BY <1>c DEF Counted, Upto
  <2>2. \A s \in Upto(S, 0) : Step(w, f, s) = 0
    BY <2>1 DEF Step
  <2>3. f = [s \in Upto(S, 0) |-> Step(w, f, s)]
    BY <2>2
  <2>4. Part(w, S, f, 0)
    BY <2>3 DEF Part
  <2> QED  BY <1>2, <1>3, <2>4
<1>4. CASE m # 0
  <2>1. m - 1 \in Nat /\ m - 1 \notin Bad
    BY <1>1, <1>2, <1>4
  <2>2. PICK f : Part(w, S, f, m - 1)
    BY <2>1
  <2> DEFINE g == [s \in Upto(S, m) |-> Step(w, f, s)]
  <2>3. ASSUME NEW s \in Upto(S, m), s # {} PROVE g[s \ {Pick(s)}] = f[s \ {Pick(s)}]
    <3>1. Pick(s) \in s
      BY <2>3, PickIs
    <3> DEFINE t == s \ {Pick(s)}
    <3>2. t \in SUBSET S /\ Cardinality(t) = Cardinality(s) - 1 /\ Cardinality(s) \in Nat /\ Cardinality(s) <= m
      BY <3>1, <1>c DEF Counted, Upto
    <3>3. t \in Upto(S, m - 1) /\ t \in Upto(S, m)
      BY <1>2, <3>2 DEF Upto
    <3> HIDE DEF t
    <3>4. f[t] = Step(w, f, t)
      BY <2>2, <3>3 DEF Part
    <3> QED  BY <3>3, <3>4 DEF t
  <2>4. ASSUME NEW s \in Upto(S, m) PROVE Step(w, g, s) = Step(w, f, s)
    <3> HIDE DEF g
    <3>1. CASE s = {}
      BY <3>1 DEF Step
    <3>2. CASE s # {}
      BY <2>3, <3>2 DEF Step
    <3> QED  BY <3>1, <3>2
  <2>5. g = [s \in Upto(S, m) |-> Step(w, g, s)]
    BY <2>4
  <2>6. Part(w, S, g, m)
    BY <2>5 DEF Part
  <2> QED  BY <1>2, <2>6
<1> QED  BY <1>3, <1>4

\* The fold of the library sums up something.
LEMMA SumExists ==
  ASSUME NEW w, NEW S, IsFiniteSet(S)
  PROVE  \E f : Adds(w, f, S)
<1>c. Counted(S)
  BY SubsetsCount
<1>1. Cardinality(S) \in Nat /\ Upto(S, Cardinality(S)) = SUBSET S
  BY <1>c DEF Counted, Upto
<1>2. PICK f : Part(w, S, f, Cardinality(S))
  BY <1>1, PartExists
<1>3. f = [s \in SUBSET S |-> Step(w, f, s)]
  BY <1>1, <1>2 DEF Part
<1>4. Adds(w, f, S)
  BY <1>3 DEF Adds, Step, Pick
<1> QED  BY <1>4

\* Whatever element is taken first: the sum is its weight and the sum of the rest.
Takes(w, f, s) == f[s] \in Int /\ \A x \in s : f[s] = w[x] + f[s \ {x}]

LEMMA SumTakes ==
  ASSUME NEW S, IsFiniteSet(S), NEW w, \A x \in S : w[x] \in Int, NEW f, Adds(w, f, S)
  PROVE  f[{}] = 0 /\ \A s \in SUBSET S : Takes(w, f, s)
<1>c. Counted(S)
  BY SubsetsCount
<1> DEFINE Bad == {n \in Nat : \E s \in SUBSET S : Cardinality(s) = n /\ ~Takes(w, f, s)}
<1>0. f[{}] = 0
  BY DEF Adds
<1>1. Bad = {}
  <2> SUFFICES ASSUME Bad # {} PROVE FALSE
    OBVIOUS
  <2>1. PICK m \in Bad : \A k \in Bad : m <= k
    <3>1. Bad \in SUBSET Nat
      OBVIOUS
    <3> HIDE DEF Bad
    <3> QED  BY <3>1, Least
  <2>2. PICK s \in SUBSET S : Cardinality(s) = m /\ ~Takes(w, f, s)
    BY <2>1
  <2>3. ASSUME NEW t \in SUBSET S, Cardinality(t) < m PROVE Takes(w, f, t)
    <3>1. Cardinality(t) \in Nat
      BY <1>c DEF Counted
    <3> QED  BY <2>1, <2>3, <3>1
  <2>4. s # {}
    BY <1>0, <2>2 DEF Takes
  <2>5. Pick(s) \in s /\ f[s] = w[Pick(s)] + f[s \ {Pick(s)}]
    BY <2>4, PickIs DEF Adds, Pick
  <2>6. ASSUME NEW y \in s PROVE s \ {y} \in SUBSET S /\ Takes(w, f, s \ {y}) /\ Cardinality(s \ {y}) = m - 1
    <3>1. s \ {y} \in SUBSET S /\ Cardinality(s \ {y}) = m - 1
      BY <2>2, <1>c DEF Counted
    <3> QED  BY <2>1, <2>3, <3>1
  <2>7. f[s] \in Int
    <3>1. f[s \ {Pick(s)}] \in Int /\ w[Pick(s)] \in Int
      BY <2>5, <2>6 DEF Takes
    <3> QED  BY <2>5, <3>1
  <2>8. ASSUME NEW y \in s, y # Pick(s) PROVE f[s] = w[y] + f[s \ {y}]
    <3> DEFINE x == Pick(s)
               u == s \ {x}
               v == s \ {y}
    <3>1. x \in s /\ y \in u /\ x \in v /\ u \ {y} = v \ {x}
      BY <2>5, <2>8
    <3>2. Takes(w, f, u) /\ Takes(w, f, v)
      BY <2>6, <3>1
    <3> HIDE DEF x, u, v
    <3>3. f[u] = w[y] + f[u \ {y}] /\ f[v] = w[x] + f[u \ {y}]
      BY <3>1, <3>2 DEF Takes
    <3>4. f[u \ {y}] \in Int
      <4>1. u \in SUBSET S /\ Cardinality(u) = m - 1
        BY <2>6, <3>1 DEF u
      <4>2. u \ {y} \in SUBSET S /\ Cardinality(u \ {y}) = (m - 1) - 1
        BY <3>1, <4>1, <1>c DEF Counted
      <4> QED  BY <2>1, <2>3, <4>2 DEF Takes
    <3>5. w[x] \in Int /\ w[y] \in Int
      BY <3>1
    <3>6. f[s] = w[x] + f[u]
      BY <2>5 DEF x, u
    <3>7. f[s] = w[y] + f[v]
      BY <3>3, <3>4, <3>5, <3>6
    <3> QED  BY <3>7 DEF v
  <2>9. \A y \in s : f[s] = w[y] + f[s \ {y}]
    BY <2>5, <2>8
  <2> QED  BY <2>2, <2>7, <2>9 DEF Takes
<1>2. \A s \in SUBSET S : Takes(w, f, s)
  BY <1>1, <1>c DEF Counted
<1> QED  BY <1>0, <1>2
\* Equal weights make equal sums, and so does a part of them.
LEMMA SumOfPart ==
  ASSUME NEW S, IsFiniteSet(S), NEW w, NEW f, Adds(w, f, S),
         NEW T \in SUBSET S, NEW v, NEW g, Adds(v, g, T), \A x \in T : v[x] = w[x]
  PROVE  f[T] = g[T]
<1> DEFINE Bad == {n \in Nat : \E s \in SUBSET T : Cardinality(s) = n /\ f[s] # g[s]}
<1>c. Counted(S)
  BY SubsetsCount
<1>1. Bad = {}
  <2> SUFFICES ASSUME Bad # {} PROVE FALSE
    OBVIOUS
  <2>1. PICK m \in Bad : \A k \in Bad : m <= k
    <3>1. Bad \in SUBSET Nat
      OBVIOUS
    <3> HIDE DEF Bad
    <3> QED  BY <3>1, Least
  <2>2. PICK s \in SUBSET T : Cardinality(s) = m /\ f[s] # g[s]
    BY <2>1
  <2>3. ASSUME NEW t \in SUBSET T, Cardinality(t) < m PROVE f[t] = g[t]
    <3>1. Cardinality(t) \in Nat
      BY <1>c DEF Counted
    <3> QED  BY <2>1, <2>3, <3>1
  <2>4. s # {}
    BY <2>2 DEF Adds
  <2> DEFINE t == s \ {Pick(s)}
  <2>5. Pick(s) \in s /\ f[s] = w[Pick(s)] + f[t] /\ g[s] = v[Pick(s)] + g[t]
    BY <2>4, PickIs DEF Adds, Pick
  <2>6. t \in SUBSET T /\ Cardinality(t) = m - 1 /\ m \in Nat
    BY <2>1, <2>2, <2>5, <1>c DEF Counted
  <2>7. f[t] = g[t]
    BY <2>3, <2>6
  <2> QED  BY <2>2, <2>5, <2>7
<1> QED  BY <1>1, <1>c DEF Counted

\* The sum of a function is one of its sums.
LEMMA SumIs ==
  ASSUME NEW S, IsFiniteSet(S), NEW w \in [S -> Int]
  PROVE  \E f : Adds(w, f, S) /\ SumFunction(w) = f[S]
<1>1. SumFunction(w) = (CHOOSE f : Adds(w, f, S))[S]
  BY DEF SumFunction, SumFunctionOnSet, FoldFunctionOnSet, MapThenFoldSet, Adds
<1>2. Adds(w, CHOOSE f : Adds(w, f, S), S)
  BY SumExists
<1> QED  BY <1>1, <1>2

LEMMA SumOfNone == ASSUME NEW w \in [{} -> Int] PROVE SumFunction(w) = 0
<1>1. PICK f : Adds(w, f, {}) /\ SumFunction(w) = f[{}]
  BY SumIs, FS_EmptySet
<1> QED  BY <1>1 DEF Adds

\* One element more.
LEMMA SumGrows ==
  ASSUME NEW S, IsFiniteSet(S), NEW y, y \notin S,
         NEW v \in [S -> Int], NEW w \in [S \cup {y} -> Int], \A x \in S : v[x] = w[x]
  PROVE  SumFunction(v) \in Int /\ SumFunction(w) = w[y] + SumFunction(v)
<1> DEFINE T == S \cup {y}
<1>1. IsFiniteSet(T) /\ y \in T /\ T \ {y} = S /\ S \in SUBSET T
  BY FS_AddElement
<1>2. PICK g : Adds(v, g, S) /\ SumFunction(v) = g[S]
  BY SumIs
<1> HIDE DEF T
<1>3. w \in [T -> Int]
  BY DEF T
<1>4. PICK f : Adds(w, f, T) /\ SumFunction(w) = f[T]
  BY <1>1, <1>3, SumIs
<1>5. Takes(w, f, T) /\ Takes(v, g, S)
  BY <1>1, <1>2, <1>3, <1>4, SumTakes
<1>6. f[S] = g[S]
  BY <1>1, <1>2, <1>4, SumOfPart
<1> QED  BY <1>1, <1>2, <1>4, <1>5, <1>6 DEF Takes

-----------------------------------------------------------------------------
(* What a device counts.  The sum over its sessions follows each of them: it *)
(* takes all of the above, and that the sessions it was told of are finitely *)
(* many at any time.                                                         *)

SaidOK == DOMAIN said = Listener /\ \A n \in Listener : said[n] \in [Sessions -> Life(n)!Phase]
UpOK   == /\ up \in [Raw -> SUBSET (Obj \X (Sessions \cup {0}))]
          /\ \A r \in Raw : IsFiniteSet(up[r])
          /\ disturbed \subseteq Raw

KInv == DInv /\ SaidOK /\ UpOK /\ aborted \in BOOLEAN /\ CountsItsSessions

\* What a device counts for its sessions, as a function.
LEMMA WiresAreCounts ==
  ASSUME RInv, UpOK, NEW r \in Raw
  PROVE  Wires(r) \in [up[r] -> Int]
<1>1. \A u \in up[r] : u[1] \in Obj
  BY DEF UpOK
<1> QED  BY <1>1, CopiesCount DEF Wires

LEMMA KInvInit == DInit => KInv
<1> SUFFICES ASSUME DInit PROVE KInv
  OBVIOUS
<1>1. DInv /\ aborted \in BOOLEAN
  BY DInvInit DEF DInit
<1>2. SaidOK
  BY DEF DInit, SaidOK, Life!Phase
<1>3. UpOK
  BY FS_EmptySet DEF DInit, UpOK
<1>4. CountsItsSessions
  <2>1. \A r \in Raw : count[r] = 0 /\ up[r] = {}
    BY DEF DInit
  <2>2. ASSUME NEW r \in Raw PROVE Wires(r) \in [{} -> Int]
    BY <2>1 DEF Wires
  <2> QED  BY <2>1, <2>2, SumOfNone DEF CountsItsSessions
<1> QED  BY <1>1, <1>2, <1>3, <1>4 DEF KInv

\* Sessions that no device was told anything more of, over wires that stay, or
\* that it is marked for.
LEMMA CountsWhereNothingIsSaid ==
  ASSUME KInv, NEW r \in Raw \ disturbed, count'[r] = count[r], up'[r] = up[r],
         \A o \in Up(r) : Copies(o, r)' = Copies(o, r)
  PROVE  count'[r] = SumFunction(Wires(r)')
<1>1. \A u \in up[r] : u[1] \in Up(r)
  BY DEF KInv, UpOK, Up
<1>2. Wires(r)' = Wires(r)
  BY <1>1 DEF Wires
<1> QED  BY <1>2 DEF KInv, CountsItsSessions

\* A session that begins.
LEMMA KInvConnected ==
  ASSUME KInv, NEW o \in Obj, NEW s \in Sessions \cup {0}, Connected(o, s), UNCHANGED rvars
  PROVE  UpOK' /\ aborted' \in BOOLEAN /\ CountsItsSessions'
<1>1. /\ up' = [r \in Raw |-> IF r \in Hearers(o) THEN up[r] \cup {<<o, s>>} ELSE up[r]]
      /\ disturbed' = disturbed \cup {r \in Hearers(o) : <<o, s>> \in up[r]}
      /\ count' = [r \in Raw |-> count[r] + Copies(o, r)]
  BY DEF Connected
<1>2. UpOK'
  <2>1. \A r \in Raw : IsFiniteSet(up[r] \cup {<<o, s>>})
    BY FS_AddElement DEF KInv, UpOK
  <2>2. <<o, s>> \in Obj \X (Sessions \cup {0})
    OBVIOUS
  <2>3. Hearers(o) \subseteq Raw
    BY DEF Hearers
  <2> HIDE DEF DInv
  <2> QED  BY <1>1, <2>1, <2>2, <2>3 DEF KInv, UpOK
<1>3. \A p, r : Copies(p, r)' = Copies(p, r)
  BY DEF rvars, Copies, Live
<1>4. ASSUME NEW r \in Raw \ disturbed' PROVE count'[r] = SumFunction(Wires(r)')
  <2>0. r \in Raw \ disturbed /\ RInv
    BY <1>1, <1>4 DEF KInv, DInv
  <2>1. Copies(o, r) \in Nat /\ count[r] \in Int
    BY <2>0, CopiesCount DEF KInv, DInv, DevicesOK
  <2>2. CASE Copies(o, r) = 0
    <3>1. count'[r] = count[r] /\ up'[r] = up[r]
      BY <1>1, <2>1, <2>2 DEF Hearers
    <3> QED  BY <1>3, <2>0, <3>1, CountsWhereNothingIsSaid
  <2>3. CASE Copies(o, r) # 0
    <3>1. r \in Hearers(o)
      BY <2>1, <2>3 DEF Hearers
    <3> DEFINE y == <<o, s>>
               v == Wires(r)
               w == Wires(r)'
    <3>2. y \notin up[r] /\ up'[r] = up[r] \cup {y} /\ IsFiniteSet(up[r])
      BY <1>1, <1>4, <3>1 DEF KInv, UpOK
    <3>3. v \in [up[r] -> Int]
      BY <2>0, WiresAreCounts DEF KInv
    <3>4. /\ w = [u \in up[r] \cup {y} |-> Copies(u[1], r)]
          /\ \A x \in up[r] : v[x] = w[x]
          /\ w[y] = Copies(o, r)
      BY <1>3, <3>2 DEF Wires
    <3> HIDE DEF v, w, y
    <3>5. w \in [up[r] \cup {y} -> Int]
      <4>1. \A x \in up[r] : w[x] \in Int
        BY <3>3, <3>4
      <4> QED  BY <2>1, <3>4, <4>1
    <3>6. SumFunction(v) \in Int /\ SumFunction(w) = w[y] + SumFunction(v)
      <4> DEFINE S == up[r]
      <4>1. IsFiniteSet(S) /\ y \notin S /\ \A x \in S : v[x] = w[x]
        BY <3>2, <3>4
      <4>2. v \in [S -> Int] /\ w \in [S \cup {y} -> Int]
        BY <3>3, <3>5
      <4> HIDE DEF S
      <4> QED  BY <4>1, <4>2, SumGrows
    <3>7. count[r] = SumFunction(v)
      BY <2>0 DEF KInv, CountsItsSessions, v
    <3> QED  BY <1>1, <2>0, <2>1, <3>4, <3>6, <3>7 DEF w
  <2> QED  BY <2>2, <2>3
<1>5. aborted' \in BOOLEAN
  BY DEF Connected
<1> QED  BY <1>2, <1>4, <1>5 DEF CountsItsSessions

\* A session that ends.
LEMMA KInvDisconnected ==
  ASSUME KInv, NEW o \in Obj, NEW s \in Sessions \cup {0}, Disconnected(o, s), UNCHANGED rvars
  PROVE  UpOK' /\ aborted' \in BOOLEAN /\ CountsItsSessions'
<1>1. /\ up' = [r \in Raw |-> IF r \in Hearers(o) THEN up[r] \ {<<o, s>>} ELSE up[r]]
      /\ disturbed' = disturbed \cup {r \in Hearers(o) : <<o, s>> \notin up[r]}
      /\ count' = [r \in Raw |-> count[r] - Copies(o, r)]
  BY DEF Disconnected
<1>2. UpOK'
  <2>1. \A r \in Raw : IsFiniteSet(up[r] \ {<<o, s>>})
    BY FS_RemoveElement DEF KInv, UpOK
  <2>3. Hearers(o) \subseteq Raw
    BY DEF Hearers
  <2> QED  BY <1>1, <2>1, <2>3 DEF KInv, UpOK
<1>3. \A p, r : Copies(p, r)' = Copies(p, r)
  BY DEF rvars, Copies, Live
<1>4. ASSUME NEW r \in Raw \ disturbed' PROVE count'[r] = SumFunction(Wires(r)')
  <2>0. r \in Raw \ disturbed /\ RInv
    BY <1>1, <1>4 DEF KInv, DInv
  <2>1. Copies(o, r) \in Nat /\ count[r] \in Int
    BY <2>0, CopiesCount DEF KInv, DInv, DevicesOK
  <2>2. CASE Copies(o, r) = 0
    <3>1. count'[r] = count[r] /\ up'[r] = up[r]
      BY <1>1, <2>1, <2>2 DEF Hearers
    <3> QED  BY <1>3, <2>0, <3>1, CountsWhereNothingIsSaid
  <2>3. CASE Copies(o, r) # 0
    <3>1. r \in Hearers(o)
      BY <2>1, <2>3 DEF Hearers
    <3> DEFINE y == <<o, s>>
               v == Wires(r)'
               w == Wires(r)
               S == up'[r]
    <3>2. y \in up[r] /\ S = up[r] \ {y} /\ IsFiniteSet(S)
      BY <1>1, <1>2, <1>4, <3>1 DEF UpOK
    <3>3. w \in [up[r] -> Int] /\ w[y] = Copies(o, r)
      BY <2>0, <3>2, WiresAreCounts DEF KInv, Wires
    <3>4. /\ v = [u \in S |-> Copies(u[1], r)]
          /\ \A x \in S : v[x] = w[x]
      BY <1>3, <3>2 DEF Wires
    <3> HIDE DEF v, w, y, S
    <3>5. v \in [S -> Int] /\ w \in [S \cup {y} -> Int] /\ y \notin S
      <4>1. \A x \in S : v[x] \in Int
        BY <3>2, <3>3, <3>4
      <4>2. up[r] = S \cup {y}
        BY <3>2
      <4> QED  BY <3>2, <3>3, <3>4, <4>1, <4>2
    <3>8. IsFiniteSet(S) /\ \A x \in S : v[x] = w[x]
      BY <3>2, <3>4
    <3>6. SumFunction(v) \in Int /\ SumFunction(w) = w[y] + SumFunction(v)
      BY <3>5, <3>8, SumGrows
    <3>7. count[r] = SumFunction(w)
      BY <2>0 DEF KInv, CountsItsSessions, w
    <3> QED  BY <1>1, <2>0, <2>1, <3>3, <3>6, <3>7 DEF v
  <2> QED  BY <2>2, <2>3
<1>5. aborted' \in BOOLEAN
  BY DEF Disconnected, KInv
<1> QED  BY <1>2, <1>4, <1>5 DEF CountsItsSessions

\* A peer that joins has no wires yet.
LEMMA AddKeepsCopies ==
  ASSUME RInv, NEW o \in Obj, AddPeer(o), NEW p \in Obj, NEW r \in Obj
  PROVE  Copies(p, r)' = Copies(p, r)
<1>1. /\ idOf[o] = 0 /\ maxId \in Id /\ links' = links
      /\ idOf' = [idOf EXCEPT ![o] = maxId] /\ live' = live \cup {maxId}
  BY DEF AddPeer, wiring
<1>2. maxId \notin live
  BY DEF RInv, RTypeOK, IdsNameOneObject, IdsBelowMax
<1>3. \A i \in Id : links[maxId][i] = 0 /\ links[i][maxId] = 0
  <2>1. \A i, j \in Id : links[i][j] \in Nat
    BY DEF RInv, RTypeOK
  <2> QED  BY <1>1, <1>2, <2>1 DEF RInv, NoDangling
<1>4. ASSUME NEW q \in Obj
      PROVE  /\ idOf[q] \in live => idOf'[q] = idOf[q] /\ idOf'[q] \in live'
             /\ idOf[q] \notin live /\ idOf'[q] \in live' => idOf'[q] = maxId
  <2>1. 0 \notin live /\ live \subseteq Id /\ idOf \in [Obj -> 0..MaxId]
    BY DEF RInv, RTypeOK, Id
  <2> QED  BY <1>1, <2>1
<1>5. CASE Live(p) /\ Live(r)
  BY <1>1, <1>4, <1>5 DEF Copies, Live
<1>6. CASE ~(Live(p) /\ Live(r))
  <2>1. Copies(p, r) = 0
    BY <1>6 DEF Copies
  <2>2. CASE ~(Live(p)' /\ Live(r)')
    BY <2>1, <2>2 DEF Copies
  <2>3. CASE Live(p)' /\ Live(r)'
    <3>1. idOf'[p] \in Id /\ idOf'[r] \in Id /\ (idOf'[p] = maxId \/ idOf'[r] = maxId)
      BY <1>1, <1>4, <1>6, <2>3 DEF Live, RInv, RTypeOK
    <3>2. Copies(p, r)' = links[idOf'[p]][idOf'[r]]
      BY <1>1, <2>3 DEF Copies
    <3> QED  BY <1>3, <2>1, <3>1, <3>2
  <2> QED  BY <2>2, <2>3
<1> QED  BY <1>5, <1>6

\* Changes of the wires: the devices they matter to are marked.
LEMMA KInvDisturb ==
  ASSUME KInv, DInv', Disturb, UNCHANGED <<said, aborted>>,
         \A r \in Raw : \/ up'[r] = up[r] /\ count'[r] = count[r]
                        \/ up'[r] = {} /\ count'[r] = 0,
         DOMAIN up' = Raw, up' = [r \in Raw |-> up'[r]]
  PROVE  KInv'
<1>1. disturbed' = disturbed \cup {r \in Raw : \E o \in Up(r) : Copies(o, r) # Copies(o, r)'}
  BY DEF Disturb
<1>2. UpOK'
  BY <1>1, FS_EmptySet DEF KInv, UpOK
<1>3. ASSUME NEW r \in Raw \ disturbed' PROVE count'[r] = SumFunction(Wires(r)')
  <2>1. CASE up'[r] = up[r] /\ count'[r] = count[r]
    <3>1. r \in Raw \ disturbed /\ \A o \in Up(r) : Copies(o, r)' = Copies(o, r)
      BY <1>1, <1>3
    <3> QED  BY <2>1, <3>1, CountsWhereNothingIsSaid
  <2>2. CASE up'[r] = {} /\ count'[r] = 0
    <3>1. Wires(r)' \in [{} -> Int]
      BY <2>2 DEF Wires
    <3> QED  BY <2>2, <3>1, SumOfNone
  <2> QED  BY <1>3, <2>1, <2>2
<1>4. SaidOK' /\ aborted' \in BOOLEAN
  BY DEF KInv, SaidOK, Life!Phase
<1> QED  BY <1>2, <1>3, <1>4 DEF KInv, CountsItsSessions

LEMMA KInvDestroy ==
  ASSUME KInv, DInv', Destroy
  PROVE  KInv'
<1>1. /\ count' = [r \in Raw |-> IF Gone(r) THEN 0 ELSE count[r]]
      /\ up' = [r \in Raw |-> IF Gone(r) THEN {} ELSE up[r]]
      /\ Disturb /\ UNCHANGED <<said, aborted>>
  BY DEF Destroy
<1>2. \A r \in Raw : \/ up'[r] = up[r] /\ count'[r] = count[r]
                     \/ up'[r] = {} /\ count'[r] = 0
  BY <1>1
<1>3. DOMAIN up' = Raw /\ up' = [r \in Raw |-> up'[r]]
  BY <1>1
<1> QED  BY <1>1, <1>2, <1>3, KInvDisturb

LEMMA KInvStep == KInv /\ [DNext]_dvars => KInv'
<1> SUFFICES ASSUME KInv, [DNext]_dvars PROVE KInv'
  OBVIOUS
<1>0. DInv /\ RInv /\ DInv'
  BY DInvStep DEF KInv, DInv
<1>1. CASE UNCHANGED dvars
  <2>1. \A r : Wires(r)' = Wires(r)
    BY <1>1 DEF dvars, rvars, device, Wires, Copies, Live
  <2> QED  BY <1>0, <1>1, <2>1 DEF dvars, device, KInv, SaidOK, Life!Phase, UpOK, CountsItsSessions
<1>2. ASSUME NEW o \in Obj, Add(o) PROVE KInv'
  <2>1. AddPeer(o) /\ UNCHANGED <<said, count, fd, aborted, up, disturbed>>
    BY <1>2 DEF Add, device
  <2>2. ASSUME NEW r \in Raw \ disturbed PROVE count'[r] = SumFunction(Wires(r)')
    <3>1. r \in Obj /\ Up(r) \subseteq Obj
      BY KindsAssumption DEF Up
    <3>2. \A p \in Up(r) : Copies(p, r)' = Copies(p, r)
      BY <1>0, <2>1, <3>1, AddKeepsCopies
    <3> QED  BY <2>1, <3>2, CountsWhereNothingIsSaid
  <2> QED  BY <1>0, <2>1, <2>2 DEF KInv, SaidOK, Life!Phase, UpOK, CountsItsSessions
<1>3. ASSUME NEW i \in Id, NEW j \in Id, Wire(i, j) PROVE KInv'
  <2>1. Disturb /\ UNCHANGED <<said, count, fd, aborted, up>>
    BY <1>3 DEF Wire
  <2>2. DOMAIN up' = Raw /\ up' = [r \in Raw |-> up'[r]]
    BY <2>1 DEF KInv, UpOK
  <2> QED  BY <1>0, <2>1, <2>2, KInvDisturb
<1>4. ASSUME Destroy PROVE KInv'
  BY <1>0, <1>4, KInvDestroy
<1>5. ASSUME NEW o \in Obj, NEW s \in Sessions \cup {0}, Connected(o, s) \/ Disconnected(o, s),
             UNCHANGED rvars, SaidOK'
      PROVE  KInv'
  BY <1>0, <1>5, KInvConnected, KInvDisconnected DEF KInv
<1>6. ASSUME NEW n \in Listener, NEW s \in Sessions, ListenerSays(n, s) PROVE KInv'
  <2>1. n \in Obj /\ UNCHANGED rvars
    BY <1>6, KindsAssumption DEF ListenerSays
  <2>2. PICK p \in Life(n)!Phase :
            /\ said' = [said EXCEPT ![n][s] = p]
            /\ Connected(n, s) \/ Disconnected(n, s) \/ UNCHANGED device
    BY <1>6 DEF ListenerSays
  <2>3. SaidOK'
    BY <2>2 DEF KInv, SaidOK, Life!Phase
  <2>4. CASE UNCHANGED device
    <3>1. \A r : Wires(r)' = Wires(r)
      BY <2>1, <2>4 DEF rvars, device, Wires, Copies, Live
    <3> QED  BY <1>0, <2>3, <2>4, <3>1 DEF device, KInv, UpOK, CountsItsSessions
  <2> QED  BY <1>5, <2>1, <2>2, <2>3, <2>4
<1>7. ASSUME NEW c \in Caller, CallerSays(c) PROVE KInv'
  <2>1. c \in Obj /\ UNCHANGED rvars /\ said' = said
    BY <1>7, KindsAssumption DEF CallerSays
  <2>2. Connected(c, 0) \/ Disconnected(c, 0)
    BY <1>7 DEF CallerSays
  <2>3. SaidOK'
    BY <2>1 DEF KInv, SaidOK, Life!Phase
  <2> QED  BY <1>5, <2>1, <2>2, <2>3
<1> QED  BY <1>1, <1>2, <1>3, <1>4, <1>6, <1>7 DEF DNext

THEOREM DevicesKeepCount == DSpec => []KInv
  BY KInvInit, KInvStep, PTL DEF DSpec

\* A device whose sessions are each announced once counts these sessions, over
\* however many wires, and until the wires change: whatever other sessions begin
\* and end meanwhile (src/local_rawmidi_peer.cpp, connected, disconnected).
THEOREM DevicesCountSessions == DSpec => []CountsItsSessions
<1>1. KInv => CountsItsSessions
  BY DEF KInv
<1> QED  BY <1>1, DevicesKeepCount, PTL

\* Every variable keeps to its type, in whatever order peers, wires and sessions
\* come and go (src/local_rawmidi_peer.cpp).
THEOREM DevicesTypeCorrect == DSpec => []DTypeOK
<1>1. KInv => DTypeOK
  BY DEF KInv, DInv, RInv, DevicesOK, SaidOK, UpOK, DTypeOK
<1> QED  BY <1>1, DevicesKeepCount, PTL
=============================================================================
