-------------------------- MODULE EmulationProofs ---------------------------
(* Theorems about the two emulated extensions: for all sets of contexts,     *)
(* queues, kernels and events, every finite set of threads and of            *)
(* semaphores, whatever memory there is and whatever the bounds are.         *)
EXTENDS Emulation, SequenceTheorems, FiniteSetTheorems, WellFoundedInduction, TLAPS

-----------------------------------------------------------------------------
(* Unified shared memory: the inductive invariant. *)

OneToOne(v) == \A i, j \in DOMAIN v : v[i] = v[j] => i = j

\* The vectors list what the map has, each allocation once.
ListsAgree ==
    \A c \in Contexts :
        /\ DOMAIN svm[c] = DOMAIN AllocMap[c]
        /\ \A y \in Types : /\ Range(AllocVector[c][y]) = Allocated(c, {y})
                            /\ OneToOne(AllocVector[c][y])

\* A launch needs memory that is still allocated, of the kinds its kernel asked
\* for; once they are set, and no other launch has set more, the driver knows it.
LaunchesNeed ==
    \A t \in Threads :
        /\ call[t].next \in {"set", "enqueue"} => call[t].kind = "launch"
        /\ call[t].kind = "launch" =>
              /\ call[t].kernel \in Kernels /\ call[t].queue \in Queues
              /\ QueueContext[call[t].queue] = KernelContext[call[t].kernel]
              /\ call[t].needs \subseteq
                    Allocated(KernelContext[call[t].kernel], kernelInfo[call[t].kernel].indirect)
              /\ call[t].next = "enqueue" /\ call[t].fast =>
                    call[t].needs \subseteq execInfo[call[t].kernel]

FreesName ==
    \A t \in Threads :
        call[t].next \in {"finish", "free"} =>
            call[t].kind = "free" /\ call[t].context \in Contexts

Inv == TypeOK /\ ListsAgree /\ LaunchesNeed /\ FreesName /\ OneKindIsVisible /\ BlockingFreeWaits

-----------------------------------------------------------------------------
(* Maps and vectors. *)

LEMMA Inserted ==
  ASSUME NEW V, NEW f, NEW x, NEW value, f \in Maps(V), x \in Addresses, value \in V
  PROVE  /\ Insert(f, x, value) \in Maps(V)
         /\ \A y : y \in DOMAIN Insert(f, x, value) <=> y \in DOMAIN f \/ y = x
         /\ \A y : y \in DOMAIN f \/ y = x =>
                  Insert(f, x, value)[y] = IF y = x THEN value ELSE f[y]
  <1> PICK D \in SUBSET Addresses : f \in [D -> V]
    BY DEF Maps
  <1>1. Insert(f, x, value) \in [D \cup {x} -> V]
    BY DEF Insert
  <1>2. D \cup {x} \in SUBSET Addresses
    OBVIOUS
  <1> QED BY <1>1, <1>2 DEF Insert, Maps

LEMMA Erased ==
  ASSUME NEW V, NEW f \in Maps(V), NEW x
  PROVE  /\ Erase(f, x) \in Maps(V)
         /\ DOMAIN Erase(f, x) = DOMAIN f \ {x}
         /\ \A y \in DOMAIN f \ {x} : Erase(f, x)[y] = f[y]
  <1> PICK D \in SUBSET Addresses : f \in [D -> V]
    BY DEF Maps
  <1>1. Erase(f, x) \in [D \ {x} -> V]
    BY DEF Erase
  <1>2. D \ {x} \in SUBSET Addresses
    OBVIOUS
  <1> QED BY <1>1, <1>2 DEF Erase, Maps

LEMMA Appended ==
  ASSUME NEW S, NEW v \in Seq(S), NEW x \in S, x \notin Range(v), OneToOne(v)
  PROVE  /\ Append(v, x) \in Seq(S) /\ OneToOne(Append(v, x))
         /\ Range(Append(v, x)) = Range(v) \cup {x}
  <1> DEFINE w == Append(v, x)
  <1>1. /\ w \in Seq(S) /\ Len(v) \in Nat /\ Len(w) = Len(v) + 1
        /\ \A i \in 1 .. Len(v) : w[i] = v[i]
        /\ w[Len(v) + 1] = x
    BY AppendProperties, LenProperties
  <1>2. DOMAIN v = 1 .. Len(v) /\ DOMAIN w = 1 .. Len(v) + 1
    BY <1>1, LenProperties
  <1> HIDE DEF w
  <1>3. \A i \in 1 .. Len(v) : v[i] # x
    BY <1>2 DEF Range
  <1>4. OneToOne(w)
    <2> SUFFICES ASSUME NEW i \in 1 .. Len(v) + 1, NEW j \in 1 .. Len(v) + 1, w[i] = w[j]
                 PROVE  i = j
      BY <1>2 DEF OneToOne
    <2>1. i \in 1 .. Len(v) \/ i = Len(v) + 1
      BY <1>1
    <2>2. j \in 1 .. Len(v) \/ j = Len(v) + 1
      BY <1>1
    <2> QED BY <1>1, <1>2, <1>3, <2>1, <2>2 DEF OneToOne
  <1>5. Range(w) = Range(v) \cup {x}
    <2>1. \A i \in 1 .. Len(v) + 1 : i \in 1 .. Len(v) \/ i = Len(v) + 1
      BY <1>1
    <2>2. \A i \in 1 .. Len(v) : i \in 1 .. Len(v) + 1
      BY <1>1
    <2>3. Len(v) + 1 \in 1 .. Len(v) + 1
      BY <1>1
    <2>4. Range(w) \subseteq Range(v) \cup {x}
      BY <1>1, <1>2, <2>1 DEF Range
    <2>5. Range(v) \cup {x} \subseteq Range(w)
      BY <1>1, <1>2, <2>2, <2>3 DEF Range
    <2> QED BY <2>4, <2>5
  <1> QED BY <1>1, <1>4, <1>5 DEF w

\* The vector of one kind of memory of one context changes.
IsUpdate(g, f, c, type, w) == g = [f EXCEPT ![c][type] = w]

LEMMA VectorUpdated ==
  ASSUME NEW V, NEW f, NEW g, NEW c, NEW type, NEW w, f \in [Contexts -> [Types -> V]],
         c \in Contexts, type \in Types, w \in V, IsUpdate(g, f, c, type, w)
  PROVE  /\ g \in [Contexts -> [Types -> V]] /\ g[c][type] = w
         /\ \A d \in Contexts, y \in Types : d # c \/ y # type => g[d][y] = f[d][y]
  BY DEF IsUpdate

LEMMA ValueErased ==
  ASSUME NEW S, NEW v \in Seq(S), NEW x \in Range(v), OneToOne(v)
  PROVE  /\ EraseValue(v, x) \in Seq(S) /\ OneToOne(EraseValue(v, x))
         /\ Range(EraseValue(v, x)) = Range(v) \ {x}
  <1> DEFINE n == Len(v)
             k == CHOOSE i \in DOMAIN v : v[i] = x
             a == SubSeq(v, 1, k - 1)
             b == SubSeq(v, k + 1, n)
             w == EraseValue(v, x)
  <1>1. n \in Nat /\ DOMAIN v = 1 .. n /\ \A i \in 1 .. n : v[i] \in S
    BY LenProperties, ElementOfSeq
  <1>2. k \in 1 .. n /\ v[k] = x
    BY <1>1 DEF Range
  <1>3. w = a \o b
    BY DEF EraseValue, RemoveAt
  <1> HIDE DEF n, k, w
  <1>4. k - 1 \in Int /\ k + 1 \in Int /\ n \in Int /\ 1 \in Int
    BY <1>1, <1>2
  <1>5. /\ a \in Seq(S) /\ Len(a) = k - 1 /\ \A i \in 1 .. k - 1 : a[i] = v[i]
    <2>1. \A i \in 1 .. k - 1 : v[i] \in S
      BY <1>1, <1>2
    <2>2. /\ a \in Seq(S) /\ Len(a) = (IF 1 <= k - 1 THEN (k - 1) - 1 + 1 ELSE 0)
          /\ \A i \in 1 .. (k - 1) - 1 + 1 : a[i] = v[1 + i - 1]
      BY <1>4, <2>1, SubSeqProperties
    <2> QED BY <1>2, <2>2
  <1>6. /\ b \in Seq(S) /\ Len(b) = n - k /\ \A i \in 1 .. n - k : b[i] = v[k + i]
    <2>1. \A i \in k + 1 .. n : v[i] \in S
      BY <1>1, <1>2
    <2>2. /\ b \in Seq(S) /\ Len(b) = (IF k + 1 <= n THEN n - (k + 1) + 1 ELSE 0)
          /\ \A i \in 1 .. n - (k + 1) + 1 : b[i] = v[(k + 1) + i - 1]
      BY <1>4, <2>1, SubSeqProperties
    <2> QED BY <1>1, <1>2, <2>2
  <1> HIDE DEF a, b
  <1>7. /\ w \in Seq(S) /\ Len(w) = n - 1 /\ DOMAIN w = 1 .. n - 1
        /\ \A i \in 1 .. n - 1 : w[i] = IF i < k THEN v[i] ELSE v[i + 1]
    <2>1. /\ w \in Seq(S) /\ Len(w) = (k - 1) + (n - k)
          /\ \A i \in 1 .. (k - 1) + (n - k) :
                w[i] = IF i <= k - 1 THEN a[i] ELSE b[i - (k - 1)]
      BY <1>3, <1>5, <1>6, ConcatProperties
    <2>2. Len(w) = n - 1 /\ (k - 1) + (n - k) = n - 1
      BY <1>1, <1>2, <2>1
    <2>3. DOMAIN w = 1 .. n - 1
      BY <2>1, <2>2, LenProperties
    <2>4. ASSUME NEW i \in 1 .. n - 1
          PROVE  w[i] = IF i < k THEN v[i] ELSE v[i + 1]
      <3>1. w[i] = IF i <= k - 1 THEN a[i] ELSE b[i - (k - 1)]
        BY <2>1, <2>2
      <3>2. CASE i < k
        <4>1. i <= k - 1 /\ i \in 1 .. k - 1
          BY <1>1, <1>2, <3>2
        <4> QED BY <1>5, <3>1, <3>2, <4>1
      <3>3. CASE ~(i < k)
        <4>1. ~(i <= k - 1) /\ i - (k - 1) \in 1 .. n - k /\ k + (i - (k - 1)) = i + 1
          BY <1>1, <1>2, <3>3
        <4>2. b[i - (k - 1)] = v[i + 1]
          BY <1>6, <4>1
        <4> QED BY <3>1, <3>3, <4>1, <4>2
      <3> QED BY <3>2, <3>3
    <2> QED BY <2>1, <2>2, <2>3, <2>4
  <1>8. OneToOne(w)
    <2> SUFFICES ASSUME NEW i \in 1 .. n - 1, NEW j \in 1 .. n - 1, w[i] = w[j]
                 PROVE  i = j
      BY <1>7 DEF OneToOne
    <2> DEFINE f == IF i < k THEN i ELSE i + 1
               g == IF j < k THEN j ELSE j + 1
    <2>1. f \in 1 .. n /\ g \in 1 .. n
      BY <1>1, <1>2
    <2>2. v[f] = w[i] /\ v[g] = w[j]
      BY <1>7
    <2>3. f = g
      <3> HIDE DEF f, g
      <3> QED BY <1>1, <2>1, <2>2 DEF OneToOne
    <2> QED BY <1>1, <1>2, <2>3
  <1>9. Range(w) = Range(v) \ {x}
    <2>1. ASSUME NEW i \in 1 .. n - 1
          PROVE  w[i] \in Range(v) \ {x}
      <3> DEFINE f == IF i < k THEN i ELSE i + 1
      <3>1. f \in 1 .. n /\ f # k
        BY <1>1, <1>2
      <3>2. v[f] = w[i]
        BY <1>7
      <3> HIDE DEF f
      <3>3. v[f] # x
        BY <1>1, <1>2, <3>1 DEF OneToOne
      <3> QED BY <1>1, <3>1, <3>2, <3>3 DEF Range
    <2>2. ASSUME NEW i \in 1 .. n, v[i] # x
          PROVE  v[i] \in Range(w)
      <3> DEFINE f == IF i < k THEN i ELSE i - 1
      <3>1. i # k
        BY <1>2, <2>2
      <3>2. f \in 1 .. n - 1 /\ (IF f < k THEN f ELSE f + 1) = i
        BY <1>1, <1>2, <3>1
      <3> HIDE DEF f
      <3>3. w[f] = v[i]
        BY <1>7, <3>2
      <3> QED BY <1>7, <3>2, <3>3 DEF Range
    <2>3. Range(w) \subseteq Range(v) \ {x}
      BY <1>7, <2>1 DEF Range
    <2>4. Range(v) \ {x} \subseteq Range(w)
      BY <1>1, <2>2 DEF Range
    <2> QED BY <2>3, <2>4
  <1> QED BY <1>7, <1>8, <1>9 DEF w

-----------------------------------------------------------------------------
(* Memory. *)

\* What Allocated is after a step.
AllocatedNext(c, kinds) == {b \in DOMAIN AllocMap'[c] : AllocMap'[c][b].Type \in kinds}

LEMMA AllocatedTyped ==
  ASSUME TypeOK, NEW c \in Contexts, NEW Y
  PROVE  Allocated(c, Y) \in SUBSET Addresses
  BY DEF Allocated, TypeOK, Maps

\* The kinds that are set cover what the kernel asked for: the others are empty.
LEMMA KindsCovered ==
  ASSUME TypeOK, ListsAgree, NEW c \in Contexts, NEW k \in Kernels
  PROVE  OfKinds(c, KindsToSet(c, k)) = Allocated(c, kernelInfo[k].indirect)
  <1>1. kernelInfo[k].indirect \subseteq Types
    BY DEF TypeOK
  <1>2. ASSUME NEW y \in Types, AllocVector[c][y] = <<>>
        PROVE  Allocated(c, {y}) = {}
    <2>1. Range(AllocVector[c][y]) = {}
      BY <1>2 DEF Range
    <2> QED BY <2>1 DEF ListsAgree
  <1>3. \A y \in Types : Range(AllocVector[c][y]) = Allocated(c, {y})
    BY DEF ListsAgree
  <1>4. ASSUME NEW b \in Allocated(c, kernelInfo[k].indirect)
        PROVE  b \in OfKinds(c, KindsToSet(c, k))
    <2> DEFINE y == AllocMap[c][b].Type
    <2>1. y \in kernelInfo[k].indirect /\ y \in Types /\ b \in Allocated(c, {y})
      BY <1>1 DEF Allocated
    <2> HIDE DEF y
    <2>2. AllocVector[c][y] # <<>>
      BY <1>2, <2>1
    <2> QED BY <1>3, <2>1, <2>2 DEF OfKinds, KindsToSet
  <1>5. ASSUME NEW b \in OfKinds(c, KindsToSet(c, k))
        PROVE  b \in Allocated(c, kernelInfo[k].indirect)
    <2>1. PICK y \in KindsToSet(c, k) : b \in Range(AllocVector[c][y])
      BY <1>5 DEF OfKinds
    <2>2. y \in kernelInfo[k].indirect /\ b \in Allocated(c, {y})
      BY <1>1, <1>3, <2>1 DEF KindsToSet
    <2> QED BY <2>2 DEF Allocated
  <1> QED BY <1>4, <1>5

\* A new allocation is one the context did not have.
LEMMA MemoryGrows ==
  ASSUME TypeOK, ListsAgree, NEW c \in Contexts, NEW type \in Types,
         NEW base \in Addresses, NEW size \in 1 .. 2,
         Interval(base, size) \subseteq Addresses \ Taken,
         svm' = [svm EXCEPT ![c] = Insert(@, base, size)],
         AllocMap' = [AllocMap EXCEPT ![c] = Insert(@, base, [Type |-> type, Size |-> size])],
         AllocVector' = [AllocVector EXCEPT ![c][type] = Append(@, base)]
  PROVE  /\ AllocMap' \in [Contexts -> Maps([Type : Types, Size : 1 .. 2])]
         /\ svm' \in [Contexts -> Maps(1 .. 2)]
         /\ AllocVector' \in [Contexts -> [Types -> Seq(Addresses)]]
         /\ ListsAgree'
         /\ \A d \in Contexts, Y \in SUBSET Types :
               Allocated(d, Y) \subseteq AllocatedNext(d, Y)
  <1> DEFINE V == [Type : Types, Size : 1 .. 2]
             new == [Type |-> type, Size |-> size]
             m == AllocMap[c]
  <1>1. /\ AllocMap \in [Contexts -> Maps(V)] /\ svm \in [Contexts -> Maps(1 .. 2)]
        /\ AllocVector \in [Contexts -> [Types -> Seq(Addresses)]] /\ new \in V
    BY DEF TypeOK
  <1>2. base \notin DOMAIN svm[c] /\ base \notin DOMAIN m
    <2>1. base \in Interval(base, size)
      BY DEF Interval, Addresses
    <2>2. ASSUME base \in DOMAIN svm[c]
          PROVE  FALSE
      <3>1. svm[c][base] \in 1 .. 2
        BY <1>1, <2>2 DEF Maps
      <3>2. base \in Interval(base, svm[c][base])
        BY <3>1 DEF Interval, Addresses
      <3>3. base \in Taken
        BY <2>2, <3>2 DEF Taken
      <3> QED BY <2>1, <3>3
    <2> QED BY <2>2 DEF ListsAgree
  <1>3. /\ Insert(m, base, new) \in Maps(V)
        /\ \A y : y \in DOMAIN Insert(m, base, new) <=> y \in DOMAIN m \/ y = base
        /\ \A y : y \in DOMAIN m \/ y = base =>
              Insert(m, base, new)[y] = IF y = base THEN new ELSE m[y]
    <2> HIDE DEF V, new
    <2>1. m \in Maps(V)
      BY <1>1
    <2> QED BY <1>1, <2>1, Inserted
  <1>4. /\ Insert(svm[c], base, size) \in Maps(1 .. 2)
        /\ \A y : y \in DOMAIN Insert(svm[c], base, size) <=> y \in DOMAIN svm[c] \/ y = base
    <2>1. svm[c] \in Maps(1 .. 2)
      BY <1>1
    <2> QED BY <2>1, Inserted
  <1>5. /\ AllocMap'[c] = Insert(m, base, new) /\ svm'[c] = Insert(svm[c], base, size)
        /\ \A d \in Contexts \ {c} : AllocMap'[d] = AllocMap[d] /\ svm'[d] = svm[d]
        /\ AllocMap' \in [Contexts -> Maps(V)] /\ svm' \in [Contexts -> Maps(1 .. 2)]
    <2> HIDE DEF V, new
    <2>1. AllocMap' = [AllocMap EXCEPT ![c] = Insert(m, base, new)]
      BY DEF new
    <2> QED BY <1>1, <1>3, <1>4, <2>1
  <1> DEFINE v == AllocVector[c][type]
  <1>6. v \in Seq(Addresses) /\ base \notin Range(v) /\ OneToOne(v)
    <2>1. v \in Seq(Addresses) /\ OneToOne(v) /\ Range(v) = Allocated(c, {type})
      BY <1>1 DEF ListsAgree
    <2>2. base \notin Allocated(c, {type})
      BY <1>2 DEF Allocated
    <2> QED BY <2>1, <2>2
  <1>7. /\ Append(v, base) \in Seq(Addresses) /\ OneToOne(Append(v, base))
        /\ Range(Append(v, base)) = Range(v) \cup {base}
    <2> HIDE DEF v
    <2> QED BY <1>6, Appended
  <1>8. /\ AllocVector' \in [Contexts -> [Types -> Seq(Addresses)]]
        /\ AllocVector'[c][type] = Append(v, base)
        /\ \A d \in Contexts, y \in Types :
              d # c \/ y # type => AllocVector'[d][y] = AllocVector[d][y]
    BY <1>1, <1>7
  <1> HIDE DEF v
  <1>9. /\ \A d \in Contexts, y \in Types :
              Allocated(d, {y})' = IF d = c /\ y = type THEN Allocated(d, {y}) \cup {base}
                                   ELSE Allocated(d, {y})
        /\ \A d \in Contexts, Y \in SUBSET Types : Allocated(d, Y) \subseteq AllocatedNext(d, Y)
    <2>1. new.Type = type
      OBVIOUS
    <2> HIDE DEF new
    <2> QED BY <1>2, <1>3, <1>5, <2>1 DEF Allocated, AllocatedNext
  <1>10. ListsAgree'
    <2> SUFFICES ASSUME NEW d \in Contexts
                 PROVE  /\ DOMAIN svm'[d] = DOMAIN AllocMap'[d]
                        /\ \A y \in Types : /\ Range(AllocVector'[d][y]) = Allocated(d, {y})'
                                            /\ OneToOne(AllocVector'[d][y])
      BY DEF ListsAgree, OneToOne, Range
    <2>1. DOMAIN svm'[d] = DOMAIN AllocMap'[d]
      BY <1>3, <1>4, <1>5 DEF ListsAgree
    <2>2. ASSUME NEW y \in Types
          PROVE  Range(AllocVector'[d][y]) = Allocated(d, {y})' /\ OneToOne(AllocVector'[d][y])
      <3>1. Range(AllocVector[d][y]) = Allocated(d, {y}) /\ OneToOne(AllocVector[d][y])
        BY DEF ListsAgree
      <3>2. CASE d = c /\ y = type
        <4>1. Range(v) = Allocated(d, {y})
          BY <3>1, <3>2 DEF v
        <4> QED BY <1>7, <1>8, <1>9, <3>2, <4>1
      <3>3. CASE ~(d = c /\ y = type)
        BY <1>8, <1>9, <3>1, <3>3
      <3> QED BY <3>2, <3>3
    <2> QED BY <2>1, <2>2
  <1> QED BY <1>5, <1>8, <1>9, <1>10

LEMMA MemoryShrinks ==
  ASSUME TypeOK, ListsAgree, NEW c \in Contexts, NEW p \in DOMAIN AllocMap[c],
         svm' = [svm EXCEPT ![c] = Erase(@, p)],
         AllocMap' = [AllocMap EXCEPT ![c] = Erase(@, p)],
         IsUpdate(AllocVector', AllocVector, c, AllocMap[c][p].Type,
                  EraseValue(AllocVector[c][AllocMap[c][p].Type], p))
  PROVE  /\ AllocMap' \in [Contexts -> Maps([Type : Types, Size : 1 .. 2])]
         /\ svm' \in [Contexts -> Maps(1 .. 2)]
         /\ AllocVector' \in [Contexts -> [Types -> Seq(Addresses)]]
         /\ ListsAgree'
         /\ \A d \in Contexts, Y \in SUBSET Types :
               Allocated(d, Y) \ {p} \subseteq AllocatedNext(d, Y)
  <1> DEFINE V == [Type : Types, Size : 1 .. 2]
             m == AllocMap[c]
             type == m[p].Type
             v == AllocVector[c][type]
  <1>1. /\ AllocMap \in [Contexts -> Maps(V)] /\ svm \in [Contexts -> Maps(1 .. 2)]
        /\ AllocVector \in [Contexts -> [Types -> Seq(Addresses)]]
    BY DEF TypeOK
  <1>2. type \in Types
    BY <1>1 DEF Maps
  <1>3. /\ Erase(m, p) \in Maps(V) /\ DOMAIN Erase(m, p) = DOMAIN m \ {p}
        /\ \A y \in DOMAIN m \ {p} : Erase(m, p)[y] = m[y]
    <2> HIDE DEF V
    <2>1. m \in Maps(V)
      BY <1>1
    <2> QED BY <2>1, Erased
  <1>4. Erase(svm[c], p) \in Maps(1 .. 2) /\ DOMAIN Erase(svm[c], p) = DOMAIN svm[c] \ {p}
    <2>1. svm[c] \in Maps(1 .. 2)
      BY <1>1
    <2> QED BY <2>1, Erased
  <1>5. /\ AllocMap'[c] = Erase(m, p) /\ svm'[c] = Erase(svm[c], p)
        /\ \A d \in Contexts \ {c} : AllocMap'[d] = AllocMap[d] /\ svm'[d] = svm[d]
        /\ AllocMap' \in [Contexts -> Maps(V)] /\ svm' \in [Contexts -> Maps(1 .. 2)]
    <2> HIDE DEF V
    <2> QED BY <1>1, <1>3, <1>4
  <1>6. v \in Seq(Addresses) /\ p \in Range(v) /\ OneToOne(v)
    <2>1. v \in Seq(Addresses) /\ OneToOne(v) /\ Range(v) = Allocated(c, {type})
      BY <1>1, <1>2 DEF ListsAgree
    <2>2. p \in Allocated(c, {type})
      BY DEF Allocated
    <2> QED BY <2>1, <2>2
  <1>7. /\ EraseValue(v, p) \in Seq(Addresses) /\ OneToOne(EraseValue(v, p))
        /\ Range(EraseValue(v, p)) = Range(v) \ {p}
    <2> HIDE DEF v
    <2> QED BY <1>6, ValueErased
  <1>8. /\ AllocVector' \in [Contexts -> [Types -> Seq(Addresses)]]
        /\ AllocVector'[c][type] = EraseValue(v, p)
        /\ \A d \in Contexts, y \in Types :
              d # c \/ y # type => AllocVector'[d][y] = AllocVector[d][y]
    <2> DEFINE w == EraseValue(v, p)
               S == Seq(Addresses)
    <2>3. IsUpdate(AllocVector', AllocVector, c, type, w)
      OBVIOUS
    <2> HIDE DEF w, S, v, type
    <2>4. /\ AllocVector' \in [Contexts -> [Types -> S]] /\ AllocVector'[c][type] = w
          /\ \A d \in Contexts, y \in Types :
                d # c \/ y # type => AllocVector'[d][y] = AllocVector[d][y]
      <3>1. AllocVector \in [Contexts -> [Types -> S]] /\ w \in S
        BY <1>1, <1>7 DEF w, S
      <3> QED BY <1>2, <2>3, <3>1, VectorUpdated
    <2> QED BY <2>4 DEF w, S
  <1>9. /\ \A d \in Contexts, y \in Types :
              Allocated(d, {y})' = IF d = c /\ y = type THEN Allocated(d, {y}) \ {p}
                                   ELSE Allocated(d, {y})
        /\ \A d \in Contexts, Y \in SUBSET Types :
              Allocated(d, Y) \ {p} \subseteq AllocatedNext(d, Y)
    BY <1>3, <1>5 DEF Allocated, AllocatedNext
  <1> HIDE DEF v, type
  <1>10. ListsAgree'
    <2> SUFFICES ASSUME NEW d \in Contexts
                 PROVE  /\ DOMAIN svm'[d] = DOMAIN AllocMap'[d]
                        /\ \A y \in Types : /\ Range(AllocVector'[d][y]) = Allocated(d, {y})'
                                            /\ OneToOne(AllocVector'[d][y])
      BY DEF ListsAgree, OneToOne, Range
    <2>1. DOMAIN svm'[d] = DOMAIN AllocMap'[d]
      BY <1>3, <1>4, <1>5 DEF ListsAgree
    <2>2. ASSUME NEW y \in Types
          PROVE  Range(AllocVector'[d][y]) = Allocated(d, {y})' /\ OneToOne(AllocVector'[d][y])
      <3>1. Range(AllocVector[d][y]) = Allocated(d, {y}) /\ OneToOne(AllocVector[d][y])
        BY DEF ListsAgree
      <3>2. CASE d = c /\ y = type
        <4>1. Range(v) = Allocated(d, {y})
          BY <3>1, <3>2 DEF v
        <4> QED BY <1>7, <1>8, <1>9, <3>2, <4>1
      <3>3. CASE ~(d = c /\ y = type)
        BY <1>8, <1>9, <3>1, <3>3
      <3> QED BY <3>2, <3>3
    <2> QED BY <2>1, <2>2
  <1> QED BY <1>5, <1>8, <1>9, <1>10

-----------------------------------------------------------------------------
(* Steps that leave every call what it is, or take an address or a launch  *)
(* out of it.                                                              *)

\* call' has the calls of before, less the address p and the launch r.
Lessened(t, p, r) ==
    /\ call'[t] \in Calls
    /\ call'[t].kind = call[t].kind /\ call'[t].next = call[t].next
    /\ call'[t].context = call[t].context /\ call'[t].queue = call[t].queue
    /\ call'[t].kernel = call[t].kernel /\ call'[t].fast = call[t].fast
    /\ call'[t].needs \subseteq call[t].needs \ {p}
    /\ call'[t].before \subseteq call[t].before \ {r}

\* No set has everything.
LEMMA SomethingElse ==
  ASSUME NEW S
  PROVE  \E r : r \notin S
  <1> DEFINE R == {x \in S : x \notin x}
  <1>1. R \notin S
    <2>1. \A x : x \in R <=> x \in S /\ x \notin x
      OBVIOUS
    <2> HIDE DEF R
    <2> QED BY <2>1
  <1> QED BY <1>1

LEMMA NoCallTyped ==
  /\ NoCall \in Calls /\ NoCall.kind = "none" /\ NoCall.next = "none"
  /\ NoCall.before = {} /\ NoCall.kernel = NULL
  BY DEF NoCall, Call, Calls

LEMMA ForgetLessens ==
  ASSUME TypeOK, NEW t \in Threads, NEW p
  PROVE  /\ Forget(call, p)[t] \in Calls
         /\ Forget(call, p)[t].kind = call[t].kind /\ Forget(call, p)[t].next = call[t].next
         /\ Forget(call, p)[t].context = call[t].context
         /\ Forget(call, p)[t].queue = call[t].queue
         /\ Forget(call, p)[t].kernel = call[t].kernel /\ Forget(call, p)[t].fast = call[t].fast
         /\ Forget(call, p)[t].needs = call[t].needs \ {p}
         /\ Forget(call, p)[t].before = call[t].before
  <1>1. call[t] \in Calls
    BY DEF TypeOK
  <1>2. Forget(call, p)[t] = [call[t] EXCEPT !.needs = call[t].needs \ {p}]
    BY DEF Forget
  <1> QED BY <1>1, <1>2 DEF Calls

\* The rest of the invariant when memory is freed, added or left alone, and when
\* launches complete.
LEMMA LessenedKeeps ==
  ASSUME Inv, NEW p, NEW r, DOMAIN call' = Threads, call' = [t \in Threads |-> call'[t]],
         \A t \in Threads : Lessened(t, p, r) \/ call'[t] = NoCall,
         kernelInfo' = kernelInfo, execInfo' = execInfo,
         running \ {r} \subseteq running', running' \subseteq running,
         \A d \in Contexts, Y \in SUBSET Types :
               Allocated(d, Y) \ {p} \subseteq AllocatedNext(d, Y)
  PROVE  /\ call' \in [Threads -> Calls]
         /\ \A t \in Threads : call'[t].before \subseteq running'
         /\ LaunchesNeed' /\ FreesName' /\ OneKindIsVisible' /\ BlockingFreeWaits'
  <1>1. TypeOK /\ LaunchesNeed /\ FreesName /\ OneKindIsVisible /\ BlockingFreeWaits
    BY DEF Inv
  <1>2. call' \in [Threads -> Calls]
    <2>1. \A t \in Threads : call'[t] \in Calls
      BY NoCallTyped DEF Lessened
    <2> QED BY <2>1
  <1>3. \A t \in Threads : call'[t].before \subseteq running'
    <2> SUFFICES ASSUME NEW t \in Threads
                 PROVE  call'[t].before \subseteq running'
      OBVIOUS
    <2>1. CASE Lessened(t, p, r)
      BY <1>1, <2>1 DEF Lessened, TypeOK
    <2>2. CASE call'[t] = NoCall
      BY <2>2, NoCallTyped
    <2> QED BY <2>1, <2>2
  <1>4. LaunchesNeed'
    <2> SUFFICES ASSUME NEW t \in Threads
                 PROVE  /\ call'[t].next \in {"set", "enqueue"} => call'[t].kind = "launch"
                        /\ call'[t].kind = "launch" =>
                              /\ call'[t].kernel \in Kernels /\ call'[t].queue \in Queues
                              /\ QueueContext[call'[t].queue] = KernelContext[call'[t].kernel]
                              /\ call'[t].needs \subseteq
                                    AllocatedNext(KernelContext[call'[t].kernel],
                                                  kernelInfo'[call'[t].kernel].indirect)
                              /\ call'[t].next = "enqueue" /\ call'[t].fast =>
                                    call'[t].needs \subseteq execInfo'[call'[t].kernel]
      BY DEF LaunchesNeed, Allocated, AllocatedNext
    <2>1. CASE call'[t] = NoCall
      BY <2>1, NoCallTyped
    <2>2. CASE Lessened(t, p, r)
      <3>1. ASSUME call[t].kind = "launch"
            PROVE  call'[t].needs \subseteq
                      AllocatedNext(KernelContext[call[t].kernel],
                                    kernelInfo[call[t].kernel].indirect)
        <4> DEFINE c == KernelContext[call[t].kernel]
                   Y == kernelInfo[call[t].kernel].indirect
        <4>1. c \in Contexts /\ Y \in SUBSET Types /\ call[t].needs \subseteq Allocated(c, Y)
          BY <1>1, <3>1, UsmAssumption DEF LaunchesNeed, TypeOK
        <4>2. Allocated(c, Y) \ {p} \subseteq AllocatedNext(c, Y)
          BY <4>1
        <4> QED BY <2>2, <4>1, <4>2 DEF Lessened
      <3> QED BY <1>1, <2>2, <3>1 DEF Lessened, LaunchesNeed
    <2> QED BY <2>1, <2>2
  <1>5. FreesName'
    <2> SUFFICES ASSUME NEW t \in Threads, call'[t].next \in {"finish", "free"}
                 PROVE  call'[t].kind = "free" /\ call'[t].context \in Contexts
      BY DEF FreesName
    <2> QED BY <1>1, NoCallTyped DEF Lessened, FreesName
  <1>6. OneKindIsVisible'
    BY <1>1 DEF OneKindIsVisible
  <1>7. BlockingFreeWaits'
    <2> SUFFICES ASSUME NEW t \in Threads, NEW l \in call'[t].before,
                        call'[t].next = "free", QueueContext[l.queue] = call'[t].context
                 PROVE  l.queue \notin Listed
      BY DEF BlockingFreeWaits
    <2> QED BY <1>1, NoCallTyped DEF Lessened, BlockingFreeWaits
  <1> QED BY <1>2, <1>3, <1>4, <1>5, <1>6, <1>7

LEMMA AllocKeepsInv ==
  ASSUME Inv, NEW t \in Threads, NEW c \in Contexts, NEW type \in Types, Alloc(t, c, type)
  PROVE  Inv'
  <1> PICK base \in Addresses, size \in 1 .. 2 :
        /\ allocations < MaxAllocations /\ allocations' = allocations + 1
        /\ Interval(base, size) \subseteq Addresses \ Taken
        /\ svm' = [svm EXCEPT ![c] = Insert(@, base, size)]
        /\ AllocMap' = [AllocMap EXCEPT ![c] = Insert(@, base, [Type |-> type, Size |-> size])]
        /\ AllocVector' = [AllocVector EXCEPT ![c][type] = Append(@, base)]
        /\ UNCHANGED <<call, m_Mutex, kernels, running, launches, settings>>
    BY DEF Alloc
  <1>1. TypeOK /\ ListsAgree
    BY DEF Inv
  <1>2. /\ AllocMap' \in [Contexts -> Maps([Type : Types, Size : 1 .. 2])]
        /\ svm' \in [Contexts -> Maps(1 .. 2)]
        /\ AllocVector' \in [Contexts -> [Types -> Seq(Addresses)]]
        /\ ListsAgree'
        /\ \A d \in Contexts, Y \in SUBSET Types : Allocated(d, Y) \subseteq AllocatedNext(d, Y)
    BY <1>1, MemoryGrows, Zenon
  <1>3. /\ UNCHANGED <<call, m_Mutex, running, launches, settings, kernelInfo, execInfo>>
        /\ allocations' \in 0 .. MaxAllocations
    BY <1>1, UsmAssumption DEF kernels, TypeOK
  <1>4. TypeOK'
    BY <1>1, <1>2, <1>3, Zenon DEF TypeOK
  <1>5. LaunchesNeed'
    <2>1. LaunchesNeed
      BY DEF Inv
    <2> SUFFICES ASSUME NEW u \in Threads, call[u].kind = "launch"
                 PROVE  call[u].needs \subseteq AllocatedNext(KernelContext[call[u].kernel],
                                                             kernelInfo[call[u].kernel].indirect)
      BY <1>3, <2>1 DEF LaunchesNeed, Allocated, AllocatedNext
    <2> DEFINE d == KernelContext[call[u].kernel]
               Y == kernelInfo[call[u].kernel].indirect
    <2>2. d \in Contexts /\ Y \in SUBSET Types /\ call[u].needs \subseteq Allocated(d, Y)
      BY <1>1, <2>1, UsmAssumption DEF LaunchesNeed, TypeOK
    <2> QED BY <1>2, <2>2
  <1>6. FreesName' /\ OneKindIsVisible' /\ BlockingFreeWaits'
    BY <1>3 DEF Inv, FreesName, OneKindIsVisible, BlockingFreeWaits
  <1> QED BY <1>2, <1>4, <1>5, <1>6 DEF Inv

LEMMA FreeKeepsInv ==
  ASSUME Inv, NEW c \in Contexts, NEW p, p \in DOMAIN AllocMap[c], emulatedMemFree(c, p),
         DOMAIN call' = Threads, call' = [t \in Threads |-> call'[t]],
         \A t \in Threads : call'[t] = Forget(call, p)[t] \/ call'[t] = NoCall
  PROVE  Inv'
  <1>1. /\ AllocVector' = [AllocVector EXCEPT ![c][AllocMap[c][p].Type] =
                              EraseValue(AllocVector[c][AllocMap[c][p].Type], p)]
        /\ AllocMap' = [AllocMap EXCEPT ![c] = Erase(@, p)]
        /\ svm' = [svm EXCEPT ![c] = Erase(@, p)]
        /\ UNCHANGED <<m_Mutex, kernelInfo, execInfo, running, allocations, launches, settings>>
    BY DEF emulatedMemFree, kernels, counts
  <1>2. IsUpdate(AllocVector', AllocVector, c, AllocMap[c][p].Type,
                 EraseValue(AllocVector[c][AllocMap[c][p].Type], p))
    BY <1>1, Zenon DEF IsUpdate
  <1>3. TypeOK /\ ListsAgree
    BY DEF Inv
  <1>4. /\ AllocMap' \in [Contexts -> Maps([Type : Types, Size : 1 .. 2])]
        /\ svm' \in [Contexts -> Maps(1 .. 2)]
        /\ AllocVector' \in [Contexts -> [Types -> Seq(Addresses)]]
        /\ ListsAgree'
        /\ \A d \in Contexts, Y \in SUBSET Types :
              Allocated(d, Y) \ {p} \subseteq AllocatedNext(d, Y)
    BY <1>1, <1>2, <1>3, MemoryShrinks, Zenon
  <1>5. PICK r : r \notin running
    BY SomethingElse
  <1>6. \A t \in Threads : Lessened(t, p, r) \/ call'[t] = NoCall
    <2> SUFFICES ASSUME NEW t \in Threads, call'[t] = Forget(call, p)[t]
                 PROVE  Lessened(t, p, r)
      OBVIOUS
    <2>1. r \notin call[t].before
      BY <1>3, <1>5 DEF TypeOK
    <2> QED BY <1>3, <2>1, ForgetLessens DEF Lessened
  <1>7. /\ call' \in [Threads -> Calls] /\ \A t \in Threads : call'[t].before \subseteq running'
        /\ LaunchesNeed' /\ FreesName' /\ OneKindIsVisible' /\ BlockingFreeWaits'
    <2>1. running \ {r} \subseteq running' /\ running' \subseteq running
      BY <1>1
    <2> QED BY <1>1, <1>4, <1>6, <2>1, LessenedKeeps, Zenon
  <1>8. TypeOK'
    BY <1>1, <1>3, <1>4, <1>7, Zenon DEF TypeOK
  <1> QED BY <1>4, <1>7, <1>8 DEF Inv

LEMMA MemFreeKeepsInv ==
  ASSUME Inv, NEW t \in Threads, NEW c \in Contexts, NEW p, clMemFreeINTEL_EMU(t, c, p)
  PROVE  Inv'
  <1>1. p \in DOMAIN AllocMap[c] /\ emulatedMemFree(c, p) /\ call' = Forget(call, p)
    BY DEF clMemFreeINTEL_EMU
  <1>2. /\ DOMAIN call' = Threads /\ call' = [u \in Threads |-> call'[u]]
        /\ \A u \in Threads : call'[u] = Forget(call, p)[u]
    BY <1>1 DEF Forget
  <1> QED BY <1>1, <1>2, FreeKeepsInv

LEMMA BlockingFreeKeepsInv ==
  ASSUME Inv, NEW t \in Threads, clMemBlockingFreeINTEL_EMU(t)
  PROVE  Inv'
  <1> DEFINE c == call[t].context
             p == call[t].ptr
  <1>1. /\ call[t].next = "free" /\ call' = [Forget(call, p) EXCEPT ![t] = NoCall]
        /\ \/ p \in DOMAIN AllocMap[c] /\ emulatedMemFree(c, p)
           \/ UNCHANGED <<m_Mutex, memory, kernels, running, counts>>
    BY DEF clMemBlockingFreeINTEL_EMU
  <1>2. c \in Contexts
    BY <1>1 DEF Inv, FreesName
  <1>3. /\ DOMAIN call' = Threads /\ call' = [u \in Threads |-> call'[u]]
        /\ \A u \in Threads : call'[u] = Forget(call, p)[u] \/ call'[u] = NoCall
    BY <1>1 DEF Forget
  <1> HIDE DEF c, p
  <1>4. CASE p \in DOMAIN AllocMap[c] /\ emulatedMemFree(c, p)
    BY <1>2, <1>3, <1>4, FreeKeepsInv
  <1>5. CASE UNCHANGED <<m_Mutex, memory, kernels, running, counts>>
    <2>1. /\ UNCHANGED <<m_Mutex, AllocMap, AllocVector, svm, kernelInfo, execInfo, running,
                         allocations, launches, settings>>
          /\ TypeOK /\ ListsAgree
      BY <1>5 DEF memory, kernels, counts, Inv
    <2>2. PICK r : r \notin running
      BY SomethingElse
    <2>3. \A u \in Threads : Lessened(u, p, r) \/ call'[u] = NoCall
      <3> SUFFICES ASSUME NEW u \in Threads, call'[u] = Forget(call, p)[u]
                   PROVE  Lessened(u, p, r)
        BY <1>3
      <3>1. r \notin call[u].before
        BY <2>1, <2>2 DEF TypeOK
      <3> QED BY <2>1, <3>1, ForgetLessens DEF Lessened
    <2>4. /\ \A d \in Contexts, Y \in SUBSET Types :
                Allocated(d, Y) \ {p} \subseteq AllocatedNext(d, Y)
          /\ running \ {r} \subseteq running' /\ running' \subseteq running
      BY <2>1 DEF Allocated, AllocatedNext
    <2>5. /\ call' \in [Threads -> Calls]
          /\ \A u \in Threads : call'[u].before \subseteq running'
          /\ LaunchesNeed' /\ FreesName' /\ OneKindIsVisible' /\ BlockingFreeWaits'
      BY <1>3, <2>1, <2>3, <2>4, LessenedKeeps, Zenon
    <2>6. TypeOK'
      BY <2>1, <2>5, Zenon DEF TypeOK
    <2>7. ListsAgree'
      BY <2>1 DEF ListsAgree, Allocated, OneToOne, Range
    <2> QED BY <2>5, <2>6, <2>7 DEF Inv
  <1> QED BY <1>1, <1>4, <1>5

LEMMA CompleteKeepsInv ==
  ASSUME Inv, NEW r \in running, Complete(r)
  PROVE  Inv'
  <1>1. /\ running' = running \ {r}
        /\ call' = [t \in Threads |-> [call[t] EXCEPT !.before = @ \ {r}]]
        /\ UNCHANGED <<m_Mutex, AllocMap, AllocVector, svm, kernelInfo, execInfo,
                       allocations, launches, settings>>
        /\ TypeOK /\ ListsAgree
    BY DEF Complete, memory, kernels, counts, Inv
  <1>2. PICK p : p \notin Addresses
    BY SomethingElse
  <1>3. \A t \in Threads : Lessened(t, p, r)
    <2> SUFFICES ASSUME NEW t \in Threads
                 PROVE  Lessened(t, p, r)
      OBVIOUS
    <2>1. call[t] \in Calls /\ p \notin call[t].needs
      BY <1>1, <1>2 DEF TypeOK, Calls
    <2>2. call'[t] = [call[t] EXCEPT !.before = call[t].before \ {r}]
      BY <1>1
    <2> QED BY <2>1, <2>2 DEF Lessened, Calls
  <1>4. /\ DOMAIN call' = Threads /\ call' = [u \in Threads |-> call'[u]]
    BY <1>1
  <1>5. /\ \A d \in Contexts, Y \in SUBSET Types :
              Allocated(d, Y) \ {p} \subseteq AllocatedNext(d, Y)
        /\ running \ {r} \subseteq running' /\ running' \subseteq running
    BY <1>1 DEF Allocated, AllocatedNext
  <1>6. /\ call' \in [Threads -> Calls] /\ \A u \in Threads : call'[u].before \subseteq running'
        /\ LaunchesNeed' /\ FreesName' /\ OneKindIsVisible' /\ BlockingFreeWaits'
    BY <1>1, <1>3, <1>4, <1>5, LessenedKeeps, Zenon
  <1>7. running' \subseteq Launches
    BY <1>1 DEF TypeOK
  <1>8. TypeOK'
    BY <1>1, <1>6, <1>7, Zenon DEF TypeOK
  <1>9. ListsAgree'
    BY <1>1 DEF ListsAgree, Allocated, OneToOne, Range
  <1> QED BY <1>6, <1>8, <1>9 DEF Inv

-----------------------------------------------------------------------------
(* Steps that leave the memory alone. *)

LEMMA SameMemory ==
  ASSUME Inv, UNCHANGED <<AllocMap, AllocVector, svm>>
  PROVE  /\ ListsAgree'
         /\ \A d \in Contexts, Y \in SUBSET Types : AllocatedNext(d, Y) = Allocated(d, Y)
  BY DEF Inv, ListsAgree, Allocated, AllocatedNext, OneToOne, Range

LEMMA CallSet ==
  ASSUME TypeOK, NEW t \in Threads, NEW c \in Calls, call' = [call EXCEPT ![t] = c]
  PROVE  /\ call' \in [Threads -> Calls] /\ call'[t] = c
         /\ \A u \in Threads \ {t} : call'[u] = call[u]
  BY DEF TypeOK

LEMMA BeginBlockingFreeKeepsInv ==
  ASSUME Inv, NEW t \in Threads, NEW c \in Contexts, NEW p, BeginBlockingFree(t, c, p)
  PROVE  Inv'
  <1> DEFINE new == Call("free", "finish", c, p, NULL, NULL, {}, running)
  <1>1. /\ m_Mutex' = t /\ p \in DOMAIN AllocMap[c] /\ call' = [call EXCEPT ![t] = new]
        /\ UNCHANGED <<AllocMap, AllocVector, svm, kernelInfo, execInfo, running,
                       allocations, launches, settings>>
        /\ TypeOK
    BY DEF BeginBlockingFree, memory, kernels, counts, Inv
  <1>2. p \in Addresses
    BY <1>1 DEF TypeOK, Maps
  <1>3. /\ new \in Calls /\ new.kind = "free" /\ new.next = "finish" /\ new.context = c
        /\ new.before = running
    BY <1>1, <1>2 DEF Call, Calls, TypeOK
  <1> HIDE DEF new
  <1>4. /\ call' \in [Threads -> Calls] /\ call'[t] = new
        /\ \A u \in Threads \ {t} : call'[u] = call[u]
    BY <1>1, <1>3, CallSet
  <1>5. ListsAgree' /\ \A d \in Contexts, Y \in SUBSET Types : AllocatedNext(d, Y) = Allocated(d, Y)
    BY <1>1, SameMemory
  <1>6. TypeOK'
    <2>1. \A u \in Threads : call'[u].before \subseteq running'
      BY <1>1, <1>3, <1>4 DEF TypeOK
    <2> QED BY <1>1, <1>4, <2>1, Zenon DEF TypeOK
  <1>7. LaunchesNeed'
    BY <1>1, <1>3, <1>4 DEF Inv, LaunchesNeed, Allocated
  <1>8. FreesName'
    BY <1>3, <1>4 DEF Inv, FreesName
  <1>9. OneKindIsVisible' /\ BlockingFreeWaits'
    BY <1>1, <1>3, <1>4 DEF Inv, OneKindIsVisible, BlockingFreeWaits
  <1> QED BY <1>5, <1>6, <1>7, <1>8, <1>9 DEF Inv

\* A record of before is one that runs, and no listed queue of the context has one.
LEMMA finishAllKeepsInv ==
  ASSUME Inv, NEW t \in Threads, finishAll(t)
  PROVE  Inv'
  <1>1. /\ call[t].next = "finish" /\ \A q \in ToFinish(call[t].context) : Running(q) = {}
        /\ m_Mutex' = NULL /\ call' = [call EXCEPT ![t] = [call[t] EXCEPT !.next = "free"]]
        /\ UNCHANGED <<AllocMap, AllocVector, svm, kernelInfo, execInfo, running,
                       allocations, launches, settings>>
        /\ TypeOK
    BY DEF finishAll, memory, kernels, counts, Inv
  <1> DEFINE new == [call[t] EXCEPT !.next = "free"]
  <1>2. /\ new \in Calls /\ new.kind = call[t].kind /\ new.next = "free"
        /\ new.context = call[t].context /\ new.before = call[t].before
        /\ new.kernel = call[t].kernel
    <2>1. call[t] \in Calls
      BY <1>1 DEF TypeOK
    <2> QED BY <2>1 DEF Calls
  <1>3. call[t].kind = "free" /\ call[t].context \in Contexts
    BY <1>1 DEF Inv, FreesName
  <1> HIDE DEF new
  <1>4. /\ call' \in [Threads -> Calls] /\ call'[t] = new
        /\ \A u \in Threads \ {t} : call'[u] = call[u]
    <2>1. call' = [call EXCEPT ![t] = new]
      BY <1>1 DEF new
    <2> QED BY <1>1, <1>2, <2>1, CallSet
  <1>5. ListsAgree' /\ \A d \in Contexts, Y \in SUBSET Types : AllocatedNext(d, Y) = Allocated(d, Y)
    BY <1>1, SameMemory
  <1>6. TypeOK'
    <2>1. \A u \in Threads : call'[u].before \subseteq running'
      BY <1>1, <1>2, <1>4 DEF TypeOK
    <2> QED BY <1>1, <1>4, <2>1, Zenon DEF TypeOK
  <1>7. LaunchesNeed'
    BY <1>1, <1>2, <1>3, <1>4 DEF Inv, LaunchesNeed, Allocated
  <1>8. FreesName'
    BY <1>2, <1>3, <1>4 DEF Inv, FreesName
  <1>9. OneKindIsVisible'
    BY <1>1 DEF Inv, OneKindIsVisible
  <1>10. BlockingFreeWaits'
    <2> SUFFICES ASSUME NEW u \in Threads, NEW l \in call'[u].before,
                        call'[u].next = "free", QueueContext[l.queue] = call'[u].context
                 PROVE  l.queue \notin Listed
      BY DEF BlockingFreeWaits
    <2>1. CASE u = t
      <3>1. l \in running /\ QueueContext[l.queue] = call[t].context
        BY <1>1, <1>2, <1>4, <2>1 DEF TypeOK
      <3>2. l \in Running(l.queue)
        BY <3>1 DEF Running
      <3>3. l.queue \notin ToFinish(call[t].context)
        BY <1>1, <3>2
      <3> QED BY <3>1, <3>3 DEF ToFinish
    <2>2. CASE u # t
      BY <1>4, <2>2 DEF Inv, BlockingFreeWaits
    <2> QED BY <2>1, <2>2
  <1> QED BY <1>5, <1>6, <1>7, <1>8, <1>9, <1>10 DEF Inv

\* What a kernel may access changes only while nobody launches the kernel.
LEMMA trackUSMKernelExecInfoKeepsInv ==
  ASSUME Inv, NEW t \in Threads, NEW k \in Kernels, trackUSMKernelExecInfo(t, k)
  PROVE  Inv'
  <1>1. /\ \A u \in Threads : call[u].kernel # k
        /\ settings < MaxSettings /\ settings' = settings + 1
        /\ UNCHANGED <<call, m_Mutex, AllocMap, AllocVector, svm, running, allocations, launches>>
        /\ TypeOK
    BY DEF trackUSMKernelExecInfo, SetIndirect, SetUSMPtrs, SetSVMPtrs, MayChange, memory, Inv
  <1>2. /\ kernelInfo' \in [Kernels -> [indirect : SUBSET Types, SVMPtrs : SUBSET Addresses,
                                      USMPtrs : SUBSET Addresses]]
        /\ execInfo' \in [Kernels -> SUBSET Addresses]
        /\ \A j \in Kernels \ {k} : kernelInfo'[j] = kernelInfo[j] /\ execInfo'[j] = execInfo[j]
    <2>1. ASSUME NEW types \in SUBSET Types, SetIndirect(t, k, types)
          PROVE  <1>2
      BY <1>1, <2>1 DEF SetIndirect, TypeOK
    <2>2. ASSUME NEW ptrs \in SUBSET Addresses, SetUSMPtrs(t, k, ptrs)
          PROVE  <1>2
      BY <1>1, <2>2 DEF SetUSMPtrs, TypeOK
    <2>3. ASSUME NEW ptrs \in SUBSET Addresses, SetSVMPtrs(t, k, ptrs)
          PROVE  <1>2
      BY <1>1, <2>3 DEF SetSVMPtrs, TypeOK
    <2>4. UNION {DOMAIN svm[c] : c \in Contexts} \subseteq Addresses
      BY <1>1 DEF TypeOK, Maps
    <2>5. CASE \E y \in Types : \/ SetIndirect(t, k, kernelInfo[k].indirect \cup {y})
                                \/ SetIndirect(t, k, kernelInfo[k].indirect \ {y})
      <3> PICK y \in Types : \/ SetIndirect(t, k, kernelInfo[k].indirect \cup {y})
                             \/ SetIndirect(t, k, kernelInfo[k].indirect \ {y})
        BY <2>5
      <3>1. /\ kernelInfo[k].indirect \cup {y} \in SUBSET Types
            /\ kernelInfo[k].indirect \ {y} \in SUBSET Types
        BY <1>1 DEF TypeOK
      <3> QED BY <2>1, <3>1
    <2>6. CASE \E ptrs \in {{}} \cup {{b} : b \in UNION {DOMAIN svm[c] : c \in Contexts}} :
                  SetUSMPtrs(t, k, ptrs) \/ SetSVMPtrs(t, k, ptrs)
      BY <2>2, <2>3, <2>4, <2>6
    <2> QED BY <2>5, <2>6 DEF trackUSMKernelExecInfo
  <1>3. ListsAgree'
    BY <1>1, SameMemory
  <1>4. TypeOK'
    <2>1. settings' \in 0 .. MaxSettings
      BY <1>1, UsmAssumption DEF TypeOK
    <2> QED BY <1>1, <1>2, <2>1, Zenon DEF TypeOK
  <1>5. LaunchesNeed'
    BY <1>1, <1>2 DEF Inv, LaunchesNeed, Allocated
  <1>6. FreesName' /\ OneKindIsVisible' /\ BlockingFreeWaits'
    BY <1>1 DEF Inv, FreesName, OneKindIsVisible, BlockingFreeWaits
  <1> QED BY <1>3, <1>4, <1>5, <1>6 DEF Inv

LEMMA BeginLaunchKeepsInv ==
  ASSUME Inv, NEW t \in Threads, NEW q \in Queues, NEW k \in Kernels, BeginLaunch(t, q, k)
  PROVE  Inv'
  <1> DEFINE next == IF kernelInfo[k].indirect = {} THEN "enqueue" ELSE "set"
             needs == Allocated(QueueContext[q], kernelInfo[k].indirect)
             new == Call("launch", next, NULL, 0, q, k, needs, {})
  <1>1. /\ launches < MaxLaunches /\ launches' = launches + 1
        /\ KernelContext[k] = QueueContext[q] /\ call' = [call EXCEPT ![t] = new]
        /\ UNCHANGED <<m_Mutex, AllocMap, AllocVector, svm, kernelInfo, execInfo, running,
                       allocations, settings>>
        /\ TypeOK
    BY DEF BeginLaunch, memory, kernels, Inv
  <1>2. next \in {"set", "enqueue"} /\ (next = "enqueue" => needs = {})
    BY DEF Allocated
  <1>3. needs \in SUBSET Addresses
    <2>1. QueueContext[q] \in Contexts
      BY UsmAssumption
    <2> QED BY <1>1, <2>1 DEF Allocated, TypeOK, Maps
  <1> HIDE DEF next, needs
  <1>4. /\ new \in Calls /\ new.kind = "launch" /\ new.next = next /\ new.queue = q
        /\ new.kernel = k /\ new.needs = needs /\ new.before = {}
    BY <1>2, <1>3 DEF Call, Calls
  <1> HIDE DEF new
  <1>5. /\ call' \in [Threads -> Calls] /\ call'[t] = new
        /\ \A u \in Threads \ {t} : call'[u] = call[u]
    BY <1>1, <1>4, CallSet
  <1>6. ListsAgree'
    BY <1>1, SameMemory
  <1>7. TypeOK'
    <2>1. \A u \in Threads : call'[u].before \subseteq running'
      BY <1>1, <1>4, <1>5 DEF TypeOK
    <2>2. launches' \in 0 .. MaxLaunches
      BY <1>1, UsmAssumption DEF TypeOK
    <2> QED BY <1>1, <1>5, <2>1, <2>2, Zenon DEF TypeOK
  <1>8. LaunchesNeed'
    <2>1. needs = Allocated(KernelContext[k], kernelInfo[k].indirect)
      BY <1>1 DEF needs
    <2> QED BY <1>1, <1>2, <1>4, <1>5, <2>1 DEF Inv, LaunchesNeed, Allocated
  <1>9. FreesName'
    BY <1>2, <1>4, <1>5 DEF Inv, FreesName
  <1>10. OneKindIsVisible' /\ BlockingFreeWaits'
    BY <1>1, <1>4, <1>5 DEF Inv, OneKindIsVisible, BlockingFreeWaits
  <1> QED BY <1>6, <1>7, <1>8, <1>9, <1>10 DEF Inv

\* On the fast path the driver is told of every allocation the kernel asked for;
\* on the other, no launch of the kernel is on the fast path any more.
LEMMA setUSMKernelExecInfoKeepsInv ==
  ASSUME Inv, NEW t \in Threads, setUSMKernelExecInfo(t)
  PROVE  Inv'
  <1> DEFINE k == call[t].kernel
             c == QueueContext[call[t].queue]
             Y == kernelInfo[k].indirect
  <1>1. /\ call[t].next = "set"
        /\ IF fastPath(c, k)
           THEN execInfo' = IF KindsToSet(c, k) = {} THEN execInfo
                            ELSE [execInfo EXCEPT ![k] = OfKinds(c, KindsToSet(c, k))]
           ELSE execInfo' \in {execInfo, [execInfo EXCEPT ![k] = Combined(c, k)]}
        /\ call' = [u \in Threads |->
                      [call[u] EXCEPT
                         !.next = IF u = t THEN "enqueue" ELSE call[u].next,
                         !.fast = IF call[u].kernel = k THEN call[u].fast /\ fastPath(c, k)
                                  ELSE call[u].fast]]
        /\ UNCHANGED <<m_Mutex, AllocMap, AllocVector, svm, kernelInfo, running,
                       allocations, launches, settings>>
        /\ TypeOK /\ ListsAgree /\ LaunchesNeed /\ FreesName
    BY DEF setUSMKernelExecInfo, memory, counts, Inv
  <1>2. call[t].kind = "launch" /\ k \in Kernels /\ c \in Contexts /\ c = KernelContext[k]
    BY <1>1, UsmAssumption DEF LaunchesNeed
  <1> HIDE DEF k, c
  <1>3. ASSUME NEW u \in Threads
        PROVE  /\ call'[u] \in Calls /\ call'[u].kind = call[u].kind
               /\ call'[u].kernel = call[u].kernel /\ call'[u].queue = call[u].queue
               /\ call'[u].context = call[u].context
               /\ call'[u].needs = call[u].needs /\ call'[u].before = call[u].before
               /\ u # t => call'[u].next = call[u].next
               /\ u = t => call'[u].next = "enqueue"
               /\ call'[u].fast => call[u].fast
               /\ call'[u].fast /\ call[u].kernel = k => fastPath(c, k)
    <2> DEFINE n == IF u = t THEN "enqueue" ELSE call[u].next
               f == IF call[u].kernel = k THEN call[u].fast /\ fastPath(c, k) ELSE call[u].fast
    <2>1. call[u] \in Calls
      BY <1>1 DEF TypeOK
    <2>2. call'[u] = [call[u] EXCEPT !.next = n, !.fast = f]
      BY <1>1
    <2>3. n \in {"none", "set", "enqueue", "finish", "free"} /\ f \in BOOLEAN
      <3>1. call[u].next \in {"none", "set", "enqueue", "finish", "free"} /\ call[u].fast \in BOOLEAN
        BY <2>1 DEF Calls
      <3>2. fastPath(c, k) \in BOOLEAN
        BY DEF fastPath
      <3> QED BY <3>1, <3>2
    <2>4. /\ u # t => n = call[u].next
          /\ u = t => n = "enqueue"
          /\ f => call[u].fast
          /\ f /\ call[u].kernel = k => fastPath(c, k)
      <3>1. fastPath(c, k) \in BOOLEAN /\ call[u].fast \in BOOLEAN
        BY <2>1 DEF fastPath, Calls
      <3> QED BY <3>1
    <2> HIDE DEF n, f
    <2>5. /\ call'[u] \in Calls /\ call'[u].kind = call[u].kind
          /\ call'[u].kernel = call[u].kernel /\ call'[u].queue = call[u].queue
          /\ call'[u].context = call[u].context
          /\ call'[u].needs = call[u].needs /\ call'[u].before = call[u].before
          /\ call'[u].next = n /\ call'[u].fast = f
      BY <2>1, <2>2, <2>3 DEF Calls
    <2> QED BY <2>4, <2>5
  <1>4. call' \in [Threads -> Calls]
    <2>1. DOMAIN call' = Threads /\ call' = [u \in Threads |-> call'[u]]
      BY <1>1
    <2> QED BY <1>3, <2>1
  <1>5. ListsAgree' /\ \A d \in Contexts, Z \in SUBSET Types : AllocatedNext(d, Z) = Allocated(d, Z)
    BY <1>1, SameMemory
  <1>6. /\ execInfo' \in [Kernels -> SUBSET Addresses]
        /\ \A j \in Kernels \ {k} : execInfo'[j] = execInfo[j]
        /\ fastPath(c, k) => Allocated(c, Y) \subseteq execInfo'[k]
    <2>1. OfKinds(c, KindsToSet(c, k)) = Allocated(c, Y) /\ Allocated(c, Y) \in SUBSET Addresses
      <3>1. OfKinds(c, KindsToSet(c, k)) = Allocated(c, Y)
        BY <1>1, <1>2, KindsCovered
      <3>2. Allocated(c, Y) \in SUBSET Addresses
        BY <1>1, <1>2, AllocatedTyped
      <3> QED BY <3>1, <3>2
    <2>2. Combined(c, k) \in SUBSET Addresses
      BY DEF Combined
    <2>3. KindsToSet(c, k) = {} => Allocated(c, Y) = {}
      BY <2>1 DEF OfKinds
    <2> QED BY <1>1, <1>2, <2>1, <2>2, <2>3 DEF TypeOK
  <1>7. TypeOK'
    <2>1. \A u \in Threads : call'[u].before \subseteq running'
      BY <1>1, <1>3 DEF TypeOK
    <2> QED BY <1>1, <1>4, <1>6, <2>1, Zenon DEF TypeOK
  <1>8. LaunchesNeed'
    <2> SUFFICES ASSUME NEW u \in Threads
                 PROVE  /\ call'[u].next \in {"set", "enqueue"} => call'[u].kind = "launch"
                        /\ call'[u].kind = "launch" =>
                              /\ call'[u].kernel \in Kernels /\ call'[u].queue \in Queues
                              /\ QueueContext[call'[u].queue] = KernelContext[call'[u].kernel]
                              /\ call'[u].needs \subseteq
                                    AllocatedNext(KernelContext[call'[u].kernel],
                                                  kernelInfo'[call'[u].kernel].indirect)
                              /\ call'[u].next = "enqueue" /\ call'[u].fast =>
                                    call'[u].needs \subseteq execInfo'[call'[u].kernel]
      BY DEF LaunchesNeed, Allocated, AllocatedNext
    <2>1. call[u].kind = "launch" =>
             /\ call[u].kernel \in Kernels /\ call[u].queue \in Queues
             /\ QueueContext[call[u].queue] = KernelContext[call[u].kernel]
             /\ call[u].needs \subseteq
                   Allocated(KernelContext[call[u].kernel], kernelInfo[call[u].kernel].indirect)
      BY <1>1 DEF LaunchesNeed
    <2>2. ASSUME call[u].kind = "launch"
          PROVE  AllocatedNext(KernelContext[call[u].kernel], kernelInfo[call[u].kernel].indirect)
                 = Allocated(KernelContext[call[u].kernel], kernelInfo[call[u].kernel].indirect)
      BY <1>1, <1>5, <2>1, <2>2, UsmAssumption DEF TypeOK
    <2>3. ASSUME call[u].kind = "launch", call'[u].next = "enqueue", call'[u].fast
          PROVE  call[u].needs \subseteq execInfo'[call[u].kernel]
      <3>1. CASE call[u].kernel = k
        <4>1. fastPath(c, k)
          BY <1>3, <2>3, <3>1
        <4> QED BY <1>2, <1>6, <2>1, <2>3, <3>1, <4>1
      <3>2. CASE call[u].kernel # k
        <4>1. u # t /\ call[u].next = "enqueue" /\ call[u].fast
          BY <1>3, <2>3, <3>2 DEF k
        <4> QED BY <1>1, <1>6, <2>1, <2>3, <3>2, <4>1 DEF LaunchesNeed
      <3> QED BY <3>1, <3>2
    <2>4. call'[u].next \in {"set", "enqueue"} => call[u].kind = "launch"
      <3>1. CASE u = t
        BY <1>2, <3>1
      <3>2. CASE u # t
        <4>1. call'[u].next = call[u].next
          BY <1>3, <3>2
        <4> QED BY <1>1, <4>1 DEF LaunchesNeed
      <3> QED BY <3>1, <3>2
    <2>5. /\ kernelInfo' = kernelInfo /\ call'[u].kind = call[u].kind
          /\ call'[u].kernel = call[u].kernel /\ call'[u].queue = call[u].queue
          /\ call'[u].needs = call[u].needs
      BY <1>1, <1>3
    <2>6. CASE call[u].kind = "launch"
      <3>1. call[u].needs \subseteq AllocatedNext(KernelContext[call[u].kernel],
                                                 kernelInfo[call[u].kernel].indirect)
        BY <2>1, <2>2, <2>6
      <3> QED BY <2>1, <2>3, <2>4, <2>5, <2>6, <3>1
    <2>7. CASE call[u].kind # "launch"
      BY <2>4, <2>5, <2>7
    <2> QED BY <2>6, <2>7
  <1>9. FreesName'
    <2> SUFFICES ASSUME NEW u \in Threads, call'[u].next \in {"finish", "free"}
                 PROVE  call'[u].kind = "free" /\ call'[u].context \in Contexts
      BY DEF FreesName
    <2>1. u # t /\ call'[u].next = call[u].next /\ call'[u].kind = call[u].kind
          /\ call'[u].context = call[u].context
      BY <1>3
    <2> QED BY <1>1, <2>1 DEF FreesName
  <1>10. OneKindIsVisible'
    BY <1>1 DEF Inv, OneKindIsVisible
  <1>11. BlockingFreeWaits'
    <2> SUFFICES ASSUME NEW u \in Threads, NEW l \in call'[u].before,
                        call'[u].next = "free", QueueContext[l.queue] = call'[u].context
                 PROVE  l.queue \notin Listed
      BY DEF BlockingFreeWaits
    <2>1. l \in call[u].before /\ call[u].next = "free" /\ QueueContext[l.queue] = call[u].context
      BY <1>3
    <2> QED BY <2>1 DEF Inv, BlockingFreeWaits
  <1> QED BY <1>5, <1>7, <1>8, <1>9, <1>10, <1>11 DEF Inv

LEMMA clEnqueueNDRangeKernelKeepsInv ==
  ASSUME Inv, NEW t \in Threads, clEnqueueNDRangeKernel(t)
  PROVE  Inv'
  <1> DEFINE new == [queue |-> call[t].queue, fast |-> call[t].fast,
                     sees |-> call[t].needs \subseteq execInfo[call[t].kernel]]
  <1>1. /\ call[t].next = "enqueue" /\ running' \in {running, running \cup {new}}
        /\ call' = [call EXCEPT ![t] = NoCall]
        /\ UNCHANGED <<m_Mutex, AllocMap, AllocVector, svm, kernelInfo, execInfo,
                       allocations, launches, settings>>
        /\ TypeOK /\ LaunchesNeed
    BY DEF clEnqueueNDRangeKernel, memory, kernels, counts, Inv
  <1>2. new \in Launches /\ (new.fast => new.sees)
    <2>1. call[t] \in Calls /\ call[t].kind = "launch"
      BY <1>1 DEF TypeOK, LaunchesNeed
    <2>2. call[t].queue \in Queues /\ call[t].fast \in BOOLEAN
      BY <1>1, <2>1 DEF LaunchesNeed, Calls
    <2>3. call[t].fast => call[t].needs \subseteq execInfo[call[t].kernel]
      BY <1>1, <2>1 DEF LaunchesNeed
    <2> QED BY <2>2, <2>3 DEF Launches
  <1> HIDE DEF new
  <1>3. /\ call' \in [Threads -> Calls] /\ call'[t] = NoCall
        /\ \A u \in Threads \ {t} : call'[u] = call[u]
    BY <1>1, CallSet, NoCallTyped
  <1>4. ListsAgree'
    BY <1>1, SameMemory
  <1>5. running \subseteq running' /\ running' \subseteq running \cup {new}
    BY <1>1
  <1>6. TypeOK'
    <2>1. \A u \in Threads : call'[u].before \subseteq running'
      BY <1>1, <1>3, <1>5, NoCallTyped DEF TypeOK
    <2>2. running' \subseteq Launches
      BY <1>1, <1>2, <1>5 DEF TypeOK
    <2> QED BY <1>1, <1>3, <2>1, <2>2, Zenon DEF TypeOK
  <1>7. LaunchesNeed'
    BY <1>1, <1>3, NoCallTyped DEF LaunchesNeed, Allocated
  <1>8. FreesName'
    BY <1>3, NoCallTyped DEF Inv, FreesName
  <1>9. OneKindIsVisible'
    BY <1>2, <1>5 DEF Inv, OneKindIsVisible
  <1>10. BlockingFreeWaits'
    BY <1>3, NoCallTyped DEF Inv, BlockingFreeWaits
  <1> QED BY <1>4, <1>6, <1>7, <1>8, <1>9, <1>10 DEF Inv

-----------------------------------------------------------------------------
(* The query: the second invariant. *)

\* A set of numbers that has a member and a bound has a greatest member.
LEMMA SmallestSet ==
  ASSUME NEW F, F # {}, \A X \in F : IsFiniteSet(X)
  PROVE  \E X \in F : \A Y \in F : Y \subseteq X => Y = X
  <1> DEFINE U == UNION F
             R == StrictSubsetOrdering(U)
             D == FiniteSubsetsOf(U)
  <1>1. IsWellFoundedOn(R, D)
    BY FS_StrictSubsetOrderingWellFounded
  <1>2. F \subseteq D
    BY DEF FiniteSubsetsOf
  <1> HIDE DEF R, D
  <1>3. \E X \in F : \A Y \in F : ~ (<<Y, X>> \in R)
    BY <1>1, <1>2, WFMin
  <1>4. \A X, Y \in F : Y \subseteq X /\ Y # X => <<Y, X>> \in R
    BY <1>2 DEF R, D, StrictSubsetOrdering, FiniteSubsetsOf
  <1> QED BY <1>3, <1>4

LEMMA GreatestNumber ==
  ASSUME NEW S \in SUBSET Nat, S # {}, NEW n \in Nat, \A s \in S : s <= n
  PROVE  \E x \in S : \A y \in S : x >= y
  <1> DEFINE F == {s .. n : s \in S}
  <1>1. F # {} /\ \A X \in F : IsFiniteSet(X)
    <2>1. ASSUME NEW s \in S
          PROVE  IsFiniteSet(s .. n)
      <3>1. s \in Int /\ n \in Int
        OBVIOUS
      <3> QED BY <3>1, FS_Interval
    <2> QED BY <2>1
  <1> HIDE DEF F
  <1>2. PICK X \in F : \A Y \in F : Y \subseteq X => Y = X
    BY <1>1, SmallestSet
  <1>3. PICK x \in S : X = x .. n
    BY <1>2 DEF F
  <1>4. ASSUME NEW y \in S, ~(x >= y)
        PROVE  FALSE
    <2>1. y .. n \in F /\ y .. n \subseteq X
      BY <1>3, <1>4 DEF F
    <2>2. x \in X /\ x \notin y .. n
      BY <1>3, <1>4
    <2> QED BY <1>2, <2>1, <2>2
  <1> QED BY <1>4

\* The layer has the sizes the driver has, and no two allocations overlap.
MapsAgree ==
    \A c \in Contexts :
        /\ \A b \in DOMAIN svm[c] : AllocMap[c][b].Size = svm[c][b]
        /\ \A a, b \in DOMAIN svm[c] : a < b => a + svm[c][a] <= b

LEMMA SvmTyped ==
  ASSUME TypeOK, NEW c \in Contexts
  PROVE  /\ AllocMap[c] \in Maps([Type : Types, Size : 1 .. 2]) /\ svm[c] \in Maps(1 .. 2)
         /\ \A b \in DOMAIN svm[c] : b \in Addresses /\ b \in Nat /\ b > 0 /\ b <= Top
                                     /\ svm[c][b] \in 1 .. 2
  <1>1. AllocMap[c] \in Maps([Type : Types, Size : 1 .. 2]) /\ svm[c] \in Maps(1 .. 2)
    BY DEF TypeOK
  <1> QED BY <1>1, UsmAssumption DEF Maps, Addresses

LEMMA AllocKeepsMapsAgree ==
  ASSUME Inv, MapsAgree, NEW t \in Threads, NEW c \in Contexts, NEW type \in Types,
         Alloc(t, c, type)
  PROVE  MapsAgree'
  <1>1. PICK base \in Addresses, size \in 1 .. 2 :
          /\ Interval(base, size) \subseteq Addresses \ Taken
          /\ svm' = [svm EXCEPT ![c] = Insert(svm[c], base, size)]
          /\ AllocMap' = [AllocMap EXCEPT
                            ![c] = Insert(AllocMap[c], base, [Type |-> type, Size |-> size])]
    BY DEF Alloc
  <1> DEFINE new == [Type |-> type, Size |-> size]
  <1>2. new \in [Type : Types, Size : 1 .. 2] /\ new.Size = size
    OBVIOUS
  <1> HIDE DEF new
  <1>3. TypeOK /\ DOMAIN svm[c] = DOMAIN AllocMap[c] /\ base \in Nat /\ size \in 1 .. 2
        /\ svm \in [Contexts -> Maps(1 .. 2)]
        /\ AllocMap \in [Contexts -> Maps([Type : Types, Size : 1 .. 2])]
    <2>1. base \in Nat
      BY UsmAssumption DEF Addresses
    <2> QED BY <2>1 DEF Inv, TypeOK, ListsAgree
  <1>4. /\ svm'[c] = Insert(svm[c], base, size) /\ AllocMap'[c] = Insert(AllocMap[c], base, new)
        /\ \A d \in Contexts \ {c} : svm'[d] = svm[d] /\ AllocMap'[d] = AllocMap[d]
    BY <1>1, <1>3 DEF new
  <1>5. /\ \A y : y \in DOMAIN svm'[c] <=> y \in DOMAIN svm[c] \/ y = base
        /\ \A y : y \in DOMAIN svm[c] \/ y = base =>
              svm'[c][y] = IF y = base THEN size ELSE svm[c][y]
    <2>1. svm[c] \in Maps(1 .. 2)
      BY <1>3, SvmTyped
    <2> QED BY <1>4, <2>1, Inserted
  <1>6. \A y : y \in DOMAIN svm[c] \/ y = base =>
              AllocMap'[c][y] = IF y = base THEN new ELSE AllocMap[c][y]
    <2> DEFINE V == [Type : Types, Size : 1 .. 2]
    <2>1. AllocMap[c] \in Maps(V) /\ new \in V
      BY <1>2, <1>3, SvmTyped
    <2> HIDE DEF V
    <2>2. \A y : y \in DOMAIN AllocMap[c] \/ y = base =>
             Insert(AllocMap[c], base, new)[y] = IF y = base THEN new ELSE AllocMap[c][y]
      BY <2>1, Inserted
    <2> QED BY <1>3, <1>4, <2>2
  <1>7. ASSUME NEW b \in DOMAIN svm[c]
        PROVE  /\ b < base => b + svm[c][b] <= base
               /\ base < b => base + size <= b
    <2>1. b \in Nat /\ svm[c][b] \in 1 .. 2
      BY <1>3, SvmTyped
    <2>2. \A x \in Interval(b, svm[c][b]) : x \notin Interval(base, size)
      BY <1>1 DEF Taken
    <2>3. b \in Interval(b, svm[c][b]) /\ base \in Interval(base, size)
      BY <1>3, <2>1 DEF Interval
    <2>4. b \notin Interval(base, size) /\ base \notin Interval(b, svm[c][b])
      BY <2>2, <2>3
    <2> QED BY <1>3, <2>1, <2>4 DEF Interval
  <1>8. ASSUME NEW d \in Contexts
        PROVE  /\ \A b \in DOMAIN svm'[d] : AllocMap'[d][b].Size = svm'[d][b]
               /\ \A a, b \in DOMAIN svm'[d] : a < b => a + svm'[d][a] <= b
    <2>1. CASE d # c
      BY <1>4, <2>1 DEF MapsAgree
    <2>2. CASE d = c
      <3>1. \A b \in DOMAIN svm'[c] : AllocMap'[c][b].Size = svm'[c][b]
        BY <1>2, <1>5, <1>6 DEF MapsAgree
      <3>2. ASSUME NEW a \in DOMAIN svm'[c], NEW b \in DOMAIN svm'[c], a < b
            PROVE  a + svm'[c][a] <= b
        <4>1. CASE a = base /\ b = base
          BY <1>3, <3>2, <4>1
        <4>2. CASE a = base /\ b # base
          BY <1>5, <1>7, <3>2, <4>2
        <4>3. CASE a # base /\ b = base
          BY <1>5, <1>7, <3>2, <4>3
        <4>4. CASE a # base /\ b # base
          BY <1>5, <3>2, <4>4 DEF MapsAgree
        <4> QED BY <4>1, <4>2, <4>3, <4>4
      <3> QED BY <2>2, <3>1, <3>2
    <2> QED BY <2>1, <2>2
  <1> QED BY <1>8 DEF MapsAgree

LEMMA FreeKeepsMapsAgree ==
  ASSUME Inv, MapsAgree, NEW c \in Contexts, NEW p, emulatedMemFree(c, p)
  PROVE  MapsAgree'
  <1>1. /\ svm' = [svm EXCEPT ![c] = Erase(svm[c], p)]
        /\ AllocMap' = [AllocMap EXCEPT ![c] = Erase(AllocMap[c], p)]
    BY DEF emulatedMemFree
  <1>2. TypeOK /\ DOMAIN svm[c] = DOMAIN AllocMap[c]
        /\ svm \in [Contexts -> Maps(1 .. 2)]
        /\ AllocMap \in [Contexts -> Maps([Type : Types, Size : 1 .. 2])]
    BY DEF Inv, TypeOK, ListsAgree
  <1>3. /\ svm'[c] = Erase(svm[c], p) /\ AllocMap'[c] = Erase(AllocMap[c], p)
        /\ \A d \in Contexts \ {c} : svm'[d] = svm[d] /\ AllocMap'[d] = AllocMap[d]
    BY <1>1, <1>2
  <1>4. /\ DOMAIN svm'[c] = DOMAIN svm[c] \ {p}
        /\ \A y \in DOMAIN svm[c] \ {p} : svm'[c][y] = svm[c][y]
    <2> DEFINE V == 1 .. 2
    <2>1. svm[c] \in Maps(V)
      BY <1>2, SvmTyped
    <2> HIDE DEF V
    <2>2. /\ DOMAIN Erase(svm[c], p) = DOMAIN svm[c] \ {p}
          /\ \A y \in DOMAIN svm[c] \ {p} : Erase(svm[c], p)[y] = svm[c][y]
      BY <2>1, Erased
    <2> QED BY <1>3, <2>2
  <1>5. \A y \in DOMAIN svm[c] \ {p} : AllocMap'[c][y] = AllocMap[c][y]
    <2> DEFINE V == [Type : Types, Size : 1 .. 2]
    <2>1. AllocMap[c] \in Maps(V)
      BY <1>2, SvmTyped
    <2> HIDE DEF V
    <2>2. \A y \in DOMAIN AllocMap[c] \ {p} : Erase(AllocMap[c], p)[y] = AllocMap[c][y]
      BY <2>1, Erased
    <2> QED BY <1>2, <1>3, <2>2
  <1> QED BY <1>3, <1>4, <1>5 DEF MapsAgree

LEMMA NextKeepsMapsAgree ==
  ASSUME Inv, MapsAgree, [Next]_vars
  PROVE  MapsAgree'
  <1>1. ASSUME NEW t \in Threads, NEW c \in Contexts,
               \/ emulatedHostMemAlloc(t, c) \/ emulatedDeviceMemAlloc(t, c)
               \/ emulatedSharedMemAlloc(t, c)
        PROVE  MapsAgree'
    <2>1. Host \in Types /\ Device \in Types /\ Shared \in Types
      BY DEF Types
    <2> QED BY <1>1, <2>1, AllocKeepsMapsAgree
            DEF emulatedHostMemAlloc, emulatedDeviceMemAlloc, emulatedSharedMemAlloc
  <1>2. ASSUME NEW t \in Threads, NEW c \in Contexts, NEW p \in Addresses,
               clMemFreeINTEL_EMU(t, c, p)
        PROVE  MapsAgree'
    BY <1>2, FreeKeepsMapsAgree DEF clMemFreeINTEL_EMU
  <1>3. ASSUME UNCHANGED memory
        PROVE  MapsAgree'
    BY <1>3 DEF memory, MapsAgree
  <1>4. ASSUME NEW t \in Threads, clMemBlockingFreeINTEL_EMU(t)
        PROVE  MapsAgree'
    <2>1. call[t].context \in Contexts
      BY <1>4 DEF clMemBlockingFreeINTEL_EMU, Inv, FreesName
    <2> QED BY <1>3, <1>4, <2>1, FreeKeepsMapsAgree DEF clMemBlockingFreeINTEL_EMU
  <1>5. ASSUME NEW t \in Threads,
               \/ finishAll(t) \/ setUSMKernelExecInfo(t) \/ clEnqueueNDRangeKernel(t)
               \/ \E k \in Kernels : \/ trackUSMKernelExecInfo(t, k)
                                     \/ \E q \in Queues : BeginLaunch(t, q, k)
               \/ \E c \in Contexts, p \in Addresses : BeginBlockingFree(t, c, p)
               \/ \E r \in running : Complete(r)
        PROVE  UNCHANGED memory
    BY <1>5 DEF finishAll, setUSMKernelExecInfo, clEnqueueNDRangeKernel, trackUSMKernelExecInfo,
       SetIndirect, SetUSMPtrs, SetSVMPtrs, MayChange, BeginLaunch, BeginBlockingFree, Complete
  <1>6. ASSUME NEW r \in running, Complete(r)
        PROVE  UNCHANGED memory
    BY <1>6 DEF Complete
  <1>7. UNCHANGED vars => UNCHANGED memory
    BY DEF vars
  <1> QED BY <1>1, <1>2, <1>3, <1>4, <1>5, <1>6, <1>7 DEF Next

\* The candidate is the greatest base address that is not above the pointer.
LEMMA CandidateIsNearest ==
  ASSUME Inv, NEW c \in Contexts, NEW p \in Addresses
  PROVE  /\ Candidate(c, p) \in DOMAIN svm[c] \cup {0} /\ Candidate(c, p) <= p
         /\ \A b \in DOMAIN svm[c] : b <= p => b <= Candidate(c, p)
  <1> DEFINE keys == DOMAIN AllocMap[c]
             K == {k \in keys : k < p} \cup {0}
  <1>1. TypeOK /\ keys = DOMAIN svm[c] /\ p \in Nat /\ p > 0
    BY UsmAssumption DEF Inv, ListsAgree, Addresses
  <1>2. \A k \in keys : k \in Nat
    BY <1>1, SvmTyped
  <1>3. CASE p \in keys
    <2>1. Candidate(c, p) = p
      BY <1>3 DEF Candidate
    <2> QED BY <1>1, <1>3, <2>1
  <1>4. CASE p \notin keys
    <2>1. Candidate(c, p) = Max(K)
      BY <1>4 DEF Candidate
    <2>2. K \in SUBSET Nat /\ K # {} /\ \A k \in K : k <= p
      BY <1>1, <1>2
    <2>3. \A b \in keys : b <= p => b \in K
      BY <1>1, <1>2, <1>4
    <2>4. K \subseteq keys \cup {0}
      OBVIOUS
    <2> HIDE DEF K
    <2>5. \E x \in K : \A y \in K : x >= y
      BY <1>1, <2>2, GreatestNumber
    <2>6. Max(K) \in K /\ \A y \in K : Max(K) >= y
      BY <2>5 DEF Max
    <2> HIDE DEF keys
    <2>7. Max(K) \in Nat /\ \A b \in keys : b <= p => b <= Max(K)
      BY <1>2, <2>2, <2>3, <2>6
    <2> QED BY <1>1, <2>1, <2>2, <2>4, <2>6, <2>7
  <1> QED BY <1>3, <1>4

LEMMA QueriesFind ==
  ASSUME Inv, MapsAgree
  PROVE  QueriesFindTheAllocation
  <1> SUFFICES ASSUME NEW c \in Contexts, NEW p \in Addresses
               PROVE  LET holding == {b \in DOMAIN svm[c] : p \in Interval(b, svm[c][b])}
                      IN  emulatedGetMemAllocInfoINTEL(c, p) =
                             IF holding = {} THEN 0 ELSE CHOOSE b \in holding : TRUE
    BY DEF QueriesFindTheAllocation
  <1> DEFINE holding == {b \in DOMAIN svm[c] : p \in Interval(b, svm[c][b])}
             base == Candidate(c, p)
  <1>1. /\ base \in DOMAIN svm[c] \cup {0} /\ base <= p
        /\ \A b \in DOMAIN svm[c] : b <= p => b <= base
    BY CandidateIsNearest
  <1>2. /\ \A b \in DOMAIN svm[c] : b \in Nat /\ b > 0 /\ svm[c][b] \in 1 .. 2
        /\ p \in Nat
    BY SvmTyped DEF Inv, Addresses
  <1>3. emulatedGetMemAllocInfoINTEL(c, p) =
           IF base # 0 /\ p < base + AllocMap[c][base].Size THEN base ELSE 0
    BY DEF emulatedGetMemAllocInfoINTEL
  <1>4. \A b \in DOMAIN svm[c] : AllocMap[c][b].Size = svm[c][b]
    BY DEF MapsAgree
  <1>5. \A b \in DOMAIN svm[c] : b \in holding <=> b <= p /\ p < b + svm[c][b]
    BY <1>2 DEF Interval
  <1>6. \A a, b \in DOMAIN svm[c] : a < b => a + svm[c][a] <= b
    BY DEF MapsAgree
  <1>7. holding \subseteq DOMAIN svm[c]
    OBVIOUS
  <1> HIDE DEF holding, base
  <1>8. holding \subseteq {base}
    <2> SUFFICES ASSUME NEW b \in holding
                 PROVE  b = base
      OBVIOUS
    <2>1. b \in DOMAIN svm[c] /\ b <= p /\ p < b + svm[c][b] /\ b <= base
      BY <1>1, <1>5, <1>7
    <2>2. base \in DOMAIN svm[c]
      BY <1>1, <1>2, <2>1
    <2>3. b < base => b + svm[c][b] <= base
      BY <1>6, <2>1, <2>2
    <2>4. b \in Nat /\ base \in Nat /\ svm[c][b] \in Nat
      BY <1>2, <2>1, <2>2
    <2> QED BY <1>1, <1>2, <2>1, <2>3, <2>4
  <1>9. base \in holding <=> base # 0 /\ p < base + AllocMap[c][base].Size
    <2>1. 0 \notin DOMAIN svm[c] /\ (base # 0 => base \in DOMAIN svm[c])
      BY <1>1, <1>2
    <2>2. CASE base = 0
      BY <1>7, <2>1, <2>2
    <2>3. CASE base # 0
      <3>1. base \in DOMAIN svm[c] /\ AllocMap[c][base].Size = svm[c][base]
        BY <1>4, <2>1, <2>3
      <3> QED BY <1>1, <1>5, <2>3, <3>1
    <2> QED BY <2>2, <2>3
  <1>10. CASE base \in holding
    <2>1. holding = {base}
      BY <1>8, <1>10
    <2>2. (CHOOSE b \in holding : TRUE) = base /\ holding # {}
      BY <2>1
    <2> QED BY <1>3, <1>9, <1>10, <2>2 DEF holding
  <1>11. CASE base \notin holding
    <2>1. holding = {}
      BY <1>8, <1>11
    <2> QED BY <1>3, <1>9, <1>11, <2>1 DEF holding
  <1> QED BY <1>10, <1>11

-----------------------------------------------------------------------------
(* Unified shared memory: the invariant always holds. *)

LEMMA EmptyMap ==
  ASSUME NEW V
  PROVE  << >> \in Maps(V)
  <1>1. << >> \in [{} -> V]
    <2>1. << >> \in [1 .. Len(<< >>) -> V] /\ Len(<< >>) = 0
      BY EmptySeq, LenProperties
    <2>2. 1 .. 0 = {}
      OBVIOUS
    <2> QED BY <2>1, <2>2
  <1>2. {} \in SUBSET Addresses
    OBVIOUS
  <1> QED BY <1>1, <1>2 DEF Maps

LEMMA InitInv == Init => Inv
  <1> SUFFICES ASSUME Init
               PROVE  Inv
    OBVIOUS
  <1>1. TypeOK
    <2>1. << >> \in Maps([Type : Types, Size : 1 .. 2]) /\ << >> \in Maps(1 .. 2)
      BY EmptyMap
    <2>2. << >> \in Seq(Addresses)
      BY EmptySeq
    <2>3. call \in [Threads -> Calls] /\ \A t \in Threads : call[t].before \subseteq running
      BY NoCallTyped DEF Init
    <2>4. NoKernelInfo \in [indirect : SUBSET Types, SVMPtrs : SUBSET Addresses,
                            USMPtrs : SUBSET Addresses]
      BY DEF NoKernelInfo
    <2> QED BY <2>1, <2>2, <2>3, <2>4, UsmAssumption DEF Init, TypeOK
  <1>2. ListsAgree
    <2>1. DOMAIN << >> = {} /\ Range(<< >>) = {} /\ OneToOne(<< >>)
      BY DEF Range, OneToOne
    <2> QED BY <2>1 DEF Init, ListsAgree, Allocated
  <1>3. LaunchesNeed /\ FreesName /\ BlockingFreeWaits /\ OneKindIsVisible
    BY NoCallTyped DEF Init, LaunchesNeed, FreesName, BlockingFreeWaits, OneKindIsVisible
  <1> QED BY <1>1, <1>2, <1>3 DEF Inv

LEMMA NextKeepsInv ==
  ASSUME Inv, [Next]_vars
  PROVE  Inv'
  <1>1. ASSUME NEW t \in Threads, NEW c \in Contexts,
               \/ emulatedHostMemAlloc(t, c) \/ emulatedDeviceMemAlloc(t, c)
               \/ emulatedSharedMemAlloc(t, c)
        PROVE  Inv'
    <2>1. Host \in Types /\ Device \in Types /\ Shared \in Types
      BY DEF Types
    <2> QED BY <1>1, <2>1, AllocKeepsInv
            DEF emulatedHostMemAlloc, emulatedDeviceMemAlloc, emulatedSharedMemAlloc
  <1>2. ASSUME NEW t \in Threads, NEW c \in Contexts, NEW p \in Addresses,
               clMemFreeINTEL_EMU(t, c, p) \/ BeginBlockingFree(t, c, p)
        PROVE  Inv'
    BY <1>2, MemFreeKeepsInv, BeginBlockingFreeKeepsInv
  <1>3. ASSUME NEW t \in Threads,
               \/ finishAll(t) \/ clMemBlockingFreeINTEL_EMU(t)
               \/ setUSMKernelExecInfo(t) \/ clEnqueueNDRangeKernel(t)
        PROVE  Inv'
    BY <1>3, finishAllKeepsInv, BlockingFreeKeepsInv, setUSMKernelExecInfoKeepsInv,
       clEnqueueNDRangeKernelKeepsInv
  <1>4. ASSUME NEW t \in Threads, NEW k \in Kernels,
               trackUSMKernelExecInfo(t, k) \/ \E q \in Queues : BeginLaunch(t, q, k)
        PROVE  Inv'
    BY <1>4, trackUSMKernelExecInfoKeepsInv, BeginLaunchKeepsInv
  <1>5. ASSUME NEW r \in running, Complete(r)
        PROVE  Inv'
    BY <1>5, CompleteKeepsInv
  <1>6. CASE UNCHANGED vars
    <2>1. UNCHANGED <<call, m_Mutex, AllocMap, AllocVector, svm, kernelInfo, execInfo, running,
                      allocations, launches, settings>>
      BY <1>6 DEF vars, memory, kernels, counts
    <2>2. TypeOK'
      BY <2>1, Zenon DEF Inv, TypeOK
    <2>3. ListsAgree'
      BY <2>1, SameMemory
    <2>4. LaunchesNeed'
      BY <2>1 DEF Inv, LaunchesNeed, Allocated
    <2>5. FreesName' /\ OneKindIsVisible' /\ BlockingFreeWaits'
      BY <2>1 DEF Inv, FreesName, OneKindIsVisible, BlockingFreeWaits
    <2> QED BY <2>2, <2>3, <2>4, <2>5 DEF Inv
  <1> QED BY <1>1, <1>2, <1>3, <1>4, <1>5, <1>6 DEF Next

LEMMA InvAlways == Spec => []Inv
  <1>1. Inv /\ [Next]_vars => Inv'
    BY NextKeepsInv
  <1> QED BY InitInv, <1>1, PTL DEF Spec

-----------------------------------------------------------------------------
(* The semaphores: the inductive invariant. *)

\* The standard operators, as SemaphoreEmulation has them.
LEMMA SameCardinality ==
  /\ \A X : Sem!IsFiniteSet(X) = IsFiniteSet(X)
  /\ \A X : Sem!Cardinality(X) = Cardinality(X)
  BY DEF Sem!IsFiniteSet, IsFiniteSet, Sem!Cardinality, Cardinality

SemAssumption ==
    /\ IsFiniteSet(Threads) /\ IsFiniteSet(Semaphores) /\ NULL \notin Events
    /\ Overlapping = FALSE /\ StaleEvents = FALSE
    /\ MaxRefs \in Nat \ {0} /\ MaxRefusals \in Nat

LEMMA SemAssumed == SemAssumption
  BY SemaphoresAssumed, SameCardinality DEF Sem!SemaphoreAssumption, SemAssumption

EventsCounted ==
    \A e \in Events :
        refs[e] = own[e] + leaked[e] + Cardinality(Sem!LocalOf(e)) + Cardinality(Sem!Holders(e))

LEMMA CountedIsCounted == EventsCounted <=> EventsAreCounted
  BY SameCardinality DEF EventsCounted, EventsAreCounted, Sem!EventsAreCounted

\* A call in progress names living semaphores that no other call names; a signal
\* finds them without an event, a wait with one; an event the application asked
\* for is still the application's.
CallsInProgress ==
    \A t \in Threads : ~Sem!Idle(t) =>
        /\ Sem!Named(enqueuing[t]) \subseteq Sem!Live
        /\ \A u \in Threads \ {t} : Sem!Named(enqueuing[t]) \cap Sem!Named(enqueuing[u]) = {}
        /\ \A s \in Sem!Named(enqueuing[t]) :
              (Event[s] = NULL) <=> (enqueuing[t].kind = "signal")
        /\ enqueuing[t].next = "marker" => enqueuing[t].event = NULL
        /\ enqueuing[t].event # NULL /\ enqueuing[t].wants => own[enqueuing[t].event] = 1

SemInv == Sem!TypeOK /\ CallsInProgress /\ EventsCounted

-----------------------------------------------------------------------------
(* The lists of semaphores and the owners of an event. *)

LEMMA ListNames ==
  ASSUME NEW list \in Sem!Lists, NEW N, N = {list[i] : i \in DOMAIN list}
  PROVE  /\ N \subseteq Semaphores /\ N # {} /\ IsFiniteSet(N)
         /\ Cardinality(N) \in Nat /\ Len(list) \in Nat
         /\ Cardinality(N) >= 1 /\ Cardinality(N) <= Len(list)
         /\ list[1] \in N
         /\ Len(list) = 2 /\ list[1] # list[2] => N = {list[1], list[2]}
         /\ ~(Len(list) = 2 /\ list[1] # list[2]) => N = {list[1]}
  <1>1. CASE \E s \in Semaphores : list = <<s>>
    <2> PICK s \in Semaphores : list = <<s>>
      BY <1>1
    <2>1. N = {s} /\ Len(list) = 1 /\ list[1] = s
      OBVIOUS
    <2> QED BY <2>1, FS_Singleton
  <1>2. CASE \E s, r \in Semaphores : list = <<s, r>>
    <2> PICK s \in Semaphores, r \in Semaphores : list = <<s, r>>
      BY <1>2
    <2>1. N = {s} \cup {r} /\ Len(list) = 2 /\ list[1] = s /\ list[2] = r
      OBVIOUS
    <2>2. IsFiniteSet({s}) /\ Cardinality({s}) = 1
      BY FS_Singleton
    <2>3. /\ IsFiniteSet({s} \cup {r})
          /\ Cardinality({s} \cup {r}) = IF r \in {s} THEN 1 ELSE 2
      <3> DEFINE S == {s}
      <3> HIDE DEF S
      <3>1. IsFiniteSet(S) /\ Cardinality(S) = 1
        BY <2>2 DEF S
      <3>2. /\ IsFiniteSet(S \cup {r})
            /\ Cardinality(S \cup {r}) = IF r \in S THEN 1 ELSE 2
        BY <3>1, FS_AddElement
      <3> QED BY <3>2 DEF S
    <2> QED BY <2>1, <2>3
  <1> QED BY <1>1, <1>2 DEF Sem!Lists

LEMMA OwnersFinite ==
  ASSUME SemAssumption, NEW e
  PROVE  /\ IsFiniteSet(Sem!Holders(e)) /\ Cardinality(Sem!Holders(e)) \in Nat
         /\ IsFiniteSet(Sem!LocalOf(e)) /\ Cardinality(Sem!LocalOf(e)) \in Nat
         /\ Cardinality(Sem!Holders(e)) = 0 <=> Sem!Holders(e) = {}
         /\ Cardinality(Sem!LocalOf(e)) = 0 <=> Sem!LocalOf(e) = {}
  <1>1. Sem!Holders(e) \subseteq Semaphores /\ Sem!LocalOf(e) \subseteq Threads
    BY DEF Sem!Holders, Sem!Live, Sem!LocalOf
  <1> QED BY <1>1, FS_Subset, FS_CardinalityType, FS_EmptySet DEF SemAssumption

\* A call that ends or changes its event changes no other call's part.
LEMMA NoCallNamesNothing == Sem!Named(Sem!NoCall) = {}
  BY DEF Sem!Named, Sem!NoCall

-----------------------------------------------------------------------------
(* The invariant holds initially and is kept by every step. *)

LEMMA SemInitInv ==
  ASSUME SemAssumption, Sem!Init
  PROVE  SemInv
  <1>1. Sem!TypeOK
    BY DEF Sem!Init, Sem!TypeOK, SemAssumption
  <1>2. CallsInProgress
    BY DEF Sem!Init, CallsInProgress, Sem!Idle
  <1>3. EventsCounted
    <2> SUFFICES ASSUME NEW e \in Events
                 PROVE  refs[e] = own[e] + leaked[e] + Cardinality(Sem!LocalOf(e))
                                  + Cardinality(Sem!Holders(e))
      BY DEF EventsCounted
    <2>1. Sem!LocalOf(e) = {} /\ Sem!Holders(e) = {}
      BY DEF Sem!Init, Sem!LocalOf, Sem!NoCall, Sem!Holders, Sem!Live
    <2> QED BY <2>1, FS_EmptySet DEF Sem!Init
  <1> QED BY <1>1, <1>2, <1>3 DEF SemInv

LEMMA CreateKeepsInv ==
  ASSUME SemAssumption, SemInv, NEW t \in Threads, NEW s \in Semaphores,
         Sem!clCreateSemaphoreWithPropertiesKHR_EMU(t, s)
  PROVE  SemInv'
  <1> USE DEF Sem!clCreateSemaphoreWithPropertiesKHR_EMU, SemInv
  <1>1. Sem!TypeOK'
    BY DEF Sem!TypeOK, SemAssumption
  <1>2. /\ \A r \in Semaphores \ {s} : RefCount'[r] = RefCount[r] /\ Event'[r] = Event[r]
        /\ Event'[s] = NULL /\ s \notin Sem!Live /\ Sem!Live' = Sem!Live \cup {s}
    BY DEF Sem!TypeOK, Sem!Live
  <1>3. CallsInProgress'
    BY <1>2 DEF CallsInProgress, Sem!Idle, Sem!Live
  <1>4. EventsCounted'
    <2>1. ASSUME NEW e \in Events
          PROVE  Sem!LocalOf(e)' = Sem!LocalOf(e) /\ Sem!Holders(e)' = Sem!Holders(e)
      BY <1>2 DEF Sem!LocalOf, Sem!Holders, SemAssumption, Sem!Live
    <2> QED BY <2>1 DEF EventsCounted
  <1> QED BY <1>1, <1>3, <1>4

LEMMA RetainKeepsInv ==
  ASSUME SemAssumption, SemInv, NEW t \in Threads, NEW s \in Semaphores,
         Sem!clRetainSemaphoreKHR_EMU(t, s)
  PROVE  SemInv'
  <1> USE DEF Sem!clRetainSemaphoreKHR_EMU, SemInv
  <1>1. Sem!TypeOK'
    BY DEF Sem!TypeOK, SemAssumption
  <1>2. Sem!Live' = Sem!Live
    BY DEF Sem!TypeOK, Sem!Live
  <1>3. CallsInProgress'
    BY <1>2 DEF CallsInProgress, Sem!Idle
  <1>4. \A e \in Events : Sem!LocalOf(e)' = Sem!LocalOf(e) /\ Sem!Holders(e)' = Sem!Holders(e)
    BY <1>2 DEF Sem!LocalOf, Sem!Holders
  <1> QED BY <1>1, <1>3, <1>4 DEF EventsCounted

\* A deleted semaphore leaves the reference of its event to nobody.
LEMMA ReleaseKeepsInv ==
  ASSUME SemAssumption, SemInv, NEW t \in Threads, NEW s \in Semaphores,
         Sem!clReleaseSemaphoreKHR_EMU(t, s)
  PROVE  SemInv'
  <1> USE DEF SemInv
  <1>1. /\ s \in Sem!Live /\ s \notin Sem!InUse
        /\ UNCHANGED <<enqueuing, Event, refs, done, own, refusals>>
        /\ RefCount' = [RefCount EXCEPT ![s] = @ - 1]
        /\ leaked' = IF RefCount[s] = 1 /\ Event[s] # NULL
                     THEN [leaked EXCEPT ![Event[s]] = @ + 1] ELSE leaked
    BY DEF Sem!clReleaseSemaphoreKHR_EMU
  <1>2. Sem!TypeOK'
    BY <1>1 DEF Sem!TypeOK, SemAssumption, Sem!Live
  <1>3. Sem!Live' = IF RefCount[s] = 1 THEN Sem!Live \ {s} ELSE Sem!Live
    BY <1>1 DEF Sem!TypeOK, Sem!Live
  <1>4. CallsInProgress'
    <2>1. \A u \in Threads : s \notin Sem!Named(enqueuing[u])
      BY <1>1 DEF Sem!InUse
    <2> QED BY <1>1, <1>3, <2>1 DEF CallsInProgress, Sem!Idle
  <1>5. EventsCounted'
    <2> SUFFICES ASSUME NEW e \in Events
                 PROVE  refs'[e] = own'[e] + leaked'[e] + Cardinality(Sem!LocalOf(e)')
                                   + Cardinality(Sem!Holders(e)')
      BY DEF EventsCounted
    <2>1. Sem!LocalOf(e)' = Sem!LocalOf(e)
      BY <1>1 DEF Sem!LocalOf
    <2>2. CASE RefCount[s] = 1 /\ Event[s] = e
      <3>1. Sem!Holders(e)' = Sem!Holders(e) \ {s} /\ s \in Sem!Holders(e)
        BY <1>1, <1>3, <2>2 DEF Sem!Holders
      <3>2. Cardinality(Sem!Holders(e)') = Cardinality(Sem!Holders(e)) - 1
        BY <3>1, OwnersFinite, FS_RemoveElement
      <3>3. leaked'[e] = leaked[e] + 1
        BY <1>1, <2>2 DEF Sem!TypeOK, SemAssumption
      <3> QED BY <1>1, <2>1, <3>2, <3>3, OwnersFinite DEF EventsCounted, Sem!TypeOK
    <2>3. CASE ~(RefCount[s] = 1 /\ Event[s] = e)
      <3>1. Sem!Holders(e)' = Sem!Holders(e)
        BY <1>1, <1>3, <2>3 DEF Sem!Holders
      <3>2. leaked'[e] = leaked[e]
        BY <1>1, <2>3 DEF Sem!TypeOK
      <3> QED BY <1>1, <2>1, <3>1, <3>2 DEF EventsCounted
    <2> QED BY <2>2, <2>3
  <1> QED BY <1>2, <1>4, <1>5

LEMMA CheckKeepsInv ==
  ASSUME SemAssumption, SemInv, NEW t \in Threads, Sem!Check(t)
  PROVE  SemInv'
  <1> USE DEF SemInv
  <1> PICK list \in Sem!Lists, wants \in BOOLEAN, kind \in {"signal", "wait"} :
         /\ Sem!Idle(t) /\ \A i \in DOMAIN list : list[i] \in Sem!Live
         /\ \A i \in DOMAIN list : list[i] \notin Sem!InUse
         /\ IF kind = "signal" THEN Sem!MaySignal(list) ELSE Sem!MayWait(list)
         /\ enqueuing' = [enqueuing EXCEPT ![t] = [kind |-> kind, list |-> list, next |-> "marker",
                                        wants |-> wants, event |-> NULL]]
         /\ UNCHANGED <<RefCount, Event, refs, done, own, leaked, refusals>>
    BY DEF Sem!Check, SemAssumption
  <1> DEFINE c == [kind |-> kind, list |-> list, next |-> "marker", wants |-> wants,
                   event |-> NULL]
  <1>0. /\ c.kind = kind /\ c.wants = wants /\ c.next = "marker" /\ c.event = NULL
        /\ c.list = list
    OBVIOUS
  <1>1. /\ enqueuing' = [enqueuing EXCEPT ![t] = c] /\ c \in Sem!Calls
    <2>1. enqueuing' = [enqueuing EXCEPT ![t] = c]
      OBVIOUS
    <2>2. c \in Sem!Calls
      BY DEF Sem!Calls
    <2> QED BY <2>1, <2>2
  <1>2. enqueuing'[t] = c /\ \A u \in Threads \ {t} : enqueuing'[u] = enqueuing[u]
    BY <1>1 DEF Sem!TypeOK
  <1>3. Sem!TypeOK'
    BY <1>1 DEF Sem!TypeOK
  <1>4. CallsInProgress'
    <2>1. Sem!Live' = Sem!Live
      BY DEF Sem!Live
    <2>2. Sem!Named(enqueuing'[t]) = {list[i] : i \in DOMAIN list}
      BY <1>2 DEF Sem!Named
    <2>3. \A u \in Threads : Sem!Named(enqueuing'[t]) \cap Sem!Named(enqueuing[u]) = {}
      BY <2>2 DEF Sem!InUse
    <2>4. \A s \in Sem!Named(enqueuing'[t]) :
                s \in Sem!Live /\ ((Event[s] = NULL) <=> (kind = "signal"))
      BY <2>2 DEF Sem!MaySignal, Sem!MayWait
    <2> SUFFICES ASSUME NEW u \in Threads, ~Sem!Idle(u)'
                 PROVE  /\ Sem!Named(enqueuing'[u]) \subseteq Sem!Live
                        /\ \A v \in Threads \ {u} :
                              Sem!Named(enqueuing'[u]) \cap Sem!Named(enqueuing'[v]) = {}
                        /\ \A s \in Sem!Named(enqueuing'[u]) :
                              (Event[s] = NULL) <=> (enqueuing'[u].kind = "signal")
                        /\ enqueuing'[u].next = "marker" => enqueuing'[u].event = NULL
                        /\ enqueuing'[u].event # NULL /\ enqueuing'[u].wants =>
                              own[enqueuing'[u].event] = 1
      BY <2>1 DEF CallsInProgress
    <2>5. CASE u = t
      <3> HIDE DEF c
      <3> QED BY <1>0, <1>2, <2>3, <2>4, <2>5
    <2>6. CASE u # t
      BY <1>2, <2>3, <2>6 DEF CallsInProgress, Sem!Idle
    <2> QED BY <2>5, <2>6
  <1>5. EventsCounted'
    <2>1. \A e \in Events : Sem!LocalOf(e)' = Sem!LocalOf(e) /\ Sem!Holders(e)' = Sem!Holders(e)
      BY <1>2 DEF Sem!LocalOf, Sem!Holders, Sem!Live, Sem!Idle, Sem!NoCall, SemAssumption
    <2> QED BY <2>1 DEF EventsCounted
  <1> QED BY <1>3, <1>4, <1>5

\* The call of t goes from the marker to the update; its event is e.
LEMMA CallAfterMarker ==
  ASSUME Sem!TypeOK, NEW t \in Threads, enqueuing[t].next = "marker", NEW e \in Events \cup {NULL},
         enqueuing' = [enqueuing EXCEPT ![t].next = "update", ![t].event = e]
  PROVE  /\ \A u \in Threads \ {t} : enqueuing'[u] = enqueuing[u]
         /\ enqueuing'[t] = [kind |-> enqueuing[t].kind, list |-> enqueuing[t].list, next |-> "update",
                        wants |-> enqueuing[t].wants, event |-> e]
         /\ enqueuing'[t].kind = enqueuing[t].kind /\ enqueuing'[t].list = enqueuing[t].list
         /\ enqueuing'[t].next = "update" /\ enqueuing'[t].event = e
         /\ enqueuing'[t].wants = enqueuing[t].wants
         /\ enqueuing[t] \in Sem!Calls /\ enqueuing'[t] \in Sem!Calls
         /\ enqueuing' \in [Threads -> Sem!Calls \cup {Sem!NoCall}]
  <1>1. enqueuing[t] \in Sem!Calls
    BY DEF Sem!TypeOK, Sem!NoCall
  <1>2. enqueuing'[t] = [kind |-> enqueuing[t].kind, list |-> enqueuing[t].list, next |-> "update",
                    wants |-> enqueuing[t].wants, event |-> e]
    BY <1>1 DEF Sem!TypeOK, Sem!Calls
  <1>3. \A u \in Threads \ {t} : enqueuing'[u] = enqueuing[u]
    BY DEF Sem!TypeOK
  <1>4. enqueuing'[t] \in Sem!Calls
    BY <1>1, <1>2 DEF Sem!Calls
  <1>5. enqueuing' \in [Threads -> Sem!Calls \cup {Sem!NoCall}]
    <2>1. enqueuing' = [u \in Threads |-> IF u = t THEN enqueuing'[t] ELSE enqueuing[u]]
      BY DEF Sem!TypeOK
    <2> QED BY <1>4, <2>1 DEF Sem!TypeOK
  <1>6. /\ enqueuing'[t].kind = enqueuing[t].kind /\ enqueuing'[t].list = enqueuing[t].list
        /\ enqueuing'[t].next = "update" /\ enqueuing'[t].event = e
        /\ enqueuing'[t].wants = enqueuing[t].wants
    BY <1>2
  <1> QED BY <1>1, <1>2, <1>3, <1>4, <1>5, <1>6

\* What a new event of its own, or none, does to the calls in progress.
LEMMA MarkerKeepsCalls ==
  ASSUME Sem!TypeOK, CallsInProgress, NEW t \in Threads, enqueuing[t].next = "marker",
         NEW e \in Events \cup {NULL},
         enqueuing' = [enqueuing EXCEPT ![t].next = "update", ![t].event = e],
         UNCHANGED <<RefCount, Event>>,
         e # NULL /\ enqueuing[t].wants => own'[e] = 1,
         \A f \in Events : own[f] = 1 => own'[f] = 1
  PROVE  CallsInProgress'
  <1>1. /\ \A u \in Threads \ {t} : enqueuing'[u] = enqueuing[u]
        /\ enqueuing'[t].kind = enqueuing[t].kind /\ enqueuing'[t].list = enqueuing[t].list
        /\ enqueuing'[t].next = "update" /\ enqueuing'[t].event = e
        /\ enqueuing'[t].wants = enqueuing[t].wants
    BY CallAfterMarker, Zenon
  <1>2. \A u \in Threads : Sem!Named(enqueuing'[u]) = Sem!Named(enqueuing[u])
    <2>1. Sem!Named(enqueuing'[t]) = Sem!Named(enqueuing[t])
      BY <1>1 DEF Sem!Named
    <2> QED BY <1>1, <2>1
  <1>3. Sem!Live' = Sem!Live /\ ~Sem!Idle(t)
    BY DEF Sem!Live, Sem!Idle, Sem!NoCall
  <1>4. \A u \in Threads :
              enqueuing[u].event # NULL /\ ~Sem!Idle(u) => enqueuing[u].event \in Events
    BY DEF Sem!TypeOK, Sem!Calls, Sem!Idle
  <1> SUFFICES ASSUME NEW u \in Threads, ~Sem!Idle(u)'
               PROVE  /\ Sem!Named(enqueuing'[u]) \subseteq Sem!Live
                      /\ \A v \in Threads \ {u} :
                            Sem!Named(enqueuing'[u]) \cap Sem!Named(enqueuing'[v]) = {}
                      /\ \A s \in Sem!Named(enqueuing'[u]) :
                            (Event[s] = NULL) <=> (enqueuing'[u].kind = "signal")
                      /\ enqueuing'[u].next = "marker" => enqueuing'[u].event = NULL
                      /\ enqueuing'[u].event # NULL /\ enqueuing'[u].wants =>
                            own'[enqueuing'[u].event] = 1
    BY <1>3 DEF CallsInProgress
  <1>5. CASE u = t
    BY <1>1, <1>2, <1>3, <1>5 DEF CallsInProgress
  <1>6. CASE u # t
    <2>1. ~Sem!Idle(u) /\ enqueuing'[u] = enqueuing[u]
      BY <1>1, <1>6 DEF Sem!Idle
    <2> QED BY <1>2, <1>4, <2>1 DEF CallsInProgress
  <1> QED BY <1>5, <1>6

\* The new event belongs to the application or is the call's local event.
LEMMA MarkerKeepsLocals ==
  ASSUME Sem!TypeOK, CallsInProgress, NEW t \in Threads, enqueuing[t].next = "marker",
         NEW e \in Events \cup {NULL}, NEW f \in Events, NULL \notin Events,
         enqueuing' = [enqueuing EXCEPT ![t].next = "update", ![t].event = e]
  PROVE  /\ t \notin Sem!LocalOf(f)
         /\ Sem!LocalOf(f)' = IF f = e /\ enqueuing[t].kind = "signal" /\ ~enqueuing[t].wants
                          THEN Sem!LocalOf(f) \cup {t} ELSE Sem!LocalOf(f)
  <1>1. /\ \A u \in Threads \ {t} : enqueuing'[u] = enqueuing[u]
        /\ enqueuing'[t].kind = enqueuing[t].kind /\ enqueuing'[t].event = e
        /\ enqueuing'[t].wants = enqueuing[t].wants
    BY CallAfterMarker, Zenon
  <1>2. ~Sem!Idle(t)
    BY DEF Sem!Idle, Sem!NoCall
  <1>3. enqueuing[t].event = NULL
    BY <1>2 DEF CallsInProgress
  <1>4. t \notin Sem!LocalOf(f)
    BY <1>3 DEF Sem!LocalOf
  <1>5. \A u \in Threads \ {t} : u \in Sem!LocalOf(f)' <=> u \in Sem!LocalOf(f)
    BY <1>1 DEF Sem!LocalOf
  <1>6. t \in Sem!LocalOf(f)' <=> f = e /\ enqueuing[t].kind = "signal" /\ ~enqueuing[t].wants
    BY <1>1 DEF Sem!LocalOf
  <1>7. Sem!LocalOf(f) \subseteq Threads /\ Sem!LocalOf(f)' \subseteq Threads
    BY DEF Sem!LocalOf
  <1> QED BY <1>4, <1>5, <1>6, <1>7

LEMMA MarkerKeepsInv ==
  ASSUME SemAssumption, SemInv, NEW t \in Threads, Sem!Marker(t)
  PROVE  SemInv'
  <1> USE DEF SemInv
  <1>1. enqueuing[t].next = "marker" /\ UNCHANGED <<RefCount, Event, leaked>> /\ NULL \notin Events
    BY DEF Sem!Marker, SemAssumption
  <1>2. \A f : Sem!Holders(f)' = Sem!Holders(f)
    BY <1>1 DEF Sem!Holders, Sem!Live
  <1>3. ASSUME NEW e \in Events, enqueuing[t].kind = "signal" \/ enqueuing[t].wants, refs[e] = 0,
               refs' = [refs EXCEPT ![e] = 1], done' = [done EXCEPT ![e] = FALSE],
               own' = IF enqueuing[t].wants THEN [own EXCEPT ![e] = 1] ELSE own,
               enqueuing' = [enqueuing EXCEPT ![t].next = "update", ![t].event = e],
               UNCHANGED refusals
        PROVE  SemInv'
    <2>1. enqueuing' \in [Threads -> Sem!Calls \cup {Sem!NoCall}]
      BY <1>1, <1>3, CallAfterMarker, Zenon
    <2>2. Sem!TypeOK'
      BY <1>1, <1>3, <2>1 DEF Sem!TypeOK
    <2>3. CallsInProgress'
      <3>1. /\ e # NULL /\ enqueuing[t].wants => own'[e] = 1
            /\ \A f \in Events : own[f] = 1 => own'[f] = 1
        BY <1>3 DEF Sem!TypeOK
      <3> QED BY <1>1, <1>3, <3>1, MarkerKeepsCalls
    <2>4. EventsCounted'
      <3> SUFFICES ASSUME NEW f \in Events
                   PROVE  refs'[f] = own'[f] + leaked'[f] + Cardinality(Sem!LocalOf(f)')
                                     + Cardinality(Sem!Holders(f)')
        BY DEF EventsCounted
      <3>1. /\ t \notin Sem!LocalOf(f)
            /\ Sem!LocalOf(f)' = IF f = e /\ enqueuing[t].kind = "signal" /\ ~enqueuing[t].wants
                             THEN Sem!LocalOf(f) \cup {t} ELSE Sem!LocalOf(f)
        BY <1>1, <1>3, MarkerKeepsLocals
      <3>2. Cardinality(Sem!LocalOf(f)') =
               IF f = e /\ enqueuing[t].kind = "signal" /\ ~enqueuing[t].wants
               THEN Cardinality(Sem!LocalOf(f)) + 1 ELSE Cardinality(Sem!LocalOf(f))
        BY <3>1, OwnersFinite, FS_AddElement
      <3>3. /\ own'[f] = IF f = e /\ enqueuing[t].wants THEN 1 ELSE own[f]
            /\ refs'[f] = IF f = e THEN 1 ELSE refs[f]
            /\ leaked'[f] = leaked[f] /\ own[f] \in 0 .. 1 /\ leaked[f] \in Nat
        BY <1>1, <1>3 DEF Sem!TypeOK
      <3>4. refs[f] = own[f] + leaked[f] + Cardinality(Sem!LocalOf(f)) + Cardinality(Sem!Holders(f))
        BY DEF EventsCounted
      <3>5. Cardinality(Sem!LocalOf(f)) \in Nat /\ Cardinality(Sem!Holders(f)) \in Nat
        BY OwnersFinite
      <3>6. enqueuing[t].wants \in BOOLEAN
        BY <1>1 DEF Sem!TypeOK, Sem!Calls, Sem!NoCall
      <3>7. refs'[f] = own'[f] + leaked'[f] + Cardinality(Sem!LocalOf(f)')
                       + Cardinality(Sem!Holders(f))
        <4> HIDE DEF SemInv
        <4>1. CASE f # e
          BY <3>2, <3>3, <3>4, <4>1
        <4>2. CASE f = e
          <5>1. /\ own[f] = 0 /\ leaked[f] = 0 /\ Cardinality(Sem!LocalOf(f)) = 0
                /\ Cardinality(Sem!Holders(f)) = 0
            BY <1>3, <3>3, <3>4, <3>5, <4>2
          <5>2. CASE enqueuing[t].wants
            <6>1. Cardinality(Sem!LocalOf(f)') = 0
              BY <3>2, <5>1, <5>2
            <6> QED BY <3>3, <4>2, <5>1, <5>2, <6>1
          <5>3. CASE ~enqueuing[t].wants
            <6>1. Cardinality(Sem!LocalOf(f)') = 1
              BY <1>3, <3>2, <4>2, <5>1, <5>3
            <6> QED BY <3>3, <4>2, <5>1, <5>3, <6>1
          <5> QED BY <5>2, <5>3
        <4> QED BY <4>1, <4>2
      <3> QED BY <1>2, <3>7
    <2> QED BY <2>2, <2>3, <2>4
  <1>4. ASSUME enqueuing' = [enqueuing EXCEPT ![t].next = "update", ![t].event = NULL],
               UNCHANGED <<refs, done, own>>, refusals' \in 0 .. MaxRefusals
        PROVE  SemInv'
    <2>1. enqueuing' \in [Threads -> Sem!Calls \cup {Sem!NoCall}]
      BY <1>1, <1>4, CallAfterMarker, Zenon
    <2>2. Sem!TypeOK'
      BY <1>1, <1>4, <2>1 DEF Sem!TypeOK
    <2>3. CallsInProgress'
      BY <1>1, <1>4, MarkerKeepsCalls
    <2>4. ASSUME NEW f \in Events
          PROVE  Sem!LocalOf(f)' = Sem!LocalOf(f)
      <3>1. NULL \in Events \cup {NULL} /\ f # NULL
        BY <1>1
      <3>2. Sem!LocalOf(f)' = IF f = NULL /\ enqueuing[t].kind = "signal" /\ ~enqueuing[t].wants
                          THEN Sem!LocalOf(f) \cup {t} ELSE Sem!LocalOf(f)
        <4> HIDE DEF SemInv
        <4>1. Sem!TypeOK /\ CallsInProgress
          BY DEF SemInv
        <4> QED BY <1>1, <1>4, <3>1, <4>1, MarkerKeepsLocals
      <3> QED BY <3>1, <3>2
    <2> QED BY <1>1, <1>2, <1>4, <2>2, <2>3, <2>4 DEF EventsCounted
  <1>5. ASSUME enqueuing' = [enqueuing EXCEPT ![t].next = "update"]
        PROVE  enqueuing' = [enqueuing EXCEPT ![t].next = "update", ![t].event = NULL]
    <2>1. ~Sem!Idle(t)
      BY <1>1 DEF Sem!Idle, Sem!NoCall
    <2>2. enqueuing[t].event = NULL /\ enqueuing[t] \in Sem!Calls
      BY <1>1, <2>1 DEF CallsInProgress, Sem!TypeOK, Sem!Idle
    <2> QED BY <1>5, <2>2 DEF Sem!TypeOK, Sem!Calls
  <1>6. CASE \E e \in Events :
               /\ (enqueuing[t].kind = "signal" \/ enqueuing[t].wants) /\ refs[e] = 0
               /\ refs' = [refs EXCEPT ![e] = 1] /\ done' = [done EXCEPT ![e] = FALSE]
               /\ own' = IF enqueuing[t].wants THEN [own EXCEPT ![e] = 1] ELSE own
               /\ enqueuing' = [enqueuing EXCEPT ![t].next = "update", ![t].event = e]
               /\ UNCHANGED refusals
    BY <1>3, <1>6
  <1>7. CASE /\ enqueuing' = [enqueuing EXCEPT ![t].next = "update"]
             /\ UNCHANGED <<refs, done, own, refusals>>
    BY <1>4, <1>5, <1>7 DEF Sem!TypeOK
  <1>8. CASE /\ refusals < MaxRefusals /\ refusals' = refusals + 1
             /\ enqueuing' = [enqueuing EXCEPT ![t].next = "update", ![t].event = NULL]
             /\ UNCHANGED <<refs, done, own>>
    BY <1>4, <1>8 DEF Sem!TypeOK, SemAssumption
  <1> QED BY <1>6, <1>7, <1>8 DEF Sem!Marker, SemAssumption

\* A call that ends.
LEMMA CallEnds ==
  ASSUME Sem!TypeOK, CallsInProgress, NEW t \in Threads, enqueuing[t].next = "update",
         enqueuing' = [enqueuing EXCEPT ![t] = Sem!NoCall]
  PROVE  /\ \A u \in Threads \ {t} : enqueuing'[u] = enqueuing[u]
         /\ enqueuing'[t] = Sem!NoCall /\ Sem!Named(enqueuing'[t]) = {}
         /\ enqueuing' \in [Threads -> Sem!Calls \cup {Sem!NoCall}]
         /\ enqueuing[t] \in Sem!Calls /\ ~Sem!Idle(t)
         /\ \A f : Sem!LocalOf(f)' = Sem!LocalOf(f) \ {t}
  <1>1. /\ \A u \in Threads \ {t} : enqueuing'[u] = enqueuing[u]
        /\ enqueuing'[t] = Sem!NoCall /\ enqueuing' \in [Threads -> Sem!Calls \cup {Sem!NoCall}]
    BY DEF Sem!TypeOK
  <1>2. ~Sem!Idle(t) /\ enqueuing[t] \in Sem!Calls
    BY DEF Sem!TypeOK, Sem!Idle, Sem!NoCall
  <1>3. enqueuing'[t].kind = "none"
    BY <1>1 DEF Sem!NoCall
  <1>4. \A f : Sem!LocalOf(f)' = Sem!LocalOf(f) \ {t}
    BY <1>1, <1>3 DEF Sem!LocalOf
  <1>5. Sem!Named(enqueuing'[t]) = {}
    BY <1>1, NoCallNamesNothing
  <1> QED BY <1>1, <1>2, <1>4, <1>5

\* What it named is its own, so that the calls of others stay as they are.
LEMMA EndKeepsCalls ==
  ASSUME Sem!TypeOK, CallsInProgress, NEW t \in Threads, enqueuing[t].next = "update",
         enqueuing' = [enqueuing EXCEPT ![t] = Sem!NoCall], UNCHANGED <<RefCount, own>>,
         \A s \in Semaphores \ Sem!Named(enqueuing[t]) : Event'[s] = Event[s]
  PROVE  CallsInProgress'
  <1>1. /\ \A u \in Threads \ {t} : enqueuing'[u] = enqueuing[u]
        /\ enqueuing'[t] = Sem!NoCall /\ Sem!Named(enqueuing'[t]) = {} /\ ~Sem!Idle(t)
    BY CallEnds, Zenon
  <1>2. Sem!Live' = Sem!Live /\ Sem!Live \subseteq Semaphores
    BY DEF Sem!Live
  <1> SUFFICES ASSUME NEW u \in Threads, ~Sem!Idle(u)'
               PROVE  /\ Sem!Named(enqueuing'[u]) \subseteq Sem!Live
                      /\ \A v \in Threads \ {u} :
                            Sem!Named(enqueuing'[u]) \cap Sem!Named(enqueuing'[v]) = {}
                      /\ \A s \in Sem!Named(enqueuing'[u]) :
                            (Event'[s] = NULL) <=> (enqueuing'[u].kind = "signal")
                      /\ enqueuing'[u].next = "marker" => enqueuing'[u].event = NULL
                      /\ enqueuing'[u].event # NULL /\ enqueuing'[u].wants =>
                            own[enqueuing'[u].event] = 1
    BY <1>2 DEF CallsInProgress
  <1>3. u # t /\ ~Sem!Idle(u) /\ enqueuing'[u] = enqueuing[u]
    BY <1>1 DEF Sem!Idle
  <1>4. \A v \in Threads \ {u} : Sem!Named(enqueuing'[u]) \cap Sem!Named(enqueuing'[v]) = {}
    BY <1>1, <1>3 DEF CallsInProgress
  <1>5. \A s \in Sem!Named(enqueuing[u]) : s \in Semaphores \ Sem!Named(enqueuing[t])
    BY <1>1, <1>2, <1>3 DEF CallsInProgress
  <1> QED BY <1>3, <1>4, <1>5 DEF CallsInProgress

-----------------------------------------------------------------------------
(* A wait: every semaphore it names gives its reference back.              *)

LEMMA ReleasedOne ==
  ASSUME NULL \notin Events, NEW r \in [Events -> Nat], NEW x \in Events, r[x] > 0
  PROVE  /\ Sem!Released(r, x) \in [Events -> Nat]
         /\ \A e \in Events : Sem!Released(r, x)[e] = IF e = x THEN r[e] - 1 ELSE r[e]
  <1>1. Sem!Released(r, x) = [r EXCEPT ![x] = r[x] - 1]
    BY DEF Sem!Released
  <1>2. r[x] - 1 \in Nat
    OBVIOUS
  <1> QED BY <1>1, <1>2

LEMMA HolderLeaves ==
  ASSUME NEW H, IsFiniteSet(H), NEW s
  PROVE  /\ IsFiniteSet(H \ {s}) /\ Cardinality(H) \in Nat /\ Cardinality(H \ {s}) \in Nat
         /\ Cardinality(H \ {s}) = IF s \in H THEN Cardinality(H) - 1 ELSE Cardinality(H)
         /\ s \in H => Cardinality(H) > 0
  <1>1. IsFiniteSet(H \ {s}) /\ Cardinality(H) \in Nat /\ Cardinality(H \ {s}) \in Nat
    BY FS_Subset, FS_CardinalityType
  <1>2. CASE s \in H
    BY <1>1, <1>2, FS_RemoveElement
  <1>3. CASE s \notin H
    <2>1. H \ {s} = H
      BY <1>3
    <2> QED BY <1>1, <1>3, <2>1
  <1> QED BY <1>1, <1>2, <1>3

LEMMA ReleaseAllCounts ==
  ASSUME SemAssumption, Sem!TypeOK, EventsCounted, NEW list \in Sem!Lists,
         NEW N, N = {list[i] : i \in DOMAIN list}, N \subseteq Sem!Live,
         \A s \in N : Event[s] # NULL
  PROVE  /\ Sem!ReleaseAll(refs, list) \in [Events -> Nat]
         /\ \A e \in Events :
               Sem!ReleaseAll(refs, list)[e] =
                  refs[e] - Cardinality(Sem!Holders(e)) + Cardinality(Sem!Holders(e) \ N)
  <1> DEFINE a == list[1]
             b == list[2]
             r1 == Sem!Released(refs, Event[a])
  <1>1. /\ N \subseteq Semaphores /\ a \in N
        /\ Len(list) = 2 /\ list[1] # list[2] => N = {a, b}
        /\ ~(Len(list) = 2 /\ list[1] # list[2]) => N = {a}
    BY ListNames
  <1>2. /\ NULL \notin Events /\ refs \in [Events -> Nat]
        /\ \A s \in N : Event[s] \in Events /\ s \in Sem!Holders(Event[s])
    BY <1>1 DEF SemAssumption, Sem!TypeOK, Sem!Holders
  <1>3. \A e \in Events : IsFiniteSet(Sem!Holders(e)) /\ refs[e] >= Cardinality(Sem!Holders(e))
    <2> TAKE e \in Events
    <2>1. /\ IsFiniteSet(Sem!Holders(e)) /\ Cardinality(Sem!Holders(e)) \in Nat
          /\ Cardinality(Sem!LocalOf(e)) \in Nat
      BY OwnersFinite
    <2>2. own[e] \in Nat /\ leaked[e] \in Nat
      BY DEF Sem!TypeOK
    <2> QED BY <2>1, <2>2 DEF EventsCounted
  <1>4. refs[Event[a]] > 0
    <2>1. Cardinality(Sem!Holders(Event[a])) > 0 /\ Cardinality(Sem!Holders(Event[a])) \in Nat
      BY <1>1, <1>2, <1>3, HolderLeaves
    <2> QED BY <1>1, <1>2, <1>3, <2>1
  <1>5. /\ r1 \in [Events -> Nat]
        /\ \A e \in Events : r1[e] = IF e = Event[a] THEN refs[e] - 1 ELSE refs[e]
    BY <1>1, <1>2, <1>4, ReleasedOne
  <1>6. \A e \in Events :
              r1[e] = refs[e] - Cardinality(Sem!Holders(e)) + Cardinality(Sem!Holders(e) \ {a})
    <2> TAKE e \in Events
    <2>1. /\ Cardinality(Sem!Holders(e) \ {a}) =
                IF a \in Sem!Holders(e) THEN Cardinality(Sem!Holders(e)) - 1
                ELSE Cardinality(Sem!Holders(e))
          /\ Cardinality(Sem!Holders(e)) \in Nat
      BY <1>3, HolderLeaves
    <2>2. a \in Sem!Holders(e) <=> e = Event[a]
      BY <1>1, <1>2 DEF Sem!Holders
    <2> QED BY <1>2, <1>5, <2>1, <2>2
  <1>7. CASE ~(Len(list) = 2 /\ list[1] # list[2])
    <2>1. Sem!ReleaseAll(refs, list) = r1 /\ N = {a}
      BY <1>1, <1>7 DEF Sem!ReleaseAll
    <2> HIDE DEF r1
    <2> QED BY <1>5, <1>6, <2>1
  <1>8. CASE Len(list) = 2 /\ list[1] # list[2]
    <2>1. Sem!ReleaseAll(refs, list) = Sem!Released(r1, Event[b]) /\ N = {a, b} /\ a # b
      BY <1>1, <1>8 DEF Sem!ReleaseAll
    <2> HIDE DEF r1
    <2>2. \A e \in Events : /\ IsFiniteSet(Sem!Holders(e) \ {a})
                            /\ Cardinality(Sem!Holders(e)) \in Nat
      BY <1>3, HolderLeaves
    <2>3. \A e \in Events :
            /\ Cardinality(Sem!Holders(e) \ N) = IF e = Event[b]
                  THEN Cardinality(Sem!Holders(e) \ {a}) - 1 ELSE Cardinality(Sem!Holders(e) \ {a})
            /\ e = Event[b] => Cardinality(Sem!Holders(e) \ {a}) > 0
            /\ Cardinality(Sem!Holders(e) \ {a}) \in Nat
      <3> TAKE e \in Events
      <3>1. b \in Sem!Holders(e) \ {a} <=> e = Event[b]
        BY <1>2, <2>1 DEF Sem!Holders
      <3>2. Sem!Holders(e) \ N = (Sem!Holders(e) \ {a}) \ {b}
        BY <2>1
      <3>3. ASSUME NEW H, H = Sem!Holders(e) \ {a}
            PROVE  /\ Cardinality(H \ {b}) = IF b \in H THEN Cardinality(H) - 1
                                                       ELSE Cardinality(H)
                   /\ Cardinality(H) \in Nat
                   /\ b \in H => Cardinality(H) > 0
        <4>1. IsFiniteSet(H)
          BY <2>2, <3>3
        <4> QED BY <4>1, HolderLeaves
      <3> QED BY <3>1, <3>2, <3>3
    <2>4. r1[Event[b]] > 0 /\ Event[b] \in Events
      <3>1. Event[b] \in Events
        BY <1>2, <2>1
      <3> DEFINE x == Event[b]
      <3>2. /\ r1[x] = refs[x] - Cardinality(Sem!Holders(x)) + Cardinality(Sem!Holders(x) \ {a})
            /\ refs[x] >= Cardinality(Sem!Holders(x)) /\ refs[x] \in Nat
            /\ Cardinality(Sem!Holders(x)) \in Nat /\ Cardinality(Sem!Holders(x) \ {a}) \in Nat
            /\ Cardinality(Sem!Holders(x) \ {a}) > 0
        BY <1>2, <1>3, <1>6, <2>2, <2>3, <3>1
      <3> HIDE DEF x
      <3>3. r1[x] > 0
        BY <3>2
      <3> QED BY <3>1, <3>3 DEF x
    <2>5. /\ Sem!Released(r1, Event[b]) \in [Events -> Nat]
          /\ \A e \in Events :
                Sem!Released(r1, Event[b])[e] = IF e = Event[b] THEN r1[e] - 1 ELSE r1[e]
      BY <1>2, <1>5, <2>4, ReleasedOne
    <2>6. ASSUME NEW e \in Events
          PROVE  Sem!ReleaseAll(refs, list)[e] =
                    refs[e] - Cardinality(Sem!Holders(e)) + Cardinality(Sem!Holders(e) \ N)
      <3>1. /\ refs[e] \in Nat /\ Cardinality(Sem!Holders(e)) \in Nat
            /\ Cardinality(Sem!Holders(e) \ {a}) \in Nat
            /\ r1[e] = refs[e] - Cardinality(Sem!Holders(e)) + Cardinality(Sem!Holders(e) \ {a})
        BY <1>2, <1>6, <2>2, <2>3
      <3>2. CASE e = Event[b]
        <4>1. /\ Cardinality(Sem!Holders(e) \ N) = Cardinality(Sem!Holders(e) \ {a}) - 1
              /\ Sem!Released(r1, Event[b])[e] = r1[e] - 1
          BY <2>3, <2>5, <3>2
        <4> QED BY <2>1, <3>1, <4>1
      <3>3. CASE e # Event[b]
        <4>1. /\ Cardinality(Sem!Holders(e) \ N) = Cardinality(Sem!Holders(e) \ {a})
              /\ Sem!Released(r1, Event[b])[e] = r1[e]
          BY <2>3, <2>5, <3>3
        <4> QED BY <2>1, <3>1, <4>1
      <3> QED BY <3>2, <3>3
    <2> QED BY <2>1, <2>5, <2>6
  <1> QED BY <1>7, <1>8

LEMMA WaitKeepsInv ==
  ASSUME SemAssumption, SemInv, NEW t \in Threads, Sem!clEnqueueWaitSemaphoresKHR_EMU(t)
  PROVE  SemInv'
  <1>1. /\ enqueuing[t].kind = "wait" /\ enqueuing[t].next = "update"
        /\ refs' = Sem!ReleaseAll(refs, enqueuing[t].list)
        /\ Event' = [s \in Semaphores |-> IF s \in Sem!Named(enqueuing[t]) THEN NULL ELSE Event[s]]
        /\ enqueuing' = [enqueuing EXCEPT ![t] = Sem!NoCall]
        /\ UNCHANGED <<RefCount, done, own, leaked, refusals>>
        /\ Sem!TypeOK /\ CallsInProgress /\ EventsCounted /\ NULL \notin Events
    BY DEF Sem!clEnqueueWaitSemaphoresKHR_EMU, SemInv, SemAssumption
  <1>2. /\ enqueuing' \in [Threads -> Sem!Calls \cup {Sem!NoCall}] /\ enqueuing[t] \in Sem!Calls
        /\ ~Sem!Idle(t)
        /\ \A f : Sem!LocalOf(f)' = Sem!LocalOf(f) \ {t}
    BY <1>1, CallEnds
  <1>3. /\ enqueuing[t].list \in Sem!Lists
        /\ Sem!Named(enqueuing[t]) = {enqueuing[t].list[i] : i \in DOMAIN enqueuing[t].list}
    BY <1>2 DEF Sem!Calls, Sem!Named
  <1>4. /\ Sem!Named(enqueuing[t]) \subseteq Sem!Live
        /\ \A s \in Sem!Named(enqueuing[t]) : Event[s] # NULL
    BY <1>1, <1>2 DEF CallsInProgress
  <1>5. /\ refs' \in [Events -> Nat]
        /\ \A e \in Events :
              refs'[e] = refs[e] - Cardinality(Sem!Holders(e))
                         + Cardinality(Sem!Holders(e) \ Sem!Named(enqueuing[t]))
    BY <1>1, <1>3, <1>4, ReleaseAllCounts
  <1>6. Sem!TypeOK'
    BY <1>1, <1>2, <1>5 DEF Sem!TypeOK
  <1>7. CallsInProgress'
    <2>1. \A s \in Semaphores \ Sem!Named(enqueuing[t]) : Event'[s] = Event[s]
      BY <1>1
    <2> QED BY <1>1, <2>1, EndKeepsCalls
  <1>8. EventsCounted'
    <2> SUFFICES ASSUME NEW e \in Events
                 PROVE  refs'[e] = own'[e] + leaked'[e] + Cardinality(Sem!LocalOf(e)')
                                   + Cardinality(Sem!Holders(e)')
      BY DEF EventsCounted
    <2>1. Sem!Holders(e)' = Sem!Holders(e) \ Sem!Named(enqueuing[t])
      BY <1>1 DEF Sem!Holders, Sem!Live
    <2>2. Sem!LocalOf(e)' = Sem!LocalOf(e)
      BY <1>1, <1>2 DEF Sem!LocalOf
    <2>3. /\ Cardinality(Sem!Holders(e)) \in Nat /\ Cardinality(Sem!LocalOf(e)) \in Nat
          /\ IsFiniteSet(Sem!Holders(e))
      BY OwnersFinite
    <2>4. Cardinality(Sem!Holders(e) \ Sem!Named(enqueuing[t])) \in Nat
      BY <2>3, FS_Subset, FS_CardinalityType
    <2>5. own'[e] = own[e] /\ leaked'[e] = leaked[e] /\ own[e] \in Nat /\ leaked[e] \in Nat
      BY <1>1 DEF Sem!TypeOK
    <2>6. refs[e] = own[e] + leaked[e] + Cardinality(Sem!LocalOf(e)) + Cardinality(Sem!Holders(e))
      BY <1>1 DEF EventsCounted
    <2> QED BY <1>5, <2>1, <2>2, <2>3, <2>4, <2>5, <2>6
  <1> QED BY <1>6, <1>7, <1>8 DEF SemInv

-----------------------------------------------------------------------------
(* A signal: every semaphore it names holds the event, or none.            *)

\* Without an event nothing is retained, released or held.
LEMMA SignalWithoutEvent ==
  ASSUME SemAssumption, SemInv, NEW t \in Threads, Sem!clEnqueueSignalSemaphoresKHR_EMU(t),
         enqueuing[t].event = NULL
  PROVE  /\ Event' = Event /\ refs' = refs /\ leaked' = leaked
         /\ \A e \in Events : t \notin Sem!LocalOf(e)
  <1>1. /\ enqueuing[t].kind = "signal" /\ enqueuing[t].next = "update" /\ NULL \notin Events
        /\ Event' = [s \in Semaphores |-> IF s \in Sem!Named(enqueuing[t]) THEN NULL ELSE Event[s]]
        /\ leaked' = leaked
        /\ refs' = IF enqueuing[t].wants THEN Sem!Retained(refs, NULL, Len(enqueuing[t].list))
                   ELSE Sem!Released(Sem!Retained(refs, NULL, Len(enqueuing[t].list)), NULL)
    BY DEF Sem!clEnqueueSignalSemaphoresKHR_EMU, SemAssumption
  <1>2. refs' = refs
    BY <1>1 DEF Sem!Retained, Sem!Released
  <1>3. ~Sem!Idle(t)
    BY <1>1 DEF Sem!Idle, Sem!NoCall
  <1>4. \A s \in Sem!Named(enqueuing[t]) : Event[s] = NULL
    BY <1>1, <1>3 DEF SemInv, CallsInProgress
  <1>5. Event \in [Semaphores -> Events \cup {NULL}]
    BY DEF SemInv, Sem!TypeOK
  <1>6. Event' = Event
    BY <1>1, <1>4, <1>5
  <1>7. \A e \in Events : t \notin Sem!LocalOf(e)
    BY <1>1 DEF Sem!LocalOf
  <1> QED BY <1>1, <1>2, <1>6, <1>7

\* With one, its references grow by the length of the list, less the local one.
LEMMA SignalWithEvent ==
  ASSUME SemAssumption, SemInv, NEW t \in Threads, Sem!clEnqueueSignalSemaphoresKHR_EMU(t),
         NEW x \in Events, enqueuing[t].event = x
  PROVE  /\ refs' \in [Events -> Nat] /\ leaked' \in [Events -> Nat]
         /\ \A e \in Events : e # x => refs'[e] = refs[e] /\ leaked'[e] = leaked[e]
         /\ refs'[x] = refs[x] + Len(enqueuing[t].list) - (IF enqueuing[t].wants THEN 0 ELSE 1)
         /\ leaked'[x] = leaked[x] + Len(enqueuing[t].list) - Cardinality(Sem!Named(enqueuing[t]))
  <1> DEFINE n == Len(enqueuing[t].list)
             k == Cardinality(Sem!Named(enqueuing[t]))
  <1>1. /\ enqueuing[t].kind = "signal" /\ enqueuing[t].next = "update" /\ NULL \notin Events
        /\ leaked' = [leaked EXCEPT ![x] = @ + (n - k)]
        /\ refs' = IF enqueuing[t].wants THEN Sem!Retained(refs, x, n)
                   ELSE Sem!Released(Sem!Retained(refs, x, n), x)
        /\ Sem!TypeOK /\ CallsInProgress /\ EventsCounted
    BY SameCardinality DEF Sem!clEnqueueSignalSemaphoresKHR_EMU, SemAssumption, SemInv
  <1>2. ~Sem!Idle(t) /\ enqueuing[t] \in Sem!Calls
    BY <1>1 DEF Sem!Idle, Sem!NoCall, Sem!TypeOK
  <1>3. n \in Nat /\ k \in Nat /\ k >= 1 /\ k <= n
    <2>1. /\ enqueuing[t].list \in Sem!Lists
          /\ Sem!Named(enqueuing[t]) = {enqueuing[t].list[i] : i \in DOMAIN enqueuing[t].list}
      BY <1>2 DEF Sem!Calls, Sem!Named
    <2> QED BY <2>1, ListNames
  <1>4. refs[x] > 0
    <2>1. /\ own[x] \in 0 .. 1 /\ leaked[x] \in Nat /\ Cardinality(Sem!LocalOf(x)) \in Nat
          /\ Cardinality(Sem!Holders(x)) \in Nat
          /\ Cardinality(Sem!LocalOf(x)) = 0 <=> Sem!LocalOf(x) = {}
      BY <1>1, OwnersFinite DEF Sem!TypeOK
    <2>2. refs[x] = own[x] + leaked[x] + Cardinality(Sem!LocalOf(x)) + Cardinality(Sem!Holders(x))
      BY <1>1 DEF EventsCounted
    <2>3. CASE enqueuing[t].wants
      <3>1. own[x] = 1
        BY <1>1, <1>2, <2>3 DEF CallsInProgress
      <3> QED BY <2>1, <2>2, <3>1
    <2>4. CASE ~enqueuing[t].wants
      <3>1. t \in Sem!LocalOf(x)
        BY <1>1, <2>4 DEF Sem!LocalOf
      <3>2. Cardinality(Sem!LocalOf(x)) > 0
        BY <2>1, <3>1
      <3> QED BY <2>1, <2>2, <3>2
    <2> QED BY <2>3, <2>4
  <1> HIDE DEF n, k
  <1>5. refs \in [Events -> Nat] /\ leaked \in [Events -> Nat] /\ x # NULL
    BY <1>1 DEF Sem!TypeOK
  <1>6. Sem!Retained(refs, x, n) = [refs EXCEPT ![x] = refs[x] + n]
    BY <1>4, <1>5 DEF Sem!Retained
  <1>7. CASE enqueuing[t].wants
    BY <1>1, <1>3, <1>5, <1>6, <1>7 DEF n, k
  <1>8. CASE ~enqueuing[t].wants
    <2> DEFINE r == Sem!Retained(refs, x, n)
    <2>1. r \in [Events -> Nat] /\ r[x] = refs[x] + n /\ \A e \in Events : e # x =>
                r[e] = refs[e]
      BY <1>3, <1>5, <1>6
    <2>2. refs' = Sem!Released(r, x)
      BY <1>1, <1>8
    <2>3. r[x] > 0
      BY <1>3, <1>4, <1>5, <2>1
    <2> HIDE DEF r
    <2>4. /\ refs' \in [Events -> Nat]
          /\ \A e \in Events : refs'[e] = IF e = x THEN r[e] - 1 ELSE r[e]
      BY <1>1, <2>1, <2>2, <2>3, ReleasedOne
    <2>5. refs'[x] = refs[x] + n - 1
      BY <1>3, <1>5, <2>1, <2>4
    <2>6. leaked' \in [Events -> Nat] /\ leaked'[x] = leaked[x] + n - k
          /\ \A e \in Events : e # x => leaked'[e] = leaked[e]
      BY <1>1, <1>3, <1>5
    <2> QED BY <1>8, <2>1, <2>4, <2>5, <2>6 DEF n, k
  <1> QED BY <1>7, <1>8

LEMMA SignalKeepsInv ==
  ASSUME SemAssumption, SemInv, NEW t \in Threads, Sem!clEnqueueSignalSemaphoresKHR_EMU(t)
  PROVE  SemInv'
  <1>1. /\ enqueuing[t].kind = "signal" /\ enqueuing[t].next = "update"
        /\ Event' = [s \in Semaphores |-> IF s \in Sem!Named(enqueuing[t])
                                         THEN enqueuing[t].event ELSE Event[s]]
        /\ enqueuing' = [enqueuing EXCEPT ![t] = Sem!NoCall]
        /\ UNCHANGED <<RefCount, done, own, refusals>>
        /\ Sem!TypeOK /\ CallsInProgress /\ EventsCounted /\ NULL \notin Events
    BY DEF Sem!clEnqueueSignalSemaphoresKHR_EMU, SemInv, SemAssumption
  <1>2. /\ enqueuing' \in [Threads -> Sem!Calls \cup {Sem!NoCall}] /\ enqueuing[t] \in Sem!Calls
        /\ ~Sem!Idle(t)
        /\ \A f : Sem!LocalOf(f)' = Sem!LocalOf(f) \ {t}
    BY <1>1, CallEnds
  <1>3. enqueuing[t].event \in Events \cup {NULL} /\ enqueuing[t].list \in Sem!Lists
    BY <1>2 DEF Sem!Calls
  <1>4. /\ Sem!Named(enqueuing[t]) \subseteq Sem!Live
        /\ \A s \in Sem!Named(enqueuing[t]) : Event[s] = NULL
    BY <1>1, <1>2 DEF CallsInProgress
  <1>5. Sem!TypeOK'
    <2>1. refs' \in [Events -> Nat] /\ leaked' \in [Events -> Nat]
      <3>1. CASE enqueuing[t].event = NULL
        <4>1. refs' = refs /\ leaked' = leaked
          BY <3>1, SignalWithoutEvent
        <4> QED BY <1>1, <4>1 DEF Sem!TypeOK
      <3>2. CASE enqueuing[t].event \in Events
        BY <3>2, SignalWithEvent
      <3> QED BY <1>3, <3>1, <3>2
    <2>2. Event' \in [Semaphores -> Events \cup {NULL}]
      BY <1>1, <1>3 DEF Sem!TypeOK
    <2> QED BY <1>1, <1>2, <2>1, <2>2 DEF Sem!TypeOK
  <1>6. CallsInProgress'
    <2>1. \A s \in Semaphores \ Sem!Named(enqueuing[t]) : Event'[s] = Event[s]
      BY <1>1
    <2> QED BY <1>1, <2>1, EndKeepsCalls
  <1>7. EventsCounted'
    <2> SUFFICES ASSUME NEW e \in Events
                 PROVE  refs'[e] = own'[e] + leaked'[e] + Cardinality(Sem!LocalOf(e)')
                                   + Cardinality(Sem!Holders(e)')
      BY DEF EventsCounted
    <2>1. /\ Cardinality(Sem!Holders(e)) \in Nat /\ Cardinality(Sem!LocalOf(e)) \in Nat
          /\ IsFiniteSet(Sem!Holders(e)) /\ IsFiniteSet(Sem!LocalOf(e))
      BY OwnersFinite
    <2>2. own'[e] = own[e] /\ own[e] \in Nat /\ leaked[e] \in Nat
      BY <1>1 DEF Sem!TypeOK
    <2>3. refs[e] = own[e] + leaked[e] + Cardinality(Sem!LocalOf(e)) + Cardinality(Sem!Holders(e))
      BY <1>1 DEF EventsCounted
    <2>4. CASE enqueuing[t].event = NULL
      <3>1. Event' = Event /\ refs' = refs /\ leaked' = leaked /\ t \notin Sem!LocalOf(e)
        BY <2>4, SignalWithoutEvent
      <3>2. Sem!Holders(e)' = Sem!Holders(e) /\ Sem!LocalOf(e)' = Sem!LocalOf(e)
        BY <1>1, <1>2, <3>1 DEF Sem!Holders, Sem!Live
      <3> QED BY <2>2, <2>3, <3>1, <3>2
    <2>5. CASE enqueuing[t].event \in Events /\ enqueuing[t].event # e
      <3>1. refs'[e] = refs[e] /\ leaked'[e] = leaked[e]
        BY <2>5, SignalWithEvent
      <3>2. t \notin Sem!LocalOf(e)
        BY <2>5 DEF Sem!LocalOf
      <3>3. Sem!Holders(e)' = Sem!Holders(e)
        BY <1>1, <1>4, <2>5 DEF Sem!Holders, Sem!Live
      <3>4. Sem!LocalOf(e)' = Sem!LocalOf(e)
        BY <1>2, <3>2
      <3> QED BY <2>2, <2>3, <3>1, <3>3, <3>4
    <2>6. CASE enqueuing[t].event = e
      <3> DEFINE n == Len(enqueuing[t].list)
                 N == Sem!Named(enqueuing[t])
      <3>1. /\ refs'[e] = refs[e] + n - (IF enqueuing[t].wants THEN 0 ELSE 1)
            /\ leaked'[e] = leaked[e] + n - Cardinality(N)
        BY <2>6, SignalWithEvent
      <3>2. IsFiniteSet(N) /\ Cardinality(N) \in Nat /\ n \in Nat
        <4>1. N = {enqueuing[t].list[i] : i \in DOMAIN enqueuing[t].list}
          BY DEF Sem!Named
        <4> QED BY <1>3, <4>1, ListNames
      <3>3. Sem!Holders(e)' = Sem!Holders(e) \cup N /\ Sem!Holders(e) \cap N = {}
        BY <1>1, <1>4, <2>6 DEF Sem!Holders, Sem!Live
      <3>4. Cardinality(Sem!Holders(e)') = Cardinality(Sem!Holders(e)) + Cardinality(N)
        <4> HIDE DEF N
        <4>1. /\ Cardinality(Sem!Holders(e) \cup N) =
                     Cardinality(Sem!Holders(e)) + Cardinality(N) - Cardinality(Sem!Holders(e) \cap N)
          BY <2>1, <3>2, FS_Union
        <4>2. Cardinality(Sem!Holders(e) \cap N) = 0
          BY <3>3, FS_EmptySet
        <4> QED BY <2>1, <3>2, <3>3, <4>1, <4>2
      <3>5. Cardinality(Sem!LocalOf(e)') = Cardinality(Sem!LocalOf(e))
                                          - (IF enqueuing[t].wants THEN 0 ELSE 1)
        <4>1. t \in Sem!LocalOf(e) <=> ~enqueuing[t].wants
          BY <1>1, <2>6 DEF Sem!LocalOf
        <4>2. Sem!LocalOf(e)' = Sem!LocalOf(e) \ {t}
          BY <1>2
        <4> QED BY <2>1, <4>1, <4>2, HolderLeaves
      <3> HIDE DEF n, N
      <3>6. CASE enqueuing[t].wants
        BY <2>1, <2>2, <2>3, <3>1, <3>2, <3>4, <3>5, <3>6
      <3>7. CASE ~enqueuing[t].wants
        BY <2>1, <2>2, <2>3, <3>1, <3>2, <3>4, <3>5, <3>7
      <3> QED BY <3>6, <3>7
    <2> QED BY <1>3, <2>4, <2>5, <2>6
  <1> QED BY <1>5, <1>6, <1>7 DEF SemInv

-----------------------------------------------------------------------------
(* The driver and the application.                                         *)

LEMMA SemCompleteKeepsInv ==
  ASSUME SemAssumption, SemInv, NEW e \in Events, Sem!Complete(e)
  PROVE  SemInv'
  BY DEF Sem!Complete, SemInv, Sem!TypeOK, CallsInProgress, EventsCounted, Sem!Idle, Sem!Live,
     Sem!LocalOf, Sem!Holders

LEMMA ReleaseEventKeepsInv ==
  ASSUME SemAssumption, SemInv, NEW e \in Events, Sem!ReleaseEvent(e)
  PROVE  SemInv'
  <1>1. /\ own[e] = 1 /\ \A t \in Threads : enqueuing[t].event # e
        /\ own' = [own EXCEPT ![e] = 0] /\ refs' = Sem!Released(refs, e)
        /\ UNCHANGED <<enqueuing, RefCount, Event, done, leaked, refusals>>
        /\ Sem!TypeOK /\ CallsInProgress /\ EventsCounted /\ NULL \notin Events
    BY DEF Sem!ReleaseEvent, SemInv, SemAssumption
  <1>2. \A f : Sem!LocalOf(f)' = Sem!LocalOf(f) /\ Sem!Holders(f)' = Sem!Holders(f)
    BY <1>1 DEF Sem!LocalOf, Sem!Holders, Sem!Live
  <1>3. refs[e] > 0
    <2>1. /\ leaked[e] \in Nat /\ Cardinality(Sem!LocalOf(e)) \in Nat
          /\ Cardinality(Sem!Holders(e)) \in Nat
          /\ refs[e] = own[e] + leaked[e] + Cardinality(Sem!LocalOf(e)) + Cardinality(Sem!Holders(e))
      BY <1>1, OwnersFinite DEF Sem!TypeOK, EventsCounted
    <2> QED BY <1>1, <2>1
  <1>4. /\ refs' \in [Events -> Nat]
        /\ \A f \in Events : refs'[f] = IF f = e THEN refs[f] - 1 ELSE refs[f]
    BY <1>1, <1>3, ReleasedOne DEF Sem!TypeOK
  <1>5. Sem!TypeOK'
    <2>1. own' \in [Events -> 0 .. 1]
      BY <1>1 DEF Sem!TypeOK
    <2>2. /\ enqueuing' = enqueuing /\ RefCount' = RefCount /\ Event' = Event /\ done' = done
          /\ leaked' = leaked /\ refusals' = refusals
      BY <1>1
    <2> QED BY <1>1, <1>4, <2>1, <2>2 DEF Sem!TypeOK
  <1>6. CallsInProgress'
    BY <1>1, <1>2 DEF CallsInProgress, Sem!Idle, Sem!Live, Sem!TypeOK
  <1>7. EventsCounted'
    <2> SUFFICES ASSUME NEW f \in Events
                 PROVE  refs'[f] = own'[f] + leaked'[f] + Cardinality(Sem!LocalOf(f)')
                                   + Cardinality(Sem!Holders(f)')
      BY DEF EventsCounted
    <2>1. /\ Cardinality(Sem!LocalOf(f)) \in Nat /\ Cardinality(Sem!Holders(f)) \in Nat
          /\ own[f] \in Nat /\ leaked[f] \in Nat /\ leaked'[f] = leaked[f]
          /\ own'[f] = IF f = e THEN 0 ELSE own[f]
      BY <1>1, OwnersFinite DEF Sem!TypeOK
    <2>2. refs[f] = own[f] + leaked[f] + Cardinality(Sem!LocalOf(f)) + Cardinality(Sem!Holders(f))
      BY <1>1 DEF EventsCounted
    <2> QED BY <1>1, <1>2, <1>4, <2>1, <2>2
  <1> QED BY <1>5, <1>6, <1>7 DEF SemInv

LEMMA SemNextKeepsInv ==
  ASSUME SemAssumption, SemInv, [Sem!Next]_(Sem!vars)
  PROVE  SemInv'
  <1>1. CASE \E t \in Threads, s \in Semaphores :
               \/ Sem!clCreateSemaphoreWithPropertiesKHR_EMU(t, s)
               \/ Sem!clRetainSemaphoreKHR_EMU(t, s) \/ Sem!clReleaseSemaphoreKHR_EMU(t, s)
    BY <1>1, CreateKeepsInv, RetainKeepsInv, ReleaseKeepsInv
  <1>2. CASE \E t \in Threads : Sem!Check(t) \/ Sem!Marker(t)
    BY <1>2, CheckKeepsInv, MarkerKeepsInv
  <1>3. CASE \E t \in Threads : \/ Sem!clEnqueueWaitSemaphoresKHR_EMU(t)
                                \/ Sem!clEnqueueSignalSemaphoresKHR_EMU(t)
    BY <1>3, WaitKeepsInv, SignalKeepsInv
  <1>4. CASE \E e \in Events : Sem!Complete(e) \/ Sem!ReleaseEvent(e)
    BY <1>4, SemCompleteKeepsInv, ReleaseEventKeepsInv
  <1>5. CASE UNCHANGED Sem!vars
    BY <1>5 DEF Sem!vars, SemInv, Sem!TypeOK, CallsInProgress, EventsCounted, Sem!Idle,
       Sem!Live, Sem!LocalOf, Sem!Holders
  <1> QED BY <1>1, <1>2, <1>3, <1>4, <1>5 DEF Sem!Next

-----------------------------------------------------------------------------
(* The semaphores are binary semaphores.  Every step changes the payloads  *)
(* of a set of semaphores the way BinarySemaphores allows, or of none.     *)

PayloadOf(s) == IF s \notin Sem!Live THEN "none"
                ELSE IF Event[s] = NULL THEN "unsignaled"
                ELSE IF done[Event[s]] THEN "signaled" ELSE "pending"

LEMMA PayloadsAre ==
  ASSUME SemAssumption
  PROVE  Sem!Payloads = [s \in Semaphores |-> PayloadOf(s)]
  BY DEF Sem!Payloads, PayloadOf, Sem!Payload, SemAssumption

LEMMA PayloadsBecome ==
  ASSUME SemAssumption
  PROVE  Sem!Payloads' = [s \in Semaphores |-> PayloadOf(s)']
  BY DEF Sem!Payloads, PayloadOf, Sem!Payload, SemAssumption

LEMMA PayloadsChange ==
  ASSUME SemAssumption, NEW S, S \subseteq Semaphores, S # {}, NEW old, NEW new,
         \A s \in S : PayloadOf(s) \in old /\ PayloadOf(s)' = new,
         \A s \in Semaphores \ S : PayloadOf(s)' = PayloadOf(s)
  PROVE  Sem!Abstract!Change(S, old, new)
  <1>1. \A s \in S : Sem!Payloads[s] \in old
    BY PayloadsAre
  <1>2. Sem!Payloads' = [s \in Semaphores |-> IF s \in S THEN new ELSE Sem!Payloads[s]]
    BY PayloadsAre, PayloadsBecome
  <1> QED BY <1>1, <1>2 DEF Sem!Abstract!Change

LEMMA PayloadsStay ==
  ASSUME SemAssumption, \A s \in Semaphores : PayloadOf(s)' = PayloadOf(s)
  PROVE  Sem!Payloads' = Sem!Payloads
  BY PayloadsAre, PayloadsBecome

LEMMA CreateRefines ==
  ASSUME SemAssumption, SemInv, NEW t \in Threads, NEW s \in Semaphores,
         Sem!clCreateSemaphoreWithPropertiesKHR_EMU(t, s)
  PROVE  Sem!Abstract!Create
  <1>1. /\ s \notin Sem!Live /\ RefCount' = [RefCount EXCEPT ![s] = 1]
        /\ Event' = [Event EXCEPT ![s] = NULL] /\ done' = done /\ Sem!TypeOK
    BY DEF Sem!clCreateSemaphoreWithPropertiesKHR_EMU, SemInv
  <1>2. PayloadOf(s) = "none" /\ PayloadOf(s)' = "unsignaled"
    BY <1>1 DEF PayloadOf, Sem!Live, Sem!TypeOK
  <1>3. \A r \in Semaphores \ {s} : PayloadOf(r)' = PayloadOf(r)
    BY <1>1 DEF PayloadOf, Sem!Live, Sem!TypeOK
  <1>4. Sem!Abstract!Change({s}, {"none"}, "unsignaled")
    BY <1>2, <1>3, PayloadsChange
  <1> QED BY <1>4 DEF Sem!Abstract!Create

LEMMA ReleaseRefines ==
  ASSUME SemAssumption, SemInv, NEW t \in Threads, NEW s \in Semaphores,
         Sem!clReleaseSemaphoreKHR_EMU(t, s)
  PROVE  Sem!Abstract!Destroy \/ Sem!Payloads' = Sem!Payloads
  <1>1. /\ s \in Sem!Live /\ RefCount' = [RefCount EXCEPT ![s] = @ - 1]
        /\ Event' = Event /\ done' = done /\ Sem!TypeOK
    BY DEF Sem!clReleaseSemaphoreKHR_EMU, SemInv
  <1>2. \A r \in Semaphores \ {s} : PayloadOf(r)' = PayloadOf(r)
    BY <1>1 DEF PayloadOf, Sem!Live, Sem!TypeOK
  <1>3. CASE RefCount[s] = 1
    <2>1. PayloadOf(s) \in {"unsignaled", "pending", "signaled"} /\ PayloadOf(s)' = "none"
      BY <1>1, <1>3 DEF PayloadOf, Sem!Live, Sem!TypeOK
    <2>2. Sem!Abstract!Change({s}, {"unsignaled", "pending", "signaled"}, "none")
      BY <1>2, <2>1, PayloadsChange
    <2> QED BY <2>2 DEF Sem!Abstract!Destroy
  <1>4. CASE RefCount[s] # 1
    <2>1. RefCount'[s] > 0 /\ RefCount[s] > 0
      BY <1>1, <1>4 DEF Sem!Live, Sem!TypeOK, SemAssumption
    <2>2. PayloadOf(s)' = PayloadOf(s)
      BY <1>1, <2>1 DEF PayloadOf, Sem!Live
    <2> QED BY <1>2, <2>2, PayloadsStay
  <1> QED BY <1>3, <1>4

LEMMA WaitRefines ==
  ASSUME SemAssumption, SemInv, NEW t \in Threads, Sem!clEnqueueWaitSemaphoresKHR_EMU(t)
  PROVE  Sem!Abstract!Wait
  <1> DEFINE N == Sem!Named(enqueuing[t])
  <1>1. /\ enqueuing[t].kind = "wait" /\ RefCount' = RefCount /\ done' = done
        /\ Event' = [s \in Semaphores |-> IF s \in N THEN NULL ELSE Event[s]] /\ Sem!TypeOK
    BY DEF Sem!clEnqueueWaitSemaphoresKHR_EMU, SemInv
  <1>2. ~Sem!Idle(t) /\ enqueuing[t] \in Sem!Calls
    BY <1>1 DEF Sem!Idle, Sem!NoCall, Sem!TypeOK
  <1>3. N \subseteq Sem!Live /\ \A s \in N : Event[s] # NULL
    BY <1>1, <1>2 DEF SemInv, CallsInProgress
  <1>4. N \subseteq Semaphores /\ N # {}
    <2>1. enqueuing[t].list \in Sem!Lists /\ N = {enqueuing[t].list[i] : i \in DOMAIN enqueuing[t].list}
      BY <1>2 DEF Sem!Calls, Sem!Named
    <2> QED BY <2>1, ListNames
  <1> HIDE DEF N
  <1>5. \A s \in N : PayloadOf(s) \in {"pending", "signaled"} /\ PayloadOf(s)' = "unsignaled"
    BY <1>1, <1>3, <1>4 DEF PayloadOf, Sem!Live
  <1>6. \A s \in Semaphores \ N : PayloadOf(s)' = PayloadOf(s)
    BY <1>1 DEF PayloadOf, Sem!Live
  <1>7. Sem!Abstract!Change(N, {"pending", "signaled"}, "unsignaled")
    BY <1>4, <1>5, <1>6, PayloadsChange
  <1> QED BY <1>4, <1>7 DEF Sem!Abstract!Wait

\* A signal whose marker the driver refused signals nothing.
LEMMA SignalRefines ==
  ASSUME SemAssumption, SemInv, NEW t \in Threads, Sem!clEnqueueSignalSemaphoresKHR_EMU(t)
  PROVE  Sem!Abstract!Signal \/ Sem!Payloads' = Sem!Payloads
  <1> DEFINE N == Sem!Named(enqueuing[t])
             x == enqueuing[t].event
             new == IF done[x] THEN "signaled" ELSE "pending"
  <1>1. /\ enqueuing[t].kind = "signal" /\ RefCount' = RefCount /\ done' = done
        /\ Event' = [s \in Semaphores |-> IF s \in N THEN x ELSE Event[s]]
        /\ Sem!TypeOK /\ NULL \notin Events
    BY DEF Sem!clEnqueueSignalSemaphoresKHR_EMU, SemInv, SemAssumption
  <1>2. ~Sem!Idle(t) /\ enqueuing[t] \in Sem!Calls
    BY <1>1 DEF Sem!Idle, Sem!NoCall, Sem!TypeOK
  <1>3. N \subseteq Sem!Live /\ \A s \in N : Event[s] = NULL
    BY <1>1, <1>2 DEF SemInv, CallsInProgress
  <1>4. N \subseteq Semaphores /\ N # {} /\ x \in Events \cup {NULL}
    <2>1. /\ enqueuing[t].list \in Sem!Lists
          /\ N = {enqueuing[t].list[i] : i \in DOMAIN enqueuing[t].list}
          /\ x \in Events \cup {NULL}
      BY <1>2 DEF Sem!Calls, Sem!Named
    <2> QED BY <2>1, ListNames
  <1>5. CASE x = NULL
    <2>1. Event' = Event
      BY <1>5, SignalWithoutEvent
    <2> QED BY <1>1, <2>1, PayloadsStay DEF PayloadOf, Sem!Live
  <1>6. CASE x \in Events
    <2> HIDE DEF N, x
    <2>1. \A s \in N : PayloadOf(s) \in {"unsignaled"} /\ PayloadOf(s)' = new
      BY <1>1, <1>3, <1>4, <1>6 DEF PayloadOf, Sem!Live
    <2>2. \A s \in Semaphores \ N : PayloadOf(s)' = PayloadOf(s)
      BY <1>1 DEF PayloadOf, Sem!Live
    <2>3. Sem!Abstract!Change(N, {"unsignaled"}, new)
      BY <1>4, <2>1, <2>2, PayloadsChange
    <2> QED BY <1>4, <2>3 DEF Sem!Abstract!Signal
  <1> QED BY <1>4, <1>5, <1>6

\* A completed marker is what every semaphore that holds its event waits for.
LEMMA CompleteRefines ==
  ASSUME SemAssumption, SemInv, NEW e \in Events, Sem!Complete(e)
  PROVE  Sem!Abstract!Arrive \/ Sem!Payloads' = Sem!Payloads
  <1>1. /\ ~done[e] /\ done' = [done EXCEPT ![e] = TRUE] /\ RefCount' = RefCount
        /\ Event' = Event /\ Sem!TypeOK /\ NULL \notin Events
    BY DEF Sem!Complete, SemInv, SemAssumption
  <1>2. \A s \in Sem!Holders(e) : PayloadOf(s) \in {"pending"} /\ PayloadOf(s)' = "signaled"
    BY <1>1 DEF Sem!Holders, PayloadOf, Sem!Live, Sem!TypeOK
  <1>3. \A s \in Semaphores \ Sem!Holders(e) : PayloadOf(s)' = PayloadOf(s)
    BY <1>1 DEF Sem!Holders, PayloadOf, Sem!Live, Sem!TypeOK
  <1>4. Sem!Holders(e) \subseteq Semaphores
    BY DEF Sem!Holders, Sem!Live
  <1>5. CASE Sem!Holders(e) = {}
    BY <1>3, <1>5, PayloadsStay
  <1>6. CASE Sem!Holders(e) # {}
    <2>1. Sem!Abstract!Change(Sem!Holders(e), {"pending"}, "signaled")
      BY <1>2, <1>3, <1>4, <1>6, PayloadsChange
    <2> QED BY <1>4, <2>1 DEF Sem!Abstract!Arrive
  <1> QED BY <1>5, <1>6

\* A new event takes a handle that no semaphore holds.
LEMMA MarkerRefines ==
  ASSUME SemAssumption, SemInv, NEW t \in Threads, Sem!Marker(t)
  PROVE  Sem!Payloads' = Sem!Payloads
  <1>1. /\ RefCount' = RefCount /\ Event' = Event /\ Sem!TypeOK /\ NULL \notin Events
        /\ \/ done' = done
           \/ \E e \in Events : refs[e] = 0 /\ done' = [done EXCEPT ![e] = FALSE]
    BY DEF Sem!Marker, SemInv, SemAssumption
  <1>2. ASSUME NEW e \in Events, refs[e] = 0
        PROVE  Sem!Holders(e) = {}
    <2>1. /\ own[e] \in Nat /\ leaked[e] \in Nat /\ Cardinality(Sem!LocalOf(e)) \in Nat
          /\ Cardinality(Sem!Holders(e)) \in Nat
          /\ Cardinality(Sem!Holders(e)) = 0 <=> Sem!Holders(e) = {}
      BY <1>1, OwnersFinite DEF Sem!TypeOK
    <2>2. refs[e] = own[e] + leaked[e] + Cardinality(Sem!LocalOf(e)) + Cardinality(Sem!Holders(e))
      BY DEF SemInv, EventsCounted
    <2> QED BY <1>2, <2>1, <2>2
  <1>3. ASSUME NEW e \in Events, refs[e] = 0, done' = [done EXCEPT ![e] = FALSE],
               NEW s \in Semaphores
        PROVE  PayloadOf(s)' = PayloadOf(s)
    <2>1. s \in Sem!Live => Event[s] # e
      BY <1>2, <1>3 DEF Sem!Holders
    <2> QED BY <1>1, <1>3, <2>1 DEF PayloadOf, Sem!Live, Sem!TypeOK
  <1>4. \A s \in Semaphores : PayloadOf(s)' = PayloadOf(s)
    <2>1. CASE done' = done
      BY <1>1, <2>1 DEF PayloadOf, Sem!Live
    <2> QED BY <1>1, <1>3, <2>1
  <1> QED BY <1>4, PayloadsStay

LEMMA OthersKeepPayloads ==
  ASSUME SemAssumption, SemInv, UNCHANGED <<Event, done>>,
         RefCount' = RefCount \/ \E t \in Threads, s \in Semaphores : Sem!clRetainSemaphoreKHR_EMU(t, s)
  PROVE  Sem!Payloads' = Sem!Payloads
  <1>1. Sem!Live' = Sem!Live
    BY DEF Sem!clRetainSemaphoreKHR_EMU, Sem!Live, SemInv, Sem!TypeOK
  <1>2. \A s \in Semaphores : PayloadOf(s)' = PayloadOf(s)
    BY <1>1 DEF PayloadOf
  <1> QED BY <1>2, PayloadsStay

LEMMA StepRefines ==
  ASSUME SemAssumption, SemInv, [Sem!Next]_(Sem!vars)
  PROVE  [Sem!Abstract!Next]_(Sem!Payloads)
  <1>1. ASSUME NEW t \in Threads, NEW s \in Semaphores,
               \/ Sem!clCreateSemaphoreWithPropertiesKHR_EMU(t, s)
               \/ Sem!clRetainSemaphoreKHR_EMU(t, s) \/ Sem!clReleaseSemaphoreKHR_EMU(t, s)
        PROVE  [Sem!Abstract!Next]_(Sem!Payloads)
    <2>1. CASE Sem!clRetainSemaphoreKHR_EMU(t, s)
      <3>1. UNCHANGED <<Event, done>>
        BY <2>1 DEF Sem!clRetainSemaphoreKHR_EMU
      <3> QED BY <2>1, <3>1, OthersKeepPayloads
    <2> QED BY <1>1, <2>1, CreateRefines, ReleaseRefines DEF Sem!Abstract!Next
  <1>2. ASSUME NEW t \in Threads, Sem!Check(t) \/ Sem!Marker(t)
        PROVE  [Sem!Abstract!Next]_(Sem!Payloads)
    <2>1. CASE Sem!Check(t)
      <3>1. UNCHANGED <<Event, done, RefCount>>
        BY <2>1 DEF Sem!Check
      <3> QED BY <3>1, OthersKeepPayloads
    <2> QED BY <1>2, <2>1, MarkerRefines
  <1>3. ASSUME NEW t \in Threads,
               Sem!clEnqueueWaitSemaphoresKHR_EMU(t) \/ Sem!clEnqueueSignalSemaphoresKHR_EMU(t)
        PROVE  [Sem!Abstract!Next]_(Sem!Payloads)
    BY <1>3, WaitRefines, SignalRefines DEF Sem!Abstract!Next
  <1>4. ASSUME NEW e \in Events, Sem!Complete(e) \/ Sem!ReleaseEvent(e)
        PROVE  [Sem!Abstract!Next]_(Sem!Payloads)
    <2>1. CASE Sem!ReleaseEvent(e)
      <3>1. UNCHANGED <<Event, done, RefCount>>
        BY <2>1 DEF Sem!ReleaseEvent
      <3> QED BY <3>1, OthersKeepPayloads
    <2> QED BY <1>4, <2>1, CompleteRefines DEF Sem!Abstract!Next
  <1>5. CASE UNCHANGED Sem!vars
    <2>1. UNCHANGED <<Event, done, RefCount>>
      BY <1>5 DEF Sem!vars
    <2> QED BY <2>1, OthersKeepPayloads
  <1> QED BY <1>1, <1>2, <1>3, <1>4, <1>5 DEF Sem!Next

LEMMA InitRefines ==
  ASSUME SemAssumption, Sem!Init
  PROVE  Sem!Abstract!Init
  <1>1. \A s \in Semaphores : PayloadOf(s) = "none"
    BY DEF Sem!Init, PayloadOf, Sem!Live
  <1> QED BY <1>1, PayloadsAre DEF Sem!Abstract!Init

-----------------------------------------------------------------------------
(* The theorems. *)

LEMMA SemInvAlways == Sem!Spec => []SemInv
  <1>1. Sem!Init => SemInv
    BY SemAssumed, SemInitInv
  <1>2. SemInv /\ [Sem!Next]_(Sem!vars) => SemInv'
    BY SemAssumed, SemNextKeepsInv
  <1> QED BY <1>1, <1>2, PTL DEF Sem!Spec

\* A behaviour of the layer is one of each extension.
LEMMA EachExtension == EmulationSpec => Spec /\ Sem!Spec
  <1>1. EmulationInit => Init /\ Sem!Init
    BY DEF EmulationInit
  <1>2. [EmulationNext]_<<vars, semaphoreVars>> => [Next]_vars /\ [Sem!Next]_(Sem!vars)
    BY DEF EmulationNext, semaphoreVars, Sem!vars
  <1> QED BY <1>1, <1>2, PTL DEF EmulationSpec, Spec, Sem!Spec

\* The state of both extensions has its type in every reachable state.
THEOREM EmulationTypesCorrect == EmulationSpec => []TypesOK
  <1>1. Inv /\ SemInv => TypesOK
    BY DEF Inv, SemInv, TypesOK
  <1> QED BY EachExtension, InvAlways, SemInvAlways, <1>1, PTL

\* A kernel that reaches one kind of memory indirectly always sees what its
\* application counts on, however many contexts, threads and launches there are.
THEOREM OneKindAlwaysVisible == EmulationSpec => []OneKindIsVisible
  <1>1. Inv => OneKindIsVisible
    BY DEF Inv
  <1> QED BY EachExtension, InvAlways, <1>1, PTL

\* clMemBlockingFreeINTEL never frees before the kernels launched earlier on the
\* context's listed queues are done.
THEOREM BlockingFreeAlwaysWaits == EmulationSpec => []BlockingFreeWaits
  <1>1. Inv => BlockingFreeWaits
    BY DEF Inv
  <1> QED BY EachExtension, InvAlways, <1>1, PTL

\* A query about a pointer reports the allocation the pointer points into, its
\* inside, its end and what lies between two allocations included, whatever has
\* been allocated and freed before.
THEOREM QueriesAlwaysFind == EmulationSpec => []QueriesFindTheAllocation
  <1>1. Init => MapsAgree
    <2>1. DOMAIN << >> = {}
      OBVIOUS
    <2> QED BY <2>1 DEF Init, MapsAgree
  <1>2. Inv /\ MapsAgree /\ [Next]_vars => MapsAgree'
    BY NextKeepsMapsAgree
  <1>3. Inv /\ MapsAgree => QueriesFindTheAllocation
    BY QueriesFind
  <1> QED BY EachExtension, InvAlways, <1>1, <1>2, <1>3, PTL DEF Spec

\* Every reference to an event has an owner, in every reachable state: the calls
\* in progress and the semaphores account for what the layer took.
THEOREM EventsAlwaysCounted == EmulationSpec => []EventsAreCounted
  <1>1. SemInv => EventsAreCounted
    BY CountedIsCounted DEF SemInv
  <1> QED BY EachExtension, SemInvAlways, <1>1, PTL

\* The layer's semaphores implement binary semaphores, for every number of
\* threads, semaphores and events.
THEOREM SemaphoresAreBinary == EmulationSpec => ImplementsSemaphores
  <1>1. Sem!Init => Sem!Abstract!Init
    BY SemAssumed, InitRefines
  <1>2. SemInv /\ [Sem!Next]_(Sem!vars) => [Sem!Abstract!Next]_(Sem!Payloads)
    BY SemAssumed, StepRefines
  <1> QED BY EachExtension, SemInvAlways, <1>1, <1>2, PTL
          DEF Sem!Spec, ImplementsSemaphores, Sem!ImplementsSemaphores, Sem!Abstract!Spec
=============================================================================
