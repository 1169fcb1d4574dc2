------------------------ MODULE ObjectTrackingProofs ------------------------
(***************************************************************************)
(* Proofs about ObjectTracking: whatever the threads, the handles and the  *)
(* bounds, the maps hold every object the application can use, extension   *)
(* functions are found for it, and the report of leaks counts what the     *)
(* application holds.                                                      *)
(*                                                                         *)
(* The argument is about references.  A thread that uses an object in its  *)
(* call uses up one of the application's references to it (ClaimsAreOwned),*)
(* and the driver's count is that of the references there are              *)
(* (RefsAreOwned).  A handler that reads a count of one before it releases *)
(* therefore uses the only reference: no other call can use the object     *)
(* between its look at the count and the release.                          *)
(***************************************************************************)
EXTENDS ObjectTracking, ApiTable, FiniteSetTheorems, SequenceTheorems, TLAPS

-----------------------------------------------------------------------------
(* The inductive invariant. *)

\* The steps a thread has before it, and the first of them.
Elements(s) == {s[i] : i \in DOMAIN s}
ToCome(t)   == Elements(call[t].todo)
NextStep(t) == Head(call[t].todo)

Steps == UNION {StepsOf(role, k) : role \in Roles, k \in Kinds}
Locals == [role : Roles, todo : Seq(Steps), objects : SUBSET Handles, wanted : BOOLEAN,
           timed : BOOLEAN, failed : BOOLEAN, spent : BOOLEAN]

\* A thread that is not idle has the end of a program before it.
Running(t) ==
    \E p \in Programs(kind) : \E i \in 0 .. Len(p.steps) - 1 :
        call[t].role = p.role /\ call[t].todo = SubSeq(p.steps, i + 1, Len(p.steps))

\* What a handler is passed, creates and gives up.
Working(t) ==
    LET c == call[t] IN
    /\ c.role \in Creators /\ (Dispatch \in ToCome(t) \/ c.failed) => c.objects = {}
    /\ c.role \notin Creators => \E h \in Handles : c.objects = {h}
    /\ c.role = "enqueue" => \A g, h \in c.objects : g = h
    /\ c.role # "enqueue" => c.wanted /\ ~c.timed
    /\ c.role # "release" => ~c.spent
    /\ Dispatch \in ToCome(t) => ~c.spent /\ ~c.failed
    /\ c.role = "release" /\ Dispatch \notin ToCome(t) => (c.spent <=> ~c.failed)
    /\ c.timed /\ Dispatch \in ToCome(t) => TimingEnd \in ToCome(t)
    /\ c.objects # {} /\ ~c.wanted => c.timed /\ TimingEnd \in ToCome(t)
    /\ c.timed /\ ~c.failed /\ Dispatch \notin ToCome(t) /\ TimingEnd \in ToCome(t) =>
          c.objects # {}

Active(t) == call[t] = NoCall \/ (Running(t) /\ Working(t))

CallsAreFollowed ==
    /\ call \in [Threads -> Locals]
    /\ \A t \in Threads : Active(t)

StateTyped ==
    /\ kind \in Focus
    /\ NumAllocations \in Nat /\ NumRetains \in Nat /\ NumReleases \in Nat
    /\ info \in SUBSET Handles /\ contextQueues \in [Handles -> Nat] /\ undefined \in BOOLEAN
    /\ refs \in [Handles -> Nat] /\ timing \in SUBSET Handles /\ appRefs \in [Handles -> Nat]
    /\ added \in SUBSET Handles /\ refused \in SUBSET Handles /\ refusals \in Int

\* A thread has an object when it uses one of the application's references to it
\* in its call, or when it made the object.
Has(t, h)     == h \in call[t].objects /\ ~call[t].spent
Makes(t, h)   == h \in call[t].objects /\ call[t].role \in Creators
IsLocal(t, h) == h \in call[t].objects /\ ~call[t].wanted
LocalTo(h)    == \E t \in Threads : IsLocal(t, h)

\* An object is made by one thread; the layer's own event is used by no other.
MadeOnce ==
    \A h \in Handles : \A t, u \in Threads :
        /\ Makes(t, h) /\ Makes(u, h) => t = u
        /\ IsLocal(t, h) /\ Has(u, h) => t = u

\* The calls have no more references than the application.
ClaimsAreOwned ==
    \A h \in Handles : IF LocalTo(h) THEN appRefs[h] = 0
                       ELSE Cardinality(Claims(h)) <= appRefs[h]

\* The driver's count is that of the references the application, the timing list
\* and the handler of a local event have.
RefsAreOwned ==
    \A h \in Handles :
        /\ refs[h] = appRefs[h] + (IF h \in timing THEN 1 ELSE 0) + (IF LocalTo(h) THEN 1 ELSE 0)
        /\ \A t \in Threads : Makes(t, h) /\ TimingEnd \in ToCome(t) => h \notin timing

\* The thread that releases the last reference has taken the object off the
\* maps, and has not told the driver.
Doomed(t, h) ==
    /\ refs[h] = 1 /\ h \in call[t].objects /\ call[t].role = "release"
    /\ Dispatch \in ToCome(t) /\ Remove(kind) \notin ToCome(t)

Listed(h) == h \in info /\ (kind = "queue" => contextQueues[h] > 0)

EntriesAreKept ==
    kind # "pointer" =>
        \A h \in added \ refused :
            Listed(h) \/ refs[h] = 0 \/ \E t \in Threads : Doomed(t, h)

\* The object of an extension is entered before another call can use it.
WillAdd(h) == \E t \in Threads : Makes(t, h) /\ Add(kind) \in ToCome(t)

ObjectsAreAdded ==
    kind \in RoutedKinds =>
        \A h \in Handles : appRefs[h] > 0 /\ h \notin added => appRefs[h] = 1 /\ WillAdd(h)

MapsInv == /\ CallsAreFollowed /\ StateTyped /\ MadeOnce /\ ClaimsAreOwned /\ RefsAreOwned
           /\ EntriesAreKept /\ ObjectsAreAdded

-----------------------------------------------------------------------------
(* The steps of a handler. *)

LEMMA StepsDiffer ==
    ASSUME NEW k
    PROVE /\ Dispatch \notin {Allocation(k), Retained(k), Released(k), Add(k), Remove(k),
                              Route(k), TimingStart, TimingEnd}
          /\ Allocation(k) \notin {Retained(k), Released(k), Add(k), Remove(k), Route(k),
                                   TimingStart, TimingEnd}
          /\ Retained(k) \notin {Released(k), Add(k), Remove(k), Route(k), TimingStart, TimingEnd}
          /\ Released(k) \notin {Add(k), Remove(k), Route(k), TimingStart, TimingEnd}
          /\ Add(k) \notin {Remove(k), Route(k), TimingStart, TimingEnd}
          /\ Remove(k) \notin {Route(k), TimingStart, TimingEnd}
          /\ Route(k) \notin {TimingStart, TimingEnd}
          /\ TimingStart # TimingEnd
  BY DEF Dispatch, Allocation, Retained, Released, Add, Remove, Route, TimingStart, TimingEnd

LEMMA Operations ==
    ASSUME NEW k
    PROVE /\ Dispatch[1] = "dispatch" /\ Allocation(k)[1] = "allocation"
          /\ Retained(k)[1] = "retained" /\ Released(k)[1] = "released" /\ Add(k)[1] = "add"
          /\ Remove(k)[1] = "remove" /\ Route(k)[1] = "route"
          /\ TimingStart[1] = "timingStart" /\ TimingEnd[1] = "timingEnd"
  BY DEF Dispatch, Allocation, Retained, Released, Add, Remove, Route, TimingStart, TimingEnd

\* The first step of the end of a sequence, and the steps after it.
LEMMA Ends ==
    ASSUME NEW V, NEW s \in Seq(V), NEW i \in 0 .. Len(s) - 1,
           \A j, k \in DOMAIN s : s[j] = s[k] => j = k
    PROVE LET todo == SubSeq(s, i + 1, Len(s)) IN
          /\ todo \in Seq(V) /\ todo # <<>> /\ Head(todo) = s[i + 1]
          /\ Elements(todo) = {s[j] : j \in i + 1 .. Len(s)}
          /\ Tail(todo) = SubSeq(s, i + 2, Len(s))
          /\ Elements(Tail(todo)) = Elements(todo) \ {Head(todo)}
          /\ Tail(todo) = <<>> \/ i + 1 \in 0 .. Len(s) - 1
          /\ Tail(todo) = <<>> => Elements(Tail(todo)) = {}
  <1> DEFINE todo == SubSeq(s, i + 1, Len(s))
  <1>a. Len(s) \in Nat /\ i + 1 \in 1 .. Len(s) /\ i \in Nat /\ DOMAIN s = 1 .. Len(s)
    OBVIOUS
  <1>1. /\ todo \in Seq(V) /\ Len(todo) = Len(s) - i
        /\ \A j \in 1 .. Len(s) - i : todo[j] = s[i + j]
    BY <1>a
  <1>2. todo # <<>> /\ Head(todo) = s[i + 1]
    BY <1>a, <1>1
  <1>3. Elements(todo) = {s[j] : j \in i + 1 .. Len(s)}
    <2>1. DOMAIN todo = 1 .. Len(s) - i
      BY <1>1
    <2>2. ASSUME NEW x \in Elements(todo) PROVE x \in {s[j] : j \in i + 1 .. Len(s)}
      <3>1. PICK j \in 1 .. Len(s) - i : x = todo[j]
        BY <2>1 DEF Elements
      <3>2. x = s[i + j] /\ i + j \in i + 1 .. Len(s)
        BY <3>1, <1>1, <1>a
      <3>3. QED
        BY <3>2
    <2>3. ASSUME NEW j \in i + 1 .. Len(s) PROVE s[j] \in Elements(todo)
      <3>1. j - i \in 1 .. Len(s) - i /\ todo[j - i] = s[i + (j - i)] /\ i + (j - i) = j
        BY <1>1, <1>a
      <3>2. QED
        BY <3>1, <2>1 DEF Elements
    <2>4. QED
      BY <2>2, <2>3
  <1>4. /\ Tail(todo) = SubSeq(s, i + 2, Len(s)) /\ Tail(todo) \in Seq(V)
        /\ Len(Tail(todo)) = Len(s) - i - 1
        /\ \A j \in 1 .. Len(s) - i - 1 : Tail(todo)[j] = s[i + 1 + j]
    <2>1. /\ Tail(todo) \in Seq(V) /\ Len(Tail(todo)) = Len(s) - i - 1
          /\ \A j \in 1 .. Len(s) - i - 1 : Tail(todo)[j] = todo[j + 1]
      <3> HIDE DEF todo
      <3>1. Len(todo) = Len(s) - i /\ Len(todo) \in Nat /\ Len(todo) - 1 = Len(s) - i - 1
        BY <1>1, <1>a
      <3>2. /\ Tail(todo) \in Seq(V) /\ Len(Tail(todo)) = Len(todo) - 1
            /\ \A j \in 1 .. Len(todo) - 1 : Tail(todo)[j] = todo[j + 1]
        BY <1>1, <1>2
      <3>3. QED
        BY <3>1, <3>2
    <2>2. \A j \in 1 .. Len(s) - i - 1 : Tail(todo)[j] = s[i + 1 + j]
      <3>1. ASSUME NEW j \in 1 .. Len(s) - i - 1 PROVE Tail(todo)[j] = s[i + 1 + j]
        <4>1. j + 1 \in 1 .. Len(s) - i /\ i + (j + 1) = i + 1 + j
          BY <1>a
        <4>2. QED
          BY <4>1, <2>1, <1>1
      <3>2. QED
        BY <3>1
    <2>3. Tail(todo) = SubSeq(s, i + 2, Len(s))
      <3>1. /\ i + 1 \in 1 .. Len(s) /\ Len(s) \in (i + 1) .. Len(s)
            /\ (i + 1) + 1 = i + 2
        BY <1>a
      <3>2. Tail(todo) = SubSeq(s, (i + 1) + 1, Len(s))
        BY <3>1, HeadTailOfSubSeq
      <3>3. QED
        BY <3>1, <3>2
    <2>4. QED
      BY <2>1, <2>2, <2>3
  <1>5. Elements(Tail(todo)) = {s[j] : j \in i + 2 .. Len(s)}
    <2>1. DOMAIN Tail(todo) = 1 .. Len(s) - i - 1
      BY <1>4
    <2>2. ASSUME NEW x \in Elements(Tail(todo)) PROVE x \in {s[j] : j \in i + 2 .. Len(s)}
      <3>1. PICK j \in 1 .. Len(s) - i - 1 : x = Tail(todo)[j]
        BY <2>1 DEF Elements
      <3>2. x = s[i + 1 + j] /\ i + 1 + j \in i + 2 .. Len(s)
        BY <3>1, <1>4, <1>a
      <3>3. QED
        BY <3>2
    <2>3. ASSUME NEW j \in i + 2 .. Len(s) PROVE s[j] \in Elements(Tail(todo))
      <3>1. /\ j - i - 1 \in 1 .. Len(s) - i - 1
            /\ Tail(todo)[j - i - 1] = s[i + 1 + (j - i - 1)] /\ i + 1 + (j - i - 1) = j
        BY <1>4, <1>a
      <3>2. QED
        BY <3>1, <2>1 DEF Elements
    <2>4. QED
      BY <2>2, <2>3
  <1>6. Elements(Tail(todo)) = Elements(todo) \ {Head(todo)}
    <2>1. \A j \in i + 2 .. Len(s) : s[j] # s[i + 1] /\ j \in i + 1 .. Len(s)
      BY <1>a
    <2>2. \A j \in i + 1 .. Len(s) : j = i + 1 \/ j \in i + 2 .. Len(s)
      BY <1>a
    <2>3. QED
      BY <2>1, <2>2, <1>2, <1>3, <1>5
  <1>7. Tail(todo) = <<>> \/ i + 1 \in 0 .. Len(s) - 1
    BY <1>4, <1>a
  <1>8. Tail(todo) = <<>> => Elements(Tail(todo)) = {}
    BY DEF Elements
  <1>9. QED
    BY <1>1, <1>2, <1>3, <1>4, <1>6, <1>7, <1>8

LEMMA ProgramFacts ==
    ASSUME NEW p \in Programs(kind)
    PROVE /\ p = [role |-> p.role, steps |-> p.steps]
          /\ p.role \in {"use", "retain", "release"} \cup Creators
          /\ WellOrdered(p.steps, p.role, kind)
  <1>1. PICK h \in Api : kind \in DOMAIN h.roles
                         /\ p = [role |-> h.roles[kind], steps |-> Project(h, kind)]
    BY DEF Programs
  <1>2. QED
    BY <1>1, ObjectsAreOrdered

\* What the order of the steps says of the steps a running thread has before it.
Orderly(t) ==
    LET r == call[t].role
        e == NextStep(t)
        R == ToCome(t)
    IN
    /\ r \in {"use", "retain", "release"} \cup Creators
    /\ call[t].todo # <<>> /\ e \in R /\ R \subseteq StepsOf(r, kind)
    /\ Route(kind) \in R => Dispatch \in R
    /\ kind # "pointer" /\ Remove(kind) \in R => Dispatch \in R
    /\ Dispatch \in R /\ r # "use" /\ kind # "accelerator" => CountsAs(r, kind) \in R
    /\ Dispatch \in R /\ kind \in RoutedKinds /\ r \in Creators => Add(kind) \in R
    /\ TimingStart \in R => Dispatch \in R /\ TimingEnd \in R
    /\ e \in {CountsAs(r, kind), Add(kind), TimingEnd} => Dispatch \notin R
    /\ e = Dispatch => TimingStart \notin R
    /\ e = Allocation(kind) => TimingEnd \notin R
    /\ Route(kind) \in R => kind \in RoutedKinds
    /\ r = "release" /\ Route(kind) \in R => Remove(kind) \in R
    /\ r = "enqueue" => kind = "event"

LEMMA RunningIsOrderly ==
    ASSUME NEW t \in Threads, Running(t)
    PROVE /\ Orderly(t)
          /\ Elements(Tail(call[t].todo)) = ToCome(t) \ {NextStep(t)}
          /\ Tail(call[t].todo) = <<>> => Elements(Tail(call[t].todo)) = {}
          /\ Tail(call[t].todo) \in Seq(StepsOf(call[t].role, kind))
          /\ \/ Tail(call[t].todo) = <<>>
             \/ \E p \in Programs(kind) : \E i \in 0 .. Len(p.steps) - 1 :
                   /\ call[t].role = p.role
                   /\ Tail(call[t].todo) = SubSeq(p.steps, i + 1, Len(p.steps))
  <1>0. PICK p \in Programs(kind) : \E i \in 0 .. Len(p.steps) - 1 :
            call[t].role = p.role /\ call[t].todo = SubSeq(p.steps, i + 1, Len(p.steps))
    BY DEF Running
  <1>1. PICK i \in 0 .. Len(p.steps) - 1 :
            call[t].role = p.role /\ call[t].todo = SubSeq(p.steps, i + 1, Len(p.steps))
    BY <1>0
  <1> DEFINE s == p.steps
             r == p.role
             todo == call[t].todo
  <1>2. /\ r \in {"use", "retain", "release"} \cup Creators
        /\ WellOrdered(s, r, kind)
    BY ProgramFacts
  <1>3. /\ s \in Seq(StepsOf(r, kind)) /\ \A j, k \in DOMAIN s : s[j] = s[k] => j = k
        /\ DOMAIN s = 1 .. Len(s) /\ Len(s) \in Nat /\ i + 1 \in 1 .. Len(s)
    BY <1>2, <1>1 DEF WellOrdered
  <1>4. /\ todo \in Seq(StepsOf(r, kind)) /\ todo # <<>> /\ Head(todo) = s[i + 1]
        /\ Elements(todo) = {s[j] : j \in i + 1 .. Len(s)}
        /\ Tail(todo) = SubSeq(s, i + 2, Len(s))
        /\ Elements(Tail(todo)) = Elements(todo) \ {Head(todo)}
        /\ Tail(todo) = <<>> \/ i + 1 \in 0 .. Len(s) - 1
        /\ Tail(todo) = <<>> => Elements(Tail(todo)) = {}
    <2> DEFINE V == StepsOf(r, kind)
    <2>1. s \in Seq(V) /\ i \in 0 .. Len(s) - 1 /\ \A j, k \in DOMAIN s : s[j] = s[k] => j = k
      BY <1>1, <1>3
    <2>2. todo = SubSeq(s, i + 1, Len(s))
      BY <1>1
    <2> HIDE DEF V, s, todo
    <2>3. /\ todo \in Seq(V) /\ todo # <<>> /\ Head(todo) = s[i + 1]
          /\ Elements(todo) = {s[j] : j \in i + 1 .. Len(s)}
          /\ Tail(todo) = SubSeq(s, i + 2, Len(s))
          /\ Elements(Tail(todo)) = Elements(todo) \ {Head(todo)}
          /\ Tail(todo) = <<>> \/ i + 1 \in 0 .. Len(s) - 1
          /\ Tail(todo) = <<>> => Elements(Tail(todo)) = {}
      BY <2>1, <2>2, Ends
    <2>4. QED
      BY <2>3 DEF V
  <1> HIDE DEF s, r, todo
  <1> DEFINE R == Elements(todo)
             e == Head(todo)
  <1>5. /\ e \in R /\ e = s[i + 1]
        /\ \A x : x \in R <=> \E j \in i + 1 .. Len(s) : x = s[j]
        /\ R \subseteq StepsOf(r, kind)
    <2>1. i + 1 \in i + 1 .. Len(s)
      BY <1>3
    <2>2. \A j \in i + 1 .. Len(s) : s[j] \in StepsOf(r, kind)
      BY <1>3
    <2>3. QED
      BY <2>1, <2>2, <1>4
  \* A step that is ordered after one still to come is to come.
  <1>6. ASSUME NEW x, NEW y, InOrder(s, x, y), Takes(s, y), x \in R PROVE y \in R
    <2>1. PICK j \in i + 1 .. Len(s), k \in DOMAIN s : s[j] = x /\ s[k] = y
      BY <1>5, <1>6 DEF Takes
    <2>2. j \in DOMAIN s
      BY <1>3
    <2>3. j < k
      BY <2>1, <2>2, <1>6 DEF InOrder
    <2>4. k \in i + 1 .. Len(s)
      BY <2>1, <2>3, <1>3
    <2>5. QED
      BY <2>1, <2>4, <1>5
  <1>7. ASSUME NEW x, NEW y, InOrder(s, x, y), y = e PROVE x \notin R
    <2>1. SUFFICES ASSUME NEW j \in i + 1 .. Len(s), s[j] = x PROVE FALSE
      BY <1>5
    <2>2. j \in DOMAIN s /\ i + 1 \in DOMAIN s
      BY <1>3
    <2>3. j < i + 1
      BY <2>1, <2>2, <1>5, <1>7 DEF InOrder
    <2>4. QED
      BY <2>3, <1>3
  <1>8. \A x \in R : Takes(s, x)
    <2>1. \A j \in i + 1 .. Len(s) : j \in DOMAIN s
      BY <1>3
    <2>2. QED
      BY <2>1, <1>5 DEF Takes
  <1>9. \A x \in R : x \in StepsOf(r, kind)
    BY <1>5
  <1>10. /\ Takes(s, Dispatch) /\ InOrder(s, Route(kind), Dispatch)
         /\ r # "use" /\ kind # "accelerator" => Takes(s, CountsAs(r, kind))
         /\ InOrder(s, Dispatch, CountsAs(r, kind)) /\ InOrder(s, Dispatch, Add(kind))
         /\ kind # "pointer" => InOrder(s, Remove(kind), Dispatch)
         /\ InOrder(s, TimingStart, Dispatch) /\ InOrder(s, Dispatch, TimingEnd)
         /\ Takes(s, TimingStart) => Takes(s, TimingEnd)
         /\ InOrder(s, TimingEnd, Allocation(kind))
         /\ r = "enqueue" => kind = "event"
         /\ kind \in RoutedKinds /\ r \in Creators => Takes(s, Add(kind))
         /\ kind \notin RoutedKinds => ~Takes(s, Route(kind))
         /\ r = "release" /\ Takes(s, Route(kind)) => Takes(s, Remove(kind))
         /\ InOrder(s, Route(kind), Remove(kind))
    BY <1>2 DEF WellOrdered
  <1> HIDE DEF R, e
  <1>11. Route(kind) \in R => Dispatch \in R
    BY <1>6, <1>10
  <1>12. kind # "pointer" /\ Remove(kind) \in R => Dispatch \in R
    BY <1>6, <1>10
  <1>13. Dispatch \in R /\ r # "use" /\ kind # "accelerator" => CountsAs(r, kind) \in R
    BY <1>6, <1>10
  <1>14. Dispatch \in R /\ kind \in RoutedKinds /\ r \in Creators => Add(kind) \in R
    BY <1>6, <1>10
  <1>15. TimingStart \in R => Dispatch \in R /\ TimingEnd \in R
    BY <1>6, <1>8, <1>10
  <1>16. e \in {CountsAs(r, kind), Add(kind), TimingEnd} => Dispatch \notin R
    BY <1>7, <1>10
  <1>17. e = Dispatch => TimingStart \notin R
    BY <1>7, <1>10
  <1>a. e = Allocation(kind) => TimingEnd \notin R
    BY <1>7, <1>10
  <1>18. Route(kind) \in R => kind \in RoutedKinds
    BY <1>8, <1>10
  <1>19. r = "release" /\ Route(kind) \in R => Remove(kind) \in R
    BY <1>6, <1>8, <1>10
  <1>20. r = call[t].role /\ R = ToCome(t) /\ e = NextStep(t)
    BY <1>1 DEF r, R, e, todo, ToCome, NextStep
  <1>21. Orderly(t)
    BY <1>2, <1>4, <1>5, <1>9, <1>10, <1>11, <1>12, <1>13, <1>14, <1>15, <1>16, <1>17, <1>18,
       <1>19, <1>20, <1>a DEF Orderly, todo
  <1>22. \/ Tail(todo) = <<>>
         \/ \E q \in Programs(kind) : \E j \in 0 .. Len(q.steps) - 1 :
               call[t].role = q.role /\ Tail(todo) = SubSeq(q.steps, j + 1, Len(q.steps))
    <2>1. (i + 1) + 1 = i + 2
      BY <1>1
    <2>2. ASSUME Tail(todo) # <<>>
          PROVE i + 1 \in 0 .. Len(p.steps) - 1
                /\ Tail(todo) = SubSeq(p.steps, (i + 1) + 1, Len(p.steps))
      BY <1>4, <2>1, <2>2 DEF s
    <2>3. QED
      BY <2>2, <1>1
  <1>23. Tail(todo) \in Seq(StepsOf(r, kind))
    BY <1>4, HeadTailProperties
  <1>24. QED
    BY <1>4, <1>20, <1>21, <1>22, <1>23 DEF R, e, todo

-----------------------------------------------------------------------------
(* A thread takes a step of its handler. *)

LEMMA NoCallIsIdle ==
    /\ NoCall.todo = <<>> /\ NoCall.objects = {} /\ NoCall.role = "use"
    /\ ~NoCall.timed /\ ~NoCall.failed /\ ~NoCall.spent /\ Elements(NoCall.todo) = {}
    /\ NoCall \in Locals
  <1>1. /\ NoCall.todo = <<>> /\ NoCall.objects = {} /\ NoCall.role = "use"
        /\ ~NoCall.timed /\ ~NoCall.failed /\ ~NoCall.spent
    BY DEF NoCall
  <1>2. DOMAIN NoCall.todo = {}
    BY <1>1
  <1>3. Elements(NoCall.todo) = {}
    BY <1>2 DEF Elements
  <1>4. NoCall \in Locals
    BY DEF NoCall, Locals, Roles
  <1>5. QED
    BY <1>1, <1>3, <1>4

LEMMA KindIsKnown ==
    ASSUME StateTyped
    PROVE kind \in Kinds
  BY FocusAssumption DEF StateTyped

LEMMA NotIdle ==
    ASSUME CallsAreFollowed, NEW t \in Threads, ~Idle(t)
    PROVE Running(t) /\ Working(t) /\ Orderly(t) /\ call[t] \in Locals
  <1>1. call[t] # NoCall /\ call[t] \in Locals /\ Active(t)
    BY NoCallIsIdle DEF Idle, CallsAreFollowed
  <1>2. Running(t) /\ Working(t)
    BY <1>1 DEF Active
  <1>3. QED
    BY <1>1, <1>2, RunningIsOrderly

\* The calls afterwards, when thread t goes on with the locals c or returns.
Changes(t, c) ==
    /\ \A u \in Threads : u # t => call'[u] = call[u]
    /\ \/ call'[t] = NoCall
       \/ /\ call'[t].role = call[t].role
          /\ call'[t].objects = c.objects /\ call'[t].wanted = c.wanted
          /\ call'[t].timed = c.timed /\ call'[t].failed = c.failed
          /\ call'[t].spent = c.spent
    /\ ToCome(t)' \subseteq ToCome(t) \ {NextStep(t)}

LEMMA AfterChanges ==
    ASSUME CallsAreFollowed, StateTyped, kind' = kind, NEW t \in Threads, ~Idle(t),
           NEW c \in Locals, c.role = call[t].role, c.todo = call[t].todo, After(t, c)
    PROVE /\ Changes(t, c) /\ ToCome(t)' = ToCome(t) \ {NextStep(t)}
          /\ call' \in [Threads -> Locals]
          /\ call'[t] = NoCall \/ Running(t)'
          /\ call'[t] = NoCall => ToCome(t)' = {}
  <1> DEFINE rest == Tail(call[t].todo)
             d == IF rest = <<>> THEN NoCall ELSE [c EXCEPT !.todo = rest]
  <1>1. Running(t) /\ Orderly(t) /\ call[t] \in Locals /\ kind \in Kinds
    BY NotIdle, KindIsKnown
  <1>2. /\ Elements(rest) = ToCome(t) \ {NextStep(t)}
        /\ rest = <<>> => Elements(rest) = {}
        /\ rest \in Seq(StepsOf(call[t].role, kind))
        /\ \/ rest = <<>>
           \/ \E p \in Programs(kind) : \E i \in 0 .. Len(p.steps) - 1 :
                 call[t].role = p.role /\ rest = SubSeq(p.steps, i + 1, Len(p.steps))
    BY <1>1, RunningIsOrderly
  <1>3. call' = [call EXCEPT ![t] = d]
    BY DEF After
  <1> HIDE DEF rest
  <1>4. rest \in Seq(Steps)
    <2>1. call[t].role \in Roles
      BY <1>1 DEF Locals
    <2>2. StepsOf(call[t].role, kind) \subseteq Steps
      BY <2>1, <1>1 DEF Steps
    <2>3. Seq(StepsOf(call[t].role, kind)) \subseteq Seq(Steps)
      BY <2>2
    <2>4. QED
      BY <2>3, <1>2
  <1>5. d \in Locals
    BY <1>4, NoCallIsIdle DEF Locals
  <1>6. /\ call \in [Threads -> Locals] /\ call' \in [Threads -> Locals] /\ call'[t] = d
        /\ \A u \in Threads : u # t => call'[u] = call[u]
    BY <1>3, <1>5 DEF CallsAreFollowed
  <1>7. CASE rest = <<>>
    <2>1. call'[t] = NoCall
      BY <1>6, <1>7
    <2>2. ToCome(t)' = {}
      BY <2>1, NoCallIsIdle DEF ToCome
    <2>3. QED
      BY <1>2, <1>6, <1>7, <2>1, <2>2 DEF Changes
  <1>8. CASE rest # <<>>
    <2>1. /\ call'[t].role = call[t].role /\ call'[t].todo = rest
          /\ call'[t].objects = c.objects /\ call'[t].wanted = c.wanted
          /\ call'[t].timed = c.timed /\ call'[t].failed = c.failed
          /\ call'[t].spent = c.spent
      BY <1>6, <1>8 DEF Locals
    <2>2. ToCome(t)' = ToCome(t) \ {NextStep(t)}
      BY <2>1, <1>2 DEF ToCome
    <2>3. Running(t)'
      BY <2>1, <1>2, <1>8 DEF Running
    <2>4. call'[t] # NoCall
      BY <2>1, <1>8, NoCallIsIdle
    <2>5. Changes(t, c)
      BY <1>6, <2>1, <2>2 DEF Changes
    <2>6. QED
      BY <1>6, <2>2, <2>3, <2>4, <2>5
  <1>9. QED
    BY <1>7, <1>8

LEMMA FollowedAgain ==
    ASSUME CallsAreFollowed, kind' = kind, NEW t \in Threads, NEW c, Changes(t, c),
           call' \in [Threads -> Locals],
           call'[t] = NoCall \/ (Running(t)' /\ Working(t)')
    PROVE CallsAreFollowed'
  <1>1. ASSUME NEW u \in Threads, u # t PROVE Active(u)'
    <2>1. call'[u] = call[u] /\ Active(u)
      BY <1>1 DEF Changes, CallsAreFollowed
    <2>2. Running(u) => Running(u)'
      BY <2>1 DEF Running
    <2>3. Working(u) => Working(u)'
      BY <2>1 DEF Working, ToCome
    <2>4. QED
      BY <2>1, <2>2, <2>3 DEF Active
  <1>2. Active(t)'
    BY DEF Active
  <1>3. QED
    BY <1>1, <1>2 DEF CallsAreFollowed

-----------------------------------------------------------------------------
(* Claims. *)

LEMMA ClaimsAreFinite ==
    ASSUME NEW h
    PROVE IsFiniteSet(Claims(h)) /\ Cardinality(Claims(h)) \in Nat
  <1>1. Claims(h) \in SUBSET Threads
    BY DEF Claims
  <1>2. QED
    BY <1>1, TrackingBoundsAssumption, FS_Subset, FS_CardinalityType

LEMMA HasIsClaim ==
    ASSUME NEW h, NEW t \in Threads
    PROVE Has(t, h) <=> t \in Claims(h)
  BY DEF Has, Claims

\* Who uses an object has one of the application's references, or the layer's event.
LEMMA ClaimIsOwned ==
    ASSUME StateTyped, ClaimsAreOwned, MadeOnce, NEW h \in Handles, NEW t \in Threads, Has(t, h)
    PROVE /\ ~IsLocal(t, h) => appRefs[h] >= 1 /\ ~LocalTo(h)
          /\ IsLocal(t, h) => appRefs[h] = 0
  <1>1. CASE IsLocal(t, h)
    BY <1>1 DEF ClaimsAreOwned, LocalTo
  <1>2. CASE ~IsLocal(t, h)
    <2>1. ~LocalTo(h)
      BY <1>2 DEF MadeOnce, LocalTo
    <2>2. Claims(h) # {}
      BY HasIsClaim
    <2>3. Cardinality(Claims(h)) # 0
      BY <2>2, ClaimsAreFinite, FS_EmptySet
    <2>4. Cardinality(Claims(h)) <= appRefs[h]
      BY <2>1 DEF ClaimsAreOwned
    <2>5. appRefs[h] \in Nat
      BY DEF StateTyped
    <2>6. QED
      BY <1>2, <2>1, <2>3, <2>4, <2>5, ClaimsAreFinite
  <1>3. QED
    BY <1>1, <1>2

LEMMA TwoClaims ==
    ASSUME StateTyped, ClaimsAreOwned, MadeOnce, NEW h \in Handles,
           NEW t \in Threads, NEW u \in Threads, t # u, Has(t, h), Has(u, h)
    PROVE appRefs[h] >= 2 /\ ~LocalTo(h)
  <1>1. ~LocalTo(h)
    BY DEF MadeOnce, LocalTo
  <1>2. t \in Claims(h) /\ u \in Claims(h) \ {t}
    BY HasIsClaim
  <1>3. /\ IsFiniteSet(Claims(h) \ {t})
        /\ Cardinality(Claims(h) \ {t}) = Cardinality(Claims(h)) - 1
    BY <1>2, ClaimsAreFinite, FS_RemoveElement
  <1>4. Cardinality(Claims(h) \ {t}) # 0 /\ Cardinality(Claims(h) \ {t}) \in Nat
    BY <1>2, <1>3, FS_EmptySet, FS_CardinalityType
  <1>5. Cardinality(Claims(h)) <= appRefs[h] /\ appRefs[h] \in Nat
    BY <1>1 DEF ClaimsAreOwned, StateTyped
  <1>6. QED
    BY <1>1, <1>3, <1>4, <1>5, ClaimsAreFinite

-----------------------------------------------------------------------------
(* Steps after which no thread has an object that it had not before. *)

Shrinks(t, c) ==
    /\ Changes(t, c)
    /\ c.objects \subseteq call[t].objects /\ c.wanted = call[t].wanted
    /\ call[t].spent => c.spent

LEMMA ShrinkingUse ==
    ASSUME NEW t \in Threads, NEW c, Shrinks(t, c), NEW u \in Threads, NEW h
    PROVE /\ Has(u, h)' => Has(u, h)
          /\ Makes(u, h)' => Makes(u, h)
          /\ IsLocal(u, h)' => IsLocal(u, h)
          /\ Has(u, h)' /\ IsLocal(u, h) => IsLocal(u, h)'
          /\ ToCome(u)' \subseteq ToCome(u)
          /\ Claims(h)' \subseteq Claims(h)
  <1>1. ASSUME NEW v \in Threads
        PROVE /\ Has(v, h)' => Has(v, h)
              /\ Makes(v, h)' => Makes(v, h)
              /\ IsLocal(v, h)' => IsLocal(v, h)
              /\ Has(v, h)' /\ IsLocal(v, h) => IsLocal(v, h)'
              /\ ToCome(v)' \subseteq ToCome(v)
    <2>1. CASE v # t
      <3>1. call'[v] = call[v]
        BY <2>1 DEF Shrinks, Changes
      <3>2. QED
        BY <3>1 DEF Has, Makes, IsLocal, ToCome
    <2>2. CASE v = t /\ call'[t] = NoCall
      <3>1. ~Has(v, h)' /\ ~Makes(v, h)' /\ ~IsLocal(v, h)'
        BY <2>2, NoCallIsIdle DEF Has, Makes, IsLocal
      <3>2. ToCome(v)' \subseteq ToCome(v)
        BY <2>2 DEF Shrinks, Changes
      <3>3. QED
        BY <3>1, <3>2
    <2>3. CASE v = t /\ call'[t] # NoCall
      <3>1. /\ call'[t].role = call[t].role /\ call'[t].objects \subseteq call[t].objects
            /\ call'[t].wanted = call[t].wanted /\ (call[t].spent => call'[t].spent)
            /\ ToCome(t)' \subseteq ToCome(t)
        BY <2>3 DEF Shrinks, Changes
      <3>2. QED
        BY <2>3, <3>1 DEF Has, Makes, IsLocal
    <2>4. QED
      BY <2>1, <2>2, <2>3
  <1>2. Claims(h)' \subseteq Claims(h)
    <2>1. \A v \in Threads : Has(v, h)' => Has(v, h)
      BY <1>1
    <2>2. QED
      BY <2>1 DEF Claims, Has
  <1>3. QED
    BY <1>1, <1>2

LEMMA ShrinkingMade ==
    ASSUME MadeOnce, NEW t \in Threads, NEW c, Shrinks(t, c)
    PROVE MadeOnce'
  BY ShrinkingUse DEF MadeOnce

LEMMA ShrinkingClaims ==
    ASSUME StateTyped, MadeOnce, ClaimsAreOwned, NEW t \in Threads, NEW c, Shrinks(t, c),
           NEW h \in Handles, appRefs'[h] = appRefs[h]
    PROVE IF LocalTo(h)' THEN appRefs'[h] = 0 ELSE Cardinality(Claims(h))' <= appRefs'[h]
  <1>1. CASE LocalTo(h)'
    <2>1. LocalTo(h)
      BY <1>1, ShrinkingUse DEF LocalTo
    <2>2. QED
      BY <1>1, <2>1 DEF ClaimsAreOwned
  <1>2. CASE ~LocalTo(h)' /\ ~LocalTo(h)
    <2>1. Cardinality(Claims(h)) <= appRefs[h]
      BY <1>2 DEF ClaimsAreOwned
    <2>2. IsFiniteSet(Claims(h)) /\ Claims(h)' \in SUBSET Claims(h)
      BY ClaimsAreFinite, ShrinkingUse
    <2>3. Cardinality(Claims(h)') <= Cardinality(Claims(h)) /\ Cardinality(Claims(h)') \in Nat
      BY <2>2, FS_Subset, FS_CardinalityType
    <2>4. appRefs[h] \in Nat
      BY DEF StateTyped
    <2>5. QED
      BY <1>2, <2>1, <2>3, <2>4, ClaimsAreFinite
  <1>3. CASE ~LocalTo(h)' /\ LocalTo(h)
    <2>1. PICK v \in Threads : IsLocal(v, h)
      BY <1>3 DEF LocalTo
    <2>2. ASSUME NEW u \in Threads, Has(u, h)' PROVE FALSE
      <3>1. Has(u, h)
        BY <2>2, ShrinkingUse
      <3>2. u = v
        BY <2>1, <3>1 DEF MadeOnce
      <3>3. IsLocal(u, h)'
        BY <2>1, <2>2, <3>2, ShrinkingUse
      <3>4. QED
        BY <3>3, <1>3 DEF LocalTo
    <2>3. Claims(h)' = {}
      BY <2>2 DEF Claims, Has
    <2>4. Cardinality(Claims(h)') = 0
      BY <2>3, FS_EmptySet
    <2>5. appRefs[h] \in Nat
      BY DEF StateTyped
    <2>6. QED
      BY <1>3, <2>4, <2>5
  <1>4. QED
    BY <1>1, <1>2, <1>3

-----------------------------------------------------------------------------
(* Steps that change no reference. *)

\* Thread t takes a step of its handler, with the locals c, and keeps its object.
Passes(t, c) ==
    /\ ~Idle(t) /\ c \in Locals /\ c.role = call[t].role /\ c.todo = call[t].todo
    /\ c.objects = call[t].objects /\ c.wanted = call[t].wanted /\ c.spent = call[t].spent
    /\ After(t, c) /\ kind' = kind /\ UNCHANGED <<driver, appRefs>>
    /\ NextStep(t) # TimingEnd

\* What thread u does with an object stays true, but for the step t takes.
Spares(t, u, h) ==
    /\ IsLocal(u, h)' <=> IsLocal(u, h)
    /\ NextStep(t) # Dispatch /\ Doomed(u, h) => Doomed(u, h)'
    /\ \A x : Makes(u, h) /\ x \in ToCome(u) /\ (u = t => x # NextStep(t)) =>
                  Makes(u, h)' /\ x \in ToCome(u)'

Harmless(t, c) ==
    /\ Shrinks(t, c) /\ kind' = kind /\ UNCHANGED <<driver, appRefs>>
    /\ \A u \in Threads : \A h \in Handles : Spares(t, u, h)

LEMMA PassingKeeps ==
    ASSUME CallsAreFollowed, StateTyped, NEW t \in Threads, NEW c, Passes(t, c),
           NEW u \in Threads, NEW h
    PROVE Shrinks(t, c) /\ Spares(t, u, h)
  <1>1. /\ Changes(t, c) /\ ToCome(t)' = ToCome(t) \ {NextStep(t)}
        /\ call'[t] = NoCall => ToCome(t)' = {}
    BY AfterChanges DEF Passes
  <1>2. Shrinks(t, c)
    BY <1>1 DEF Shrinks, Passes
  <1>3. Running(t) /\ Working(t)
    BY NotIdle DEF Passes
  <1>4. CASE u # t
    <2>1. call'[u] = call[u]
      BY <1>1, <1>4 DEF Changes
    <2>2. refs' = refs /\ kind' = kind
      BY DEF Passes, driver
    <2>3. QED
      BY <1>2, <1>4, <2>1, <2>2 DEF Spares, IsLocal, Doomed, Makes, ToCome
  <1>5. CASE u = t /\ call'[t] = NoCall
    <2>1. ToCome(t) \subseteq {NextStep(t)}
      BY <1>1, <1>5
    <2>2. TimingEnd \notin ToCome(t)
      BY <2>1 DEF Passes
    <2>3. ~IsLocal(t, h)
      BY <1>3, <2>2 DEF Working, IsLocal
    <2>4. ~IsLocal(t, h)'
      BY <1>5, NoCallIsIdle DEF IsLocal
    <2>5. NextStep(t) # Dispatch => ~Doomed(t, h)
      BY <2>1 DEF Doomed
    <2>6. QED
      BY <1>2, <1>5, <2>1, <2>3, <2>4, <2>5 DEF Spares
  <1>6. CASE u = t /\ call'[t] # NoCall
    <2>1. /\ call'[t].role = call[t].role /\ call'[t].objects = call[t].objects
          /\ call'[t].wanted = call[t].wanted
      BY <1>1, <1>6 DEF Changes, Passes
    <2>2. refs' = refs /\ kind' = kind
      BY DEF Passes, driver
    <2>3. (IsLocal(t, h)' <=> IsLocal(t, h)) /\ (Makes(t, h)' <=> Makes(t, h))
      BY <2>1 DEF IsLocal, Makes
    <2>4. NextStep(t) # Dispatch /\ Doomed(t, h) => Doomed(t, h)'
      BY <1>1, <2>1, <2>2 DEF Doomed
    <2>5. QED
      BY <1>1, <1>2, <1>6, <2>3, <2>4 DEF Spares
  <1>7. QED
    BY <1>4, <1>5, <1>6

LEMMA PassingIsHarmless ==
    ASSUME CallsAreFollowed, StateTyped, NEW t \in Threads, NEW c, Passes(t, c)
    PROVE Harmless(t, c)
  <1>1. Shrinks(t, c)
    BY PassingKeeps
  <1>2. QED
    BY <1>1, PassingKeeps DEF Harmless, Passes

LEMMA PassingRefs ==
    ASSUME CallsAreFollowed, StateTyped, MadeOnce, ClaimsAreOwned, RefsAreOwned,
           NEW t \in Threads, NEW c, Harmless(t, c)
    PROVE MadeOnce' /\ ClaimsAreOwned' /\ RefsAreOwned'
  <1>1. Shrinks(t, c)
    BY DEF Harmless
  <1>2. refs' = refs /\ timing' = timing /\ appRefs' = appRefs
    BY DEF Harmless, driver
  <1>3. MadeOnce'
    BY <1>1, ShrinkingMade
  <1>4. ClaimsAreOwned'
    BY <1>1, <1>2, ShrinkingClaims DEF ClaimsAreOwned
  <1>5. ASSUME NEW h \in Handles
        PROVE /\ LocalTo(h)' <=> LocalTo(h)
              /\ \A u \in Threads : Makes(u, h)' /\ TimingEnd \in ToCome(u)' => h \notin timing
    <2>1. LocalTo(h)' <=> LocalTo(h)
      BY DEF LocalTo, Harmless, Spares
    <2>2. ASSUME NEW u \in Threads, Makes(u, h)', TimingEnd \in ToCome(u)'
          PROVE h \notin timing
      <3>1. Makes(u, h) /\ TimingEnd \in ToCome(u)
        BY <1>1, <2>2, ShrinkingUse
      <3>2. QED
        BY <3>1 DEF RefsAreOwned
    <2>3. QED
      BY <2>1, <2>2
  <1>6. RefsAreOwned'
    BY <1>2, <1>5 DEF RefsAreOwned
  <1>7. QED
    BY <1>3, <1>4, <1>6

LEMMA PassingAdded ==
    ASSUME CallsAreFollowed, StateTyped, ObjectsAreAdded, NEW t \in Threads, NEW c, Harmless(t, c),
           added \subseteq added',
           NextStep(t) = Add(kind) /\ kind \in RoutedKinds => call[t].objects \subseteq added'
    PROVE ObjectsAreAdded'
  <1>1. appRefs' = appRefs /\ kind' = kind
    BY DEF Harmless
  <1>2. ASSUME kind \in RoutedKinds, NEW h \in Handles, appRefs[h] > 0, h \notin added'
        PROVE appRefs[h] = 1 /\ WillAdd(h)'
    <2>1. appRefs[h] = 1 /\ WillAdd(h)
      BY <1>2 DEF ObjectsAreAdded
    <2>2. PICK u \in Threads : Makes(u, h) /\ Add(kind) \in ToCome(u)
      BY <2>1 DEF WillAdd
    <2>3. u = t => Add(kind) # NextStep(t)
      BY <1>2, <2>2 DEF Makes
    <2>4. Makes(u, h)' /\ Add(kind) \in ToCome(u)'
      BY <2>2, <2>3, <1>2 DEF Harmless, Spares
    <2>5. QED
      BY <2>1, <2>4, <1>1 DEF WillAdd
  <1>3. QED
    BY <1>1, <1>2 DEF ObjectsAreAdded

\* The locals of a handler that goes on to a step other than the driver's call.
LEMMA PassingWork ==
    ASSUME CallsAreFollowed, StateTyped, NEW t \in Threads, Passes(t, call[t]),
           NextStep(t) # Dispatch \/ call[t].role = "use", call'[t] # NoCall
    PROVE Working(t)'
  <1>1. /\ Changes(t, call[t]) /\ ToCome(t)' = ToCome(t) \ {NextStep(t)}
    BY AfterChanges DEF Passes
  <1>2. /\ call'[t].role = call[t].role /\ call'[t].objects = call[t].objects
        /\ call'[t].wanted = call[t].wanted /\ call'[t].timed = call[t].timed
        /\ call'[t].failed = call[t].failed /\ call'[t].spent = call[t].spent
    BY <1>1 DEF Changes
  <1>3. Working(t) /\ NextStep(t) # TimingEnd
    BY NotIdle DEF Passes
  <1>4. "use" \notin Creators /\ "use" # "release" /\ "use" # "enqueue"
    BY DEF Creators
  <1>5. QED
    BY <1>1, <1>2, <1>3, <1>4 DEF Working

\* Everything but what the step does to the maps.
LEMMA PassingInv ==
    ASSUME MapsInv, NEW t \in Threads, NEW c, Passes(t, c), StateTyped',
           call'[t] # NoCall => Working(t)',
           added \subseteq added',
           NextStep(t) = Add(kind) /\ kind \in RoutedKinds => call[t].objects \subseteq added',
           EntriesAreKept'
    PROVE MapsInv'
  <1>1. MadeOnce' /\ ClaimsAreOwned' /\ RefsAreOwned'
    BY PassingRefs, PassingIsHarmless DEF MapsInv
  <1>2. ObjectsAreAdded'
    BY PassingAdded, PassingIsHarmless DEF MapsInv
  <1>3. /\ Changes(t, c) /\ call' \in [Threads -> Locals]
        /\ call'[t] = NoCall \/ Running(t)'
    BY AfterChanges DEF MapsInv, Passes
  <1>4. kind' = kind
    BY DEF Passes
  <1>5. CallsAreFollowed'
    BY <1>3, <1>4, FollowedAgain DEF MapsInv
  <1>6. QED
    BY <1>1, <1>2, <1>5 DEF MapsInv

\* A step that leaves every entry on the maps.
LEMMA PassingEntries ==
    ASSUME MapsInv, StateTyped', NEW t \in Threads, NEW c, Harmless(t, c), NextStep(t) # Dispatch,
           \A h \in added' \ refused' : Listed(h)' \/ Doomed(t, h)' \/ (h \in added \ refused /\ ~Listed(h))
    PROVE EntriesAreKept'
  <1>1. refs' = refs /\ kind' = kind
    BY DEF Harmless, driver
  <1>2. ASSUME kind # "pointer", NEW h \in added' \ refused', ~Listed(h)', refs[h] # 0
        PROVE \E u \in Threads : Doomed(u, h)'
    <2>0. SUFFICES ASSUME ~Doomed(t, h)' PROVE \E u \in Threads : Doomed(u, h)'
      OBVIOUS
    <2>1. h \in added \ refused /\ ~Listed(h) /\ h \in Handles
      BY <1>2, <2>0 DEF StateTyped
    <2>2. PICK u \in Threads : Doomed(u, h)
      BY <1>2, <2>1 DEF MapsInv, EntriesAreKept
    <2>3. Doomed(u, h)'
      BY <2>1, <2>2 DEF Harmless, Spares
    <2>4. QED
      BY <2>3
  <1>3. QED
    BY <1>1, <1>2 DEF EntriesAreKept

LEMMA StepsOfRoles ==
    ASSUME NEW k
    PROVE /\ StepsOf("use", k) = {Route(k), Dispatch}
          /\ StepsOf("retain", k) = {Route(k), Dispatch, Retained(k)}
          /\ StepsOf("release", k) = {Route(k), Remove(k), Dispatch, Released(k)}
          /\ StepsOf("enqueue", k) = {TimingStart, Dispatch, TimingEnd, Allocation(k), Add(k)}
          /\ StepsOf("create", k) = {Dispatch, Allocation(k), Add(k)}
          /\ StepsOf("createMany", k) = {Dispatch, Allocation(k), Add(k)}
  BY DEF StepsOf

\* The next step of a thread, and who takes it.
LEMMA AtStep ==
    ASSUME CallsAreFollowed, StateTyped, NEW t \in Threads, NEW op, At(t, op)
    PROVE /\ ~Idle(t) /\ NextStep(t) \in ToCome(t)
          /\ op = "dispatch"    => NextStep(t) = Dispatch
          /\ op = "allocation"  => NextStep(t) = Allocation(kind) /\ call[t].role \in Creators
          /\ op = "retained"    => NextStep(t) = Retained(kind) /\ call[t].role = "retain"
          /\ op = "released"    => NextStep(t) = Released(kind) /\ call[t].role = "release"
          /\ op = "add"         => NextStep(t) = Add(kind) /\ call[t].role \in Creators
          /\ op = "remove"      => NextStep(t) = Remove(kind) /\ call[t].role = "release"
          /\ op = "route"       => /\ NextStep(t) = Route(kind)
                                   /\ call[t].role \in {"use", "retain", "release"}
          /\ op = "timingStart" => NextStep(t) = TimingStart /\ call[t].role = "enqueue"
          /\ op = "timingEnd"   => NextStep(t) = TimingEnd /\ call[t].role = "enqueue"
  <1> DEFINE e == NextStep(t)
             r == call[t].role
  <1>1. ~Idle(t) /\ e[1] = op
    BY DEF At, NextStep
  <1>2. /\ r \in {"use", "retain", "release"} \cup Creators
        /\ e \in ToCome(t) /\ e \in StepsOf(r, kind)
    BY <1>1, NotIdle DEF Orderly
  <1> HIDE DEF e
  <1> HIDE DEF r
  <1>3. CASE r = "use"
    <2>1. e \in {Route(kind), Dispatch}
      BY <1>2, <1>3, StepsOfRoles
    <2>2. QED
      BY <1>1, <1>2, <1>3, <2>1, Operations DEF e, r
  <1>4. CASE r = "retain"
    <2>1. e \in {Route(kind), Dispatch, Retained(kind)}
      BY <1>2, <1>4, StepsOfRoles
    <2>2. QED
      BY <1>1, <1>2, <1>4, <2>1, Operations DEF e, r
  <1>5. CASE r = "release"
    <2>1. e \in {Route(kind), Remove(kind), Dispatch, Released(kind)}
      BY <1>2, <1>5, StepsOfRoles
    <2>2. QED
      BY <1>1, <1>2, <1>5, <2>1, Operations DEF e, r
  <1>6. CASE r = "enqueue"
    <2>1. e \in {TimingStart, Dispatch, TimingEnd, Allocation(kind), Add(kind)}
      BY <1>2, <1>6, StepsOfRoles
    <2>2. QED
      BY <1>1, <1>2, <1>6, <2>1, Operations DEF Creators, e, r
  <1>7. CASE r \in {"create", "createMany"}
    <2>1. e \in {Dispatch, Allocation(kind), Add(kind)}
      BY <1>2, <1>7, StepsOfRoles
    <2>2. QED
      BY <1>1, <1>2, <1>7, <2>1, Operations DEF Creators, e, r
  <1>8. QED
    BY <1>2, <1>3, <1>4, <1>5, <1>6, <1>7 DEF Creators, e, r

\* The steps that count, or change the maps, leave the locals alone.
LEMMA CallPasses ==
    ASSUME CallsAreFollowed, StateTyped, NEW t \in Threads, ~Idle(t), After(t, call[t]),
           kind' = kind, UNCHANGED <<driver, appRefs>>, NextStep(t) # TimingEnd
    PROVE Passes(t, call[t])
  BY NotIdle DEF Passes

-----------------------------------------------------------------------------
(* One lemma for each action. *)

LEMMA CountingInv ==
    ASSUME MapsInv, NEW t \in Threads, AddAllocation(t) \/ AddRetain(t) \/ AddRelease(t)
    PROVE MapsInv'
  <1>0. CallsAreFollowed /\ StateTyped
    BY DEF MapsInv
  <1>1. /\ ~Idle(t)
        /\ NextStep(t) \in {Allocation(kind), Retained(kind), Released(kind)}
        /\ After(t, call[t]) /\ kind' = kind /\ UNCHANGED <<driver, appRefs>>
        /\ UNCHANGED <<maps, added, refused>>
    BY <1>0, AtStep DEF AddAllocation, AddRetain, AddRelease, history
  <1>2. NextStep(t) \notin {Dispatch, TimingEnd, Add(kind)}
    BY <1>1, StepsDiffer
  <1>3. Passes(t, call[t])
    BY <1>0, <1>1, <1>2, CallPasses
  <1>4. call'[t] # NoCall => Working(t)'
    BY <1>0, <1>2, <1>3, PassingWork
  <1>5. StateTyped'
    <2>1. /\ Refusal(t) \in {0, 1}
          /\ Cardinality(call[t].objects) \in Nat
      <3>1. call[t].objects \in SUBSET Handles
        BY <1>0 DEF CallsAreFollowed, Locals
      <3>2. QED
        BY <3>1, TrackingBoundsAssumption, FS_Subset, FS_CardinalityType DEF Refusal
    <2>2. NumAllocations' \in Nat /\ NumRetains' \in Nat /\ NumReleases' \in Nat /\ refusals' \in Int
      BY <1>0, <2>1 DEF StateTyped, AddAllocation, AddRetain, AddRelease, history
    <2>3. QED
      BY <1>0, <1>1, <2>2 DEF StateTyped, maps, driver
  <1>6. EntriesAreKept'
    <2>1. \A h : Listed(h)' <=> Listed(h)
      BY <1>1 DEF Listed, maps
    <2>2. \A h \in added' \ refused' : Listed(h)' \/ (h \in added \ refused /\ ~Listed(h))
      BY <1>1, <2>1
    <2>3. QED
      BY <1>0, <1>5, <1>2, <1>3, <2>2, PassingIsHarmless, PassingEntries
  <1>7. QED
    BY <1>1, <1>2, <1>3, <1>4, <1>5, <1>6, PassingInv

LEMMA AddInfoInv ==
    ASSUME MapsInv, NEW t \in Threads, AddInfo(t) \/ AddQueue(t)
    PROVE MapsInv'
  <1>0. CallsAreFollowed /\ StateTyped
    BY DEF MapsInv
  <1>1. /\ ~Idle(t) /\ NextStep(t) = Add(kind)
        /\ After(t, call[t]) /\ kind' = kind /\ UNCHANGED <<driver, appRefs>>
        /\ info' = info \cup call[t].objects /\ added' = added \cup call[t].objects
        /\ refused' = refused /\ counters' = counters /\ undefined' = undefined
        /\ refusals' = refusals
        /\ \/ kind # "queue" /\ contextQueues' = contextQueues
           \/ /\ kind = "queue"
              /\ contextQueues' = [h \in Handles |-> contextQueues[h] +
                                      IF h \in call[t].objects THEN 1 ELSE 0]
    BY <1>0, AtStep DEF AddInfo, AddQueue
  <1>2. NextStep(t) \notin {Dispatch, TimingEnd}
    BY <1>1, StepsDiffer
  <1>3. Passes(t, call[t])
    BY <1>0, <1>1, <1>2, CallPasses
  <1>4. call'[t] # NoCall => Working(t)'
    BY <1>0, <1>2, <1>3, PassingWork
  <1>5. call[t].objects \in SUBSET Handles
    BY <1>0 DEF CallsAreFollowed, Locals
  <1>6. contextQueues' \in [Handles -> Nat]
    <2>1. contextQueues \in [Handles -> Nat]
      BY <1>0 DEF StateTyped
    <2>2. \A h \in Handles : contextQueues[h] + (IF h \in call[t].objects THEN 1 ELSE 0) \in Nat
      BY <2>1
    <2>3. QED
      BY <1>1, <2>1, <2>2
  <1>7. StateTyped'
    BY <1>0, <1>1, <1>5, <1>6 DEF StateTyped, counters, driver
  <1>8. EntriesAreKept'
    <2>1. ASSUME NEW h \in added' \ refused'
          PROVE Listed(h)' \/ (h \in added \ refused /\ ~Listed(h))
      <3>1. CASE h \in call[t].objects
        <4>1. kind = "queue" => contextQueues'[h] = contextQueues[h] + 1
          BY <1>1, <1>5, <3>1
        <4>2. contextQueues[h] \in Nat
          BY <1>0, <1>5, <3>1 DEF StateTyped
        <4>3. kind = "queue" => contextQueues'[h] > 0
          BY <4>1, <4>2
        <4>4. QED
          BY <1>1, <3>1, <4>3 DEF Listed
      <3>2. CASE h \notin call[t].objects
        <4>1. h \in added \ refused /\ h \in Handles
          BY <1>0, <1>1, <3>2 DEF StateTyped
        <4>2. contextQueues[h] \in Nat
          BY <1>0, <4>1 DEF StateTyped
        <4>3. contextQueues'[h] = contextQueues[h]
          BY <1>1, <3>2, <4>1, <4>2
        <4>4. Listed(h)' <=> Listed(h)
          BY <1>1, <3>2, <4>3 DEF Listed
        <4>5. QED
          BY <4>1, <4>4
      <3>3. QED
        BY <3>1, <3>2
    <2>2. QED
      BY <1>0, <1>7, <1>2, <1>3, <2>1, PassingIsHarmless, PassingEntries
  <1>9. added \subseteq added' /\ call[t].objects \subseteq added'
    BY <1>1
  <1>10. QED
    BY <1>3, <1>4, <1>7, <1>8, <1>9, PassingInv

LEMMA AddEventOfRefusedCommandInv ==
    ASSUME MapsInv, NEW t \in Threads, AddEventOfRefusedCommand(t)
    PROVE MapsInv'
  <1>0. CallsAreFollowed /\ StateTyped
    BY DEF MapsInv
  <1>1. /\ ~Idle(t) /\ NextStep(t) = Add(kind) /\ call[t].role = "enqueue"
        /\ After(t, call[t]) /\ kind' = kind /\ UNCHANGED <<driver, appRefs>>
        /\ info \subseteq info' /\ info' \in SUBSET Handles
        /\ UNCHANGED <<counters, contextQueues, undefined, history>>
    BY <1>0, AtStep DEF AddEventOfRefusedCommand, StateTyped
  <1>2. NextStep(t) \notin {Dispatch, TimingEnd}
    BY <1>1, StepsDiffer
  <1>3. Passes(t, call[t])
    BY <1>0, <1>1, <1>2, CallPasses
  <1>4. call'[t] # NoCall => Working(t)'
    BY <1>0, <1>2, <1>3, PassingWork
  <1>5. StateTyped'
    BY <1>0, <1>1 DEF StateTyped, counters, driver, history
  <1>6. EntriesAreKept'
    <2>1. \A h : Listed(h) => Listed(h)'
      BY <1>1 DEF Listed
    <2>2. added' = added /\ refused' = refused
      BY <1>1 DEF history
    <2>3. QED
      BY <1>0, <1>5, <1>2, <1>3, <2>1, <2>2, PassingIsHarmless, PassingEntries
  <1>7. kind \notin RoutedKinds /\ added' = added
    <2>1. kind = "event"
      BY <1>0, <1>1, NotIdle DEF Orderly
    <2>2. QED
      BY <1>1, <2>1 DEF RoutedKinds, history
  <1>8. QED
    BY <1>3, <1>4, <1>5, <1>6, <1>7, PassingInv

LEMMA CheckRemoveInv ==
    ASSUME MapsInv, NEW t \in Threads, CheckRemoveInfo(t) \/ CheckRemoveQueue(t)
    PROVE MapsInv'
  <1> DEFINE last == {h \in call[t].objects : refs[h] = 1}
  <1>0. CallsAreFollowed /\ StateTyped
    BY DEF MapsInv
  <1>1. /\ ~Idle(t) /\ NextStep(t) = Remove(kind) /\ call[t].role = "release"
        /\ After(t, call[t]) /\ kind' = kind /\ UNCHANGED <<driver, appRefs>>
        /\ UNCHANGED <<counters, history>> /\ info' \in SUBSET Handles
        /\ kind # "pointer" => info' = info \ last
        /\ undefined' \in BOOLEAN
        /\ \/ kind # "queue" /\ contextQueues' = contextQueues
           \/ /\ kind = "queue"
              /\ contextQueues' = [h \in Handles |-> IF h \in last /\ contextQueues[h] > 0
                                                     THEN contextQueues[h] - 1
                                                     ELSE contextQueues[h]]
    BY <1>0, AtStep DEF CheckRemoveInfo, CheckRemoveQueue, StateTyped
  <1>2. NextStep(t) \notin {Dispatch, TimingEnd, Add(kind)}
    BY <1>1, StepsDiffer
  <1>3. Passes(t, call[t])
    BY <1>0, <1>1, <1>2, CallPasses
  <1>4. call'[t] # NoCall => Working(t)'
    BY <1>0, <1>2, <1>3, PassingWork
  <1>5. contextQueues \in [Handles -> Nat]
    BY <1>0 DEF StateTyped
  <1>6. contextQueues' \in [Handles -> Nat]
    <2>1. \A h \in Handles : contextQueues[h] \in Nat /\
                             (contextQueues[h] > 0 => contextQueues[h] - 1 \in Nat)
      BY <1>5
    <2>2. QED
      BY <1>1, <1>5, <2>1
  <1>7. StateTyped'
    BY <1>0, <1>1, <1>6 DEF StateTyped, counters, driver, history
  <1>8. ASSUME kind # "pointer", NEW h \in last PROVE Doomed(t, h)'
    <2>1. Dispatch \in ToCome(t)
      BY <1>0, <1>1, <1>8, NotIdle DEF Orderly
    <2>2. /\ Changes(t, call[t]) /\ ToCome(t)' = ToCome(t) \ {Remove(kind)}
          /\ call'[t] = NoCall => ToCome(t)' = {}
      BY <1>0, <1>1, AfterChanges, NotIdle
    <2>3. Dispatch \in ToCome(t)'
      BY <1>1, <1>2, <2>1, <2>2
    <2>4. call'[t].role = "release" /\ h \in call'[t].objects
      BY <1>1, <1>8, <2>2, <2>3 DEF Changes
    <2>5. refs'[h] = 1 /\ kind' = kind
      BY <1>1, <1>8 DEF driver
    <2>6. QED
      BY <2>2, <2>3, <2>4, <2>5 DEF Doomed
  <1>9. EntriesAreKept'
    <2>1. CASE kind = "pointer"
      BY <1>1, <2>1 DEF EntriesAreKept
    <2>2. CASE kind # "pointer"
      <3>1. ASSUME NEW h \in added' \ refused', h \notin last, Listed(h) PROVE Listed(h)'
        <4>1. h \in Handles
          BY <1>0, <1>1, <3>1 DEF StateTyped, history
        <4>2. contextQueues'[h] = contextQueues[h]
          BY <1>1, <3>1, <4>1
        <4>3. QED
          BY <1>1, <2>2, <3>1, <4>2 DEF Listed
      <3>2. \A h \in added' \ refused' :
               Listed(h)' \/ Doomed(t, h)' \/ (h \in added \ refused /\ ~Listed(h))
        BY <1>1, <1>8, <2>2, <3>1 DEF history
      <3>3. QED
        BY <1>0, <1>2, <1>3, <1>7, <3>2, PassingIsHarmless, PassingEntries
    <2>3. QED
      BY <2>1, <2>2
  <1>10. added' = added
    BY <1>1 DEF history
  <1>11. QED
    BY <1>2, <1>3, <1>4, <1>7, <1>9, <1>10, PassingInv

\* What a step leaves alone when it changes the locals of a thread only.
LocalStep == kind' = kind /\ UNCHANGED <<counters, maps, driver, appRefs, history>>

LEMMA LocalStepFacts ==
    ASSUME StateTyped, LocalStep
    PROVE /\ StateTyped' /\ kind' = kind /\ refs' = refs /\ added' = added /\ refused' = refused
          /\ UNCHANGED <<driver, appRefs>>
          /\ \A h : Listed(h)' <=> Listed(h)
  <1>1. /\ kind' = kind /\ refs' = refs /\ added' = added /\ refused' = refused
        /\ UNCHANGED <<driver, appRefs>>
    BY DEF LocalStep, driver, history
  <1>2. StateTyped'
    BY DEF StateTyped, LocalStep, counters, maps, driver, history
  <1>3. \A h : Listed(h)' <=> Listed(h)
    BY DEF LocalStep, Listed, maps
  <1>4. QED
    BY <1>1, <1>2, <1>3

LEMMA LookUpInv ==
    ASSUME MapsInv, NEW t \in Threads, LookUp(t)
    PROVE MapsInv'
  <1>0. CallsAreFollowed /\ StateTyped
    BY DEF MapsInv
  <1>1. /\ ~Idle(t) /\ NextStep(t) = Route(kind) /\ NextStep(t) \in ToCome(t)
        /\ call[t].role \in {"use", "retain", "release"}
        /\ LocalStep
        /\ After(t, call[t]) \/ call' = [call EXCEPT ![t] = NoCall]
    BY <1>0, AtStep DEF LookUp, LocalStep
  <1>2. NextStep(t) \notin {Dispatch, TimingEnd, Add(kind)}
    BY <1>1, StepsDiffer
  <1>3. /\ StateTyped' /\ kind' = kind /\ added' = added /\ refused' = refused
        /\ UNCHANGED <<driver, appRefs>>
        /\ \A h : Listed(h)' <=> Listed(h)
    BY <1>0, <1>1, LocalStepFacts
  <1>4. ASSUME Harmless(t, call[t])
        PROVE EntriesAreKept' /\ MadeOnce' /\ ClaimsAreOwned' /\ RefsAreOwned' /\ ObjectsAreAdded'
    <2>1. EntriesAreKept'
      BY <1>0, <1>2, <1>3, <1>4, PassingEntries
    <2>2. MadeOnce' /\ ClaimsAreOwned' /\ RefsAreOwned'
      BY <1>0, <1>4, PassingRefs DEF MapsInv
    <2>3. ObjectsAreAdded'
      BY <1>0, <1>2, <1>3, <1>4, PassingAdded DEF MapsInv
    <2>4. QED
      BY <2>1, <2>2, <2>3
  <1>5. CASE After(t, call[t])
    <2>1. Passes(t, call[t])
      BY <1>0, <1>1, <1>2, <1>3, <1>5, CallPasses
    <2>2. call'[t] # NoCall => Working(t)'
      BY <1>0, <1>2, <2>1, PassingWork
    <2>3. EntriesAreKept'
      BY <1>0, <1>4, <2>1, PassingIsHarmless
    <2>4. QED
      BY <1>2, <1>3, <2>1, <2>2, <2>3, PassingInv
  <1>6. CASE call' = [call EXCEPT ![t] = NoCall]
    <2>1. /\ call \in [Threads -> Locals] /\ call' \in [Threads -> Locals] /\ call'[t] = NoCall
          /\ \A u \in Threads : u # t => call'[u] = call[u]
      BY <1>0, <1>6, NoCallIsIdle DEF CallsAreFollowed
    <2>2. ToCome(t)' = {}
      BY <2>1, NoCallIsIdle DEF ToCome
    <2>3. Changes(t, call[t])
      BY <2>1, <2>2 DEF Changes
    <2>4. Shrinks(t, call[t])
      BY <2>3 DEF Shrinks
    <2>5. ASSUME NEW h \in Handles
          PROVE ~IsLocal(t, h) /\ ~Makes(t, h) /\ ~Doomed(t, h) /\ ~IsLocal(t, h)'
      <3>1. Working(t) /\ Orderly(t)
        BY <1>0, <1>1, NotIdle
      <3>2. call[t].role \notin Creators /\ call[t].wanted
        BY <1>1, <3>1 DEF Working, Creators
      <3>3. call[t].role = "release" => Remove(kind) \in ToCome(t)
        BY <1>1, <3>1 DEF Orderly
      <3>4. ~IsLocal(t, h)'
        BY <2>1, NoCallIsIdle DEF IsLocal
      <3>5. QED
        BY <3>2, <3>3, <3>4 DEF IsLocal, Makes, Doomed
    <2>6. ASSUME NEW u \in Threads, NEW h \in Handles PROVE Spares(t, u, h)
      <3>1. CASE u = t
        BY <2>5, <3>1 DEF Spares
      <3>2. CASE u # t
        <4>1. call'[u] = call[u] /\ refs' = refs
          BY <2>1, <1>3, <3>2 DEF driver
        <4>2. QED
          BY <4>1, <1>3 DEF Spares, IsLocal, Doomed, Makes, ToCome
      <3>3. QED
        BY <3>1, <3>2
    <2>7. Harmless(t, call[t])
      BY <2>4, <2>6, <1>3 DEF Harmless
    <2>8. CallsAreFollowed'
      BY <1>0, <1>3, <2>1, <2>3, FollowedAgain
    <2>9. QED
      BY <1>3, <1>4, <2>7, <2>8 DEF MapsInv
  <1>7. QED
    BY <1>1, <1>5, <1>6

LEMMA StartTimingInv ==
    ASSUME MapsInv, NEW t \in Threads, StartTiming(t)
    PROVE MapsInv'
  <1>0. CallsAreFollowed /\ StateTyped
    BY DEF MapsInv
  <1>1. /\ ~Idle(t) /\ NextStep(t) = TimingStart /\ NextStep(t) \in ToCome(t)
        /\ call[t].role = "enqueue" /\ LocalStep
    BY <1>0, AtStep DEF StartTiming, LocalStep
  <1>2. NextStep(t) \notin {Dispatch, TimingEnd, Add(kind)}
    BY <1>1, StepsDiffer
  <1>3. /\ StateTyped' /\ kind' = kind /\ added' = added /\ refused' = refused
        /\ UNCHANGED <<driver, appRefs>>
        /\ \A h : Listed(h)' <=> Listed(h)
    BY <1>0, <1>1, LocalStepFacts
  <1>4. Running(t) /\ Working(t) /\ Orderly(t) /\ call[t] \in Locals
    BY <1>0, <1>1, NotIdle
  <1>5. PICK timed \in BOOLEAN : After(t, [call[t] EXCEPT !.timed = timed])
    BY DEF StartTiming
  <1> DEFINE c == [call[t] EXCEPT !.timed = timed]
  <1>6. /\ c \in Locals /\ c.role = call[t].role /\ c.todo = call[t].todo
        /\ c.objects = call[t].objects /\ c.wanted = call[t].wanted /\ c.spent = call[t].spent
        /\ c.failed = call[t].failed
    BY <1>4 DEF Locals
  <1>7. After(t, c)
    BY <1>5
  <1> HIDE DEF c
  <1>8. Passes(t, c)
    BY <1>1, <1>2, <1>3, <1>6, <1>7 DEF Passes
  <1>9. EntriesAreKept'
    BY <1>0, <1>2, <1>3, <1>8, PassingIsHarmless, PassingEntries
  <1>10. Dispatch \in ToCome(t) /\ TimingEnd \in ToCome(t)
    BY <1>1, <1>4 DEF Orderly
  <1>11. ASSUME call'[t] # NoCall PROVE Working(t)'
    <2>1. /\ Changes(t, c) /\ ToCome(t)' = ToCome(t) \ {NextStep(t)}
      BY <1>0, <1>1, <1>3, <1>6, <1>7, AfterChanges
    <2>2. /\ call'[t].role = call[t].role /\ call'[t].objects = call[t].objects
          /\ call'[t].wanted = call[t].wanted
          /\ call'[t].failed = call[t].failed /\ call'[t].spent = call[t].spent
      BY <1>6, <1>11, <2>1 DEF Changes
    <2>3. Dispatch \in ToCome(t)' /\ TimingEnd \in ToCome(t)'
      BY <1>2, <1>10, <2>1
    <2>4. call[t].objects = {}
      BY <1>1, <1>4, <1>10 DEF Working, Creators
    <2>5. QED
      BY <1>1, <1>4, <1>10, <2>2, <2>3, <2>4 DEF Working, Creators
  <1>12. QED
    BY <1>2, <1>3, <1>8, <1>9, <1>11, PassingInv

LEMMA DispatchUseInv ==
    ASSUME MapsInv, NEW t \in Threads, At(t, "dispatch"), DispatchUse(t),
           UNCHANGED <<kind, counters, maps>>
    PROVE MapsInv'
  <1>0. CallsAreFollowed /\ StateTyped
    BY DEF MapsInv
  <1>1. ~Idle(t) /\ NextStep(t) = Dispatch /\ call[t].role = "use" /\ LocalStep
    BY <1>0, AtStep DEF DispatchUse, LocalStep
  <1>2. NextStep(t) \notin {TimingEnd, Add(kind)}
    BY <1>1, StepsDiffer
  <1>3. /\ StateTyped' /\ kind' = kind /\ refs' = refs /\ added' = added /\ refused' = refused
        /\ UNCHANGED <<driver, appRefs>>
        /\ \A h : Listed(h)' <=> Listed(h)
    BY <1>0, <1>1, LocalStepFacts
  <1>4. Passes(t, call[t])
    BY <1>0, <1>1, <1>2, <1>3, CallPasses DEF DispatchUse
  <1>5. call'[t] # NoCall => Working(t)'
    BY <1>0, <1>1, <1>4, PassingWork
  <1>6. ASSUME NEW u \in Threads, NEW h, Doomed(u, h) PROVE Doomed(u, h)'
    <2>1. u # t
      BY <1>1, <1>6 DEF Doomed
    <2>2. call'[u] = call[u]
      BY <1>0, <1>4, <2>1, PassingIsHarmless DEF Harmless, Shrinks, Changes
    <2>3. QED
      BY <1>3, <1>6, <2>2 DEF Doomed, ToCome
  <1>7. EntriesAreKept'
    BY <1>3, <1>6 DEF MapsInv, EntriesAreKept
  <1>8. QED
    BY <1>2, <1>3, <1>4, <1>5, <1>7, PassingInv

\* The driver refuses a call.  An object whose release it refuses may be off the
\* maps, and is excepted.
LEMMA DispatchFailsInv ==
    ASSUME MapsInv, NEW t \in Threads, DispatchFails(t)
    PROVE MapsInv'
  <1>0. CallsAreFollowed /\ StateTyped
    BY DEF MapsInv
  <1> DEFINE c == [call[t] EXCEPT !.failed = TRUE]
  <1>1. /\ ~Idle(t) /\ NextStep(t) = Dispatch /\ NextStep(t) \in ToCome(t)
        /\ call[t].role # "use" /\ After(t, c)
        /\ kind' = kind /\ UNCHANGED <<driver, appRefs>> /\ UNCHANGED <<counters, maps>>
        /\ added' = added /\ refusals' = refusals
        /\ refused' = IF call[t].role = "release" THEN refused \cup call[t].objects ELSE refused
    BY <1>0, AtStep DEF DispatchFails
  <1>2. NextStep(t) \notin {TimingEnd, Add(kind)}
    BY <1>1, StepsDiffer
  <1>3. Running(t) /\ Working(t) /\ Orderly(t) /\ call[t] \in Locals
    BY <1>0, <1>1, NotIdle
  <1>4. /\ c \in Locals /\ c.role = call[t].role /\ c.todo = call[t].todo
        /\ c.objects = call[t].objects /\ c.wanted = call[t].wanted /\ c.spent = call[t].spent
        /\ c.timed = call[t].timed
    BY <1>3 DEF Locals
  <1>a. c.failed
    BY <1>3 DEF Locals
  <1> HIDE DEF c
  <1>5. Passes(t, c)
    BY <1>1, <1>2, <1>4 DEF Passes
  <1>6. StateTyped'
    <2>1. refused' \in SUBSET Handles
      BY <1>0, <1>1, <1>3 DEF StateTyped, Locals
    <2>2. QED
      BY <1>0, <1>1, <2>1 DEF StateTyped, counters, maps, driver
  <1>7. ASSUME call'[t] # NoCall PROVE Working(t)'
    <2>1. /\ Changes(t, c) /\ ToCome(t)' = ToCome(t) \ {NextStep(t)}
      BY <1>0, <1>1, <1>4, AfterChanges
    <2>2. /\ call'[t].role = call[t].role /\ call'[t].objects = call[t].objects
          /\ call'[t].wanted = call[t].wanted /\ call'[t].timed = call[t].timed
          /\ call'[t].failed /\ call'[t].spent = call[t].spent
      BY <1>4, <1>a, <1>7, <2>1 DEF Changes
    <2>3. Dispatch \notin ToCome(t)' /\ (TimingEnd \in ToCome(t) => TimingEnd \in ToCome(t)')
      BY <1>1, <1>2, <2>1
    <2>4. call[t].role \in Creators => call[t].objects = {}
      BY <1>1, <1>3 DEF Working
    <2>5. ~call[t].spent
      BY <1>1, <1>3 DEF Working
    <2>6. call[t].objects # {} => call[t].wanted
      BY <1>3, <2>4 DEF Working, Creators
    <2>7. QED
      BY <1>3, <2>2, <2>3, <2>4, <2>5, <2>6 DEF Working
  <1>8. EntriesAreKept'
    <2>1. ASSUME kind # "pointer", NEW h \in added' \ refused'
          PROVE Listed(h)' \/ refs'[h] = 0 \/ \E u \in Threads : Doomed(u, h)'
      <3>1. h \in added \ refused
        BY <1>1, <2>1
      <3>2. CASE Listed(h)
        BY <1>1, <3>2 DEF Listed, maps
      <3>3. CASE refs[h] = 0
        BY <1>1, <3>3 DEF driver
      <3>4. CASE \E u \in Threads : Doomed(u, h)
        <4>1. PICK u \in Threads : Doomed(u, h)
          BY <3>4
        <4>2. u # t
          BY <1>1, <2>1, <4>1 DEF Doomed
        <4>3. call'[u] = call[u]
          BY <1>0, <1>5, <4>2, PassingIsHarmless DEF Harmless, Shrinks, Changes
        <4>4. Doomed(u, h)'
          BY <1>1, <4>1, <4>3 DEF Doomed, ToCome, driver
        <4>5. QED
          BY <4>4
      <3>5. QED
        BY <2>1, <3>1, <3>2, <3>3, <3>4 DEF MapsInv, EntriesAreKept
    <2>2. QED
      BY <1>1, <2>1 DEF EntriesAreKept
  <1>9. QED
    BY <1>1, <1>2, <1>5, <1>6, <1>7, <1>8, PassingInv

-----------------------------------------------------------------------------
(* References. *)

LEMMA UsersHave ==
    ASSUME CallsAreFollowed, NEW t \in Threads, NEW h \in call[t].objects
    PROVE /\ h \in Handles /\ ~Idle(t)
          /\ call[t].role \in Creators => Makes(t, h) /\ Has(t, h) /\ Dispatch \notin ToCome(t)
          /\ Dispatch \in ToCome(t) => Has(t, h) /\ ~IsLocal(t, h)
          /\ call[t].role \notin Creators => call[t].objects = {h} /\ ~IsLocal(t, h)
          /\ call[t].role = "enqueue" => call[t].objects = {h}
  <1>1. call[t] # NoCall /\ call[t] \in Locals /\ Active(t)
    BY NoCallIsIdle DEF CallsAreFollowed
  <1>2. Running(t) /\ Working(t)
    BY <1>1 DEF Active
  <1>3. call[t].objects \in SUBSET Handles
    BY <1>1 DEF Locals
  <1>4. Orderly(t) /\ ~Idle(t)
    BY <1>2, RunningIsOrderly DEF Orderly, Idle
  <1>5. call[t].role \in Creators => Makes(t, h) /\ Has(t, h) /\ Dispatch \notin ToCome(t)
    BY <1>2 DEF Working, Makes, Has, Creators
  <1>6. call[t].role \notin Creators => call[t].objects = {h} /\ ~IsLocal(t, h)
    <2>1. ASSUME call[t].role \notin Creators PROVE call[t].objects = {h} /\ ~IsLocal(t, h)
      <3>1. call[t].role # "enqueue"
        BY <2>1 DEF Creators
      <3>2. call[t].wanted /\ \E g \in Handles : call[t].objects = {g}
        BY <1>2, <2>1, <3>1 DEF Working
      <3>3. QED
        BY <3>2 DEF IsLocal
    <2>2. QED
      BY <2>1
  <1>7. Dispatch \in ToCome(t) => Has(t, h) /\ ~IsLocal(t, h)
    BY <1>2, <1>5, <1>6 DEF Working, Has
  <1>8. call[t].role = "enqueue" => call[t].objects = {h}
    BY <1>2 DEF Working
  <1>9. QED
    BY <1>3, <1>4, <1>5, <1>6, <1>7, <1>8

\* The driver's count of an object that a thread has.
LEMMA CountOfUsed ==
    ASSUME StateTyped, MadeOnce, ClaimsAreOwned, RefsAreOwned, NEW h \in Handles,
           NEW t \in Threads, Has(t, h)
    PROVE refs[h] >= 1 /\ refs[h] >= appRefs[h] /\ refs[h] \in Nat /\ appRefs[h] \in Nat
  <1>1. refs[h] \in Nat /\ appRefs[h] \in Nat
    BY DEF StateTyped
  <1>2. refs[h] = appRefs[h] + (IF h \in timing THEN 1 ELSE 0) + (IF LocalTo(h) THEN 1 ELSE 0)
    BY DEF RefsAreOwned
  <1>3. LocalTo(h) \/ appRefs[h] >= 1
    BY ClaimIsOwned DEF LocalTo
  <1>4. QED
    BY <1>1, <1>2, <1>3

\* No other call uses an object that is about to be freed.
LEMMA DoomedAlone ==
    ASSUME MapsInv, NEW t \in Threads, NEW h, Doomed(t, h)
    PROVE /\ h \in Handles /\ Has(t, h) /\ appRefs[h] = 1 /\ h \notin timing
          /\ \A u \in Threads : Has(u, h) => u = t
  <1>0. /\ CallsAreFollowed /\ StateTyped /\ MadeOnce /\ ClaimsAreOwned /\ RefsAreOwned
    BY DEF MapsInv
  <1>1. refs[h] = 1 /\ h \in call[t].objects /\ Dispatch \in ToCome(t)
    BY DEF Doomed
  <1>2. h \in Handles /\ Has(t, h) /\ ~IsLocal(t, h)
    BY <1>0, <1>1, UsersHave
  <1>3. appRefs[h] >= 1 /\ ~LocalTo(h)
    BY <1>0, <1>2, ClaimIsOwned
  <1>4. appRefs[h] \in Nat
    BY <1>0, <1>2 DEF StateTyped
  <1>5. refs[h] = appRefs[h] + (IF h \in timing THEN 1 ELSE 0)
    BY <1>0, <1>2, <1>3, <1>4 DEF RefsAreOwned
  <1>6. appRefs[h] = 1 /\ h \notin timing
    BY <1>1, <1>3, <1>4, <1>5
  <1>7. ASSUME NEW u \in Threads, Has(u, h), u # t PROVE FALSE
    <2>1. appRefs[h] >= 2
      BY <1>0, <1>2, <1>7, TwoClaims
    <2>2. QED
      BY <1>6, <2>1
  <1>8. QED
    BY <1>2, <1>6, <1>7

LEMMA CheckTimingEventInv ==
    ASSUME MapsInv, NEW h \in Handles, CheckTimingEvent(h)
    PROVE MapsInv'
  <1>0. CallsAreFollowed /\ StateTyped /\ MadeOnce /\ ClaimsAreOwned /\ RefsAreOwned
    BY DEF MapsInv
  <1>1. /\ h \in timing /\ timing' = timing \ {h} /\ refs' = [refs EXCEPT ![h] = @ - 1]
        /\ call' = call /\ kind' = kind /\ appRefs' = appRefs
        /\ UNCHANGED <<counters, maps, history>>
    BY DEF CheckTimingEvent
  <1>2. /\ refs \in [Handles -> Nat] /\ appRefs \in [Handles -> Nat]
    BY <1>0 DEF StateTyped
  <1>3. \A g : LocalTo(g)' <=> LocalTo(g)
    BY <1>1 DEF LocalTo, IsLocal
  <1>4. refs[h] >= 1
    <2>1. refs[h] = appRefs[h] + 1 + (IF LocalTo(h) THEN 1 ELSE 0)
      BY <1>0, <1>1 DEF RefsAreOwned
    <2>2. QED
      BY <1>2, <2>1
  <1>5. refs' \in [Handles -> Nat]
    BY <1>1, <1>2, <1>4
  <1>6. StateTyped'
    BY <1>0, <1>1, <1>5 DEF StateTyped, counters, maps, history
  <1>7. CallsAreFollowed' /\ MadeOnce' /\ ClaimsAreOwned'
    <2>1. \A t \in Threads : Active(t) => Active(t)'
      <3>1. \A t \in Threads : Running(t) => Running(t)'
        BY <1>1 DEF Running
      <3>2. \A t \in Threads : Working(t) => Working(t)'
        BY <1>1 DEF Working, ToCome
      <3>3. QED
        BY <1>1, <3>1, <3>2 DEF Active
    <2>2. CallsAreFollowed'
      BY <1>0, <1>1, <2>1 DEF CallsAreFollowed
    <2>3. MadeOnce'
      BY <1>0, <1>1 DEF MadeOnce, Has, Makes, IsLocal
    <2>4. \A g : Claims(g)' = Claims(g)
      BY <1>1 DEF Claims
    <2>5. ClaimsAreOwned'
      BY <1>0, <1>1, <1>3, <2>4 DEF ClaimsAreOwned
    <2>6. QED
      BY <2>2, <2>3, <2>5
  <1>8. RefsAreOwned'
    <2>1. ASSUME NEW g \in Handles
          PROVE refs'[g] = appRefs[g] + (IF g \in timing' THEN 1 ELSE 0)
                                      + (IF LocalTo(g) THEN 1 ELSE 0)
      <3>1. /\ refs[g] = appRefs[g] + (IF g \in timing THEN 1 ELSE 0)
                                    + (IF LocalTo(g) THEN 1 ELSE 0)
            /\ refs[g] \in Nat /\ appRefs[g] \in Nat
        BY <1>0, <1>2 DEF RefsAreOwned
      <3>2. refs'[g] = IF g = h THEN refs[g] - 1 ELSE refs[g]
        BY <1>1, <1>2
      <3>3. QED
        BY <1>1, <3>1, <3>2
    <2>2. ASSUME NEW g \in Handles, NEW t \in Threads, Makes(t, g)', TimingEnd \in ToCome(t)'
          PROVE g \notin timing'
      <3>1. Makes(t, g) /\ TimingEnd \in ToCome(t)
        BY <1>1, <2>2 DEF Makes, ToCome
      <3>2. QED
        BY <1>0, <1>1, <3>1 DEF RefsAreOwned
    <2>3. QED
      BY <1>1, <1>3, <2>1, <2>2 DEF RefsAreOwned
  <1>9. EntriesAreKept'
    <2>1. ASSUME kind # "pointer", NEW g \in added \ refused
          PROVE Listed(g)' \/ refs'[g] = 0 \/ \E t \in Threads : Doomed(t, g)'
      <3>1. CASE g = h
        <4>1. refs[g] # 0
          BY <1>2, <1>4, <3>1
        <4>2. \A t \in Threads : ~Doomed(t, g)
          BY <1>1, <3>1, DoomedAlone
        <4>3. Listed(g)
          BY <2>1, <4>1, <4>2 DEF MapsInv, EntriesAreKept
        <4>4. QED
          BY <1>1, <4>3 DEF Listed, maps
      <3>2. CASE g # h
        <4>1. refs'[g] = refs[g]
          BY <1>1, <1>2, <3>2
        <4>2. Listed(g)' <=> Listed(g)
          BY <1>1 DEF Listed, maps
        <4>3. \A t \in Threads : Doomed(t, g) => Doomed(t, g)'
          BY <1>1, <4>1 DEF Doomed, ToCome
        <4>4. QED
          BY <2>1, <4>1, <4>2, <4>3 DEF MapsInv, EntriesAreKept
      <3>3. QED
        BY <3>1, <3>2
    <2>2. QED
      BY <1>1, <2>1 DEF EntriesAreKept, history
  <1>10. ObjectsAreAdded'
    BY <1>1 DEF MapsInv, ObjectsAreAdded, WillAdd, Makes, ToCome, history
  <1>11. QED
    BY <1>6, <1>7, <1>8, <1>9, <1>10 DEF MapsInv

\* The driver counts a reference more or less of the object of a retain or release.
Recounts(t, c, h, n) ==
    /\ At(t, "dispatch") /\ Shrinks(t, c)
    /\ call[t].role \in {"retain", "release"} /\ call[t].objects = {h} /\ h \in Handles
    /\ n \in {-1, 1} /\ (call[t].role = "release" => n = -1) /\ (n = -1 => c.spent)
    /\ refs' = [refs EXCEPT ![h] = @ + n] /\ appRefs' = [appRefs EXCEPT ![h] = @ + n]
    /\ kind' = kind /\ UNCHANGED <<counters, maps, timing, history>>

LEMMA RecountingRefs ==
    ASSUME MapsInv, NEW t \in Threads, NEW c, NEW h, NEW n, Recounts(t, c, h, n)
    PROVE /\ Has(t, h) /\ ~LocalTo(h) /\ StateTyped' /\ MadeOnce' /\ ClaimsAreOwned'
          /\ RefsAreOwned'
          /\ \A g \in Handles \ {h} : refs'[g] = refs[g] /\ appRefs'[g] = appRefs[g]
  <1>0. CallsAreFollowed /\ StateTyped /\ MadeOnce /\ ClaimsAreOwned /\ RefsAreOwned
    BY DEF MapsInv
  <1>1. /\ At(t, "dispatch") /\ Shrinks(t, c)
        /\ call[t].role \in {"retain", "release"} /\ call[t].objects = {h} /\ h \in Handles
        /\ n \in {-1, 1} /\ (call[t].role = "release" => n = -1) /\ (n = -1 => c.spent)
        /\ refs' = [refs EXCEPT ![h] = @ + n] /\ appRefs' = [appRefs EXCEPT ![h] = @ + n]
        /\ kind' = kind /\ UNCHANGED <<counters, maps, timing, history>>
    BY DEF Recounts
  <1>2. ~Idle(t) /\ NextStep(t) = Dispatch /\ Dispatch \in ToCome(t)
    BY <1>0, <1>1, AtStep
  <1>3. Has(t, h) /\ ~IsLocal(t, h)
    BY <1>0, <1>1, <1>2, UsersHave
  <1>4. appRefs[h] >= 1 /\ ~LocalTo(h)
    BY <1>0, <1>1, <1>3, ClaimIsOwned
  <1>5. /\ refs \in [Handles -> Nat] /\ appRefs \in [Handles -> Nat] /\ refs[h] >= 1
    BY <1>0, <1>1, <1>3, CountOfUsed DEF StateTyped
  <1>6. /\ refs' \in [Handles -> Nat] /\ appRefs' \in [Handles -> Nat]
        /\ refs'[h] = refs[h] + n /\ appRefs'[h] = appRefs[h] + n
        /\ \A g \in Handles \ {h} : refs'[g] = refs[g] /\ appRefs'[g] = appRefs[g]
    <2>1. refs[h] + n \in Nat /\ appRefs[h] + n \in Nat
      BY <1>1, <1>4, <1>5
    <2>2. QED
      BY <1>1, <1>5, <2>1
  <1>7. StateTyped'
    BY <1>0, <1>1, <1>6 DEF StateTyped, counters, maps, history
  <1>8. MadeOnce'
    BY <1>0, <1>1, ShrinkingMade
  <1>9. ~LocalTo(h)'
    BY <1>1, <1>4, ShrinkingUse DEF LocalTo
  <1>10. Cardinality(Claims(h)') <= appRefs'[h]
    <2>1. Cardinality(Claims(h)) <= appRefs[h] /\ IsFiniteSet(Claims(h))
          /\ Cardinality(Claims(h)) \in Nat
      BY <1>0, <1>1, <1>4, ClaimsAreFinite DEF ClaimsAreOwned
    <2>2. Claims(h)' \in SUBSET Claims(h)
      BY <1>1, ShrinkingUse
    <2>3. CASE n = 1
      <3>1. Cardinality(Claims(h)') <= Cardinality(Claims(h)) /\ Cardinality(Claims(h)') \in Nat
        BY <2>1, <2>2, FS_Subset, FS_CardinalityType
      <3>2. QED
        BY <1>5, <1>1, <1>6, <2>1, <2>3, <3>1
    <2>4. CASE n = -1
      <3>1. t \notin Claims(h)'
        <4>1. call'[t].spent \/ call'[t].objects = {}
          BY <1>1, <2>4, NoCallIsIdle DEF Shrinks, Changes
        <4>2. QED
          BY <4>1 DEF Claims
      <3>2. Claims(h)' \in SUBSET (Claims(h) \ {t})
        BY <2>2, <3>1
      <3>3. /\ IsFiniteSet(Claims(h) \ {t})
            /\ Cardinality(Claims(h) \ {t}) = Cardinality(Claims(h)) - 1
        BY <1>3, <2>1, HasIsClaim, FS_RemoveElement
      <3>4. /\ Cardinality(Claims(h)') <= Cardinality(Claims(h) \ {t})
            /\ Cardinality(Claims(h)') \in Nat
        BY <3>2, <3>3, FS_Subset, FS_CardinalityType
      <3>5. QED
        BY <1>1, <1>5, <1>6, <2>1, <2>4, <3>3, <3>4
    <2>5. QED
      BY <1>1, <2>3, <2>4
  <1>11. ClaimsAreOwned'
    <2>1. \A g \in Handles \ {h} :
             IF LocalTo(g)' THEN appRefs'[g] = 0 ELSE Cardinality(Claims(g))' <= appRefs'[g]
      BY <1>0, <1>1, <1>6, ShrinkingClaims
    <2>2. QED
      BY <1>9, <1>10, <2>1 DEF ClaimsAreOwned
  <1>12. RefsAreOwned'
    <2>1. ASSUME NEW g \in Handles
          PROVE refs'[g] = appRefs'[g] + (IF g \in timing THEN 1 ELSE 0)
                                       + (IF LocalTo(g)' THEN 1 ELSE 0)
      <3>1. /\ refs[g] = appRefs[g] + (IF g \in timing THEN 1 ELSE 0)
                                    + (IF LocalTo(g) THEN 1 ELSE 0)
            /\ refs[g] \in Nat /\ appRefs[g] \in Nat
        BY <1>0, <1>5 DEF RefsAreOwned
      <3>2. CASE g = h
        BY <1>1, <1>4, <1>6, <1>9, <3>1, <3>2
      <3>3. CASE g # h
        <4>1. ASSUME NEW u \in Threads, IsLocal(u, g) PROVE IsLocal(u, g)'
          <5>1. u # t
            BY <1>1, <3>3, <4>1 DEF IsLocal
          <5>2. call'[u] = call[u]
            BY <1>1, <5>1 DEF Shrinks, Changes
          <5>3. QED
            BY <4>1, <5>2 DEF IsLocal
        <4>2. LocalTo(g)' <=> LocalTo(g)
          BY <1>1, <4>1, ShrinkingUse DEF LocalTo
        <4>3. QED
          BY <1>6, <3>1, <3>3, <4>2
      <3>4. QED
        BY <3>2, <3>3
    <2>2. ASSUME NEW g \in Handles, NEW u \in Threads, Makes(u, g)', TimingEnd \in ToCome(u)'
          PROVE g \notin timing
      <3>1. Makes(u, g) /\ TimingEnd \in ToCome(u)
        BY <1>1, <2>2, ShrinkingUse
      <3>2. QED
        BY <1>0, <3>1 DEF RefsAreOwned
    <2>3. QED
      BY <1>1, <2>1, <2>2 DEF RefsAreOwned
  <1>13. QED
    BY <1>3, <1>4, <1>6, <1>7, <1>8, <1>11, <1>12

LEMMA RecountingMaps ==
    ASSUME MapsInv, NEW t \in Threads, NEW c, NEW h, NEW n, Recounts(t, c, h, n)
    PROVE EntriesAreKept' /\ ObjectsAreAdded'
  <1>0. CallsAreFollowed /\ StateTyped /\ MadeOnce /\ ClaimsAreOwned /\ RefsAreOwned
    BY DEF MapsInv
  <1>1. /\ At(t, "dispatch") /\ Shrinks(t, c)
        /\ call[t].role \in {"retain", "release"} /\ call[t].objects = {h} /\ h \in Handles
        /\ n \in {-1, 1} /\ (call[t].role = "release" => n = -1) /\ (n = -1 => c.spent)
        /\ refs' = [refs EXCEPT ![h] = @ + n] /\ appRefs' = [appRefs EXCEPT ![h] = @ + n]
        /\ kind' = kind /\ UNCHANGED <<counters, maps, timing, history>>
    BY DEF Recounts
  <1>2. /\ Has(t, h) /\ ~LocalTo(h)
        /\ \A g \in Handles \ {h} : refs'[g] = refs[g] /\ appRefs'[g] = appRefs[g]
    BY RecountingRefs
  <1>3. refs[h] >= 1 /\ refs \in [Handles -> Nat] /\ appRefs \in [Handles -> Nat]
    BY <1>0, <1>1, <1>2, CountOfUsed DEF StateTyped
  <1>4. \A u \in Threads : u # t => call'[u] = call[u]
    BY <1>1 DEF Shrinks, Changes
  <1>5. EntriesAreKept'
    <2>1. ASSUME kind # "pointer", NEW g \in added \ refused
          PROVE Listed(g)' \/ refs'[g] = 0 \/ \E u \in Threads : Doomed(u, g)'
      <3>1. Listed(g) => Listed(g)'
        BY <1>1 DEF Listed, maps
      <3>2. g \in Handles
        BY <1>0, <2>1 DEF StateTyped
      <3>3. CASE g = h
        <4>1. refs[g] # 0
          BY <1>1, <1>3, <3>3
        <4>2. ASSUME NEW u \in Threads, Doomed(u, g) PROVE refs'[g] = 0
          <5>1. u = t
            BY <1>2, <3>3, <4>2, DoomedAlone
          <5>2. call[t].role = "release" /\ refs[g] = 1
            BY <4>2, <5>1 DEF Doomed
          <5>3. n = -1 \/ n = 1
            BY <1>1
          <5>4. QED
            BY <1>1, <1>3, <3>3, <5>2
        <4>3. QED
          BY <2>1, <3>1, <4>1, <4>2 DEF MapsInv, EntriesAreKept
      <3>4. CASE g # h
        <4>1. refs'[g] = refs[g]
          BY <1>2, <3>2, <3>4
        <4>2. ASSUME NEW u \in Threads, Doomed(u, g) PROVE Doomed(u, g)'
          <5>1. u # t
            BY <1>1, <3>4, <4>2 DEF Doomed
          <5>2. QED
            BY <1>1, <1>4, <4>1, <4>2, <5>1 DEF Doomed, ToCome
        <4>3. QED
          BY <2>1, <3>1, <4>1, <4>2 DEF MapsInv, EntriesAreKept
      <3>5. QED
        BY <3>3, <3>4
    <2>2. QED
      BY <1>1, <2>1 DEF EntriesAreKept, history
  <1>6. ObjectsAreAdded'
    <2>1. ASSUME kind \in RoutedKinds, NEW g \in Handles, appRefs'[g] > 0, g \notin added
          PROVE appRefs'[g] = 1 /\ WillAdd(g)'
      <3>1. g # h
        <4>1. SUFFICES ASSUME g = h PROVE FALSE
          OBVIOUS
        <4>2. appRefs[h] >= 1
          BY <1>0, <1>1, <1>2, ClaimIsOwned DEF LocalTo
        <4>3. appRefs[h] = 1 /\ WillAdd(h)
          BY <1>1, <1>3, <2>1, <4>1, <4>2 DEF MapsInv, ObjectsAreAdded
        <4>4. PICK u \in Threads : Makes(u, h)
          BY <4>3 DEF WillAdd
        <4>5. u # t
          BY <1>1, <4>4 DEF Makes, Creators
        <4>6. Has(u, h)
          BY <1>0, <4>4, UsersHave DEF Makes
        <4>7. appRefs[h] >= 2
          BY <1>0, <1>1, <1>2, <4>5, <4>6, TwoClaims
        <4>8. QED
          BY <4>3, <4>7
      <3>2. appRefs'[g] = appRefs[g]
        BY <1>2, <3>1
      <3>3. appRefs[g] = 1 /\ WillAdd(g)
        BY <2>1, <3>2 DEF MapsInv, ObjectsAreAdded
      <3>4. PICK u \in Threads : Makes(u, g) /\ Add(kind) \in ToCome(u)
        BY <3>3 DEF WillAdd
      <3>5. u # t
        BY <1>1, <3>4 DEF Makes, Creators
      <3>6. Makes(u, g)' /\ Add(kind) \in ToCome(u)'
        BY <1>4, <3>4, <3>5 DEF Makes, ToCome
      <3>7. QED
        BY <1>1, <3>2, <3>3, <3>6 DEF WillAdd
    <2>2. QED
      BY <1>1, <2>1 DEF ObjectsAreAdded, history
  <1>7. QED
    BY <1>5, <1>6

LEMMA DispatchRetainInv ==
    ASSUME MapsInv, NEW t \in Threads, At(t, "dispatch"), DispatchRetain(t),
           UNCHANGED <<kind, counters, maps>>
    PROVE MapsInv'
  <1>0. CallsAreFollowed /\ StateTyped
    BY DEF MapsInv
  <1>1. PICK h \in call[t].objects : /\ refs' = [refs EXCEPT ![h] = @ + 1]
                                     /\ appRefs' = [appRefs EXCEPT ![h] = @ + 1]
    BY DEF DispatchRetain
  <1>2. /\ call[t].role = "retain" /\ After(t, call[t]) /\ kind' = kind
        /\ UNCHANGED <<counters, maps, timing, history>>
    BY DEF DispatchRetain
  <1>3. ~Idle(t) /\ NextStep(t) = Dispatch /\ NextStep(t) \in ToCome(t)
    BY <1>0, AtStep
  <1>4. Running(t) /\ Working(t) /\ call[t] \in Locals
    BY <1>0, <1>3, NotIdle
  <1>5. h \in Handles /\ call[t].objects = {h}
    BY <1>0, <1>2, UsersHave DEF Creators
  <1>6. /\ Changes(t, call[t]) /\ ToCome(t)' = ToCome(t) \ {NextStep(t)}
        /\ call' \in [Threads -> Locals] /\ (call'[t] = NoCall \/ Running(t)')
    BY <1>0, <1>2, <1>3, <1>4, AfterChanges
  <1>7. Recounts(t, call[t], h, 1)
    BY <1>1, <1>2, <1>5, <1>6 DEF Recounts, Shrinks
  <1>8. ASSUME call'[t] # NoCall PROVE Working(t)'
    <2>1. /\ call'[t].role = call[t].role /\ call'[t].objects = call[t].objects
          /\ call'[t].wanted = call[t].wanted /\ call'[t].timed = call[t].timed
          /\ call'[t].failed = call[t].failed /\ call'[t].spent = call[t].spent
      BY <1>6, <1>8 DEF Changes
    <2>2. Dispatch \notin ToCome(t)'
      BY <1>3, <1>6
    <2>3. "retain" \notin Creators
      BY DEF Creators
    <2>4. QED
      BY <1>2, <1>4, <2>1, <2>2, <2>3 DEF Working
  <1>9. CallsAreFollowed'
    BY <1>0, <1>2, <1>6, <1>8, FollowedAgain
  <1>10. QED
    BY <1>7, <1>9, RecountingRefs, RecountingMaps DEF MapsInv

LEMMA DispatchReleaseInv ==
    ASSUME MapsInv, NEW t \in Threads, At(t, "dispatch"), DispatchRelease(t),
           UNCHANGED <<kind, counters, maps>>
    PROVE MapsInv'
  <1> DEFINE c == [call[t] EXCEPT !.spent = TRUE]
  <1>0. CallsAreFollowed /\ StateTyped
    BY DEF MapsInv
  <1>1. PICK h \in call[t].objects : /\ refs' = [refs EXCEPT ![h] = @ - 1]
                                     /\ appRefs' = [appRefs EXCEPT ![h] = @ - 1]
    BY DEF DispatchRelease
  <1>2. /\ call[t].role = "release" /\ After(t, c) /\ kind' = kind
        /\ UNCHANGED <<counters, maps, timing, history>>
    BY DEF DispatchRelease
  <1>3. ~Idle(t) /\ NextStep(t) = Dispatch /\ NextStep(t) \in ToCome(t)
    BY <1>0, AtStep
  <1>4. Running(t) /\ Working(t) /\ call[t] \in Locals
    BY <1>0, <1>3, NotIdle
  <1>5. h \in Handles /\ call[t].objects = {h}
    BY <1>0, <1>2, UsersHave DEF Creators
  <1>a. /\ c \in Locals /\ c.role = call[t].role /\ c.todo = call[t].todo
        /\ c.objects = call[t].objects /\ c.wanted = call[t].wanted
        /\ c.timed = call[t].timed /\ c.failed = call[t].failed
    BY <1>4 DEF Locals
  <1>b. c.spent
    BY <1>4 DEF Locals
  <1> HIDE DEF c
  <1>6. /\ Changes(t, c) /\ ToCome(t)' = ToCome(t) \ {NextStep(t)}
        /\ call' \in [Threads -> Locals] /\ (call'[t] = NoCall \/ Running(t)')
    BY <1>0, <1>2, <1>3, <1>a, AfterChanges
  <1>7. Recounts(t, c, h, -1)
    <2>1. refs \in [Handles -> Nat] /\ appRefs \in [Handles -> Nat]
      BY <1>0 DEF StateTyped
    <2>2. refs[h] - 1 = refs[h] + (-1) /\ appRefs[h] - 1 = appRefs[h] + (-1)
      BY <1>5, <2>1
    <2>3. /\ refs' = [refs EXCEPT ![h] = @ + (-1)]
          /\ appRefs' = [appRefs EXCEPT ![h] = @ + (-1)]
      BY <1>1, <2>2
    <2>4. QED
      BY <1>2, <1>5, <1>6, <1>a, <1>b, <2>3 DEF Recounts, Shrinks
  <1>8. ASSUME call'[t] # NoCall PROVE Working(t)'
    <2>1. /\ call'[t].role = call[t].role /\ call'[t].objects = call[t].objects
          /\ call'[t].wanted = call[t].wanted /\ call'[t].timed = call[t].timed
          /\ call'[t].failed = call[t].failed /\ call'[t].spent = c.spent
      BY <1>6, <1>8, <1>a DEF Changes
    <2>2. Dispatch \notin ToCome(t)' /\ call'[t].spent /\ ~call'[t].failed
      BY <1>3, <1>4, <1>6, <1>b, <2>1 DEF Working
    <2>3. "release" \notin Creators
      BY DEF Creators
    <2>4. QED
      BY <1>2, <1>4, <2>1, <2>2, <2>3 DEF Working
  <1>9. CallsAreFollowed'
    BY <1>0, <1>2, <1>6, <1>8, FollowedAgain
  <1>10. QED
    BY <1>7, <1>9, RecountingRefs, RecountingMaps DEF MapsInv

\* The end of timing, when there is no event to look after.
LEMMA EndNoTimingInv ==
    ASSUME MapsInv, NEW t \in Threads, At(t, "timingEnd"), ~(call[t].timed /\ ~call[t].failed),
           After(t, call[t]), UNCHANGED driver, UNCHANGED <<kind, counters, maps, appRefs, history>>
    PROVE MapsInv'
  <1>0. CallsAreFollowed /\ StateTyped
    BY DEF MapsInv
  <1>1. /\ ~Idle(t) /\ NextStep(t) = TimingEnd /\ NextStep(t) \in ToCome(t)
        /\ call[t].role = "enqueue" /\ LocalStep
    BY <1>0, AtStep DEF LocalStep
  <1>2. NextStep(t) \notin {Dispatch, Add(kind)}
    BY <1>1, StepsDiffer
  <1>3. /\ StateTyped' /\ kind' = kind /\ added' = added /\ refused' = refused /\ refs' = refs
        /\ UNCHANGED <<driver, appRefs>>
        /\ \A h : Listed(h)' <=> Listed(h)
    BY <1>0, <1>1, LocalStepFacts
  <1>4. Running(t) /\ Working(t) /\ Orderly(t) /\ call[t] \in Locals
    BY <1>0, <1>1, NotIdle
  <1>5. \A h : ~IsLocal(t, h)
    BY <1>1, <1>4 DEF Working, IsLocal, Creators
  <1>6. /\ Changes(t, call[t]) /\ ToCome(t)' = ToCome(t) \ {NextStep(t)}
        /\ call' \in [Threads -> Locals] /\ (call'[t] = NoCall \/ Running(t)')
        /\ call'[t] = NoCall => ToCome(t)' = {}
    BY <1>0, <1>1, <1>3, <1>4, AfterChanges
  <1>7. Shrinks(t, call[t])
    BY <1>6 DEF Shrinks
  <1>8. ASSUME NEW u \in Threads, NEW h \in Handles PROVE Spares(t, u, h)
    <2>1. CASE u # t
      <3>1. call'[u] = call[u]
        BY <1>6, <2>1 DEF Changes
      <3>2. QED
        BY <1>3, <2>1, <3>1 DEF Spares, IsLocal, Doomed, Makes, ToCome
    <2>2. CASE u = t
      <3>1. ~IsLocal(t, h)'
        BY <1>5, <1>7, ShrinkingUse
      <3>2. ~Doomed(t, h)
        BY <1>1 DEF Doomed
      <3>3. ASSUME NEW x, Makes(t, h), x \in ToCome(t), x # NextStep(t)
            PROVE Makes(t, h)' /\ x \in ToCome(t)'
        <4>1. x \in ToCome(t)' /\ call'[t] # NoCall
          BY <1>6, <3>3
        <4>2. call'[t].role = call[t].role /\ call'[t].objects = call[t].objects
          BY <1>6, <4>1 DEF Changes
        <4>3. QED
          BY <3>3, <4>1, <4>2 DEF Makes
      <3>4. QED
        BY <1>5, <2>2, <3>1, <3>2, <3>3 DEF Spares
    <2>3. QED
      BY <2>1, <2>2
  <1>9. Harmless(t, call[t])
    BY <1>3, <1>7, <1>8 DEF Harmless
  <1>10. EntriesAreKept'
    BY <1>0, <1>2, <1>3, <1>9, PassingEntries
  <1>11. MadeOnce' /\ ClaimsAreOwned' /\ RefsAreOwned' /\ ObjectsAreAdded'
    BY <1>0, <1>2, <1>3, <1>9, PassingRefs, PassingAdded DEF MapsInv
  <1>12. ASSUME call'[t] # NoCall PROVE Working(t)'
    <2>1. /\ call'[t].role = call[t].role /\ call'[t].objects = call[t].objects
          /\ call'[t].wanted = call[t].wanted /\ call'[t].timed = call[t].timed
          /\ call'[t].failed = call[t].failed /\ call'[t].spent = call[t].spent
      BY <1>6, <1>12 DEF Changes
    <2>2. Dispatch \notin ToCome(t) /\ TimingEnd \notin ToCome(t)'
      BY <1>1, <1>4, <1>6 DEF Orderly
    <2>3. call[t].objects # {} => call[t].wanted
      BY <1>5 DEF IsLocal
    <2>4. QED
      BY <1>1, <1>4, <1>6, <2>1, <2>2, <2>3 DEF Working, Creators
  <1>13. CallsAreFollowed'
    BY <1>0, <1>3, <1>6, <1>12, FollowedAgain
  <1>14. QED
    BY <1>3, <1>10, <1>11, <1>13 DEF MapsInv

\* The event of a timed command: the timing list retains it, and the handler
\* releases it when the application did not ask for it.
LEMMA EndTimingOfEventInv ==
    ASSUME MapsInv, NEW t \in Threads, At(t, "timingEnd"), call[t].timed, ~call[t].failed,
           NEW listed \in BOOLEAN, NEW h \in call[t].objects,
           refs' = [refs EXCEPT ![h] = @ + (IF listed THEN 1 ELSE 0)
                                         - (IF call[t].timed /\ ~call[t].wanted THEN 1 ELSE 0)],
           timing' = IF listed THEN timing \cup {h} ELSE timing,
           After(t, [call[t] EXCEPT !.objects =
                        IF call[t].timed /\ ~call[t].wanted THEN {} ELSE @]),
           UNCHANGED <<kind, counters, maps, appRefs, history>>
    PROVE MapsInv'
  <1> DEFINE local == ~call[t].wanted
             c == [call[t] EXCEPT !.objects = IF call[t].timed /\ ~call[t].wanted THEN {} ELSE @]
  <1>0. CallsAreFollowed /\ StateTyped /\ MadeOnce /\ ClaimsAreOwned /\ RefsAreOwned
    BY DEF MapsInv
  <1>1. /\ ~Idle(t) /\ NextStep(t) = TimingEnd /\ NextStep(t) \in ToCome(t)
        /\ call[t].role = "enqueue"
    BY <1>0, AtStep
  <1>2. Running(t) /\ Working(t) /\ Orderly(t) /\ call[t] \in Locals
    BY <1>0, <1>1, NotIdle
  <1>3. /\ h \in Handles /\ call[t].objects = {h} /\ Makes(t, h) /\ Has(t, h)
        /\ kind = "event" /\ Dispatch \notin ToCome(t)
    BY <1>0, <1>1, <1>2, UsersHave DEF Orderly, Creators
  <1>4. /\ c \in Locals /\ c.role = call[t].role /\ c.todo = call[t].todo
        /\ c.objects = (IF local THEN {} ELSE {h}) /\ c.wanted = call[t].wanted
        /\ c.timed = call[t].timed /\ c.failed = call[t].failed /\ c.spent = call[t].spent
    BY <1>2, <1>3 DEF Locals
  <1>a. After(t, c)
    OBVIOUS
  <1> HIDE DEF c
  <1>5. /\ Changes(t, c) /\ ToCome(t)' = ToCome(t) \ {NextStep(t)}
        /\ call' \in [Threads -> Locals] /\ (call'[t] = NoCall \/ Running(t)')
        /\ call'[t] = NoCall => ToCome(t)' = {}
    BY <1>0, <1>1, <1>4, <1>a, AfterChanges
  <1>6. Shrinks(t, c)
    BY <1>3, <1>4, <1>5 DEF Shrinks
  <1>7. /\ refs \in [Handles -> Nat] /\ appRefs \in [Handles -> Nat]
        /\ appRefs' = appRefs /\ kind' = kind
    BY <1>0 DEF StateTyped
  <1>8. h \notin timing
    BY <1>0, <1>1, <1>3 DEF RefsAreOwned
  <1>9. LocalTo(h) <=> local
    BY <1>0, <1>3 DEF LocalTo, IsLocal, MadeOnce
  <1>10. refs[h] = appRefs[h] + (IF local THEN 1 ELSE 0) /\ refs[h] >= 1
    BY <1>0, <1>3, <1>8, <1>9, CountOfUsed DEF RefsAreOwned
  <1>11. /\ refs' \in [Handles -> Nat]
         /\ refs'[h] = appRefs[h] + (IF listed THEN 1 ELSE 0)
         /\ \A g \in Handles \ {h} : refs'[g] = refs[g]
    <2>1. refs[h] + (IF listed THEN 1 ELSE 0) - (IF local THEN 1 ELSE 0)
              = appRefs[h] + (IF listed THEN 1 ELSE 0)
      BY <1>3, <1>7, <1>10
    <2>2. refs' = [refs EXCEPT ![h] = appRefs[h] + (IF listed THEN 1 ELSE 0)]
      BY <2>1
    <2>3. appRefs[h] + (IF listed THEN 1 ELSE 0) \in Nat
      BY <1>3, <1>7
    <2>4. QED
      BY <1>3, <1>7, <2>2, <2>3
  <1>12. StateTyped'
    <2>1. timing' \in SUBSET Handles
      BY <1>0, <1>3 DEF StateTyped
    <2>2. QED
      BY <1>0, <1>7, <1>11, <2>1 DEF StateTyped, counters, maps, history
  <1>13. MadeOnce'
    BY <1>0, <1>6, ShrinkingMade
  <1>14. ClaimsAreOwned'
    BY <1>0, <1>6, <1>7, ShrinkingClaims DEF ClaimsAreOwned
  <1>15. ~LocalTo(h)'
    <2>1. ASSUME NEW u \in Threads, IsLocal(u, h)' PROVE FALSE
      <3>1. IsLocal(u, h)
        BY <1>6, <2>1, ShrinkingUse
      <3>2. u = t
        BY <1>0, <1>3, <3>1 DEF MadeOnce
      <3>3. call'[t].objects = {} \/ call'[t].wanted
        BY <1>4, <1>5, NoCallIsIdle DEF Changes
      <3>4. QED
        BY <2>1, <3>2, <3>3 DEF IsLocal
    <2>2. QED
      BY <2>1 DEF LocalTo
  <1>16. ASSUME NEW g \in Handles, g # h PROVE LocalTo(g)' <=> LocalTo(g)
    <2>1. ASSUME NEW u \in Threads, IsLocal(u, g) PROVE IsLocal(u, g)'
      <3>1. u # t
        BY <1>3, <1>16, <2>1 DEF IsLocal
      <3>2. call'[u] = call[u]
        BY <1>5, <3>1 DEF Changes
      <3>3. QED
        BY <2>1, <3>2 DEF IsLocal
    <2>2. QED
      BY <1>6, <2>1, ShrinkingUse DEF LocalTo
  <1>17. RefsAreOwned'
    <2>1. ASSUME NEW g \in Handles
          PROVE refs'[g] = appRefs[g] + (IF g \in timing' THEN 1 ELSE 0)
                                      + (IF LocalTo(g)' THEN 1 ELSE 0)
      <3>1. CASE g = h
        BY <1>3, <1>7, <1>8, <1>11, <1>15, <3>1
      <3>2. CASE g # h
        <4>1. refs[g] = appRefs[g] + (IF g \in timing THEN 1 ELSE 0)
                                   + (IF LocalTo(g) THEN 1 ELSE 0)
          BY <1>0 DEF RefsAreOwned
        <4>2. refs'[g] = refs[g] /\ (g \in timing' <=> g \in timing)
          BY <1>11, <3>2
        <4>3. QED
          BY <1>16, <3>2, <4>1, <4>2
      <3>3. QED
        BY <3>1, <3>2
    <2>2. ASSUME NEW g \in Handles, NEW u \in Threads, Makes(u, g)', TimingEnd \in ToCome(u)'
          PROVE g \notin timing'
      <3>1. Makes(u, g) /\ TimingEnd \in ToCome(u)
        BY <1>6, <2>2, ShrinkingUse
      <3>2. u # t
        BY <1>1, <1>5, <2>2
      <3>3. g \notin timing
        BY <1>0, <3>1 DEF RefsAreOwned
      <3>4. g # h
        BY <1>0, <1>3, <3>1, <3>2 DEF MadeOnce
      <3>5. QED
        BY <3>3, <3>4
    <2>3. QED
      BY <1>7, <2>1, <2>2 DEF RefsAreOwned
  <1>18. EntriesAreKept'
    <2>1. ASSUME NEW g \in added \ refused
          PROVE Listed(g)' \/ refs'[g] = 0 \/ \E u \in Threads : Doomed(u, g)'
      <3>1. Listed(g) => Listed(g)'
        BY DEF Listed, maps
      <3>2. g \in Handles
        BY <1>0, <2>1 DEF StateTyped
      <3>3. CASE g = h
        <4>1. refs[g] # 0
          BY <1>7, <1>10, <3>2, <3>3
        <4>2. \A u \in Threads : ~Doomed(u, h)
          BY <1>1, <1>3, DoomedAlone DEF Doomed
        <4>3. QED
          BY <1>3, <2>1, <3>1, <3>3, <4>1, <4>2 DEF MapsInv, EntriesAreKept
      <3>4. CASE g # h
        <4>1. refs'[g] = refs[g]
          BY <1>11, <3>2, <3>4
        <4>2. ASSUME NEW u \in Threads, Doomed(u, g) PROVE Doomed(u, g)'
          <5>1. u # t
            BY <1>1, <4>2 DEF Doomed
          <5>2. call'[u] = call[u]
            BY <1>5, <5>1 DEF Changes
          <5>3. QED
            BY <1>7, <4>1, <4>2, <5>2 DEF Doomed, ToCome
        <4>3. QED
          BY <1>3, <2>1, <3>1, <4>1, <4>2 DEF MapsInv, EntriesAreKept
      <3>5. QED
        BY <3>3, <3>4
    <2>2. QED
      BY <2>1 DEF EntriesAreKept, history
  <1>19. ObjectsAreAdded'
    BY <1>3, <1>7 DEF ObjectsAreAdded, RoutedKinds
  <1>20. ASSUME call'[t] # NoCall PROVE Working(t)'
    <2>1. /\ call'[t].role = call[t].role /\ call'[t].objects = c.objects
          /\ call'[t].wanted = call[t].wanted /\ call'[t].timed = call[t].timed
          /\ call'[t].failed = call[t].failed /\ call'[t].spent = call[t].spent
      BY <1>4, <1>5, <1>20 DEF Changes
    <2>2. Dispatch \notin ToCome(t)' /\ TimingEnd \notin ToCome(t)'
      BY <1>1, <1>3, <1>5
    <2>3. c.objects # {} => call[t].wanted
      BY <1>4
    <2>4. \A f, g \in c.objects : f = g
      BY <1>4
    <2>5. QED
      BY <1>1, <1>2, <2>1, <2>2, <2>3, <2>4 DEF Working, Creators
  <1>21. CallsAreFollowed'
    BY <1>0, <1>5, <1>7, <1>20, FollowedAgain
  <1>22. QED
    BY <1>12, <1>13, <1>14, <1>17, <1>18, <1>19, <1>21 DEF MapsInv

LEMMA EndTimingInv ==
    ASSUME MapsInv, NEW t \in Threads, EndTiming(t)
    PROVE MapsInv'
  <1>1. CASE call[t].timed /\ ~call[t].failed
    BY <1>1, EndTimingOfEventInv DEF EndTiming
  <1>2. CASE ~(call[t].timed /\ ~call[t].failed)
    BY <1>2, EndNoTimingInv DEF EndTiming
  <1>3. QED
    BY <1>1, <1>2

\* New objects.
LEMMA CreatesInv ==
    ASSUME MapsInv, NEW t \in Threads, At(t, "dispatch"), call[t].role \in Creators,
           NEW objects \in SUBSET {h \in Handles : Free(h)}, NEW given \in BOOLEAN,
           objects # {} => (given <=> call[t].wanted) /\ (given \/ call[t].timed),
           call[t].timed => objects # {},
           call[t].role = "enqueue" => \A g, h \in objects : g = h,
           Creates(t, objects, given), UNCHANGED <<kind, counters, maps>>
    PROVE MapsInv'
  <1> DEFINE c == [call[t] EXCEPT !.objects = objects]
  <1>0. CallsAreFollowed /\ StateTyped /\ MadeOnce /\ ClaimsAreOwned /\ RefsAreOwned
    BY DEF MapsInv
  <1>1. /\ ~Idle(t) /\ NextStep(t) = Dispatch /\ NextStep(t) \in ToCome(t)
    BY <1>0, AtStep
  <1>2. Running(t) /\ Working(t) /\ Orderly(t) /\ call[t] \in Locals
    BY <1>0, <1>1, NotIdle
  <1>3. /\ refs' = [h \in Handles |-> IF h \in objects THEN 1 ELSE refs[h]]
        /\ appRefs' = [h \in Handles |-> IF h \in objects /\ given THEN 1 ELSE appRefs[h]]
        /\ added' = added \ objects /\ refused' = refused \ objects
        /\ UNCHANGED <<timing, refusals>>
    BY DEF Creates
  <1>4. /\ c \in Locals /\ c.role = call[t].role /\ c.todo = call[t].todo
        /\ c.objects = objects /\ c.wanted = call[t].wanted
        /\ c.timed = call[t].timed /\ c.failed = call[t].failed /\ c.spent = call[t].spent
    BY <1>2 DEF Locals
  <1>a. After(t, c)
    BY DEF Creates
  <1> HIDE DEF c
  <1>5. /\ Changes(t, c) /\ ToCome(t)' = ToCome(t) \ {NextStep(t)}
        /\ call' \in [Threads -> Locals] /\ (call'[t] = NoCall \/ Running(t)')
        /\ call'[t] = NoCall => ToCome(t)' = {}
    BY <1>0, <1>1, <1>4, <1>a, AfterChanges
  <1>6. /\ call[t].objects = {} /\ ~call[t].failed /\ ~call[t].spent
        /\ call[t].role # "enqueue" => call[t].wanted /\ ~call[t].timed
        /\ call[t].timed => TimingEnd \in ToCome(t)
    BY <1>1, <1>2 DEF Working, Creators
  <1>7. \A u \in Threads : u # t => call'[u] = call[u]
    BY <1>5 DEF Changes
  <1>8. /\ refs \in [Handles -> Nat] /\ appRefs \in [Handles -> Nat]
        /\ refs' \in [Handles -> Nat] /\ appRefs' \in [Handles -> Nat]
    BY <1>0, <1>3 DEF StateTyped
  <1>9. StateTyped'
    BY <1>0, <1>3, <1>8 DEF StateTyped, counters, maps
  \* Nobody has a free handle.
  <1>10. ASSUME NEW h \in objects
         PROVE /\ h \in Handles /\ appRefs[h] = 0 /\ h \notin timing /\ ~LocalTo(h)
               /\ \A u \in Threads : ~Has(u, h) /\ ~Makes(u, h)
    <2>1. h \in Handles /\ refs[h] = 0
      BY DEF Free
    <2>2. ASSUME NEW u \in Threads, Has(u, h) PROVE FALSE
      BY <1>0, <2>1, <2>2, CountOfUsed
    <2>3. refs[h] = appRefs[h] + (IF h \in timing THEN 1 ELSE 0) + (IF LocalTo(h) THEN 1 ELSE 0)
      BY <1>0, <2>1 DEF RefsAreOwned
    <2>4. appRefs[h] = 0 /\ h \notin timing /\ ~LocalTo(h)
      BY <1>8, <2>1, <2>3
    <2>5. ASSUME NEW u \in Threads, Makes(u, h) PROVE FALSE
      BY <1>0, <2>2, <2>5, UsersHave DEF Makes
    <2>6. QED
      BY <2>1, <2>2, <2>4, <2>5
  \* What t has afterwards are the new objects.
  <1>11. ASSUME NEW h
         PROVE /\ ~Has(t, h) /\ ~Makes(t, h) /\ ~IsLocal(t, h)
               /\ (Has(t, h)' \/ Makes(t, h)' \/ IsLocal(t, h)') => h \in objects
               /\ IsLocal(t, h)' => ~call[t].wanted
    <2>1. ~Has(t, h) /\ ~Makes(t, h) /\ ~IsLocal(t, h)
      BY <1>6 DEF Has, Makes, IsLocal
    <2>2. call'[t].objects = {} \/ (call'[t].objects = objects /\ call'[t].wanted = call[t].wanted)
      BY <1>4, <1>5, NoCallIsIdle DEF Changes
    <2>3. QED
      BY <2>1, <2>2 DEF Has, Makes, IsLocal
  <1>12. ASSUME NEW u \in Threads, u # t, NEW h
         PROVE /\ Has(u, h)' <=> Has(u, h)
               /\ Makes(u, h)' <=> Makes(u, h)
               /\ IsLocal(u, h)' <=> IsLocal(u, h)
               /\ ToCome(u)' = ToCome(u)
    BY <1>7, <1>12 DEF Has, Makes, IsLocal, ToCome
  <1>13. ASSUME NEW h \in objects, ~call[t].wanted PROVE IsLocal(t, h)'
    <2>1. TimingEnd \in ToCome(t)
      BY <1>6, <1>13
    <2>2. TimingEnd \in ToCome(t)'
      BY <1>1, <1>5, <2>1, StepsDiffer
    <2>3. call'[t] # NoCall
      BY <1>5, <2>2
    <2>4. call'[t].objects = objects /\ call'[t].wanted = call[t].wanted
      BY <1>4, <1>5, <2>3 DEF Changes
    <2>5. QED
      BY <1>13, <2>4 DEF IsLocal
  <1>14. MadeOnce'
    <2>1. ASSUME NEW h \in Handles, NEW u \in Threads, NEW v \in Threads, Makes(u, h)', Makes(v, h)'
          PROVE u = v
      BY <1>0, <1>10, <1>11, <1>12, <2>1 DEF MadeOnce
    <2>2. ASSUME NEW h \in Handles, NEW u \in Threads, NEW v \in Threads, IsLocal(u, h)', Has(v, h)'
          PROVE u = v
      <3>1. CASE u = t /\ v # t
        BY <1>10, <1>11, <1>12, <2>2, <3>1
      <3>2. CASE u # t /\ v = t
        <4>1. h \in objects /\ IsLocal(u, h)
          BY <1>11, <1>12, <2>2, <3>2
        <4>2. QED
          BY <1>10, <4>1 DEF LocalTo
      <3>3. CASE u # t /\ v # t
        BY <1>0, <1>12, <2>2, <3>3 DEF MadeOnce
      <3>4. QED
        BY <3>1, <3>2, <3>3
    <2>3. QED
      BY <2>1, <2>2 DEF MadeOnce
  <1>15. ASSUME NEW h \in Handles, h \notin objects
         PROVE (LocalTo(h)' <=> LocalTo(h)) /\ Claims(h)' = Claims(h)
    <2>1. \A u \in Threads : IsLocal(u, h)' <=> IsLocal(u, h)
      BY <1>11, <1>12, <1>15
    <2>2. \A u \in Threads : Has(u, h)' <=> Has(u, h)
      BY <1>11, <1>12, <1>15
    <2>3. LocalTo(h)' <=> LocalTo(h)
      BY <2>1 DEF LocalTo
    <2>4. Claims(h)' = Claims(h)
      BY <2>2 DEF Claims, Has
    <2>5. QED
      BY <2>3, <2>4
  <1>16. ASSUME NEW h \in objects
         PROVE /\ LocalTo(h)' <=> ~call[t].wanted
               /\ Claims(h)' \subseteq {t}
    <2>1. LocalTo(h)' => ~call[t].wanted
      <3>1. \A u \in Threads : u # t => ~IsLocal(u, h)'
        BY <1>10, <1>12 DEF LocalTo
      <3>2. QED
        BY <3>1, <1>11 DEF LocalTo
    <2>2. ~call[t].wanted => LocalTo(h)'
      BY <1>13 DEF LocalTo
    <2>3. \A u \in Threads : Has(u, h)' => u = t
      BY <1>10, <1>12
    <2>4. Claims(h)' \subseteq {t}
      BY <2>3 DEF Claims, Has
    <2>5. QED
      BY <2>1, <2>2, <2>4
  <1>17. ClaimsAreOwned'
    <2>1. ASSUME NEW h \in Handles
          PROVE IF LocalTo(h)' THEN appRefs'[h] = 0 ELSE Cardinality(Claims(h)') <= appRefs'[h]
      <3>1. CASE h \in objects
        <4>1. given <=> call[t].wanted
          BY <3>1
        <4>2. CASE given
          <5>1. appRefs'[h] = 1
            BY <1>3, <3>1, <4>2
          <5>2. Cardinality(Claims(h)') <= 1
            <6>1. IsFiniteSet({t}) /\ Cardinality({t}) = 1
              BY FS_Singleton
            <6>2. QED
              BY <1>16, <3>1, <6>1, FS_Subset
          <5>3. QED
            BY <1>16, <3>1, <4>1, <4>2, <5>1, <5>2
        <4>3. CASE ~given
          <5>1. appRefs'[h] = 0
            BY <1>3, <1>10, <3>1, <4>3
          <5>2. QED
            BY <1>16, <3>1, <4>1, <4>3, <5>1
        <4>4. QED
          BY <4>2, <4>3
      <3>2. CASE h \notin objects
        BY <1>0, <1>3, <1>15, <3>2 DEF ClaimsAreOwned
      <3>3. QED
        BY <3>1, <3>2
    <2>2. QED
      BY <2>1 DEF ClaimsAreOwned
  <1>18. RefsAreOwned'
    <2>1. ASSUME NEW h \in Handles
          PROVE refs'[h] = appRefs'[h] + (IF h \in timing THEN 1 ELSE 0)
                                       + (IF LocalTo(h)' THEN 1 ELSE 0)
      <3>1. CASE h \in objects
        <4>1. h \notin timing /\ appRefs[h] = 0 /\ refs'[h] = 1
          BY <1>3, <1>10, <3>1
        <4>2. LocalTo(h)' <=> ~given
          BY <1>16, <3>1
        <4>3. appRefs'[h] = IF given THEN 1 ELSE 0
          BY <1>3, <3>1, <4>1
        <4>4. QED
          BY <4>1, <4>2, <4>3
      <3>2. CASE h \notin objects
        BY <1>0, <1>3, <1>15, <3>2 DEF RefsAreOwned
      <3>3. QED
        BY <3>1, <3>2
    <2>2. ASSUME NEW h \in Handles, NEW u \in Threads, Makes(u, h)', TimingEnd \in ToCome(u)'
          PROVE h \notin timing
      <3>1. CASE u = t
        BY <1>10, <1>11, <2>2, <3>1
      <3>2. CASE u # t
        BY <1>0, <1>12, <2>2, <3>2 DEF RefsAreOwned
      <3>3. QED
        BY <3>1, <3>2
    <2>3. QED
      BY <1>3, <2>1, <2>2 DEF RefsAreOwned
  <1>19. EntriesAreKept'
    <2>1. ASSUME kind # "pointer", NEW h \in added' \ refused'
          PROVE Listed(h)' \/ refs'[h] = 0 \/ \E u \in Threads : Doomed(u, h)'
      <3>1. h \in added \ refused /\ h \notin objects /\ h \in Handles
        BY <1>0, <1>3, <2>1 DEF StateTyped
      <3>2. refs'[h] = refs[h] /\ (Listed(h)' <=> Listed(h))
        BY <1>3, <3>1 DEF Listed, maps
      <3>3. ASSUME NEW u \in Threads, Doomed(u, h) PROVE Doomed(u, h)'
        <4>1. u # t
          BY <3>3 DEF Doomed, Creators
        <4>2. call'[u] = call[u]
          BY <1>7, <4>1
        <4>3. QED
          BY <3>2, <3>3, <4>2 DEF Doomed, ToCome
      <3>4. QED
        BY <2>1, <3>1, <3>2, <3>3 DEF MapsInv, EntriesAreKept
    <2>2. QED
      BY <2>1 DEF EntriesAreKept
  <1>20. ObjectsAreAdded'
    <2>1. ASSUME kind \in RoutedKinds, NEW h \in Handles, appRefs'[h] > 0, h \notin added'
          PROVE appRefs'[h] = 1 /\ WillAdd(h)'
      <3>1. CASE h \in objects
        <4>1. appRefs'[h] = 1
          BY <1>3, <1>10, <2>1, <3>1
        <4>2. Add(kind) \in ToCome(t)
          BY <1>1, <1>2, <2>1 DEF Orderly
        <4>3. Add(kind) \in ToCome(t)' /\ call'[t] # NoCall
          BY <1>1, <1>5, <4>2, StepsDiffer
        <4>4. Makes(t, h)'
          BY <1>4, <1>5, <3>1, <4>3 DEF Changes, Makes
        <4>5. QED
          BY <4>1, <4>3, <4>4 DEF WillAdd
      <3>2. CASE h \notin objects
        <4>1. appRefs'[h] = appRefs[h] /\ h \notin added
          BY <1>3, <2>1, <3>2
        <4>2. appRefs[h] = 1 /\ WillAdd(h)
          BY <2>1, <4>1 DEF MapsInv, ObjectsAreAdded
        <4>3. PICK u \in Threads : Makes(u, h) /\ Add(kind) \in ToCome(u)
          BY <4>2 DEF WillAdd
        <4>4. u # t
          BY <1>11, <4>3
        <4>5. Makes(u, h)' /\ Add(kind) \in ToCome(u)'
          BY <1>12, <4>3, <4>4
        <4>6. QED
          BY <4>1, <4>2, <4>5 DEF WillAdd
      <3>3. QED
        BY <3>1, <3>2
    <2>2. QED
      BY <2>1 DEF ObjectsAreAdded
  <1>21. ASSUME call'[t] # NoCall PROVE Working(t)'
    <2>1. /\ call'[t].role = call[t].role /\ call'[t].objects = objects
          /\ call'[t].wanted = call[t].wanted /\ call'[t].timed = call[t].timed
          /\ call'[t].failed = call[t].failed /\ call'[t].spent = call[t].spent
      BY <1>4, <1>5, <1>21 DEF Changes
    <2>2. Dispatch \notin ToCome(t)' /\ (TimingEnd \in ToCome(t) => TimingEnd \in ToCome(t)')
      BY <1>1, <1>5, StepsDiffer
    <2>3. call[t].role # "release"
      BY DEF Creators
    <2>4. objects # {} /\ ~call[t].wanted => call[t].timed
      OBVIOUS
    <2>5. QED
      BY <1>6, <2>1, <2>2, <2>3, <2>4 DEF Working
  <1>22. CallsAreFollowed'
    BY <1>0, <1>5, <1>21, FollowedAgain
  <1>23. QED
    BY <1>9, <1>14, <1>17, <1>18, <1>19, <1>20, <1>22 DEF MapsInv

LEMMA DispatchCreateInv ==
    ASSUME MapsInv, NEW t \in Threads, At(t, "dispatch"), DispatchCreate(t),
           UNCHANGED <<kind, counters, maps>>
    PROVE MapsInv'
  <1>1. PICK objects \in SUBSET {h \in Handles : Free(h)} :
            objects # {} /\ Creates(t, objects, TRUE)
    BY DEF DispatchCreate
  <1>2. call[t].role \in {"create", "createMany"}
    BY DEF DispatchCreate
  <1>3. call[t].wanted /\ ~call[t].timed
    <2>1. Working(t)
      BY AtStep, NotIdle DEF MapsInv
    <2>2. QED
      BY <1>2, <2>1 DEF Working
  <1>4. call[t].role \in Creators /\ call[t].role # "enqueue"
    BY <1>2 DEF Creators
  <1>5. QED
    BY <1>1, <1>3, <1>4, CreatesInv

LEMMA DispatchEnqueueInv ==
    ASSUME MapsInv, NEW t \in Threads, At(t, "dispatch"), DispatchEnqueue(t),
           UNCHANGED <<kind, counters, maps>>
    PROVE MapsInv'
  <1>1. call[t].role \in Creators
    BY DEF DispatchEnqueue, Creators
  <1>2. CASE call[t].wanted \/ call[t].timed
    <2>1. PICK h \in Handles : Free(h) /\ Creates(t, {h}, call[t].wanted)
      BY <1>2 DEF DispatchEnqueue
    <2>2. call[t].wanted \in BOOLEAN
      BY DEF MapsInv, CallsAreFollowed, Locals
    <2>3. {h} \in SUBSET {g \in Handles : Free(g)} /\ \A f, g \in {h} : f = g
      BY <2>1
    <2>4. QED
      BY <1>1, <1>2, <2>1, <2>2, <2>3, CreatesInv
  <1>3. CASE ~(call[t].wanted \/ call[t].timed)
    <2>1. Creates(t, {}, FALSE)
      BY <1>3 DEF DispatchEnqueue
    <2>2. QED
      BY <1>1, <1>3, <2>1, CreatesInv
  <1>4. QED
    BY <1>2, <1>3

LEMMA DispatchSucceedsInv ==
    ASSUME MapsInv, NEW t \in Threads, DispatchSucceeds(t)
    PROVE MapsInv'
  <1>1. At(t, "dispatch") /\ UNCHANGED <<kind, counters, maps>>
    BY DEF DispatchSucceeds
  <1>2. CASE DispatchCreate(t)
    BY <1>1, <1>2, DispatchCreateInv
  <1>3. CASE DispatchEnqueue(t)
    BY <1>1, <1>3, DispatchEnqueueInv
  <1>4. CASE DispatchRetain(t)
    BY <1>1, <1>4, DispatchRetainInv
  <1>5. CASE DispatchRelease(t)
    BY <1>1, <1>5, DispatchReleaseInv
  <1>6. CASE DispatchUse(t)
    BY <1>1, <1>6, DispatchUseInv
  <1>7. QED
    BY <1>2, <1>3, <1>4, <1>5, <1>6 DEF DispatchSucceeds

\* A call begins: it uses a reference that no other call uses.
LEMMA BeginInv ==
    ASSUME MapsInv, NEW t \in Threads, Begin(t)
    PROVE MapsInv'
  <1>0. CallsAreFollowed /\ StateTyped /\ MadeOnce /\ ClaimsAreOwned /\ RefsAreOwned
    BY DEF MapsInv
  <1>1. /\ Idle(t) /\ kind' = kind /\ UNCHANGED <<counters, maps, driver, appRefs, history>>
    BY DEF Begin
  <1>2. PICK p \in Programs(kind) :
          \E objects \in IF p.role \in {"retain", "release", "use"}
                         THEN {{h} : h \in {g \in Handles : Spare(g)}}
                         ELSE {{}},
             wanted \in IF p.role = "enqueue" THEN BOOLEAN ELSE {TRUE} :
             call' = [call EXCEPT ![t] =
                        [NoCall EXCEPT !.role = p.role, !.todo = p.steps,
                                       !.objects = objects, !.wanted = wanted]]
    BY DEF Begin
  <1>3. PICK objects \in IF p.role \in {"retain", "release", "use"}
                         THEN {{h} : h \in {g \in Handles : Spare(g)}}
                         ELSE {{}},
             wanted \in IF p.role = "enqueue" THEN BOOLEAN ELSE {TRUE} :
             call' = [call EXCEPT ![t] =
                        [NoCall EXCEPT !.role = p.role, !.todo = p.steps,
                                       !.objects = objects, !.wanted = wanted]]
    BY <1>2
  <1> DEFINE d == [NoCall EXCEPT !.role = p.role, !.todo = p.steps,
                                 !.objects = objects, !.wanted = wanted]
  <1>4. /\ p.role \in {"use", "retain", "release"} \cup Creators
        /\ WellOrdered(p.steps, p.role, kind)
    BY ProgramFacts
  <1>5. /\ p.steps \in Seq(StepsOf(p.role, kind)) /\ Dispatch \in Elements(p.steps)
        /\ SubSeq(p.steps, 1, Len(p.steps)) = p.steps /\ 0 \in 0 .. Len(p.steps) - 1
    <2>1. p.steps \in Seq(StepsOf(p.role, kind)) /\ Takes(p.steps, Dispatch)
      BY <1>4 DEF WellOrdered
    <2>2. Dispatch \in Elements(p.steps)
      BY <2>1 DEF Takes, Elements
    <2>3. Len(p.steps) \in Nat /\ Len(p.steps) >= 1
      BY <2>1 DEF Takes
    <2>4. SubSeq(p.steps, 1, Len(p.steps)) = p.steps
      BY <2>1, SubSeqFull
    <2>5. QED
      BY <2>1, <2>2, <2>3, <2>4
  <1>6. /\ objects \in SUBSET Handles /\ wanted \in BOOLEAN
        /\ p.role \in Creators => objects = {}
        /\ p.role \notin Creators => \E h \in Handles : Spare(h) /\ objects = {h}
        /\ p.role # "enqueue" => wanted
    <2>1. CASE p.role \in Creators
      <3>1. p.role \notin {"retain", "release", "use"}
        BY <2>1 DEF Creators
      <3>2. objects = {} /\ wanted \in BOOLEAN /\ (p.role # "enqueue" => wanted)
        BY <3>1
      <3>3. QED
        BY <2>1, <3>2
    <2>2. CASE p.role \notin Creators
      <3>1. p.role \in {"retain", "release", "use"} /\ p.role # "enqueue"
        BY <1>4, <2>2 DEF Creators
      <3>2. wanted = TRUE /\ objects \in {{h} : h \in {g \in Handles : Spare(g)}}
        BY <3>1
      <3>3. QED
        BY <2>2, <3>2
    <2>3. QED
      BY <2>1, <2>2
  <1>7. /\ d.role = p.role /\ d.todo = p.steps /\ d.objects = objects /\ d.wanted = wanted
        /\ ~d.timed /\ ~d.failed /\ ~d.spent /\ d \in Locals
    <2>1. NoCall \in Locals /\ ~NoCall.timed /\ ~NoCall.failed /\ ~NoCall.spent
      BY NoCallIsIdle
    <2>2. p.steps \in Seq(Steps) /\ p.role \in Roles
      <3>1. p.role \in Roles
        BY <1>4 DEF Roles, Creators
      <3>2. StepsOf(p.role, kind) \subseteq Steps
        BY <1>0, <3>1, KindIsKnown DEF Steps
      <3>3. Seq(StepsOf(p.role, kind)) \subseteq Seq(Steps)
        BY <3>2
      <3>4. QED
        BY <1>5, <3>1, <3>3
    <2>3. d \in Locals
      BY <1>6, <2>1, <2>2 DEF Locals
    <2>4. d.role = p.role /\ d.todo = p.steps /\ d.objects = objects /\ d.wanted = wanted
      BY <2>1 DEF Locals
    <2>5. ~d.timed /\ ~d.failed /\ ~d.spent
      BY <2>1 DEF Locals
    <2>6. QED
      BY <2>3, <2>4, <2>5
  <1>8. /\ call \in [Threads -> Locals] /\ call' = [call EXCEPT ![t] = d]
    BY <1>0, <1>3 DEF CallsAreFollowed
  <1> HIDE DEF d
  <1>9. /\ call' \in [Threads -> Locals] /\ call'[t] = d
        /\ \A u \in Threads : u # t => call'[u] = call[u]
    BY <1>7, <1>8
  <1>10. /\ ToCome(t)' = Elements(p.steps) /\ Dispatch \in ToCome(t)'
    BY <1>5, <1>7, <1>9 DEF ToCome
  <1>11. Running(t)'
    BY <1>1, <1>5, <1>7, <1>9 DEF Running
  <1>12. Working(t)'
    BY <1>6, <1>7, <1>9, <1>10 DEF Working, Creators
  <1>13. \A h : ~Has(t, h) /\ ~Makes(t, h) /\ ~IsLocal(t, h)
    <2>1. \A h : h \notin call[t].objects
      BY <1>0, <1>1, UsersHave
    <2>2. QED
      BY <2>1 DEF Has, Makes, IsLocal
  <1>14. ASSUME NEW h
         PROVE /\ ~Makes(t, h)' /\ ~IsLocal(t, h)'
               /\ Has(t, h)' => h \in Handles /\ Spare(h)
    BY <1>6, <1>7, <1>9 DEF Makes, IsLocal, Has, Creators
  <1>15. ASSUME NEW u \in Threads, u # t, NEW h
         PROVE /\ Has(u, h)' <=> Has(u, h)
               /\ Makes(u, h)' <=> Makes(u, h)
               /\ IsLocal(u, h)' <=> IsLocal(u, h)
               /\ ToCome(u)' = ToCome(u)
    BY <1>9, <1>15 DEF Has, Makes, IsLocal, ToCome
  <1>16. /\ refs' = refs /\ timing' = timing /\ appRefs' = appRefs /\ added' = added
         /\ refused' = refused
    BY <1>1 DEF driver, history
  <1>17. StateTyped'
    BY <1>0, <1>1 DEF StateTyped, counters, maps, driver, history
  <1>18. \A h : LocalTo(h)' <=> LocalTo(h)
    BY <1>13, <1>14, <1>15 DEF LocalTo
  <1>19. ASSUME NEW h \in Handles, Spare(h)
         PROVE Cardinality(Claims(h)) + 1 <= appRefs[h] /\ ~LocalTo(h)
    <2>1. Cardinality(Claims(h)) \in Nat /\ appRefs[h] \in Nat
      BY <1>0, ClaimsAreFinite DEF StateTyped
    <2>2. appRefs[h] > Cardinality(Claims(h))
      BY <1>19 DEF Spare
    <2>3. appRefs[h] # 0
      BY <2>1, <2>2
    <2>4. QED
      BY <1>0, <2>1, <2>2, <2>3 DEF ClaimsAreOwned
  <1>20. MadeOnce'
    <2>1. ASSUME NEW h \in Handles, NEW u \in Threads, NEW v \in Threads, Makes(u, h)', Makes(v, h)'
          PROVE u = v
      BY <1>0, <1>14, <1>15, <2>1 DEF MadeOnce
    <2>2. ASSUME NEW h \in Handles, NEW u \in Threads, NEW v \in Threads, IsLocal(u, h)', Has(v, h)'
          PROVE u = v
      <3>1. u # t /\ IsLocal(u, h)
        BY <1>14, <1>15, <2>2
      <3>2. CASE v = t
        BY <1>14, <1>19, <2>2, <3>1, <3>2 DEF LocalTo
      <3>3. CASE v # t
        BY <1>0, <1>15, <2>2, <3>1, <3>3 DEF MadeOnce
      <3>4. QED
        BY <3>2, <3>3
    <2>3. QED
      BY <2>1, <2>2 DEF MadeOnce
  <1>21. ClaimsAreOwned'
    <2>1. ASSUME NEW h \in Handles, ~LocalTo(h) PROVE Cardinality(Claims(h)') <= appRefs[h]
      <3>1. CASE Has(t, h)'
        <4>1. \A u \in Threads : Has(u, h)' <=> Has(u, h) \/ u = t
          BY <1>15, <3>1
        <4>2. Claims(h)' = Claims(h) \cup {t}
          BY <4>1 DEF Claims, Has
        <4>4. Cardinality(Claims(h) \cup {t}) \in Nat /\ Cardinality(Claims(h)) \in Nat
          BY ClaimsAreFinite, FS_AddElement, FS_CardinalityType
        <4>3. Cardinality(Claims(h) \cup {t}) <= Cardinality(Claims(h)) + 1
          <5>1. Cardinality(Claims(h) \cup {t}) =
                    IF t \in Claims(h) THEN Cardinality(Claims(h)) ELSE Cardinality(Claims(h)) + 1
            BY ClaimsAreFinite, FS_AddElement
          <5>2. QED
            BY <4>4, <5>1
        <4>5. appRefs[h] \in Nat
          BY <1>0 DEF StateTyped
        <4>6. QED
          BY <1>14, <1>19, <3>1, <4>2, <4>3, <4>4, <4>5
      <3>2. CASE ~Has(t, h)'
        <4>1. \A u \in Threads : Has(u, h)' <=> Has(u, h)
          BY <1>13, <1>15, <3>2
        <4>2. Claims(h)' = Claims(h)
          BY <4>1 DEF Claims, Has
        <4>3. QED
          BY <1>0, <2>1, <4>2 DEF ClaimsAreOwned
      <3>3. QED
        BY <3>1, <3>2
    <2>2. QED
      BY <1>0, <1>16, <1>18, <2>1 DEF ClaimsAreOwned
  <1>22. RefsAreOwned'
    <2>1. ASSUME NEW h \in Handles, NEW u \in Threads, Makes(u, h)', TimingEnd \in ToCome(u)'
          PROVE h \notin timing
      BY <1>0, <1>14, <1>15, <2>1 DEF RefsAreOwned
    <2>2. QED
      BY <1>0, <1>16, <1>18, <2>1 DEF RefsAreOwned
  <1>23. EntriesAreKept'
    <2>1. ASSUME NEW u \in Threads, NEW h, Doomed(u, h) PROVE Doomed(u, h)'
      <3>1. u # t
        BY <1>13, <2>1, DoomedAlone
      <3>2. QED
        BY <1>1, <1>9, <1>16, <2>1, <3>1 DEF Doomed, ToCome
    <2>2. \A h : Listed(h)' <=> Listed(h)
      BY <1>1 DEF Listed, maps
    <2>3. QED
      BY <1>1, <1>16, <2>1, <2>2 DEF MapsInv, EntriesAreKept
  <1>24. ObjectsAreAdded'
    <2>1. ASSUME NEW h, WillAdd(h) PROVE WillAdd(h)'
      <3>1. PICK u \in Threads : Makes(u, h) /\ Add(kind) \in ToCome(u)
        BY <2>1 DEF WillAdd
      <3>2. u # t
        BY <1>13, <3>1
      <3>3. QED
        BY <1>1, <1>15, <3>1, <3>2 DEF WillAdd
    <2>2. QED
      BY <1>1, <1>16, <2>1 DEF MapsInv, ObjectsAreAdded
  <1>25. CallsAreFollowed'
    <2>1. ASSUME NEW u \in Threads, u # t PROVE Active(u)'
      <3>1. call'[u] = call[u] /\ Active(u)
        BY <1>0, <1>9, <2>1 DEF CallsAreFollowed
      <3>2. Running(u) => Running(u)'
        BY <1>1, <3>1 DEF Running
      <3>3. Working(u) => Working(u)'
        BY <3>1 DEF Working, ToCome
      <3>4. QED
        BY <3>1, <3>2, <3>3 DEF Active
    <2>2. Active(t)'
      BY <1>11, <1>12 DEF Active
    <2>3. QED
      BY <1>9, <2>1, <2>2 DEF CallsAreFollowed
  <1>26. QED
    BY <1>17, <1>20, <1>21, <1>22, <1>23, <1>24, <1>25 DEF MapsInv

-----------------------------------------------------------------------------
(* The invariant of the maps. *)

LEMMA InitMaps ==
    ASSUME Init
    PROVE MapsInv
  <1>1. /\ call = [t \in Threads |-> NoCall] /\ info = {} /\ undefined = FALSE
        /\ contextQueues = [h \in Handles |-> 0] /\ refs = [h \in Handles |-> 0]
        /\ appRefs = [h \in Handles |-> 0] /\ timing = {} /\ added = {} /\ refused = {}
        /\ refusals = 0 /\ NumAllocations = 0 /\ NumRetains = 0 /\ NumReleases = 0
        /\ kind \in Focus
    BY DEF Init
  <1>2. \A t \in Threads : call[t] = NoCall
    BY <1>1
  <1>3. CallsAreFollowed
    BY <1>1, <1>2, NoCallIsIdle DEF CallsAreFollowed, Active
  <1>4. StateTyped
    <2>1. /\ contextQueues \in [Handles -> Nat] /\ refs \in [Handles -> Nat]
          /\ appRefs \in [Handles -> Nat]
      BY <1>1
    <2>2. /\ NumAllocations \in Nat /\ NumRetains \in Nat /\ NumReleases \in Nat
          /\ refusals \in Int
      BY <1>1
    <2>3. undefined \in BOOLEAN
      BY <1>1
    <2>4. /\ info \in SUBSET Handles /\ timing \in SUBSET Handles /\ added \in SUBSET Handles
          /\ refused \in SUBSET Handles
      BY <1>1
    <2>5. QED
      BY <1>1, <2>1, <2>2, <2>3, <2>4 DEF StateTyped
  <1>5. \A t \in Threads : \A h : ~Has(t, h) /\ ~Makes(t, h) /\ ~IsLocal(t, h)
    BY <1>2, NoCallIsIdle DEF Has, Makes, IsLocal
  <1>6. MadeOnce
    BY <1>5 DEF MadeOnce
  <1>7. ClaimsAreOwned
    <2>1. \A h : ~LocalTo(h) /\ Claims(h) = {}
      BY <1>5 DEF LocalTo, Claims, Has
    <2>2. \A h : Cardinality(Claims(h)) = 0
      BY <2>1, FS_EmptySet
    <2>3. QED
      BY <1>1, <2>1, <2>2 DEF ClaimsAreOwned
  <1>8. RefsAreOwned
    <2>1. \A h : ~LocalTo(h)
      BY <1>5 DEF LocalTo
    <2>2. QED
      BY <1>1, <1>5, <2>1 DEF RefsAreOwned
  <1>9. EntriesAreKept /\ ObjectsAreAdded
    BY <1>1 DEF EntriesAreKept, ObjectsAreAdded
  <1>10. QED
    BY <1>3, <1>4, <1>6, <1>7, <1>8, <1>9 DEF MapsInv

LEMMA StutterMaps ==
    ASSUME MapsInv, UNCHANGED vars
    PROVE MapsInv'
  <1>1. /\ call' = call /\ kind' = kind /\ appRefs' = appRefs
        /\ UNCHANGED counters /\ UNCHANGED maps /\ UNCHANGED driver /\ UNCHANGED history
    BY DEF vars
  <1>2. StateTyped'
    BY <1>1 DEF MapsInv, StateTyped, counters, maps, driver, history
  <1>3. \A t \in Threads : Active(t) => Active(t)'
    <2>1. \A t \in Threads : Running(t) => Running(t)'
      BY <1>1 DEF Running
    <2>2. \A t \in Threads : Working(t) => Working(t)'
      BY <1>1 DEF Working, ToCome
    <2>3. QED
      BY <1>1, <2>1, <2>2 DEF Active
  <1>4. CallsAreFollowed'
    BY <1>1, <1>3 DEF MapsInv, CallsAreFollowed
  <1>5. \A t \in Threads : \A h : /\ Has(t, h)' <=> Has(t, h)
                                  /\ Makes(t, h)' <=> Makes(t, h)
                                  /\ IsLocal(t, h)' <=> IsLocal(t, h)
                                  /\ Doomed(t, h)' <=> Doomed(t, h)
                                  /\ ToCome(t)' = ToCome(t)
    BY <1>1 DEF Has, Makes, IsLocal, Doomed, ToCome, driver
  <1>6. \A h : /\ LocalTo(h)' <=> LocalTo(h)
               /\ Claims(h)' = Claims(h)
               /\ Listed(h)' <=> Listed(h)
               /\ WillAdd(h)' <=> WillAdd(h)
    BY <1>1, <1>5 DEF LocalTo, Claims, Listed, WillAdd, maps
  <1>7. MadeOnce'
    BY <1>5 DEF MapsInv, MadeOnce
  <1>8. ClaimsAreOwned'
    BY <1>1, <1>6 DEF MapsInv, ClaimsAreOwned
  <1>9. RefsAreOwned'
    BY <1>1, <1>5, <1>6 DEF MapsInv, RefsAreOwned, driver
  <1>10. EntriesAreKept' /\ ObjectsAreAdded'
    BY <1>1, <1>5, <1>6 DEF MapsInv, EntriesAreKept, ObjectsAreAdded, driver, history
  <1>11. QED
    BY <1>2, <1>4, <1>7, <1>8, <1>9, <1>10 DEF MapsInv

LEMMA NextMaps ==
    ASSUME MapsInv, [Next]_vars
    PROVE MapsInv'
  <1>1. ASSUME NEW t \in Threads, Begin(t) PROVE MapsInv'
    BY <1>1, BeginInv
  <1>2. ASSUME NEW t \in Threads, DispatchSucceeds(t) PROVE MapsInv'
    BY <1>2, DispatchSucceedsInv
  <1>3. ASSUME NEW t \in Threads, DispatchFails(t) PROVE MapsInv'
    BY <1>3, DispatchFailsInv
  <1>4. ASSUME NEW t \in Threads, AddAllocation(t) \/ AddRetain(t) \/ AddRelease(t) PROVE MapsInv'
    BY <1>4, CountingInv
  <1>5. ASSUME NEW t \in Threads, AddInfo(t) \/ AddQueue(t) PROVE MapsInv'
    BY <1>5, AddInfoInv
  <1>6. ASSUME NEW t \in Threads, AddEventOfRefusedCommand(t) PROVE MapsInv'
    BY <1>6, AddEventOfRefusedCommandInv
  <1>7. ASSUME NEW t \in Threads, CheckRemoveInfo(t) \/ CheckRemoveQueue(t) PROVE MapsInv'
    BY <1>7, CheckRemoveInv
  <1>8. ASSUME NEW t \in Threads, LookUp(t) PROVE MapsInv'
    BY <1>8, LookUpInv
  <1>9. ASSUME NEW t \in Threads, StartTiming(t) PROVE MapsInv'
    BY <1>9, StartTimingInv
  <1>10. ASSUME NEW t \in Threads, EndTiming(t) PROVE MapsInv'
    BY <1>10, EndTimingInv
  <1>11. ASSUME NEW h \in Handles, CheckTimingEvent(h) PROVE MapsInv'
    BY <1>11, CheckTimingEventInv
  <1>12. CASE UNCHANGED vars
    BY <1>12, StutterMaps
  <1>13. QED
    BY <1>1, <1>2, <1>3, <1>4, <1>5, <1>6, <1>7, <1>8, <1>9, <1>10, <1>11, <1>12 DEF Next, Step

LEMMA MapsInvariant == Spec => []MapsInv
  <1>1. Init => MapsInv
    BY InitMaps
  <1>2. MapsInv /\ [Next]_vars => MapsInv'
    BY NextMaps
  <1>3. QED
    BY <1>1, <1>2, PTL DEF Spec

\* An object the application can still use is not about to be freed.
LEMMA SpareIsKept ==
    ASSUME MapsInv, kind # "pointer", NEW h \in added \ refused, Spare(h)
    PROVE Listed(h)
  <1>0. CallsAreFollowed /\ StateTyped /\ MadeOnce /\ ClaimsAreOwned /\ RefsAreOwned
    BY DEF MapsInv
  <1>1. h \in Handles
    BY <1>0 DEF StateTyped
  <1>2. /\ Cardinality(Claims(h)) \in Nat /\ appRefs[h] \in Nat /\ refs[h] \in Nat
        /\ appRefs[h] > Cardinality(Claims(h))
    BY <1>0, <1>1, ClaimsAreFinite DEF StateTyped, Spare
  <1>3. refs[h] # 0
    BY <1>0, <1>1, <1>2 DEF RefsAreOwned
  <1>4. ASSUME NEW t \in Threads, Doomed(t, h) PROVE FALSE
    <2>1. Has(t, h) /\ appRefs[h] = 1
      BY <1>4, DoomedAlone
    <2>2. Cardinality(Claims(h)) # 0
      BY <2>1, HasIsClaim, ClaimsAreFinite, FS_EmptySet
    <2>3. QED
      BY <1>2, <2>1, <2>2
  <1>5. QED
    BY <1>3, <1>4 DEF MapsInv, EntriesAreKept

LEMMA ObjectIsRouted ==
    ASSUME MapsInv, NEW t \in Threads, At(t, "route"), NEW h \in call[t].objects
    PROVE h \in info \cup refused
  <1>0. CallsAreFollowed /\ StateTyped /\ MadeOnce /\ ClaimsAreOwned /\ RefsAreOwned
    BY DEF MapsInv
  <1>1. /\ ~Idle(t) /\ NextStep(t) = Route(kind) /\ NextStep(t) \in ToCome(t)
        /\ call[t].role \in {"use", "retain", "release"}
    BY <1>0, AtStep
  <1>2. Orderly(t)
    BY <1>0, <1>1, NotIdle
  <1>3. kind \in RoutedKinds /\ Dispatch \in ToCome(t)
    BY <1>1, <1>2 DEF Orderly
  <1>4. h \in Handles /\ Has(t, h) /\ ~IsLocal(t, h)
    BY <1>0, <1>3, UsersHave
  <1>5. appRefs[h] >= 1 /\ appRefs[h] \in Nat /\ refs[h] >= 1 /\ refs[h] \in Nat
    BY <1>0, <1>4, ClaimIsOwned, CountOfUsed
  <1>6. h \in added
    <2>1. SUFFICES ASSUME h \notin added PROVE FALSE
      OBVIOUS
    <2>2. appRefs[h] = 1 /\ WillAdd(h)
      BY <1>3, <1>4, <1>5, <2>1 DEF MapsInv, ObjectsAreAdded
    <2>3. PICK u \in Threads : Makes(u, h)
      BY <2>2 DEF WillAdd
    <2>4. u # t
      BY <1>1, <2>3 DEF Makes, Creators
    <2>5. Has(u, h)
      BY <1>0, <2>3, UsersHave DEF Makes
    <2>6. appRefs[h] >= 2
      BY <1>0, <1>4, <2>4, <2>5, TwoClaims
    <2>7. QED
      BY <2>2, <2>6
  <1>7. ASSUME NEW u \in Threads, Doomed(u, h) PROVE FALSE
    <2>1. u = t
      BY <1>4, <1>7, DoomedAlone
    <2>2. call[t].role = "release" /\ Remove(kind) \notin ToCome(t)
      BY <1>7, <2>1 DEF Doomed
    <2>3. QED
      BY <1>1, <1>2, <2>2 DEF Orderly
  <1>8. kind # "pointer" /\ refs[h] # 0
    BY <1>3, <1>5 DEF RoutedKinds
  <1>9. QED
    BY <1>6, <1>7, <1>8 DEF MapsInv, EntriesAreKept, Listed

LEMMA MapsTypes ==
    ASSUME MapsInv
    PROVE TypeOK
  <1>0. CallsAreFollowed /\ StateTyped
    BY DEF MapsInv
  <1>1. ASSUME NEW t \in Threads
        PROVE /\ DOMAIN call[t] = DOMAIN NoCall
              /\ call[t].objects \in SUBSET Handles
              /\ \/ call[t] = NoCall
                 \/ \E p \in Programs(kind) :
                       call[t].role = p.role /\ IsEnd(p, call[t].todo)
    <2>1. call[t] \in Locals /\ Active(t) /\ NoCall \in Locals
      BY <1>0, NoCallIsIdle DEF CallsAreFollowed
    <2>2. DOMAIN call[t] = DOMAIN NoCall
      BY <2>1 DEF Locals
    <2>3. call[t].objects \in SUBSET Handles
      BY <2>1 DEF Locals
    <2>4. ASSUME Running(t)
          PROVE \E p \in Programs(kind) : call[t].role = p.role /\ IsEnd(p, call[t].todo)
      <3>1. PICK p \in Programs(kind) : \E i \in 0 .. Len(p.steps) - 1 :
                call[t].role = p.role /\ call[t].todo = SubSeq(p.steps, i + 1, Len(p.steps))
        BY <2>4 DEF Running
      <3>2. PICK i \in 0 .. Len(p.steps) - 1 :
                call[t].role = p.role /\ call[t].todo = SubSeq(p.steps, i + 1, Len(p.steps))
        BY <3>1
      <3>3. Len(p.steps) \in Nat
        BY ProgramFacts DEF WellOrdered
      <3>4. i \in 0 .. Len(p.steps)
        BY <3>2, <3>3
      <3>5. IsEnd(p, call[t].todo)
        BY <3>2, <3>4 DEF IsEnd
      <3>6. QED
        BY <3>2, <3>5
    <2>5. QED
      BY <2>1, <2>2, <2>3, <2>4 DEF Active
  <1>2. QED
    BY <1>0, <1>1 DEF TypeOK, StateTyped

\* In every state the maps, the counters and the calls in progress are what
\* their declarations say: a thread is at the end of the steps of a handler.
THEOREM TrackingTypesCorrect == Spec => []TypeOK
  BY MapsInvariant, MapsTypes, PTL

\* An object that was entered in its map is there as long as the application can
\* use it, however the calls on it, and on earlier objects of the same handle,
\* interleave.
THEOREM LiveObjectsAlwaysKnown == Spec => []InfoOfLiveObjects
  <1>1. MapsInv => InfoOfLiveObjects
    BY SpareIsKept DEF InfoOfLiveObjects, Listed
  <1>2. QED
    BY MapsInvariant, <1>1, PTL

\* A call with a semaphore, a command buffer or an accelerator finds its function.
THEOREM CallsAlwaysRouted == Spec => []CallsAreRouted
  <1>1. MapsInv => CallsAreRouted
    BY ObjectIsRouted DEF CallsAreRouted
  <1>2. QED
    BY MapsInvariant, <1>1, PTL

\* A queue that was put on the list of its context is there when its last
\* reference goes.
THEOREM QueuesAlwaysListed == Spec => []QueuesAreListed
  <1>1. MapsInv => QueuesAreListed
    BY SpareIsKept DEF QueuesAreListed, Listed
  <1>2. QED
    BY MapsInvariant, <1>1, PTL

-----------------------------------------------------------------------------
(* The report of leaks. *)

\* The objects a handler has made and not yet counted, and the calls the driver
\* has carried out that are not yet counted.
IsUncounted(t, h) == Makes(t, h) /\ call[t].wanted /\ Allocation(kind) \in ToCome(t)
IsPending(t, role) == /\ call[t].role = role /\ ~call[t].failed
                      /\ Dispatch \notin ToCome(t) /\ CountsAs(role, kind) \in ToCome(t)

Uncounted == {h \in Handles : \E t \in Threads : IsUncounted(t, h)}
Pending(role) == {t \in Threads : IsPending(t, role)}

\* The references of the application, one by one.
References == UNION {{h} \X (1 .. appRefs[h]) : h \in Handles}

CountsAgree ==
    /\ IsFiniteSet(References)
    /\ kind # "accelerator" =>
          NumAllocations + NumRetains - NumReleases + Cardinality(Uncounted)
              + Cardinality(Pending("retain")) - Cardinality(Pending("release"))
          = Cardinality(References) + refusals

CountsInv == MapsInv /\ CountsAgree

LEMMA CountedTypes ==
    ASSUME StateTyped, CountsAgree
    PROVE /\ IsFiniteSet(Uncounted) /\ Cardinality(Uncounted) \in Nat
          /\ IsFiniteSet(Pending("retain")) /\ Cardinality(Pending("retain")) \in Nat
          /\ IsFiniteSet(Pending("release")) /\ Cardinality(Pending("release")) \in Nat
          /\ IsFiniteSet(References) /\ Cardinality(References) \in Nat
          /\ NumAllocations \in Nat /\ NumRetains \in Nat /\ NumReleases \in Nat /\ refusals \in Int
  <1>1. IsFiniteSet(Uncounted) /\ IsFiniteSet(Pending("retain")) /\ IsFiniteSet(Pending("release"))
    <2>1. /\ Uncounted \in SUBSET Handles /\ Pending("retain") \in SUBSET Threads
          /\ Pending("release") \in SUBSET Threads
      BY DEF Uncounted, Pending
    <2>2. QED
      BY <2>1, TrackingBoundsAssumption, FS_Subset
  <1>2. IsFiniteSet(References)
    BY DEF CountsAgree
  <1>3. QED
    BY <1>1, <1>2, FS_CardinalityType DEF StateTyped

\* The references as a function of the counts.
LEMMA ReferencesAre ==
    ASSUME NEW x
    PROVE x \in References <=> \E h \in Handles : \E i \in 1 .. appRefs[h] : x = <<h, i>>
  BY DEF References

LEMMA SameReferences ==
    ASSUME appRefs' = appRefs
    PROVE References' = References
  BY DEF References

\* Steps that count nothing.
LEMMA CountsStand ==
    ASSUME CountsInv, NEW t \in Threads, kind' = kind, appRefs' = appRefs, refusals' = refusals,
           UNCHANGED counters,
           \A u \in Threads : u # t => call'[u] = call[u],
           \A h \in Handles : IsUncounted(t, h)' <=> IsUncounted(t, h),
           \A role \in {"retain", "release"} : IsPending(t, role)' <=> IsPending(t, role)
    PROVE CountsAgree'
  <1>1. ASSUME NEW u \in Threads, NEW h \in Handles PROVE IsUncounted(u, h)' <=> IsUncounted(u, h)
    <2>1. CASE u = t
      BY <2>1
    <2>2. CASE u # t
      <3>1. call'[u] = call[u]
        BY <2>2
      <3>2. QED
        BY <3>1 DEF IsUncounted, Makes, ToCome
    <2>3. QED
      BY <2>1, <2>2
  <1>2. Uncounted' = Uncounted
    BY <1>1 DEF Uncounted
  <1>3. ASSUME NEW u \in Threads, NEW role \in {"retain", "release"}
        PROVE IsPending(u, role)' <=> IsPending(u, role)
    <2>1. CASE u = t
      BY <2>1
    <2>2. CASE u # t
      <3>1. call'[u] = call[u]
        BY <2>2
      <3>2. QED
        BY <3>1 DEF IsPending, ToCome
    <2>3. QED
      BY <2>1, <2>2
  <1>4. Pending("retain")' = Pending("retain") /\ Pending("release")' = Pending("release")
    BY <1>3 DEF Pending
  <1>5. References' = References
    BY SameReferences
  <1>6. QED
    BY <1>2, <1>4, <1>5 DEF CountsInv, CountsAgree, counters

\* A thread goes on past a step that counts nothing.
LEMMA PastCounts ==
    ASSUME CountsInv, NEW t \in Threads, NEW c, Changes(t, c), kind' = kind,
           ToCome(t)' = ToCome(t) \ {NextStep(t)},
           call'[t] = NoCall => ToCome(t)' = {},
           c.failed = call[t].failed, c.wanted = call[t].wanted,
           c.wanted => c.objects = call[t].objects,
           NextStep(t) # Dispatch \/ call[t].role = "use",
           NextStep(t) \notin {Allocation(kind), Retained(kind), Released(kind)}
    PROVE /\ \A h \in Handles : IsUncounted(t, h)' <=> IsUncounted(t, h)
          /\ \A role \in {"retain", "release"} : IsPending(t, role)' <=> IsPending(t, role)
  <1>1. \A role \in {"retain", "release"} : CountsAs(role, kind) \in {Retained(kind), Released(kind)}
    BY DEF CountsAs
  <1>2. CASE call'[t] = NoCall
    <2>1. ToCome(t)' = {} /\ ToCome(t) \subseteq {NextStep(t)}
      BY <1>2
    <2>2. QED
      BY <1>1, <2>1 DEF IsUncounted, IsPending
  <1>3. CASE call'[t] # NoCall
    <2>1. /\ call'[t].role = call[t].role
          /\ call'[t].objects = c.objects /\ call'[t].wanted = call[t].wanted
          /\ call'[t].failed = call[t].failed
      BY <1>3 DEF Changes
    <2>2. ASSUME NEW h \in Handles PROVE IsUncounted(t, h)' <=> IsUncounted(t, h)
      BY <2>1 DEF IsUncounted, Makes
    <2>3. ASSUME NEW role \in {"retain", "release"} PROVE IsPending(t, role)' <=> IsPending(t, role)
      BY <1>1, <2>1 DEF IsPending
    <2>4. QED
      BY <2>2, <2>3
  <1>4. QED
    BY <1>2, <1>3

LEMMA PassedCounts ==
    ASSUME CountsInv, NEW t \in Threads, ~Idle(t), NEW c \in Locals,
           c.role = call[t].role, c.todo = call[t].todo, After(t, c),
           kind' = kind, appRefs' = appRefs, refusals' = refusals, UNCHANGED counters,
           c.failed = call[t].failed, c.wanted = call[t].wanted,
           c.wanted => c.objects = call[t].objects,
           NextStep(t) # Dispatch \/ call[t].role = "use",
           NextStep(t) \notin {Allocation(kind), Retained(kind), Released(kind)}
    PROVE CountsAgree'
  <1>0. CallsAreFollowed /\ StateTyped
    BY DEF CountsInv, MapsInv
  <1>1. /\ Changes(t, c) /\ ToCome(t)' = ToCome(t) \ {NextStep(t)}
        /\ call'[t] = NoCall => ToCome(t)' = {}
    BY <1>0, AfterChanges
  <1>2. /\ \A h \in Handles : IsUncounted(t, h)' <=> IsUncounted(t, h)
        /\ \A role \in {"retain", "release"} : IsPending(t, role)' <=> IsPending(t, role)
    BY <1>1, PastCounts
  <1>3. \A u \in Threads : u # t => call'[u] = call[u]
    BY <1>1 DEF Changes
  <1>4. QED
    BY <1>2, <1>3, CountsStand

\* The maps are not counted, and neither are calls that only use an object.
LEMMA MapStepsCount ==
    ASSUME CountsInv, NEW t \in Threads,
           \/ AddInfo(t) \/ AddQueue(t) \/ AddEventOfRefusedCommand(t)
           \/ CheckRemoveInfo(t) \/ CheckRemoveQueue(t)
    PROVE CountsAgree'
  <1>0. CallsAreFollowed /\ StateTyped
    BY DEF CountsInv, MapsInv
  <1>1. /\ ~Idle(t) /\ NextStep(t) \in {Add(kind), Remove(kind)}
        /\ After(t, call[t]) /\ kind' = kind /\ appRefs' = appRefs /\ refusals' = refusals
        /\ UNCHANGED counters
    BY <1>0, AtStep DEF AddInfo, AddQueue, AddEventOfRefusedCommand, CheckRemoveInfo,
                        CheckRemoveQueue, history
  <1>2. NextStep(t) \notin {Dispatch, Allocation(kind), Retained(kind), Released(kind)}
    BY <1>1, StepsDiffer
  <1>3. call[t] \in Locals
    BY <1>0, <1>1, NotIdle
  <1>4. QED
    BY <1>1, <1>2, <1>3, PassedCounts

LEMMA DispatchUseCounts ==
    ASSUME CountsInv, NEW t \in Threads, At(t, "dispatch"), DispatchUse(t),
           UNCHANGED <<kind, counters, maps>>
    PROVE CountsAgree'
  <1>0. CallsAreFollowed /\ StateTyped
    BY DEF CountsInv, MapsInv
  <1>1. /\ ~Idle(t) /\ NextStep(t) = Dispatch /\ call[t].role = "use"
        /\ After(t, call[t]) /\ kind' = kind /\ appRefs' = appRefs /\ refusals' = refusals
        /\ UNCHANGED counters
    BY <1>0, AtStep DEF DispatchUse, history
  <1>2. NextStep(t) \notin {Allocation(kind), Retained(kind), Released(kind)}
    BY <1>1, StepsDiffer
  <1>3. call[t] \in Locals
    BY <1>0, <1>1, NotIdle
  <1>4. QED
    BY <1>1, <1>2, <1>3, PassedCounts

\* Timing forgets only an event that the application did not ask for.
LEMMA TimingCounts ==
    ASSUME CountsInv, NEW t \in Threads, StartTiming(t) \/ EndTiming(t)
    PROVE CountsAgree'
  <1>0. CallsAreFollowed /\ StateTyped
    BY DEF CountsInv, MapsInv
  <1>1. /\ ~Idle(t) /\ NextStep(t) \in {TimingStart, TimingEnd}
        /\ kind' = kind /\ appRefs' = appRefs /\ refusals' = refusals /\ UNCHANGED counters
    BY <1>0, AtStep DEF StartTiming, EndTiming, history
  <1>2. NextStep(t) \notin {Dispatch, Allocation(kind), Retained(kind), Released(kind)}
    BY <1>1, StepsDiffer
  <1>3. call[t] \in Locals
    BY <1>0, <1>1, NotIdle
  <1>4. \E c \in Locals :
          /\ c.role = call[t].role /\ c.todo = call[t].todo /\ After(t, c)
          /\ c.failed = call[t].failed /\ c.wanted = call[t].wanted
          /\ c.wanted => c.objects = call[t].objects
    <2>1. CASE StartTiming(t)
      <3>1. PICK timed \in BOOLEAN : After(t, [call[t] EXCEPT !.timed = timed])
        BY <2>1 DEF StartTiming
      <3> DEFINE c == [call[t] EXCEPT !.timed = timed]
      <3>2. /\ c \in Locals /\ c.role = call[t].role /\ c.todo = call[t].todo
            /\ c.failed = call[t].failed /\ c.wanted = call[t].wanted
            /\ c.objects = call[t].objects
        BY <1>3 DEF Locals
      <3>3. After(t, c)
        BY <3>1
      <3> HIDE DEF c
      <3>4. QED
        BY <3>2, <3>3
    <2>2. CASE EndTiming(t)
      <3>1. CASE After(t, call[t])
        BY <1>3, <3>1
      <3>2. CASE ~After(t, call[t])
        <4> DEFINE local == call[t].timed /\ ~call[t].wanted
                   c == [call[t] EXCEPT !.objects = IF local THEN {} ELSE call[t].objects]
        <4>1. After(t, c)
          BY <2>2, <3>2 DEF EndTiming
        <4>2. /\ c \in Locals /\ c.role = call[t].role /\ c.todo = call[t].todo
              /\ c.failed = call[t].failed /\ c.wanted = call[t].wanted
              /\ c.objects = IF local THEN {} ELSE call[t].objects
          BY <1>3 DEF Locals
        <4>3. c.wanted => c.objects = call[t].objects
          BY <4>2
        <4> HIDE DEF c
        <4>4. QED
          BY <4>1, <4>2, <4>3
      <3>3. QED
        BY <3>1, <3>2
    <2>3. QED
      BY <2>1, <2>2
  <1>5. QED
    BY <1>1, <1>2, <1>4, PassedCounts

\* A thread whose call is not counted, before and after.
LEMMA UncountedCalls ==
    ASSUME CountsInv, NEW t \in Threads, kind' = kind, appRefs' = appRefs,
           refusals' = refusals, UNCHANGED counters,
           \A u \in Threads : u # t => call'[u] = call[u],
           \A h \in Handles : ~IsUncounted(t, h) /\ ~IsUncounted(t, h)',
           \A role \in {"retain", "release"} : ~IsPending(t, role) /\ ~IsPending(t, role)'
    PROVE CountsAgree'
  BY CountsStand

LEMMA LookUpCounts ==
    ASSUME CountsInv, NEW t \in Threads, LookUp(t)
    PROVE CountsAgree'
  <1>0. CallsAreFollowed /\ StateTyped
    BY DEF CountsInv, MapsInv
  <1>1. /\ ~Idle(t) /\ NextStep(t) = Route(kind) /\ NextStep(t) \in ToCome(t)
        /\ call[t].role \in {"use", "retain", "release"}
        /\ kind' = kind /\ appRefs' = appRefs /\ refusals' = refusals /\ UNCHANGED counters
        /\ After(t, call[t]) \/ call' = [call EXCEPT ![t] = NoCall]
    BY <1>0, AtStep DEF LookUp, history
  <1>2. NextStep(t) \notin {Dispatch, Allocation(kind), Retained(kind), Released(kind)}
    BY <1>1, StepsDiffer
  <1>3. call[t] \in Locals /\ Orderly(t)
    BY <1>0, <1>1, NotIdle
  <1>4. CASE After(t, call[t])
    BY <1>1, <1>2, <1>3, <1>4, PassedCounts
  <1>5. CASE call' = [call EXCEPT ![t] = NoCall]
    <2>1. call'[t] = NoCall /\ \A u \in Threads : u # t => call'[u] = call[u]
      BY <1>0, <1>5 DEF CallsAreFollowed
    <2>2. Dispatch \in ToCome(t) /\ call[t].role \notin Creators
      BY <1>1, <1>3 DEF Orderly, Creators
    <2>3. \A h \in Handles : ~IsUncounted(t, h)
      BY <2>2 DEF IsUncounted, Makes
    <2>4. \A role \in {"retain", "release"} : ~IsPending(t, role)
      BY <2>2 DEF IsPending
    <2>5. ToCome(t)' = {}
      BY <2>1, NoCallIsIdle DEF ToCome
    <2>6. \A h \in Handles : ~IsUncounted(t, h)'
      BY <2>5 DEF IsUncounted
    <2>7. \A role \in {"retain", "release"} : ~IsPending(t, role)'
      BY <2>5 DEF IsPending
    <2>8. QED
      BY <1>1, <2>1, <2>3, <2>4, <2>6, <2>7, UncountedCalls
  <1>6. QED
    BY <1>1, <1>4, <1>5

\* A call the driver refuses makes nothing, takes nothing and gives nothing up.
LEMMA DispatchFailsCounts ==
    ASSUME CountsInv, NEW t \in Threads, DispatchFails(t)
    PROVE CountsAgree'
  <1>0. CallsAreFollowed /\ StateTyped
    BY DEF CountsInv, MapsInv
  <1> DEFINE c == [call[t] EXCEPT !.failed = TRUE]
  <1>1. /\ ~Idle(t) /\ NextStep(t) = Dispatch /\ NextStep(t) \in ToCome(t)
        /\ kind' = kind /\ appRefs' = appRefs /\ refusals' = refusals /\ UNCHANGED counters
        /\ After(t, c)
    BY <1>0, AtStep DEF DispatchFails
  <1>2. call[t] \in Locals /\ Working(t)
    BY <1>0, <1>1, NotIdle
  <1>3. /\ c \in Locals /\ c.role = call[t].role /\ c.todo = call[t].todo
        /\ c.objects = call[t].objects /\ c.failed
    BY <1>2 DEF Locals
  <1> HIDE DEF c
  <1>4. /\ Changes(t, c) /\ ToCome(t)' = ToCome(t) \ {NextStep(t)}
        /\ call'[t] = NoCall => ToCome(t)' = {}
    BY <1>0, <1>1, <1>3, AfterChanges
  <1>5. \A h \in Handles : ~Makes(t, h)
    BY <1>1, <1>2 DEF Working, Makes
  <1>6. \A role \in {"retain", "release"} : ~IsPending(t, role)
    BY <1>1 DEF IsPending
  <1>7. CASE call'[t] = NoCall
    <2>1. \A h \in Handles : ~IsUncounted(t, h)'
      BY <1>4, <1>7 DEF IsUncounted
    <2>2. \A role \in {"retain", "release"} : ~IsPending(t, role)'
      BY <1>4, <1>7 DEF IsPending
    <2>3. QED
      BY <1>1, <1>4, <1>5, <1>6, <2>1, <2>2, UncountedCalls DEF IsUncounted, Changes
  <1>8. CASE call'[t] # NoCall
    <2>1. /\ call'[t].role = call[t].role /\ call'[t].objects = call[t].objects
          /\ call'[t].failed
      BY <1>3, <1>4, <1>8 DEF Changes
    <2>2. \A h \in Handles : ~IsUncounted(t, h)'
      BY <1>5, <2>1 DEF IsUncounted, Makes
    <2>3. \A role \in {"retain", "release"} : ~IsPending(t, role)'
      BY <2>1 DEF IsPending
    <2>4. QED
      BY <1>1, <1>4, <1>5, <1>6, <2>2, <2>3, UncountedCalls DEF IsUncounted, Changes
  <1>9. QED
    BY <1>7, <1>8

LEMMA AddedElement ==
    ASSUME NEW S, IsFiniteSet(S), NEW x, x \notin S
    PROVE IsFiniteSet(S \cup {x}) /\ Cardinality(S \cup {x}) = Cardinality(S) + 1
  BY FS_AddElement

LEMMA RemovedElement ==
    ASSUME NEW S, IsFiniteSet(S), NEW x \in S
    PROVE IsFiniteSet(S \ {x}) /\ Cardinality(S \ {x}) = Cardinality(S) - 1
  BY FS_RemoveElement

\* What the other threads have before them stays as it was.
LEMMA OthersCount ==
    ASSUME NEW t \in Threads, kind' = kind, \A u \in Threads : u # t => call'[u] = call[u]
    PROVE \A u \in Threads : u # t =>
             /\ \A h \in Handles : IsUncounted(u, h)' <=> IsUncounted(u, h)
             /\ \A role : IsPending(u, role)' <=> IsPending(u, role)
  <1>1. ASSUME NEW u \in Threads, u # t
        PROVE /\ \A h \in Handles : IsUncounted(u, h)' <=> IsUncounted(u, h)
              /\ \A role : IsPending(u, role)' <=> IsPending(u, role)
    <2>1. call'[u] = call[u]
      BY <1>1
    <2>2. QED
      BY <2>1 DEF IsUncounted, IsPending, Makes, ToCome
  <1>2. QED
    BY <1>1

\* The objects are counted by the handler that made them.
LEMMA AddAllocationCounts ==
    ASSUME CountsInv, NEW t \in Threads, AddAllocation(t)
    PROVE CountsAgree'
  <1>0. CallsAreFollowed /\ StateTyped /\ CountsAgree /\ MadeOnce
    BY DEF CountsInv, MapsInv
  <1> DEFINE objects == call[t].objects
  <1>1. /\ ~Idle(t) /\ NextStep(t) = Allocation(kind) /\ NextStep(t) \in ToCome(t)
        /\ call[t].role \in Creators /\ After(t, call[t])
        /\ kind' = kind /\ appRefs' = appRefs /\ refusals' = refusals
        /\ NumAllocations' = NumAllocations + Cardinality(objects)
        /\ NumRetains' = NumRetains /\ NumReleases' = NumReleases
    BY <1>0, AtStep DEF AddAllocation, history
  <1>2. call[t] \in Locals /\ Orderly(t) /\ Working(t)
    BY <1>0, <1>1, NotIdle
  <1>3. /\ Changes(t, call[t]) /\ ToCome(t)' = ToCome(t) \ {NextStep(t)}
        /\ call'[t] = NoCall => ToCome(t)' = {}
    BY <1>0, <1>1, <1>2, AfterChanges
  <1>4. \A u \in Threads : u # t =>
             /\ \A h \in Handles : IsUncounted(u, h)' <=> IsUncounted(u, h)
             /\ \A role : IsPending(u, role)' <=> IsPending(u, role)
    BY <1>1, <1>3, OthersCount DEF Changes
  <1>5. objects \subseteq Handles /\ IsFiniteSet(objects) /\ Cardinality(objects) \in Nat
    BY <1>2, TrackingBoundsAssumption, FS_Subset, FS_CardinalityType DEF Locals
  <1>6. objects # {} => call[t].wanted
    BY <1>1, <1>2 DEF Working, Orderly
  <1>7. objects \subseteq Uncounted
    BY <1>1, <1>5, <1>6 DEF Uncounted, IsUncounted, Makes
  <1>8. Uncounted' = Uncounted \ objects
    <2>1. \A h \in Handles : ~IsUncounted(t, h)'
      BY <1>1, <1>3 DEF IsUncounted
    <2>2. ASSUME NEW h \in Handles, NEW u \in Threads, IsUncounted(u, h), u # t
          PROVE h \notin objects
      <3>1. Makes(u, h) /\ ~Makes(t, h)
        BY <1>0, <2>2 DEF MadeOnce, IsUncounted
      <3>2. QED
        BY <1>1, <3>1 DEF Makes
    <2>3. \A h \in Handles : IsUncounted(t, h) => h \in objects
      BY DEF IsUncounted, Makes
    <2>4. ASSUME NEW h \in Handles PROVE h \in Uncounted' <=> h \in Uncounted \ objects
      BY <1>4, <2>1, <2>2, <2>3 DEF Uncounted
    <2>5. QED
      BY <2>4 DEF Uncounted
  <1>9. Pending("retain")' = Pending("retain") /\ Pending("release")' = Pending("release")
    <2>1. \A role \in {"retain", "release"} : ~IsPending(t, role) /\ ~IsPending(t, role)'
      <3>1. call[t].role \notin {"retain", "release"}
        BY <1>1 DEF Creators
      <3>2. call'[t].role \notin {"retain", "release"}
        BY <1>3, <3>1, NoCallIsIdle DEF Changes
      <3>3. QED
        BY <3>1, <3>2 DEF IsPending
    <2>2. QED
      BY <1>4, <2>1 DEF Pending
  <1> HIDE DEF objects
  <1>10. /\ IsFiniteSet(Uncounted)
         /\ Cardinality(Uncounted \ objects) = Cardinality(Uncounted) - Cardinality(objects)
    <2>1. IsFiniteSet(Uncounted)
      BY <1>0, CountedTypes
    <2>2. Uncounted \cap objects = objects
      BY <1>7
    <2>3. QED
      BY <2>1, <2>2, FS_Difference
  <1>11. References' = References
    BY <1>1, SameReferences
  <1>12. Cardinality(Uncounted') = Cardinality(Uncounted) - Cardinality(objects)
    BY <1>8, <1>10
  <1>13. QED
    <2>1. IsFiniteSet(References')
      BY <1>0, <1>11 DEF CountsAgree
    <2>2. ASSUME kind # "accelerator"
          PROVE NumAllocations' + NumRetains' - NumReleases' + Cardinality(Uncounted')
                    + Cardinality(Pending("retain")') - Cardinality(Pending("release")')
                = Cardinality(References') + refusals'
      <3>1. NumAllocations + NumRetains - NumReleases + Cardinality(Uncounted)
                + Cardinality(Pending("retain")) - Cardinality(Pending("release"))
            = Cardinality(References) + refusals
        BY <1>0, <2>2 DEF CountsAgree
      <3>2. QED
        BY <1>0, <1>1, <1>5, <1>9, <1>11, <1>12, <3>1, CountedTypes
    <2>3. QED
      BY <1>1, <2>1, <2>2 DEF CountsAgree

\* A retain or a release is counted: one the driver has carried out is no longer
\* to come, one it has refused makes the counters differ from the references.
LEMMA AddedCallCounts ==
    ASSUME CountsInv, NEW t \in Threads, NEW role \in {"retain", "release"},
           At(t, IF role = "retain" THEN "retained" ELSE "released"), After(t, call[t]),
           kind' = kind
    PROVE /\ Uncounted' = Uncounted
          /\ \A r \in {"retain", "release"} : r # role => Pending(r)' = Pending(r)
          /\ Cardinality(Pending(role)') = Cardinality(Pending(role)) - (1 - Refusal(t))
          /\ Refusal(t) \in {0, 1}
  <1>0. CallsAreFollowed /\ StateTyped /\ CountsAgree
    BY DEF CountsInv, MapsInv
  <1>1. /\ ~Idle(t) /\ NextStep(t) = CountsAs(role, kind) /\ NextStep(t) \in ToCome(t)
        /\ call[t].role = role
    <2>1. CASE role = "retain"
      BY <1>0, <2>1, AtStep DEF CountsAs
    <2>2. CASE role = "release"
      BY <1>0, <2>2, AtStep DEF CountsAs
    <2>3. QED
      BY <2>1, <2>2
  <1>2. call[t] \in Locals /\ Orderly(t)
    BY <1>0, <1>1, NotIdle
  <1>3. /\ Changes(t, call[t]) /\ ToCome(t)' = ToCome(t) \ {NextStep(t)}
        /\ call'[t] = NoCall => ToCome(t)' = {}
    BY <1>0, <1>1, <1>2, AfterChanges
  <1>4. \A u \in Threads : u # t =>
             /\ \A h \in Handles : IsUncounted(u, h)' <=> IsUncounted(u, h)
             /\ \A r : IsPending(u, r)' <=> IsPending(u, r)
    BY <1>3, OthersCount DEF Changes
  <1>5. call[t].role \notin Creators /\ call'[t].role \notin Creators
    <2>1. "use" \notin Creators /\ role \notin Creators
      BY DEF Creators
    <2>2. QED
      BY <1>1, <1>3, <2>1, NoCallIsIdle DEF Changes
  <1>6. Uncounted' = Uncounted
    <2>1. \A h \in Handles : ~IsUncounted(t, h) /\ ~IsUncounted(t, h)'
      BY <1>5 DEF IsUncounted, Makes
    <2>2. QED
      BY <1>4, <2>1 DEF Uncounted
  <1>7. ASSUME NEW r \in {"retain", "release"}, r # role PROVE Pending(r)' = Pending(r)
    <2>1. ~IsPending(t, r) /\ ~IsPending(t, r)'
      BY <1>1, <1>3, <1>7, NoCallIsIdle DEF IsPending, Changes
    <2>2. QED
      BY <1>4, <2>1 DEF Pending
  <1>8. Dispatch \notin ToCome(t)
    BY <1>1, <1>2 DEF Orderly
  <1>9. ~IsPending(t, role)'
    BY <1>1, <1>3 DEF IsPending
  <1>10. IsFiniteSet(Pending(role)) /\ Cardinality(Pending(role)) \in Nat
    <2>1. Pending(role) \in SUBSET Threads
      BY DEF Pending
    <2>2. QED
      BY <2>1, TrackingBoundsAssumption, FS_Subset, FS_CardinalityType
  <1>11. CASE call[t].failed
    <2>1. ~IsPending(t, role) /\ Refusal(t) = 1
      BY <1>11 DEF IsPending, Refusal
    <2>2. Pending(role)' = Pending(role)
      BY <1>4, <1>9, <2>1 DEF Pending
    <2>3. QED
      BY <1>6, <1>7, <1>10, <2>1, <2>2
  <1>12. CASE ~call[t].failed
    <2>1. IsPending(t, role) /\ Refusal(t) = 0
      BY <1>1, <1>8, <1>12 DEF IsPending, Refusal
    <2>2. Pending(role)' = Pending(role) \ {t} /\ t \in Pending(role)
      BY <1>4, <1>9, <2>1 DEF Pending
    <2>3. Cardinality(Pending(role) \ {t}) = Cardinality(Pending(role)) - 1
      BY <1>10, <2>2, RemovedElement
    <2>4. QED
      BY <1>6, <1>7, <1>10, <2>1, <2>2, <2>3
  <1>13. QED
    BY <1>11, <1>12

LEMMA AddRetainCounts ==
    ASSUME CountsInv, NEW t \in Threads, AddRetain(t)
    PROVE CountsAgree'
  <1>0. StateTyped /\ CountsAgree
    BY DEF CountsInv, MapsInv
  <1>1. /\ At(t, "retained") /\ After(t, call[t]) /\ kind' = kind /\ appRefs' = appRefs
        /\ NumRetains' = NumRetains + 1 /\ refusals' = refusals + Refusal(t)
        /\ NumAllocations' = NumAllocations /\ NumReleases' = NumReleases
    BY DEF AddRetain
  <1>2. /\ Uncounted' = Uncounted /\ Pending("release")' = Pending("release")
        /\ Cardinality(Pending("retain")') = Cardinality(Pending("retain")) - (1 - Refusal(t))
        /\ Refusal(t) \in {0, 1}
    BY <1>1, AddedCallCounts
  <1>3. References' = References
    BY <1>1, SameReferences
  <1>4. IsFiniteSet(References')
    BY <1>0, <1>3 DEF CountsAgree
  <1>5. ASSUME kind # "accelerator"
        PROVE NumAllocations' + NumRetains' - NumReleases' + Cardinality(Uncounted')
                  + Cardinality(Pending("retain")') - Cardinality(Pending("release")')
              = Cardinality(References') + refusals'
    <2>1. NumAllocations + NumRetains - NumReleases + Cardinality(Uncounted)
              + Cardinality(Pending("retain")) - Cardinality(Pending("release"))
          = Cardinality(References) + refusals
      BY <1>0, <1>5 DEF CountsAgree
    <2>2. QED
      BY <1>0, <1>1, <1>2, <1>3, <2>1, CountedTypes
  <1>6. QED
    BY <1>1, <1>4, <1>5 DEF CountsAgree

LEMMA AddReleaseCounts ==
    ASSUME CountsInv, NEW t \in Threads, AddRelease(t)
    PROVE CountsAgree'
  <1>0. StateTyped /\ CountsAgree
    BY DEF CountsInv, MapsInv
  <1>1. /\ At(t, "released") /\ After(t, call[t]) /\ kind' = kind /\ appRefs' = appRefs
        /\ NumReleases' = NumReleases + 1 /\ refusals' = refusals - Refusal(t)
        /\ NumAllocations' = NumAllocations /\ NumRetains' = NumRetains
    BY DEF AddRelease
  <1>2. /\ Uncounted' = Uncounted /\ Pending("retain")' = Pending("retain")
        /\ Cardinality(Pending("release")') = Cardinality(Pending("release")) - (1 - Refusal(t))
        /\ Refusal(t) \in {0, 1}
    BY <1>1, AddedCallCounts
  <1>3. References' = References
    BY <1>1, SameReferences
  <1>4. IsFiniteSet(References')
    BY <1>0, <1>3 DEF CountsAgree
  <1>5. ASSUME kind # "accelerator"
        PROVE NumAllocations' + NumRetains' - NumReleases' + Cardinality(Uncounted')
                  + Cardinality(Pending("retain")') - Cardinality(Pending("release")')
              = Cardinality(References') + refusals'
    <2>1. NumAllocations + NumRetains - NumReleases + Cardinality(Uncounted)
              + Cardinality(Pending("retain")) - Cardinality(Pending("release"))
          = Cardinality(References) + refusals
      BY <1>0, <1>5 DEF CountsAgree
    <2>2. QED
      BY <1>0, <1>1, <1>2, <1>3, <2>1, CountedTypes
  <1>6. QED
    BY <1>1, <1>4, <1>5 DEF CountsAgree

\* A call the driver carries out is to be counted; the references go up or down
\* by the one it took or gave up.
LEMMA DispatchedCall ==
    ASSUME CountsInv, NEW t \in Threads, NEW role \in {"retain", "release"}, NEW c \in Locals,
           At(t, "dispatch"), call[t].role = role, kind' = kind, After(t, c),
           c.role = call[t].role, c.todo = call[t].todo, c.failed = call[t].failed
    PROVE /\ Uncounted' = Uncounted
          /\ \A r \in {"retain", "release"} : r # role => Pending(r)' = Pending(r)
          /\ kind # "accelerator" =>
                Cardinality(Pending(role)') = Cardinality(Pending(role)) + 1
  <1>0. CallsAreFollowed /\ StateTyped
    BY DEF CountsInv, MapsInv
  <1>1. ~Idle(t) /\ NextStep(t) = Dispatch /\ NextStep(t) \in ToCome(t)
    BY <1>0, AtStep
  <1>2. Orderly(t) /\ Working(t)
    BY <1>0, <1>1, NotIdle
  <1>3. /\ Changes(t, c) /\ ToCome(t)' = ToCome(t) \ {NextStep(t)}
        /\ call'[t] = NoCall => ToCome(t)' = {}
    BY <1>0, <1>1, AfterChanges
  <1>4. \A u \in Threads : u # t =>
             /\ \A h \in Handles : IsUncounted(u, h)' <=> IsUncounted(u, h)
             /\ \A r : IsPending(u, r)' <=> IsPending(u, r)
    BY <1>3, OthersCount DEF Changes
  <1>5. call[t].role \notin Creators /\ call'[t].role \notin Creators
    <2>1. "use" \notin Creators /\ role \notin Creators
      BY DEF Creators
    <2>2. QED
      BY <1>3, <2>1, NoCallIsIdle DEF Changes
  <1>6. Uncounted' = Uncounted
    <2>1. \A h \in Handles : ~IsUncounted(t, h) /\ ~IsUncounted(t, h)'
      BY <1>5 DEF IsUncounted, Makes
    <2>2. QED
      BY <1>4, <2>1 DEF Uncounted
  <1>7. ASSUME NEW r \in {"retain", "release"}, r # role PROVE Pending(r)' = Pending(r)
    <2>1. ~IsPending(t, r) /\ ~IsPending(t, r)'
      BY <1>3, <1>7, NoCallIsIdle DEF IsPending, Changes
    <2>2. QED
      BY <1>4, <2>1 DEF Pending
  <1>8. ASSUME kind # "accelerator"
        PROVE Cardinality(Pending(role)') = Cardinality(Pending(role)) + 1
    <2>1. CountsAs(role, kind) \in ToCome(t)
      BY <1>1, <1>2, <1>8 DEF Orderly
    <2>2. CountsAs(role, kind) \in {Retained(kind), Released(kind)}
      BY DEF CountsAs
    <2>3. CountsAs(role, kind) \in ToCome(t)' /\ Dispatch \notin ToCome(t)'
      BY <1>1, <1>3, <2>1, <2>2, StepsDiffer
    <2>4. call'[t] # NoCall /\ ~call[t].failed
      BY <1>1, <1>2, <1>3, <2>3 DEF Working
    <2>5. IsPending(t, role)' /\ ~IsPending(t, role)
      BY <1>1, <1>3, <2>3, <2>4 DEF IsPending, Changes
    <2>6. Pending(role)' = Pending(role) \cup {t} /\ t \notin Pending(role)
      BY <1>4, <2>5 DEF Pending
    <2>7. IsFiniteSet(Pending(role))
      <3>1. Pending(role) \in SUBSET Threads
        BY DEF Pending
      <3>2. QED
        BY <3>1, TrackingBoundsAssumption, FS_Subset
    <2>8. QED
      BY <2>6, <2>7, AddedElement
  <1>9. QED
    BY <1>6, <1>7, <1>8

LEMMA OneReferenceMore ==
    ASSUME StateTyped, NEW h \in Handles, appRefs' = [appRefs EXCEPT ![h] = @ + 1],
           IsFiniteSet(References)
    PROVE IsFiniteSet(References') /\ Cardinality(References') = Cardinality(References) + 1
  <1>1. appRefs \in [Handles -> Nat]
    BY DEF StateTyped
  <1> DEFINE x == <<h, appRefs[h] + 1>>
  <1>2. \A g \in Handles : appRefs'[g] = IF g = h THEN appRefs[h] + 1 ELSE appRefs[g]
    BY <1>1
  <1>3. 1 .. (appRefs[h] + 1) = (1 .. appRefs[h]) \cup {appRefs[h] + 1}
    BY <1>1
  <1>4. x \notin References
    BY <1>1, ReferencesAre
  <1>5. References' = References \cup {x}
    <2>1. ASSUME NEW y PROVE y \in References' <=> y \in References \cup {x}
      <3>1. y \in References' <=> \E g \in Handles : \E i \in 1 .. appRefs'[g] : y = <<g, i>>
        BY DEF References
      <3>2. y \in References' <=>
               \/ \E i \in 1 .. (appRefs[h] + 1) : y = <<h, i>>
               \/ \E g \in Handles : g # h /\ \E i \in 1 .. appRefs[g] : y = <<g, i>>
        BY <1>2, <3>1
      <3>3. y \in References <=>
               \/ \E i \in 1 .. appRefs[h] : y = <<h, i>>
               \/ \E g \in Handles : g # h /\ \E i \in 1 .. appRefs[g] : y = <<g, i>>
        BY ReferencesAre
      <3>4. (\E i \in 1 .. (appRefs[h] + 1) : y = <<h, i>>) <=>
               (\E i \in 1 .. appRefs[h] : y = <<h, i>>) \/ y = x
        BY <1>3
      <3>5. QED
        BY <3>2, <3>3, <3>4
    <2>2. QED
      BY <2>1
  <1> HIDE DEF x
  <1>6. QED
    BY <1>4, <1>5, AddedElement

LEMMA OneReferenceLess ==
    ASSUME StateTyped, NEW h \in Handles, appRefs' = [appRefs EXCEPT ![h] = @ - 1],
           appRefs[h] > 0, IsFiniteSet(References)
    PROVE IsFiniteSet(References') /\ Cardinality(References') = Cardinality(References) - 1
  <1>1. appRefs \in [Handles -> Nat]
    BY DEF StateTyped
  <1> DEFINE x == <<h, appRefs[h]>>
  <1>2. \A g \in Handles : appRefs'[g] = IF g = h THEN appRefs[h] - 1 ELSE appRefs[g]
    BY <1>1
  <1>3. 1 .. (appRefs[h] - 1) = (1 .. appRefs[h]) \ {appRefs[h]}
    BY <1>1
  <1>4. x \in References
    <2>1. appRefs[h] \in 1 .. appRefs[h]
      BY <1>1
    <2>2. QED
      BY <2>1, ReferencesAre
  <1>5. References' = References \ {x}
    <2>1. ASSUME NEW y PROVE y \in References' <=> y \in References \ {x}
      <3>1. y \in References' <=> \E g \in Handles : \E i \in 1 .. appRefs'[g] : y = <<g, i>>
        BY DEF References
      <3>2. y \in References' <=>
               \/ \E i \in 1 .. (appRefs[h] - 1) : y = <<h, i>>
               \/ \E g \in Handles : g # h /\ \E i \in 1 .. appRefs[g] : y = <<g, i>>
        BY <1>2, <3>1
      <3>3. y \in References <=>
               \/ \E i \in 1 .. appRefs[h] : y = <<h, i>>
               \/ \E g \in Handles : g # h /\ \E i \in 1 .. appRefs[g] : y = <<g, i>>
        BY ReferencesAre
      <3>4. (\E i \in 1 .. (appRefs[h] - 1) : y = <<h, i>>) <=>
               (\E i \in 1 .. appRefs[h] : y = <<h, i>>) /\ y # x
        BY <1>3
      <3>5. \A g : \A i : g # h => <<g, i>> # x
        OBVIOUS
      <3>6. QED
        BY <3>2, <3>3, <3>4, <3>5
    <2>2. QED
      BY <2>1
  <1> HIDE DEF x
  <1>6. QED
    BY <1>4, <1>5, RemovedElement

LEMMA DispatchRetainCounts ==
    ASSUME CountsInv, NEW t \in Threads, At(t, "dispatch"), DispatchRetain(t),
           UNCHANGED <<kind, counters, maps>>
    PROVE CountsAgree'
  <1>0. CallsAreFollowed /\ StateTyped /\ CountsAgree
    BY DEF CountsInv, MapsInv
  <1>1. PICK h \in call[t].objects : appRefs' = [appRefs EXCEPT ![h] = @ + 1]
    BY DEF DispatchRetain
  <1>2. /\ call[t].role = "retain" /\ After(t, call[t]) /\ kind' = kind /\ refusals' = refusals
        /\ NumAllocations' = NumAllocations /\ NumRetains' = NumRetains
        /\ NumReleases' = NumReleases
    BY DEF DispatchRetain, history, counters
  <1>3. h \in Handles
    BY <1>0, UsersHave
  <1>4. call[t] \in Locals
    BY <1>0 DEF CallsAreFollowed
  <1>5. /\ Uncounted' = Uncounted /\ Pending("release")' = Pending("release")
        /\ kind # "accelerator" =>
              Cardinality(Pending("retain")') = Cardinality(Pending("retain")) + 1
    BY <1>2, <1>4, DispatchedCall
  <1>6. IsFiniteSet(References') /\ Cardinality(References') = Cardinality(References) + 1
    BY <1>0, <1>1, <1>3, OneReferenceMore DEF CountsAgree
  <1>7. ASSUME kind # "accelerator"
        PROVE NumAllocations' + NumRetains' - NumReleases' + Cardinality(Uncounted')
                  + Cardinality(Pending("retain")') - Cardinality(Pending("release")')
              = Cardinality(References') + refusals'
    <2>1. NumAllocations + NumRetains - NumReleases + Cardinality(Uncounted)
              + Cardinality(Pending("retain")) - Cardinality(Pending("release"))
          = Cardinality(References) + refusals
      BY <1>0, <1>7 DEF CountsAgree
    <2>2. QED
      BY <1>0, <1>2, <1>5, <1>6, <1>7, <2>1, CountedTypes
  <1>8. QED
    BY <1>2, <1>6, <1>7 DEF CountsAgree

LEMMA DispatchReleaseCounts ==
    ASSUME CountsInv, NEW t \in Threads, At(t, "dispatch"), DispatchRelease(t),
           UNCHANGED <<kind, counters, maps>>
    PROVE CountsAgree'
  <1> DEFINE c == [call[t] EXCEPT !.spent = TRUE]
  <1>0. CallsAreFollowed /\ StateTyped /\ CountsAgree /\ ClaimsAreOwned /\ MadeOnce
    BY DEF CountsInv, MapsInv
  <1>1. PICK h \in call[t].objects : appRefs' = [appRefs EXCEPT ![h] = @ - 1]
    BY DEF DispatchRelease
  <1>2. /\ call[t].role = "release" /\ After(t, c) /\ kind' = kind /\ refusals' = refusals
        /\ NumAllocations' = NumAllocations /\ NumRetains' = NumRetains
        /\ NumReleases' = NumReleases
    BY DEF DispatchRelease, history, counters
  <1>3. h \in Handles /\ Has(t, h)
    <2>1. Dispatch \in ToCome(t)
      BY <1>0, AtStep
    <2>2. QED
      BY <1>0, <2>1, UsersHave
  <1>4. /\ c \in Locals /\ c.role = call[t].role /\ c.todo = call[t].todo
        /\ c.failed = call[t].failed
    <2>1. call[t] \in Locals
      BY <1>0 DEF CallsAreFollowed
    <2>2. QED
      BY <2>1 DEF Locals
  <1> HIDE DEF c
  <1>5. /\ Uncounted' = Uncounted /\ Pending("retain")' = Pending("retain")
        /\ kind # "accelerator" =>
              Cardinality(Pending("release")') = Cardinality(Pending("release")) + 1
    BY <1>2, <1>4, DispatchedCall
  <1>6. appRefs[h] > 0
    <2>1. ~IsLocal(t, h)
      <3>1. Dispatch \in ToCome(t)
        BY <1>0, AtStep
      <3>2. QED
        BY <1>0, <3>1, UsersHave
    <2>2. appRefs[h] >= 1
      BY <1>0, <1>3, <2>1, ClaimIsOwned
    <2>3. appRefs[h] \in Nat
      BY <1>0, <1>3 DEF StateTyped
    <2>4. QED
      BY <2>2, <2>3
  <1>7. IsFiniteSet(References') /\ Cardinality(References') = Cardinality(References) - 1
    BY <1>0, <1>1, <1>3, <1>6, OneReferenceLess DEF CountsAgree
  <1>8. ASSUME kind # "accelerator"
        PROVE NumAllocations' + NumRetains' - NumReleases' + Cardinality(Uncounted')
                  + Cardinality(Pending("retain")') - Cardinality(Pending("release")')
              = Cardinality(References') + refusals'
    <2>1. NumAllocations + NumRetains - NumReleases + Cardinality(Uncounted)
              + Cardinality(Pending("retain")) - Cardinality(Pending("release"))
          = Cardinality(References) + refusals
      BY <1>0, <1>8 DEF CountsAgree
    <2>2. QED
      BY <1>0, <1>2, <1>5, <1>7, <1>8, <2>1, CountedTypes
  <1>9. QED
    BY <1>2, <1>7, <1>8 DEF CountsAgree

\* The new objects of the application: one reference to each, none of them counted.
LEMMA CreatesCounts ==
    ASSUME CountsInv, NEW t \in Threads, At(t, "dispatch"), call[t].role \in Creators,
           NEW objects \in SUBSET {h \in Handles : Free(h)}, NEW given \in BOOLEAN,
           objects # {} => (given <=> call[t].wanted),
           Creates(t, objects, given), UNCHANGED <<kind, counters, maps>>
    PROVE CountsAgree'
  <1> DEFINE c == [call[t] EXCEPT !.objects = objects]
             new == IF given THEN objects ELSE {}
  <1>0. CallsAreFollowed /\ StateTyped /\ CountsAgree /\ RefsAreOwned
    BY DEF CountsInv, MapsInv
  <1>1. /\ ~Idle(t) /\ NextStep(t) = Dispatch /\ NextStep(t) \in ToCome(t)
    BY <1>0, AtStep
  <1>2. Working(t) /\ Orderly(t) /\ call[t] \in Locals
    BY <1>0, <1>1, NotIdle
  <1>3. /\ appRefs' = [h \in Handles |-> IF h \in objects /\ given THEN 1 ELSE appRefs[h]]
        /\ refusals' = refusals /\ kind' = kind
        /\ NumAllocations' = NumAllocations /\ NumRetains' = NumRetains
        /\ NumReleases' = NumReleases /\ After(t, c)
    BY DEF Creates, counters
  <1>4. /\ c \in Locals /\ c.role = call[t].role /\ c.todo = call[t].todo
        /\ c.objects = objects /\ c.wanted = call[t].wanted
    <2>1. objects \in SUBSET Handles
      OBVIOUS
    <2>2. QED
      BY <1>2, <2>1 DEF Locals
  <1> HIDE DEF c
  <1>5. /\ Changes(t, c) /\ ToCome(t)' = ToCome(t) \ {NextStep(t)}
        /\ call'[t] = NoCall => ToCome(t)' = {}
    BY <1>0, <1>1, <1>3, <1>4, AfterChanges
  <1>6. \A u \in Threads : u # t =>
             /\ \A h \in Handles : IsUncounted(u, h)' <=> IsUncounted(u, h)
             /\ \A role : IsPending(u, role)' <=> IsPending(u, role)
    BY <1>3, <1>5, OthersCount DEF Changes
  <1>7. call[t].objects = {}
    BY <1>1, <1>2 DEF Working
  <1>8. Pending("retain")' = Pending("retain") /\ Pending("release")' = Pending("release")
    <2>1. \A role \in {"retain", "release"} : ~IsPending(t, role) /\ ~IsPending(t, role)'
      <3>1. call[t].role \notin {"retain", "release"}
        BY DEF Creators
      <3>2. call'[t].role \notin {"retain", "release"}
        BY <1>5, <3>1, NoCallIsIdle DEF Changes
      <3>3. QED
        BY <3>1, <3>2 DEF IsPending
    <2>2. QED
      BY <1>6, <2>1 DEF Pending
  <1>9. new \subseteq Handles /\ IsFiniteSet(new) /\ Cardinality(new) \in Nat
    <2>1. new \in SUBSET Handles
      OBVIOUS
    <2>2. QED
      BY <2>1, TrackingBoundsAssumption, FS_Subset, FS_CardinalityType
  <1>10. \A h \in new : appRefs[h] = 0
    <2>1. ASSUME NEW h \in new PROVE appRefs[h] = 0
      <3>1. h \in Handles /\ refs[h] = 0
        BY <2>1 DEF Free
      <3>2. appRefs[h] \in Nat
        BY <1>0, <3>1 DEF StateTyped
      <3>3. refs[h] = appRefs[h] + (IF h \in timing THEN 1 ELSE 0)
                                 + (IF LocalTo(h) THEN 1 ELSE 0)
        BY <1>0, <3>1 DEF RefsAreOwned
      <3>4. QED
        BY <3>1, <3>2, <3>3
    <2>2. QED
      BY <2>1
  <1>11. \A h \in Handles : appRefs'[h] = IF h \in new THEN 1 ELSE appRefs[h]
    BY <1>3
  <1>12. References' = References \cup (new \X {1}) /\ References \cap (new \X {1}) = {}
    <2>1. ASSUME NEW y PROVE y \in References' <=> y \in References \cup (new \X {1})
      <3>1. y \in References' <=> \E g \in Handles : \E i \in 1 .. appRefs'[g] : y = <<g, i>>
        BY DEF References
      <3>2. y \in References <=> \E g \in Handles : \E i \in 1 .. appRefs[g] : y = <<g, i>>
        BY ReferencesAre
      <3>3. \A g \in new : appRefs'[g] = 1 /\ appRefs[g] = 0
        BY <1>9, <1>10, <1>11
      <3>4. \A g \in new : 1 .. appRefs'[g] = {1} /\ 1 .. appRefs[g] = {}
        BY <3>3
      <3>5. \A g \in Handles \ new : appRefs'[g] = appRefs[g]
        BY <1>11
      <3>6. y \in new \X {1} <=> \E g \in new : y = <<g, 1>>
        OBVIOUS
      <3>7. QED
        BY <1>9, <3>1, <3>2, <3>4, <3>5, <3>6
    <2>2. ASSUME NEW y \in References, y \in new \X {1} PROVE FALSE
      <3>1. PICK g \in Handles : \E i \in 1 .. appRefs[g] : y = <<g, i>>
        BY <2>2, ReferencesAre
      <3>2. g \in new
        BY <2>2, <3>1
      <3>3. QED
        BY <1>10, <3>1, <3>2
    <2>3. QED
      BY <2>1, <2>2
  <1>13. IsFiniteSet(References') /\ Cardinality(References') = Cardinality(References) + Cardinality(new)
    <2>1. IsFiniteSet(References) /\ Cardinality(References) \in Nat
      BY <1>0, CountedTypes
    <2>2. IsFiniteSet({1}) /\ Cardinality({1}) = 1
      BY FS_Singleton
    <2>3. IsFiniteSet(new \X {1}) /\ Cardinality(new \X {1}) = Cardinality(new) * Cardinality({1})
      BY <1>9, <2>2, FS_Product
    <2>4. Cardinality(new \X {1}) = Cardinality(new)
      BY <1>9, <2>2, <2>3
    <2>5. Cardinality(References \cap (new \X {1})) = 0
      BY <1>12, FS_EmptySet
    <2>6. /\ IsFiniteSet(References \cup (new \X {1}))
          /\ Cardinality(References \cup (new \X {1}))
               = Cardinality(References) + Cardinality(new \X {1})
                   - Cardinality(References \cap (new \X {1}))
      BY <2>1, <2>3, FS_Union
    <2>7. QED
      BY <1>9, <1>12, <2>1, <2>4, <2>5, <2>6
  <1>14. \A h \in Handles : ~IsUncounted(t, h)
    BY <1>7 DEF IsUncounted, Makes
  <1>15. ASSUME kind # "accelerator"
         PROVE /\ Uncounted' = Uncounted \cup new /\ Uncounted \cap new = {}
    <2>1. Allocation(kind) \in ToCome(t)'
      <3>1. CountsAs(call[t].role, kind) = Allocation(kind)
        BY DEF CountsAs, Creators
      <3>2. "use" \notin Creators
        BY DEF Creators
      <3>3. Allocation(kind) \in ToCome(t)
        BY <1>1, <1>2, <1>15, <3>1, <3>2 DEF Orderly
      <3>4. QED
        BY <1>1, <1>5, <3>3, StepsDiffer
    <2>2. call'[t] # NoCall
      BY <1>5, <2>1
    <2>3. /\ call'[t].role = call[t].role /\ call'[t].objects = objects
          /\ call'[t].wanted = call[t].wanted
      BY <1>4, <1>5, <2>2 DEF Changes
    <2>4. \A h \in Handles : IsUncounted(t, h)' <=> h \in new
      BY <2>1, <2>3 DEF IsUncounted, Makes
    <2>5. \A h \in Handles : h \in Uncounted' <=> h \in Uncounted \cup new
      BY <1>6, <1>9, <1>14, <2>4 DEF Uncounted
    <2>6. Uncounted' = Uncounted \cup new
      BY <1>9, <2>5 DEF Uncounted
    <2>7. ASSUME NEW h \in new, NEW u \in Threads, IsUncounted(u, h) PROVE FALSE
      <3>1. h \in Handles /\ h \in call[u].objects /\ call[u].wanted /\ call[u].role \in Creators
        BY <1>9, <2>7 DEF IsUncounted, Makes
      <3>2. refs[h] = 0
        BY <2>7 DEF Free
      <3>3. Has(u, h) /\ ~IsLocal(u, h)
        BY <1>0, <3>1, UsersHave DEF IsLocal
      <3>4. appRefs[h] >= 1
        BY <1>0, <3>1, <3>3, ClaimIsOwned DEF CountsInv, MapsInv
      <3>5. QED
        BY <1>10, <2>7, <3>4
    <2>8. QED
      BY <2>6, <2>7 DEF Uncounted
  <1> HIDE DEF new
  <1>16. ASSUME kind # "accelerator"
         PROVE Cardinality(Uncounted') = Cardinality(Uncounted) + Cardinality(new)
    <2>1. IsFiniteSet(Uncounted) /\ Cardinality(Uncounted) \in Nat
      BY <1>0, CountedTypes
    <2>2. Cardinality(Uncounted \cup new)
             = Cardinality(Uncounted) + Cardinality(new) - Cardinality(Uncounted \cap new)
      BY <1>9, <2>1, FS_Union
    <2>3. Cardinality(Uncounted \cap new) = 0
      BY <1>15, <1>16, FS_EmptySet
    <2>4. Cardinality(Uncounted') = Cardinality(Uncounted \cup new)
      BY <1>15, <1>16
    <2>5. QED
      BY <1>9, <2>1, <2>2, <2>3, <2>4
  <1>17. ASSUME kind # "accelerator"
         PROVE NumAllocations' + NumRetains' - NumReleases' + Cardinality(Uncounted')
                   + Cardinality(Pending("retain")') - Cardinality(Pending("release")')
               = Cardinality(References') + refusals'
    <2>1. NumAllocations + NumRetains - NumReleases + Cardinality(Uncounted)
              + Cardinality(Pending("retain")) - Cardinality(Pending("release"))
          = Cardinality(References) + refusals
      BY <1>0, <1>17 DEF CountsAgree
    <2>2. QED
      BY <1>0, <1>3, <1>8, <1>9, <1>13, <1>16, <1>17, <2>1, CountedTypes
  <1>18. QED
    BY <1>3, <1>13, <1>17 DEF CountsAgree

LEMMA DispatchCounts ==
    ASSUME CountsInv, NEW t \in Threads, DispatchSucceeds(t)
    PROVE CountsAgree'
  <1>0. CallsAreFollowed /\ StateTyped
    BY DEF CountsInv, MapsInv
  <1>1. At(t, "dispatch") /\ UNCHANGED <<kind, counters, maps>>
    BY DEF DispatchSucceeds
  <1>2. Working(t)
    BY <1>0, <1>1, AtStep, NotIdle
  <1>3. CASE DispatchCreate(t)
    <2>1. PICK objects \in SUBSET {h \in Handles : Free(h)} : Creates(t, objects, TRUE)
      BY <1>3 DEF DispatchCreate
    <2>2. call[t].role \in Creators /\ call[t].wanted
      BY <1>2, <1>3 DEF DispatchCreate, Creators, Working
    <2>3. QED
      BY <1>1, <2>1, <2>2, CreatesCounts
  <1>4. CASE DispatchEnqueue(t)
    <2>1. call[t].role \in Creators
      BY <1>4 DEF DispatchEnqueue, Creators
    <2>2. CASE call[t].wanted \/ call[t].timed
      <3>1. PICK h \in Handles : Free(h) /\ Creates(t, {h}, call[t].wanted)
        BY <1>4, <2>2 DEF DispatchEnqueue
      <3>2. call[t].wanted \in BOOLEAN /\ {h} \in SUBSET {g \in Handles : Free(g)}
        BY <1>0, <3>1 DEF CallsAreFollowed, Locals
      <3>3. QED
        BY <1>1, <2>1, <3>1, <3>2, CreatesCounts
    <2>3. CASE ~(call[t].wanted \/ call[t].timed)
      <3>1. Creates(t, {}, FALSE)
        BY <1>4, <2>3 DEF DispatchEnqueue
      <3>2. QED
        BY <1>1, <2>1, <3>1, CreatesCounts
    <2>4. QED
      BY <2>2, <2>3
  <1>5. CASE DispatchRetain(t)
    BY <1>1, <1>5, DispatchRetainCounts
  <1>6. CASE DispatchRelease(t)
    BY <1>1, <1>6, DispatchReleaseCounts
  <1>7. CASE DispatchUse(t)
    BY <1>1, <1>7, DispatchUseCounts
  <1>8. QED
    BY <1>3, <1>4, <1>5, <1>6, <1>7 DEF DispatchSucceeds

\* A call that begins has the driver before it, and has made nothing.
LEMMA BeginCounts ==
    ASSUME CountsInv, MapsInv', NEW t \in Threads, Begin(t)
    PROVE CountsAgree'
  <1>0. CallsAreFollowed /\ StateTyped
    BY DEF CountsInv, MapsInv
  <1>1. /\ Idle(t) /\ kind' = kind /\ appRefs' = appRefs /\ refusals' = refusals
        /\ UNCHANGED counters
    BY DEF Begin, history
  <1>2. PICK p \in Programs(kind) :
          \E objects \in IF p.role \in {"retain", "release", "use"}
                         THEN {{h} : h \in {g \in Handles : Spare(g)}}
                         ELSE {{}},
             wanted \in IF p.role = "enqueue" THEN BOOLEAN ELSE {TRUE} :
             call' = [call EXCEPT ![t] =
                        [NoCall EXCEPT !.role = p.role, !.todo = p.steps,
                                       !.objects = objects, !.wanted = wanted]]
    BY DEF Begin
  <1>3. PICK objects, wanted :
             call' = [call EXCEPT ![t] =
                        [NoCall EXCEPT !.role = p.role, !.todo = p.steps,
                                       !.objects = objects, !.wanted = wanted]]
    BY <1>2
  <1>4. /\ call'[t] = [NoCall EXCEPT !.role = p.role, !.todo = p.steps,
                                     !.objects = objects, !.wanted = wanted]
        /\ \A u \in Threads : u # t => call'[u] = call[u]
    BY <1>0, <1>3 DEF CallsAreFollowed
  <1>5. call'[t].todo = p.steps /\ call'[t].role = p.role
    BY <1>4 DEF NoCall
  <1>6. Dispatch \in ToCome(t)'
    <2>1. Takes(p.steps, Dispatch)
      BY ProgramFacts DEF WellOrdered
    <2>2. QED
      BY <1>5, <2>1 DEF Takes, ToCome, Elements
  <1>7. ToCome(t) = {}
    BY <1>1 DEF Idle, ToCome, Elements
  <1>8. \A h \in Handles : ~IsUncounted(t, h) /\ ~IsUncounted(t, h)'
    <2>1. Active(t)'
      BY DEF MapsInv, CallsAreFollowed
    <2>2. call'[t] # NoCall
      BY <1>6, NoCallIsIdle DEF ToCome
    <2>3. Working(t)'
      BY <2>1, <2>2 DEF Active
    <2>4. QED
      BY <1>6, <1>7, <2>3 DEF IsUncounted, Makes, Working
  <1>9. \A role \in {"retain", "release"} : ~IsPending(t, role) /\ ~IsPending(t, role)'
    BY <1>6, <1>7 DEF IsPending
  <1>10. QED
    BY <1>1, <1>4, <1>8, <1>9, UncountedCalls

LEMMA CallsStandStill ==
    ASSUME CountsInv, call' = call, kind' = kind, appRefs' = appRefs, refusals' = refusals,
           UNCHANGED counters
    PROVE CountsAgree'
  <1>1. Uncounted' = Uncounted
    BY DEF Uncounted, IsUncounted, Makes, ToCome
  <1>2. Pending("retain")' = Pending("retain") /\ Pending("release")' = Pending("release")
    BY DEF Pending, IsPending, ToCome
  <1>3. References' = References
    BY SameReferences
  <1>4. QED
    BY <1>1, <1>2, <1>3 DEF CountsInv, CountsAgree, counters

LEMMA InitCounts ==
    ASSUME Init
    PROVE CountsInv
  <1>1. MapsInv
    BY InitMaps
  <1>2. /\ \A t \in Threads : call[t] = NoCall
        /\ \A h \in Handles : appRefs[h] = 0
        /\ NumAllocations = 0 /\ NumRetains = 0 /\ NumReleases = 0 /\ refusals = 0
    BY DEF Init
  <1>3. \A t \in Threads : ToCome(t) = {}
    BY <1>2, NoCallIsIdle DEF ToCome
  <1>4. Uncounted = {} /\ Pending("retain") = {} /\ Pending("release") = {}
    BY <1>3 DEF Uncounted, IsUncounted, Pending, IsPending
  <1>5. References = {}
    <2>1. \A h \in Handles : 1 .. appRefs[h] = {}
      BY <1>2
    <2>2. QED
      BY <2>1 DEF References
  <1>6. CountsAgree
    <2>1. Cardinality({}) = 0 /\ IsFiniteSet({})
      BY FS_EmptySet
    <2>2. /\ Cardinality(Uncounted) = 0 /\ Cardinality(Pending("retain")) = 0
          /\ Cardinality(Pending("release")) = 0 /\ Cardinality(References) = 0
          /\ IsFiniteSet(References)
      BY <1>4, <1>5, <2>1
    <2>3. QED
      BY <1>2, <2>2 DEF CountsAgree
  <1>7. QED
    BY <1>1, <1>6 DEF CountsInv

LEMMA NextCounts ==
    ASSUME CountsInv, [Next]_vars
    PROVE CountsInv'
  <1>0. MapsInv'
    BY NextMaps DEF CountsInv
  <1>1. ASSUME NEW t \in Threads, Begin(t) PROVE CountsAgree'
    BY <1>0, <1>1, BeginCounts
  <1>2. ASSUME NEW t \in Threads, DispatchSucceeds(t) PROVE CountsAgree'
    BY <1>2, DispatchCounts
  <1>3. ASSUME NEW t \in Threads, DispatchFails(t) PROVE CountsAgree'
    BY <1>3, DispatchFailsCounts
  <1>4. ASSUME NEW t \in Threads, AddAllocation(t) PROVE CountsAgree'
    BY <1>4, AddAllocationCounts
  <1>5. ASSUME NEW t \in Threads, AddRetain(t) PROVE CountsAgree'
    BY <1>5, AddRetainCounts
  <1>6. ASSUME NEW t \in Threads, AddRelease(t) PROVE CountsAgree'
    BY <1>6, AddReleaseCounts
  <1>7. ASSUME NEW t \in Threads,
               \/ AddInfo(t) \/ AddQueue(t) \/ AddEventOfRefusedCommand(t)
               \/ CheckRemoveInfo(t) \/ CheckRemoveQueue(t)
        PROVE CountsAgree'
    BY <1>7, MapStepsCount
  <1>8. ASSUME NEW t \in Threads, LookUp(t) PROVE CountsAgree'
    BY <1>8, LookUpCounts
  <1>9. ASSUME NEW t \in Threads, StartTiming(t) \/ EndTiming(t) PROVE CountsAgree'
    BY <1>9, TimingCounts
  <1>10. ASSUME NEW h \in Handles, CheckTimingEvent(h) PROVE CountsAgree'
    BY <1>10, CallsStandStill DEF CheckTimingEvent, history
  <1>11. ASSUME UNCHANGED vars PROVE CountsAgree'
    <2>1. /\ call' = call /\ kind' = kind /\ appRefs' = appRefs
          /\ UNCHANGED counters /\ UNCHANGED history
      BY <1>11 DEF vars
    <2>2. QED
      BY <2>1, CallsStandStill DEF history
  <1>12. ASSUME NEW t \in Threads, Step(t) PROVE CountsAgree'
    BY <1>1, <1>2, <1>3, <1>4, <1>5, <1>6, <1>7, <1>8, <1>9, <1>12 DEF Step
  <1>13. CountsAgree'
    BY <1>10, <1>11, <1>12 DEF Next
  <1>14. QED
    BY <1>0, <1>13 DEF CountsInv

LEMMA CountsInvariant == Spec => []CountsInv
  <1>1. Init => CountsInv
    BY InitCounts
  <1>2. CountsInv /\ [Next]_vars => CountsInv'
    BY NextCounts
  <1>3. QED
    BY <1>1, <1>2, PTL DEF Spec

\* When no call is in progress nothing is left to count.
LEMMA QuietCounts ==
    ASSUME CountsInv, Quiescent, kind # "accelerator"
    PROVE NumAllocations + NumRetains - NumReleases = TotalHeld + refusals
  <1>0. StateTyped /\ CountsAgree
    BY DEF CountsInv, MapsInv
  <1>1. \A t \in Threads : ToCome(t) = {}
    BY DEF Quiescent, Idle, ToCome, Elements
  <1>2. Uncounted = {} /\ Pending("retain") = {} /\ Pending("release") = {}
    BY <1>1 DEF Uncounted, IsUncounted, Pending, IsPending
  <1>3. /\ Cardinality(Uncounted) = 0 /\ Cardinality(Pending("retain")) = 0
        /\ Cardinality(Pending("release")) = 0
    BY <1>2, FS_EmptySet
  <1>4. TotalHeld = Cardinality(References)
    BY DEF TotalHeld, References
  <1>5. NumAllocations + NumRetains - NumReleases + Cardinality(Uncounted)
            + Cardinality(Pending("retain")) - Cardinality(Pending("release"))
        = Cardinality(References) + refusals
    BY <1>0 DEF CountsAgree
  <1>6. QED
    BY <1>0, <1>3, <1>4, <1>5, CountedTypes

\* The report at exit is right: when no call is in progress the counters differ
\* by the references the application holds, give or take the calls that the
\* driver refused and the layer counted.
THEOREM LeakReportAlwaysRight == Spec => []LeakReport
  <1>1. ASSUME CountsInv PROVE LeakReport
    <2>1. SUFFICES ASSUME Quiescent, kind # "accelerator"
          PROVE LET left == TotalHeld + refusals IN
                /\ NumAllocations + NumRetains - NumReleases = left
                /\ ReportHelper = CASE left > 0 -> "Possible leak"
                                    [] left < 0 -> "Unexpected counts"
                                    [] OTHER    -> IF NumAllocations > 0
                                                   THEN "No leaks detected" ELSE "nothing"
      BY DEF LeakReport
    <2> DEFINE left == TotalHeld + refusals
    <2>2. NumAllocations + NumRetains - NumReleases = left
      BY <1>1, <2>1, QuietCounts
    <2>3. /\ NumAllocations \in Nat /\ NumRetains \in Nat /\ NumReleases \in Nat
          /\ TotalHeld \in Nat /\ refusals \in Int
      <3>1. TotalHeld = Cardinality(References)
        BY DEF TotalHeld, References
      <3>2. QED
        BY <1>1, <3>1, CountedTypes DEF CountsInv, MapsInv
    <2>4. left \in Int
      BY <2>3
    <2> HIDE DEF left
    <2>5. /\ left > 0 <=> NumReleases < NumAllocations + NumRetains
          /\ left < 0 <=> NumReleases > NumAllocations + NumRetains
      BY <2>2, <2>3, <2>4
    <2>6. ReportHelper = CASE left > 0 -> "Possible leak"
                           [] left < 0 -> "Unexpected counts"
                           [] OTHER    -> IF NumAllocations > 0
                                          THEN "No leaks detected" ELSE "nothing"
      <3>1. CASE left > 0
        BY <2>4, <2>5, <3>1 DEF ReportHelper
      <3>2. CASE left < 0
        BY <2>4, <2>5, <3>2 DEF ReportHelper
      <3>3. CASE left = 0
        BY <2>3, <2>4, <2>5, <3>3 DEF ReportHelper
      <3>4. left > 0 \/ left < 0 \/ left = 0
        BY <2>4
      <3>5. QED
        BY <3>1, <3>2, <3>3, <3>4
    <2>7. QED
      BY <2>2, <2>6 DEF left
  <1>2. QED
    BY CountsInvariant, <1>1, PTL
=============================================================================
