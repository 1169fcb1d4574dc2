------------------------------ MODULE ApiTable ------------------------------
(***************************************************************************)
(* What the proofs need to know of the table of handlers in ApiCalls: in   *)
(* which order a handler takes the steps that concern one component.  The  *)
(* formulas have no parameter; TLC evaluates them over the whole table.    *)
(***************************************************************************)
EXTENDS ApiCalls, Naturals

\* A command is counted, may start a capture, reaches the driver, and stops the
\* capture; the migrations do not stop it.
CommandOrders == {<<Count, AubStart, Dispatch, AubStop>>,
                  <<Count, AubStartKernel, Dispatch, AubStop>>,
                  <<Count, AubStart, Dispatch>>}

ASSUME CommandsAreOrdered ==
    {p \in {Project(h, "aub") : h \in Api} : Head(p) = Count} = CommandOrders

-----------------------------------------------------------------------------
(* The steps of a handler that concern the objects of a kind. *)

Creators == {"create", "createMany", "enqueue"}

\* The kinds whose functions are found by the object.
RoutedKinds == {"semaphore", "commandBuffer", "accelerator"}

\* What a handler counts.
CountsAs(role, k) == CASE role = "retain"  -> Retained(k)
                      [] role = "release" -> Released(k)
                      [] OTHER            -> Allocation(k)

StepsOf(role, k) ==
    CASE role = "use"     -> {Route(k), Dispatch}
      [] role = "retain"  -> {Route(k), Dispatch, Retained(k)}
      [] role = "release" -> {Route(k), Remove(k), Dispatch, Released(k)}
      [] role = "enqueue" -> {TimingStart, Dispatch, TimingEnd, Allocation(k), Add(k)}
      [] OTHER            -> {Dispatch, Allocation(k), Add(k)}

Takes(s, x) == \E i \in DOMAIN s : s[i] = x
InOrder(s, x, y) == \A i, j \in DOMAIN s : s[i] = x /\ s[j] = y => i < j

\* Every handler reaches the driver.  It looks its function up before, it
\* counts and enters the object after, each of them once; only the memory of a
\* pointer is forgotten after it has been freed.  The event of a timed command
\* is taken care of.
WellOrdered(s, role, k) ==
    /\ s \in Seq(StepsOf(role, k)) /\ \A i, j \in DOMAIN s : s[i] = s[j] => i = j
    /\ Takes(s, Dispatch) /\ InOrder(s, Route(k), Dispatch)
    /\ role # "use" /\ k # "accelerator" => Takes(s, CountsAs(role, k))
    /\ InOrder(s, Dispatch, CountsAs(role, k)) /\ InOrder(s, Dispatch, Add(k))
    /\ k # "pointer" => InOrder(s, Remove(k), Dispatch)
    /\ InOrder(s, TimingStart, Dispatch) /\ InOrder(s, Dispatch, TimingEnd)
    /\ Takes(s, TimingStart) => Takes(s, TimingEnd)
    /\ InOrder(s, TimingEnd, Allocation(k))
    /\ role = "enqueue" => k = "event"
    /\ k \in RoutedKinds /\ role \in Creators => Takes(s, Add(k))
    /\ k \notin RoutedKinds => ~Takes(s, Route(k))
    /\ role = "release" /\ Takes(s, Route(k)) => Takes(s, Remove(k))
    /\ InOrder(s, Route(k), Remove(k))

ASSUME ObjectsAreOrdered ==
    \A h \in Api : \A k \in DOMAIN h.roles :
        /\ h.roles[k] \in {"use", "retain", "release"} \cup Creators
        /\ WellOrdered(Project(h, k), h.roles[k], k)
=============================================================================
