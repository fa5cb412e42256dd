----------------------------- MODULE MCScheduler -----------------------------
(***************************************************************************)
(* Programs for TLC: small trees of tasks below one top task.              *)
(***************************************************************************)
EXTENDS Scheduler, TLC

Names == {"top", "a", "b", "c", "d", "e", "f"}

aw(t) == <<"await", t>>
st(t) == <<"start", t>>

\* A task that blocks, one that blocks and cannot be interrupted, one that
\* completes without blocking.
Leaf == {Event, Uninterruptable(Event), User(<<>>)}

Tree(top, a, b, c, d, e, f) ==
    "top" :> User(top) @@ "a" :> a @@ "b" :> b @@ "c" :> c @@ "d" :> d @@ "e" :> e @@ "f" :> f

Inner == {User(<<aw("d"), aw("e")>>), AllOf(<<"d", "e">>), AnyOf(<<"d", "e">>)}

\* A combinator of two: leaves, user tasks that await leaves, combinators.
Pairs ==
    {Tree(<<aw("a")>>, a, b, c, d, e, f) :
        a \in {AllOf(<<"b", "c">>), AnyOf(<<"b", "c">>)},
        b \in Leaf \cup Inner, c \in Leaf \cup {User(<<aw("f")>>)},
        d \in Leaf, e \in Leaf, f \in Leaf}

\* A combinator of three.  A child that is a combinator has interruptible
\* children only: see NestedUnsupport for the others.
Triples ==
    {p \in {Tree(<<aw("a")>>, a, b, c, d, e, f) :
              a \in {AllOf(<<"b", "c", "f">>), AnyOf(<<"b", "c", "f">>)},
              b \in Leaf \cup Inner, c \in Leaf, d \in Leaf, e \in Leaf, f \in Leaf} :
        p["b"].kind \in Combinators => ~p["d"].un /\ ~p["e"].un}

\* start(), tasks created as limited, children that are not ready, and tasks
\* awaited or started a second time.  Only a task that runs on its own
\* coroutine calls start(): see StartWhenAwaited for the others.
Starts ==
    {Tree(top, a, b, Event, d, e, f) :
        top \in {<<st("b"), aw("a")>>, <<aw("f"), st("b"), aw("a"), aw("f")>>},
        a \in {AllOf(<<"c", "d">>), AnyOf(<<"c", "d">>), User(<<aw("c"), aw("d")>>)},
        b \in {User(<<st("e"), aw("f")>>), User(<<aw("e")>>), Event},
        d \in {Event, Uninterruptable(Event), Limited(Event)},
        e \in {Event, Limited(Event), User(<<>>)},
        f \in {Event, Limited(Event), Limited(User(<<>>))}}

\* The programs of Triples are structured, so the theorems of SchedulerProofs
\* apply to them.
RankOf == [t \in Names |-> CASE t = "top" -> 3 [] t = "a" -> 2 [] t \in {"b", "c", "f"} -> 1
                             [] OTHER -> 0]
LevelOf(p) == [t \in Names |-> CASE t \in {"top", "a"} -> 0
                                 [] t \in {"d", "e"} /\ p["b"].kind \in Combinators -> 2
                                 [] OTHER -> 1]
ASSUME TriplesStructured == \A p \in Triples : Shaped(p, RankOf, LevelOf(p))

AllPrograms == Pairs \cup Triples \cup Starts

-----------------------------------------------------------------------------
\* A started task awaits d, which calls start() and then awaits an event.
StartWhenAwaited ==
    {Tree(<<st("b"), aw("f")>>, Event, User(<<aw("d")>>), Event, User(<<st("e"), aw("c")>>),
          Event, Event)}

\* An any_of of three, one of them a combinator with an uninterruptable child.
NestedUnsupport ==
    {Tree(<<aw("a")>>, AnyOf(<<"b", "c", "f">>), AnyOf(<<"d", "e">>), Event,
          Uninterruptable(Event), Event, Event)}

\* any_of over any_of over a combinator with an uninterruptable child; another
\* event is awaited afterwards.
NestedCancel ==
    {"g" :> Event @@ Tree(<<aw("a"), aw("g")>>, AnyOf(<<"b", "c">>), AnyOf(<<"d", "e">>), Event,
                          AllOf(<<"f">>), Event, Uninterruptable(Event))}
NamesG == Names \cup {"g"}

\* An all_of whose first child is an all_of that finds a child not ready.
ChildEndsUnready ==
    {Tree(<<aw("a")>>, AllOf(<<"b", "c">>), AllOf(<<"d", "e">>), Event, Event,
          Limited(Event), Event)}
==============================================================================
