------------------------------ MODULE Examples ------------------------------
(***************************************************************************)
(* The repository's example programs that use an event loop, as programs   *)
(* for Networks.  The callbacks print, so that only the library calls are  *)
(* left; sleeping is no step.                                              *)
(***************************************************************************)
EXTENDS Networks

CONSTANTS Default, Other,    \* the networks
          signal, other,     \* an event's signals, one per network
          t1, t2, t3, t4     \* tasks: t3 on Other, the rest on Default

ExampleHome == t1 :> Default @@ t2 :> Default @@ t3 :> Other @@ t4 :> Default

Do(op, arg) == [op |-> op, arg |-> arg]

Program(main, first, second, third, fourth) ==
  Main :> main @@ t1 :> first @@ t2 :> second @@ t3 :> third @@ t4 :> fourth

\* example/events.cpp: three subscriptions, and a publication on each network.
EventsExample ==
  Program(<<Do("use", signal), Do("use", signal), Do("use", other),
            Do("post", t1), Do("post", t3)>>,
          <<Do("emit", signal)>>, <<>>, <<Do("emit", other)>>, <<>>)

\* example/expect.cpp: a task expects the event twice, publishes it, waits for
\* it, and publishes it again.
ExpectExample ==
  Program(<<Do("post", t1)>>,
          <<Do("expect", signal), Do("expect", signal), Do("post", t2),
            Do("hear", signal), Do("post", t4)>>,
          <<Do("emit", signal)>>, <<>>, <<Do("emit", signal)>>)
=============================================================================
