----------------------------- MODULE MCNetworks -----------------------------
(***************************************************************************)
(* Networks on two networks: the example programs, and all programs made   *)
(* of short scripts in which a future is waited for by the actor that got  *)
(* it and no task is posted twice.                                         *)
(***************************************************************************)
EXTENDS Examples

Scripts(ops, k) == UNION {[1..i -> ops] : i \in 0..k}

After(script, first, second) ==
  \A j \in DOMAIN script :
    script[j] = second => \E i \in 1..j - 1 : script[i] = first

PostsOf(script) == {j \in DOMAIN script : script[j].op = "post"}

Sensible(script) ==
  /\ \A t \in Tasks : After(script, Do("post", t), Do("get", t))
  /\ \A s \in Registries : After(script, Do("expect", s), Do("hear", s))
  /\ \A i, j \in PostsOf(script) : i # j => script[i] # script[j]

PostedBy(script) == {script[j].arg : j \in PostsOf(script)}

MainScripts ==
  {s \in Scripts({Do("use", signal), Do("post", t1), Do("post", t3),
                  Do("get", t1), Do("stop", Default)}, 3) : Sensible(s)}

FirstScripts ==
  {s \in Scripts({Do("use", signal), Do("post", t2), Do("post", t3), Do("get", t2),
                  Do("get", t3), Do("expect", signal), Do("hear", signal),
                  Do("exit", None)}, 2) : Sensible(s)}

ThirdScripts ==
  {<<>>, <<Do("emit", signal)>>, <<Do("post", t2)>>, <<Do("post", t2), Do("get", t2)>>}

SmallPrograms ==
  UNION {
    {Program(m, f, <<Do("emit", signal)>>, t, <<>>) :
       t \in {t \in ThirdScripts : PostedBy(t) \cap PostedBy(f) = {}}} :
    <<m, f>> \in {mf \in MainScripts \X FirstScripts :
                    /\ t1 \in PostedBy(mf[1])
                    /\ PostedBy(mf[1]) \cap PostedBy(mf[2]) = {}}}

MCNetworkSet == {Default, Other}
MCRegistries == {signal, other}
MCTasks == {t1, t2, t3, t4}
MCPrograms == SmallPrograms \cup {EventsExample, ExpectExample}
=============================================================================
