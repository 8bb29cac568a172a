---------------------------- MODULE MCInvocation ----------------------------
(* Instances of Invocation: a method of every kind.                        *)
EXTENDS Invocation

Method(kind, static, sync, params, ret, catches) ==
  [kind |-> kind, static |-> static, sync |-> sync, params |-> params,
   ret |-> ret, catches |-> catches]

MixedInfo ==
  [main  |-> Method("java", TRUE, FALSE, <<>>, "V", TRUE),
   wide  |-> Method("java", FALSE, TRUE, <<"J", "[[I">>, "J", FALSE),
   plain |-> Method("java", TRUE, FALSE, <<"I">>, "I", TRUE),
   tiny  |-> Method("java", FALSE, FALSE, <<>>, "I", FALSE),
   jni   |-> Method("jni", TRUE, TRUE, <<"N", "J", "L">>, "L", FALSE),
   nmi   |-> Method("nmi", FALSE, FALSE, <<"J">>, "J", FALSE)]

MixedBuilds == {[asm |-> TRUE, metavm |-> FALSE], [asm |-> FALSE, metavm |-> TRUE]}

MixedInlined == {<<"plain", "tiny">>}

\* a synchronized method with an inlined call
SyncInlined == {<<"wide", "tiny">>}
=============================================================================
