--------------------------- MODULE MCPolymorphism ---------------------------
(***************************************************************************)
(* The declarations of test/polymorphism.mugi, in every order that the     *)
(* compiler accepts: the test's own order is one of them.                  *)
(***************************************************************************)
EXTENDS MCCompiler

SuperX     == class("B", None)                          \* lines 1-3
TestX      == class("C", "B")                           \* lines 5-8
SuperXTest == method("B", "m", PrimArg, <<>>)           \* lines 10-14
TestXTest  == method("C", "m", PrimArg, <<>>)           \* lines 16-21
testfunc   == func("f", <<var("k", "B")>>, <<send("k", "m")>>)    \* lines 23-26
main       == func(Main, <<>>, <<var("y", "C"), call("f", "y")>>) \* lines 28-37

MCPrograms ==
  Arrangements(<<SuperX, TestX, SuperXTest, TestXTest, testfunc, main>>, 6)
=============================================================================
