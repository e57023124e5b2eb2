----------------------------- MODULE MCCapacity -----------------------------
(***************************************************************************)
(* Tables that are too small (six symbols, two functions) for three        *)
(* classes, and classes whose superclass is missing or is the class        *)
(* itself.                                                                 *)
(***************************************************************************)
EXTENDS MCCompiler

classC  == class("C", None)
cyclic  == class("C", "C")
methodC == method("C", "m", PrimArg, <<>>)
mainC   == func(Main, <<>>, <<var("y", "C"), send("y", "m")>>)
mainNop == func(Main, <<>>, <<>>)

Stock == <<classB, classA, classC, cyclic, methodC, funcG, mainC, mainNop>>

MCPrograms == Arrangements(Stock, 5)
=============================================================================
