------------------------------ MODULE Interner ------------------------------
(***************************************************************************)
(* What the front end and the code generator rely on when they compare     *)
(* SYMBOL pointers instead of strings (lookup_func in src/func.c compares  *)
(* funcs[i].sym == s): a name gets an identity the first time it is        *)
(* interned, keeps it for ever, and no two names share one.                *)
(***************************************************************************)
EXTENDS Naturals

CONSTANTS
  Name,
  Ident,       \* the identities there are
  NoIdent      \* none of them

VARIABLES
  ident,     \* the identity of every name, NoIdent while it has none
  stopped    \* the program has given up and exited

vars == <<ident, stopped>>

Init ==
  /\ ident = [n \in Name |-> NoIdent]
  /\ stopped = FALSE

Fresh == Ident \ {ident[n] : n \in Name}

Intern(name) ==
  /\ ~stopped
  /\ ident[name] = NoIdent
  /\ \E id \in Fresh : ident' = [ident EXCEPT ![name] = id]
  /\ UNCHANGED stopped

(* Giving up is allowed only when no identity is left for a new name. *)
GiveUp ==
  /\ ~stopped
  /\ Fresh = {}
  /\ \E n \in Name : ident[n] = NoIdent
  /\ stopped' = TRUE
  /\ UNCHANGED ident

Next == GiveUp \/ \E name \in Name : Intern(name)

Spec == Init /\ [][Next]_vars
=============================================================================
