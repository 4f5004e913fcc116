-------------------------------- MODULE RunOnce --------------------------------
(***************************************************************************)
(* What the lock file of autopair promises: at most one program is inside, *)
(* one enters only when nobody is, and only the one inside leaves.  How    *)
(* the lock is taken, and how it comes back when its holder is killed, is  *)
(* AutoPair's.                                                             *)
(***************************************************************************)
CONSTANT Autos    \* the programs that want to be the one inside

VARIABLE inside  \* the programs inside

OnceInit == inside = {}

Enter(p) == inside = {} /\ inside' = {p}
Leave(p) == inside = {p} /\ inside' = {}

OnceNext == \E p \in Autos : Enter(p) \/ Leave(p)
OnceSpec == OnceInit /\ [][OnceNext]_inside
================================================================================
