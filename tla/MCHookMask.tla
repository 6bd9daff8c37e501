------------------------------ MODULE MCHookMask ------------------------------
(* HookMask on two hooks.  Nothing tells the hooks apart, so they permute.   *)
EXTENDS HookMask, TLC

Perms == Permutations(Hooks)
=============================================================================
