----------------------------- MODULE MCDispatch -----------------------------
(***************************************************************************)
(* Small instances of Dispatch: two calls on an Apprise with two services, *)
(* or with two of one kind.                                                *)
(***************************************************************************)
EXTENDS Dispatch, TLC

CONSTANTS c1, c2, a, a2, b, discord, slack, r1

MCServiceOf == [i \in Slots |-> IF i = b THEN slack ELSE discord]

(* The calls are interchangeable.                                          *)
MCSymmetry == Permutations(Calls)
=============================================================================
