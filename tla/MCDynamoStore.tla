---------------------------- MODULE MCDynamoStore ----------------------------
(***************************************************************************)
(* Instances of DynamoStore.  The clock's timestamps have a fraction, but  *)
(* those a client sends need not.                                          *)
(***************************************************************************)
EXTENDS DynamoStore

At(second, micro) == [second |-> second, micro |-> micro]

TwoSeconds == {At(0, 0), At(0, 1), At(1, 1)}
OneSecond == {At(0, 0), At(0, 1)}
==============================================================================
