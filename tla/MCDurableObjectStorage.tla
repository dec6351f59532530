----------------------- MODULE MCDurableObjectStorage -----------------------
(***************************************************************************)
(* The storage of one object on two keys, either of which may exist at     *)
(* the start.  Transactions: three deletes, gets, syncs or transactions    *)
(* and a window of write sets shorter than the number of commits, so that  *)
(* a transaction can outlive the record of what it missed.  Calls: two     *)
(* calls of any kind and a backing storage that may reject.  Alarm: an     *)
(* alarm, a transaction and a sync.                                        *)
(***************************************************************************)
EXTENDS DurableObjectStorage, TLC

Symmetry == Permutations(Calls) \union Permutations(Keys)
=============================================================================
