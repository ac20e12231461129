------------------------------ MODULE MCRegistry ------------------------------
(***************************************************************************)
(* A small instance of Registry: two plugins around a broken one.  The     *)
(* application registers one of them by itself, replaces the other by a    *)
(* class of its own, or adds a third.                                      *)
(***************************************************************************)
EXTENDS Registry

CONSTANTS t1, t2, first, second, Mine

Installed ==
  <<[slug |-> first, class |-> "First"], [slug |-> second, class |-> None],
    [slug |-> second, class |-> "Second"]>>

Manual == {[slug |-> first, class |-> "First"], [slug |-> second, class |-> Mine]}

=============================================================================
