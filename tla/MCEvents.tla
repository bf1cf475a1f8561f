------------------------------ MODULE MCEvents ------------------------------
(***************************************************************************)
(* Events on small instances: a subscriber that waits, an expecter on the  *)
(* loop's thread whose callable waits, and an expecter on another thread.  *)
(***************************************************************************)
EXTENDS Events

CONSTANTS p1, p2, slow, waiter, outsider

MCPublications == {p1, p2}
MCSubscribers == {slow}
MCExpecters == {waiter, outsider}
MCClientExpecters == {outsider}
MCWaiting == {slow, waiter}
=============================================================================
