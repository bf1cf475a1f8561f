--------------------------- MODULE MCExpectations ---------------------------
(***************************************************************************)
(* Expectations with one call signature and one event signature, arguments *)
(* a and b, and the matchers "equals a" and "_".                           *)
(***************************************************************************)
EXTENDS Expectations

CONSTANTS call, event, a, b, Other

MCCalls == {call}
NoCalls == {}
OneOther == {Other}
NoOthers == {}
MCEvents == {event}
MCArgs == {a, b}
MCMatchers == {{a}, {a, b}}
=============================================================================
