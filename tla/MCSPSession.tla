---------------------------- MODULE MCSPSession ----------------------------
(* SPSession for TLC: both roles, and an initiator that only receives. *)
EXTENDS SPSession

SomeWants == {{"rx"}, {"rx", "tx"}}
=============================================================================
