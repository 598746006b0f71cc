-------------------------------- MODULE MCCalls ---------------------------------
(* Instances of FunctionCalls: F, which a host calls too, with a by-value  *)
(* parameter; H with an optional ByRef parameter and a static.             *)
EXTENDS FunctionCalls, TLC

CONSTANTS F, H, pf, qh, sh, gv, short, long

ParamsHere ==
  F :> <<[var |-> pf, byref |-> FALSE, optional |-> FALSE, default |-> ""]>>
  @@ H :> <<[var |-> qh, byref |-> TRUE, optional |-> TRUE, default |-> short]>>
LocalsHere == F :> {} @@ H :> {}
StaticsHere == F :> {} @@ H :> {sh}
SizeHere == short :> 1 @@ long :> 2

Assignment(v, x) == [do |-> "set", var |-> v, text |-> x]
SetsHere == {Assignment(pf, long), Assignment(qh, long), Assignment(sh, short), Assignment(gv, "")}

Line(f, arg, calls, yields, out) ==
  [do |-> "call", func |-> f, arg |-> arg, calls |-> calls, yields |-> yields, out |-> out]
LinesHere ==
  {Line(F, <<pf>>, 1, 1, pf), Line(F, <<gv>>, 1, 1, gv), Line(F, <<qh>>, 1, 1, qh),
   Line(H, <<pf>>, 1, 1, pf), Line(H, <<gv>>, 1, 1, NoVar), Line(H, <<qh>>, 1, 1, sh),
   Line(F, <<short>>, 2, 1, gv), Line(H, <<>>, 2, 1, gv), Line(H, <<short>>, 1, 1, gv)}

Result(in, of) == [do |-> "return", in |-> in, of |-> of]
ResultsHere == {Result("text", ""), Result("var", pf), Result("var", qh), Result("var", sh),
                Result("buf", short), Result("buf", long)}

\* No step depends on what was said last; properties of steps see every step.
WhatCounts == <<mem, frames, lines>>
=============================================================================
