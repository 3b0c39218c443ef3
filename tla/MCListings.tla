----------------------------- MODULE MCListings -----------------------------
(* Two hosts, two checks, three rows; four downtimes that can come, two of *)
(* them for the same row from the same moment, one for a host not on the   *)
(* board.  The requests take every page in pieces, and some are refused.   *)
EXTENDS Listings

MCHosts    == {1, 2}
MCChecks   == {1, 2}
MCHas      == {<<1, 1>>, <<1, 2>>, <<2, 2>>}
MCReported == {"OK", "CRITICAL"}

E(n, h, c, f) == [name |-> n, host |-> h, check |-> c, from |-> f]
MCCandidates == {E(1, 1, 2, 1), E(2, 1, 2, 1), E(3, 2, 0, 2), E(4, 0, 0, 1), E(5, 3, 1, 1)}

All == 0..5
Base(kind) ==
  [kind |-> kind, host |-> IF kind = "downtimes" THEN All ELSE MCHosts, check |-> All,
   name |-> All, scope |-> "all", statuses |-> {}, count |-> 1, skip |-> 0]

MCAsked ==
  { Base("hosts"), Base("checks"), Base("details"), Base("downtimes"),
    [Base("hosts") EXCEPT !.count = Junk, !.skip = Junk],
    [Base("hosts") EXCEPT !.statuses = {"CRITICAL"}],
    [Base("checks") EXCEPT !.count = 7, !.skip = 1],
    [Base("checks") EXCEPT !.check = {2}, !.count = -1],
    [Base("details") EXCEPT !.count = 2, !.skip = -1],
    [Base("details") EXCEPT !.host = {3}],
    [Base("details") EXCEPT !.host = {1}, !.check = {2}],
    [Base("downtimes") EXCEPT !.scope = "check", !.count = 2],
    [Base("downtimes") EXCEPT !.scope = "row"],
    [Base("downtimes") EXCEPT !.host = {1, 2}, !.name = {2, 3}, !.skip = 3] }
=============================================================================
