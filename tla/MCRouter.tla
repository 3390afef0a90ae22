------------------------------ MODULE MCRouter ------------------------------
(* Router for TLC: all paths over three characters up to a length, which   *)
(* holds nested routes, half segments, trailing and doubled slashes.       *)
EXTENDS Router, TLC

PathsUpTo(n) ==
    UNION {{<<"/">> \o p : p \in [1..k -> {"/", "a", "b"}]} : k \in 0..(n - 1)}

ShortPaths == PathsUpTo(3)
LongPaths == PathsUpTo(4)
FewPaths == {<<"/">>, <<"/", "a">>, <<"/", "a", "/">>, <<"/", "a", "/", "b">>}

=============================================================================
