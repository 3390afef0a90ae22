------------------------------- MODULE Router -------------------------------
(***************************************************************************)
(* Choosing a route: Router::new and Router::route of                      *)
(* src/src/core/router.rs, and the strip_prefix rewriting that             *)
(* handle_request applies to the path before it forwards it.               *)
(*                                                                         *)
(* A path is a sequence of characters.  Methods are compared without       *)
(* regard to case; "" and a method with a forbidden character stand for    *)
(* what the method guard refuses.                                          *)
(***************************************************************************)
EXTENDS Naturals, Sequences, FiniteSets

CONSTANTS
    RoutePaths,     \* paths routes are configured with
    RequestPaths,   \* paths requests come with
    MaxRoutes       \* bound: routes in a configuration

Methods == {"GET", "get", "POST", "", "G T"}
Upper(m) == IF m = "get" THEN "GET" ELSE m
WellFormed(m) == m \notin {"", "G T"}

RouteConfig == [path : RoutePaths, methods : {{}, {"get"}}]

(* GatewayConfig::validate: route paths are not empty and start with "/".  *)
(* Nothing is asked of the paths of requests.                              *)
ASSUME RouterAssumption ==
    /\ \A p \in RoutePaths : p \in Seq(STRING) /\ Len(p) > 0 /\ p[1] = "/"
    /\ \A p \in RequestPaths : p \in Seq(STRING)
    /\ MaxRoutes \in Nat

VARIABLES
    config,     \* the routes as configured
    method, path,
    stage,      \* "received", "routed" or "forwarded"
    chosen,     \* the chosen route, a sequence of at most one
    forward     \* the path sent upstream

routerVars == <<config, method, path, stage, chosen, forward>>

RouterInit ==
    /\ config \in UNION {[1..n -> RouteConfig] : n \in 0..MaxRoutes}
    /\ method \in Methods
    /\ path \in RequestPaths
    /\ stage = "received" /\ chosen = <<>> /\ forward = <<>>

(* Slip: sorted the other way round. *)
PlaceShortestFirst(routes, i) ==
    Cardinality({j \in DOMAIN routes :
        \/ Len(routes[j].path) < Len(routes[i].path)
        \/ Len(routes[j].path) = Len(routes[i].path) /\ j <= i})

(* sort_by length, descending; the sort is stable. *)
Place(routes, i) ==
    Cardinality({j \in DOMAIN routes :
        \/ Len(routes[j].path) > Len(routes[i].path)
        \/ Len(routes[j].path) = Len(routes[i].path) /\ j <= i})

Sorted(routes) ==
    [k \in DOMAIN routes |-> routes[CHOOSE i \in DOMAIN routes : Place(routes, i) = k]]

StartsWith(p, prefix) ==
    Len(prefix) <= Len(p) /\ SubSeq(p, 1, Len(prefix)) = prefix
From(p, n) == SubSeq(p, n + 1, Len(p))

(* Slip: any string prefix will do. *)
PrefixMatchesAnywhere(route, p) == StartsWith(p, route.path)

(* The prefix has to end where a segment of the path ends. *)
PrefixMatches(route, p) ==
    /\ StartsWith(p, route.path)
    /\ \/ Len(p) = Len(route.path)
       \/ StartsWith(From(p, Len(route.path)), <<"/">>)
       \/ route.path[Len(route.path)] = "/"

MethodAllowed(route, m) ==
    route.methods = {} \/ \E a \in route.methods : Upper(a) = Upper(m)

RouterRoute ==
    /\ stage = "received" /\ stage' = "routed"
    /\ LET routes == Sorted(config)
           hits == {k \in DOMAIN routes :
                       WellFormed(method) /\ PrefixMatches(routes[k], path)
                       /\ MethodAllowed(routes[k], method)}
       IN chosen' = IF hits = {} THEN <<>>
                    ELSE <<routes[CHOOSE k \in hits : \A l \in hits : k <= l]>>
    /\ UNCHANGED <<config, method, path, forward>>

(* strip_prefix: what follows the prefix, with a leading "/". *)
Stripped(p, prefix) ==
    LET rest == From(p, Len(prefix))
    IN IF StartsWith(rest, <<"/">>) THEN rest ELSE <<"/">> \o rest

Forward ==
    /\ stage = "routed" /\ chosen # <<>>
    /\ stage' = "forwarded"
    /\ forward' = Stripped(path, chosen[1].path)
    /\ UNCHANGED <<config, method, path, chosen>>

RouterNext == RouterRoute \/ Forward

RouterSpec == RouterInit /\ [][RouterNext]_routerVars

-----------------------------------------------------------------------------
(* Properties *)

(* The segments of a path: its runs of characters other than "/". *)
Segments(p) ==
    LET upTo[i \in 0..Len(p)] ==
            IF i = 0 THEN <<>>
            ELSE IF p[i] = "/" THEN upTo[i - 1]
            ELSE IF i > 1 /\ p[i - 1] # "/"
                 THEN [upTo[i - 1] EXCEPT ![Len(upTo[i - 1])] = Append(@, p[i])]
                 ELSE Append(upTo[i - 1], <<p[i]>>)
    IN upTo[Len(p)]

(* Configured routes that cover the request, by a definition of its own:   *)
(* the path is the route's, or goes on below it as below a directory.      *)
Covering ==
    {i \in DOMAIN config :
        /\ config[i].methods = {} \/ Upper(method) \in {Upper(a) : a \in config[i].methods}
        /\ LET r == config[i].path
               dir == IF r[Len(r)] = "/" THEN r ELSE Append(r, "/")
           IN path = r \/ (Len(dir) <= Len(path) /\ SubSeq(path, 1, Len(dir)) = dir)}

(* "Longest (most specific) prefix wins", whatever the order of the        *)
(* configuration: the chosen route covers the request, none that covers it *)
(* is longer, and of several equally long ones it is the first.  Nothing   *)
(* is chosen only if nothing covers the request or the method is refused.  *)
(* Covering includes the method, as the comment on route() has it          *)
(* (router.rs 20-28): a longer route that does not allow the method leaves *)
(* the request to a shorter one.  docs/configuration.md:72 says otherwise, *)
(* that the longest prefix is selected and then its method checked, and    *)
(* its line 89 does not mention that a route ending in "/" covers whatever *)
(* follows it.                                                             *)
MostSpecific ==
    stage # "received" =>
        \/ chosen = <<>> /\ (Covering = {} \/ ~WellFormed(method))
        \/ \E i \in Covering :
              /\ chosen = <<config[i]>>
              /\ \A j \in Covering : Len(config[j].path) < Len(config[i].path)
                                     \/ (Len(config[j].path) = Len(config[i].path) /\ i <= j)

(* strip_prefix takes whole segments off the front: what is forwarded      *)
(* starts with "/" and, after the route's segments, has those of the       *)
(* request, none cut in two and none lost.                                 *)
StripKeepsSegments ==
    stage = "forwarded" =>
        /\ forward[1] = "/"
        /\ Segments(path) = Segments(chosen[1].path) \o Segments(forward)

=============================================================================
