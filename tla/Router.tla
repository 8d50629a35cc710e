------------------------------- MODULE Router -------------------------------
(* The router of server.ts: insertRoute() and matchRoute(), for every request  *)
(* to every server that can be built from a few patterns.                      *)
(*                                                                             *)
(* A node of the trie is named by the path to it: static segments and ":" for  *)
(* the parameter.  Handlers are named by the index of their route.             *)
EXTENDS Integers, Sequences, FiniteSetsExt

CONSTANTS Segments,        \* what the parts of a path may be
          Patterns,        \* sequences of [kind, name], kind being "static", "param" or "wild"
          RouteMethods,    \* methods of routes, among them "ALL"
          Pathnames,       \* sequences of segments
          RequestMethods,  \* methods of requests
          MaxRoutes        \* bound on the routes

\* A segment of a pattern that begins with a colon is a parameter.
ASSUME RouterAssumption ==
  /\ \A pattern \in Patterns :
       /\ pattern \in Seq([kind : {"static", "param", "wild"}, name : Segments])
       /\ \A i \in DOMAIN pattern : pattern[i].kind = "static" => pattern[i].name # ":"
  /\ Pathnames \subseteq Seq(Segments)

VARIABLES routes,  \* the builder's routes, in the order of registration
          trie     \* path of a node -> RouteNode

routerVars == <<routes, trie>>

\* Nothing follows a wildcard: the segments that lead to nodes.
Wilds(pattern) == {i \in DOMAIN pattern : pattern[i].kind = "wild"}
IsWild(pattern) == Wilds(pattern) # {}
Leading(pattern) == IF IsWild(pattern) THEN SubSeq(pattern, 1, Min(Wilds(pattern)) - 1) ELSE pattern

\* The node that the first segments lead to, and the one that all do.
Edge(segment) == IF segment.kind = "param" THEN ":" ELSE segment.name
NodeAfter(way, i) == [j \in 1..i |-> Edge(way[j])]
NodeOf(way) == NodeAfter(way, Len(way))

NoNode == [param |-> {}, handlers |-> <<>>, wildcard |-> <<>>]

\* Map.set() on a map of handlers.
SetHandler(handlers, method, n) == [m \in DOMAIN handlers \cup {method} |-> IF m = method THEN n ELSE handlers[m]]

\* The names that a route gives to the parameter of a node: one or none.
ParamNames(way, node) == {way[i].name : i \in {j \in DOMAIN way : way[j].kind = "param" /\ NodeAfter(way, j - 1) = node}}

\* insertRoute() of the n-th route: the first name a parameter gets stays, the
\* last handler of a method counts.
InsertRoute(t, route, n) ==
  LET way == Leading(route.pattern)
      old(p) == IF p \in DOMAIN t THEN t[p] ELSE NoNode
      here(p, wild) == p = NodeOf(way) /\ IsWild(route.pattern) = wild
  IN  [p \in DOMAIN t \cup {NodeAfter(way, i) : i \in 0..Len(way)} |->
        [param    |-> IF old(p).param = {} THEN ParamNames(way, p) ELSE old(p).param,
         handlers |-> IF here(p, FALSE) THEN SetHandler(old(p).handlers, route.method, n) ELSE old(p).handlers,
         wildcard |-> IF here(p, TRUE) THEN SetHandler(old(p).wildcard, route.method, n) ELSE old(p).wildcard]]
-----------------------------------------------------------------------------
Found(n, params) == [kind |-> "ok", route |-> n, params |-> params]
NotFound(kind) == [kind |-> kind]

\* resolveHandler(): ALL stands in for a method that has no handler.
ResolveHandler(handlers, method) ==
  IF method \in DOMAIN handlers THEN handlers[method] ELSE handlers["ALL"]
CanResolve(handlers, method) == {method, "ALL"} \cap DOMAIN handlers # {}

\* matchWildcard(): what is left of the path is a parameter as well.
MatchWildcard(node, method, params, remaining) ==
  IF CanResolve(node.wildcard, method)
  THEN Found(ResolveHandler(node.wildcard, method),
             [x \in DOMAIN params \cup {"*"} |-> IF x = "*" THEN remaining ELSE params[x]])
  ELSE NotFound("MethodNotAllowed")

\* matchLeaf()
MatchLeaf(node, method, params) ==
  IF CanResolve(node.handlers, method) THEN Found(ResolveHandler(node.handlers, method), params)
  ELSE IF DOMAIN node.wildcard # {} THEN MatchWildcard(node, method, params, <<>>)
  ELSE NotFound(IF DOMAIN node.handlers # {} THEN "MethodNotAllowed" ELSE "RouteNotFound")

\* The first edges of a way down.
UpTo(at, i) == [j \in 1..i |-> at[j]]

\* Mutant of Down: a parameter is preferred to a static segment.
DownToParam(t, at, segment) == IF t[at].param # {} THEN ":" ELSE segment

\* One segment down, if there is such a node: the static child, else the parameter.
Down(t, at, segment) == IF Append(at, segment) \in DOMAIN t THEN segment ELSE ":"

\* Where the loop of matchRoute() comes by, and where it ends: down as far as there are children.
Visited(t, path) ==
  {at \in DOMAIN t : /\ Len(at) <= Len(path)
                     /\ \A i \in DOMAIN at : at[i] = Down(t, UpTo(at, i - 1), path[i])}
EndOfWalk(t, path) == CHOOSE at \in Visited(t, path) : \A other \in Visited(t, path) : Len(other) <= Len(at)

\* What it writes to params on the way; of two of one name the second one stays.
ParamsOf(t, at, path) ==
  LET taken == {i \in DOMAIN at : at[i] = ":"}
      name(i) == CHOOSE x \in t[UpTo(at, i - 1)].param : TRUE
  IN  [x \in {name(i) : i \in taken} |->
         path[CHOOSE i \in taken : name(i) = x /\ \A j \in taken : name(j) = x => j <= i]]

\* matchRoute(): at the end of the walk the leaf, or a wildcard, or nothing.
MatchRoute(t, method, path) ==
  LET at == EndOfWalk(t, path)
      params == ParamsOf(t, at, path)
  IN  IF Len(at) = Len(path) THEN MatchLeaf(t[at], method, params)
      ELSE IF DOMAIN t[at].wildcard # {}
           THEN MatchWildcard(t[at], method, params, SubSeq(path, Len(at) + 1, Len(path)))
      ELSE NotFound("RouteNotFound")
-----------------------------------------------------------------------------
RouterInit == routes = <<>> /\ trie = [p \in {<<>>} |-> NoNode]

\* The builder's get(), post(), ..., all(), and buildTrie() of what there is then: its loop
\* has one route more to insert.
Register(method, pattern) ==
  /\ Len(routes) < MaxRoutes
  /\ routes' = Append(routes, [method |-> method, pattern |-> pattern])
  /\ trie' = InsertRoute(trie, [method |-> method, pattern |-> pattern], Len(routes) + 1)

RouterNext == \E m \in RouteMethods, p \in Patterns : Register(m, p)

RouterSpec == RouterInit /\ [][RouterNext]_routerVars
-----------------------------------------------------------------------------
(* What a reader of the patterns expects.                                      *)

FitsPath(pattern, path) ==
  LET way == Leading(pattern)
  IN  /\ Len(path) = Len(way) \/ (IsWild(pattern) /\ Len(path) > Len(way))
      /\ \A i \in DOMAIN way : way[i].kind = "param" \/ way[i].name = path[i]

ServesPath(route, method, path) == FitsPath(route.pattern, path) /\ route.method \in {method, "ALL"}

\* Another pattern that agrees with this one up to a parameter or a wildcard has
\* there the segment itself, or a parameter in place of the wildcard.
Shadowed(pattern, path) ==
  LET way == Leading(pattern)
  IN  \E q \in DOMAIN routes :
        LET other == Leading(routes[q].pattern)
        IN  \E i \in DOMAIN path \cap DOMAIN other :
              /\ i <= Len(way) + 1
              /\ NodeAfter(other, i - 1) = NodeAfter(way, i - 1)
              /\ i \in DOMAIN way => (way[i].kind = "param" /\ other[i].kind = "static")
              /\ other[i].kind = "static" => other[i].name = path[i]

\* The router never comes back from a child it has taken, so a route may be
\* shadowed; but what it finds serves the request, and it finds a route if there is
\* one that serves it and is not shadowed.  404 and 405 tell which of the two failed.
RouterServes ==
  \A path \in Pathnames, method \in RequestMethods :
    LET result == MatchRoute(trie, method, path)
        open == {r \in DOMAIN routes : FitsPath(routes[r].pattern, path) /\ ~Shadowed(routes[r].pattern, path)}
        fit == {r \in open : ServesPath(routes[r], method, path)}
    IN  /\ result.kind = "ok" <=> fit # {}
        /\ result.kind = "ok" => result.route \in fit
        /\ result.kind = "MethodNotAllowed" <=> open # {} /\ fit = {}

\* Does every route through this segment give it the same name?
Agreed(way, i) ==
  \A q \in DOMAIN routes :
    LET other == Leading(routes[q].pattern)
    IN  i \in DOMAIN other /\ NodeAfter(other, i) = NodeAfter(way, i) => other[i].name = way[i].name

\* Does a route call two of its parameters the same?
NamesTwice(way) ==
  \E i, j \in DOMAIN way : i # j /\ way[i].kind = "param" /\ way[j].kind = "param" /\ way[i].name = way[j].name

\* Among patterns that call the same parameter differently the first registered
\* decides; where they agree, and no route uses a name twice, a handler gets what stands at
\* the place, and behind a wildcard what is left.
ParamsAreInPlace ==
  \A path \in Pathnames, method \in RequestMethods :
    LET result == MatchRoute(trie, method, path)
        pattern == routes[result.route].pattern
        way == Leading(pattern)
    IN  result.kind = "ok" =>
          /\ IsWild(pattern) => result.params["*"] = SubSeq(path, Len(way) + 1, Len(path))
          /\ (\A q \in DOMAIN routes : ~NamesTwice(Leading(routes[q].pattern))) =>
               \A i \in DOMAIN way :
                 way[i].kind = "param" /\ way[i].name # "*" /\ Agreed(way, i) => result.params[way[i].name] = path[i]

\* A request gets to the route that is registered for it, with its parameters.  (A router
\* that has no routes yet has nothing to serve.)
RoutesAreServed == routes # <<>> => RouterServes /\ ParamsAreInPlace
=============================================================================
