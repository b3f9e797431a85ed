------------------------------- MODULE Server -------------------------------
(***************************************************************************)
(* The HTTP server of a program: object/builtins/http_builtins.go.         *)
(*                                                                         *)
(* The program registers routes, middlewares and static folders, and then  *)
(* calls server, which does not return while it serves: the requests are   *)
(* answered by goroutines of their own.  It returns an error when it could *)
(* not listen, or when its listener breaks; the connections that are open  *)
(* by then are served on, while the program goes on.                       *)
(*                                                                         *)
(* A path, and the prefix of a folder, is what strings.Split makes of it   *)
(* at "/": "/" is <<"", "">>, and "/s" is <<"", "s">>.  A pattern of        *)
(* net/http's mux is a prefix and "/", so that its first part is the host  *)
(* it is for.  Requests are for a host that no prefix begins with, and     *)
(* their paths are clean.  Prefixes that name a method, or have escapes,   *)
(* are left out.                                                           *)
(***************************************************************************)
EXTENDS Naturals, SequencesExt

CONSTANTS Requests,     \* [method, path]
          Calls,        \* what registerRoute is called with: [method, path, handler]
          Parameters,   \* the parts that begin with ":"
          Folders,      \* prefixes of static folders
          Wildcards,    \* the parts of them that are a name in braces
          Malformed,    \* the folders that make no pattern, with a blank, a brace
                        \* that is not a whole part's, a wildcard's name twice
          MaxCalls      \* of registerRoute and of serveStatic (a bound of the model)

VARIABLES main,             \* what the program's goroutine does
          registerRoutes,
          staticRoutes,
          mux,              \* http.DefaultServeMux: who answers under a pattern
          unmounted,        \* what the server call still has to mount: patterns
          connected,        \* whether connections to the server are open
          tried             \* server calls so far

serverVars == <<main, registerRoutes, staticRoutes, mux, unmounted, connected, tried>>

ServerInit ==
    /\ main = "runs"
    /\ registerRoutes = <<>>
    /\ staticRoutes = <<>>
    /\ mux = [p \in {} |-> ""]
    /\ unmounted = <<>>
    /\ connected = FALSE
    /\ tried = 0

-----------------------------------------------------------------------------
(* What the program calls.                                                 *)

Method(spelled) == CASE spelled = "get" -> "GET" [] spelled = "post" -> "POST" [] OTHER -> spelled

Route(call) == [method |-> Method(call.method), path |-> call.path,
                handler |-> call.handler, logged |-> FALSE]

\* Faulty variants: the route is put in front; every route is a pattern of the
\* mux, which panics at the second route with a path.
RegisterRouteFirst(call) ==
    /\ Len(registerRoutes) < MaxCalls
    /\ registerRoutes' = <<Route(call)>> \o registerRoutes
    /\ UNCHANGED <<main, staticRoutes, mux, unmounted, connected, tried>>

RegisterRouteInMux(call) ==
    /\ Len(registerRoutes) < MaxCalls
    /\ registerRoutes' = Append(registerRoutes, Route(call))
    /\ main' = IF \E i \in DOMAIN registerRoutes : registerRoutes[i].path = call.path
               THEN "panicked" ELSE main
    /\ UNCHANGED <<staticRoutes, mux, unmounted, connected, tried>>

RegisterRoute(call) ==
    /\ Len(registerRoutes) < MaxCalls
    /\ registerRoutes' = Append(registerRoutes, Route(call))
    /\ UNCHANGED <<main, staticRoutes, mux, unmounted, connected, tried>>

\* There is one middleware, the logger, which lets every request pass.
UseMiddlewares(path) ==
    /\ registerRoutes' = [i \in DOMAIN registerRoutes |->
                             [registerRoutes[i] EXCEPT !.logged = @ \/ registerRoutes[i].path = path]]
    /\ UNCHANGED <<main, staticRoutes, mux, unmounted, connected, tried>>

ServeStatic(folder) ==
    /\ Len(staticRoutes) < MaxCalls
    /\ staticRoutes' = Append(staticRoutes, folder)
    /\ UNCHANGED <<main, registerRoutes, mux, unmounted, connected, tried>>

Root == <<"">>

\* What a server call mounts, in this order.
Patterns == Append(staticRoutes, Root)

CreateServer ==
    /\ main' = "mounts"
    /\ unmounted' = Patterns
    /\ tried' = tried + 1
    /\ UNCHANGED <<registerRoutes, staticRoutes, mux, connected>>

-----------------------------------------------------------------------------
(* The server call.                                                        *)

\* The paths under q, literally or by q's wildcards, are under p.
Above(p, q) == Len(p) <= Len(q) /\ \A i \in DOMAIN p : p[i] \in Wildcards \cup {q[i]}

\* No path is under both.
Apart(p, q) == \E i \in DOMAIN p \cap DOMAIN q : p[i] # q[i] /\ {p[i], q[i]} \cap Wildcards = {}

\* The mux must know which of two patterns is the more specific one.
Conflict(p, q) == ~Apart(p, q) /\ (Above(p, q) <=> Above(q, p))

Refuses(pattern) == pattern \in Malformed \/ \E p \in DOMAIN mux : Conflict(p, pattern)

\* http.Handle for each folder, then http.HandleFunc for "/": both panic on a
\* pattern that is malformed or conflicts with one that the mux has, and nothing
\* recovers the program's goroutine.
Mount ==
    /\ main = "mounts" /\ unmounted # <<>>
    /\ LET pattern == Head(unmounted)
           handler == IF Len(unmounted) = 1 THEN "routes" ELSE "files"
       IN  IF Refuses(pattern)
           THEN main' = "panicked" /\ connected' = FALSE /\ unmounted' = <<>> /\ UNCHANGED mux
           ELSE /\ mux' = [p \in DOMAIN mux \cup {pattern} |-> IF p = pattern THEN handler ELSE mux[p]]
                /\ unmounted' = Tail(unmounted)
                /\ UNCHANGED <<main, connected>>
    /\ UNCHANGED <<registerRoutes, staticRoutes, tried>>

Listen ==
    /\ main = "mounts" /\ unmounted = <<>>
    /\ \/ main' = "serves" /\ connected' = TRUE
       \/ main' = "runs" /\ UNCHANGED connected     \* the port is taken
    /\ UNCHANGED <<registerRoutes, staticRoutes, mux, unmounted, tried>>

\* srvr.Serve returns: the listener is gone, the connections are not.
StopServing ==
    /\ main = "serves" /\ main' = "runs"
    /\ UNCHANGED <<registerRoutes, staticRoutes, mux, unmounted, connected, tried>>

\* Once nobody listens, the clients of the open connections go in the end.
Disconnect ==
    /\ main # "serves" /\ connected
    /\ connected' = FALSE
    /\ UNCHANGED <<main, registerRoutes, staticRoutes, mux, unmounted, tried>>

-----------------------------------------------------------------------------
(* Requests.                                                               *)

Matches(route, request) ==
    /\ route.method = request.method
    /\ Len(route.path) = Len(request.path)
    /\ \A i \in DOMAIN route.path : route.path[i] \in Parameters \/ route.path[i] = request.path[i]

\* The place of the route that answers, 0 for none.
matchRoute(request) ==
    LET fit == {i \in DOMAIN registerRoutes : Matches(registerRoutes[i], request)}
    IN  IF fit = {} THEN 0 ELSE CHOOSE i \in fit : \A j \in fit : i <= j

\* The pattern that the mux selects: the most specific one above the path.
Pattern(path) ==
    LET Fit == {p \in DOMAIN mux : Len(p) < Len(path) /\ Above(p, path)}
    IN  CHOOSE p \in Fit : \A q \in Fit : Above(q, p)

\* What a request is answered with: the path is sent to where a folder of its
\* name is, or the folder's files, the route's handler, or not found.
\* http.StripPrefix strips a prefix as it is written, wildcards and all.
Reply(request) ==
    LET path  == request.path
        above == {p \in DOMAIN mux : Above(p, path)}
    IN  IF Last(path) # "" /\ \E p \in above : Len(p) = Len(path) THEN "redirected"
        ELSE IF \A p \in above : Len(p) = Len(path) THEN "not found"
        ELSE IF mux[Pattern(path)] = "files"
        THEN IF IsPrefix(Pattern(path), path) THEN "files" ELSE "not found"
        ELSE IF matchRoute(request) = 0 THEN "not found"
        ELSE registerRoutes[matchRoute(request)].handler

-----------------------------------------------------------------------------
(* Properties.                                                             *)

\* The server call panics, which no program can catch, only when it is not the
\* first one or when the folders' prefixes are not patterns that go together: two
\* of them that are the same, or that overlap by their wildcards, the empty one,
\* which is that of the routes, or one that is malformed.  Whatever routes and
\* middlewares are registered, in whatever order, the first try is safe else.
PanicsOnlyOnRetry ==
    main = "panicked" =>
        \/ tried > 1
        \/ \E i \in DOMAIN Patterns :
              \/ Patterns[i] \in Malformed
              \/ \E j \in 1..(i - 1) : Conflict(Patterns[j], Patterns[i])

\* A program that was told that it could not listen, or that its listener broke,
\* never serves: whatever it registers in between, a server call that is not the
\* first one does not come to listen.
ServesOnFirstTry == main = "serves" => tried = 1

\* On an open connection a request that has an answer keeps it, whatever the
\* program registers once its server call has returned.  Only a further server
\* call, which is about to panic, puts folders in front of routes.
AnswersKept ==
    [][ \A request \in Requests :
           connected /\ main # "mounts" /\ Reply(request) # "not found" =>
               Reply(request)' = Reply(request) ]_serverVars
=============================================================================
