----------------------------- MODULE MCServices -----------------------------
(***************************************************************************)
(* Two databases with one table, and a site of up to two routes and two    *)
(* static folders: a route for a path, one for any path of two parts, and  *)
(* one for the name of a folder.  Of the folders, one has the routes'      *)
(* prefix, one a blank, which is no pattern, and three have wildcards, of  *)
(* which the two of two parts overlap in the path /s/a.                    *)
(***************************************************************************)
EXTENDS Services

MCCalls == {[method |-> "get", path |-> <<"", "s", "a">>, handler |-> "page"],
            [method |-> "GET", path |-> <<"", "s", ":p">>, handler |-> "any"],
            [method |-> "GET", path |-> <<"", "s">>, handler |-> "folder"]}

MCRequests == {[method |-> "GET", path |-> path] :
                  path \in {<<"", "">>, <<"", "s">>, <<"", "s", "a">>, <<"", "s", "b">>, <<"", "b">>,
                            <<"", "s", "a", "">>}}

MCFolders == {Root, <<"", "s">>, <<"", "{p}">>, <<"", "s", "{p}">>, <<"", "{q}", "a">>, <<"", "a b">>}

MCMalformed == {<<"", "a b">>}

\* Neither the server nor the database looks at the other: much is registered
\* while there is no database, and less beside one (a bound of the model).
MuchOfOne ==
    \/ Len(registerRoutes) <= 1 /\ Len(staticRoutes) <= 1
    \/ asked = None /\ reachable = {}
=============================================================================
