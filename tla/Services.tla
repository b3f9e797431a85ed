------------------------------ MODULE Services ------------------------------
(***************************************************************************)
(* A program that uses a database and serves requests.  Its one goroutine  *)
(* makes all calls, none while a server call has it; a handler is called   *)
(* without arguments, and no builtin that takes none changes anything.     *)
(***************************************************************************)
EXTENDS Server, Database

servicesVars == <<serverVars, databaseVars>>

ServicesInit == ServerInit /\ DatabaseInit

\* What changes the server, and what changes the database.
ServerStep ==
    \/ /\ main = "runs"
       /\ \/ \E call \in Calls : RegisterRoute(call) \/ UseMiddlewares(call.path)
          \/ \E folder \in Folders : ServeStatic(folder)
          \/ CreateServer
    \/ Mount \/ Listen \/ StopServing \/ Disconnect

DatabaseStep ==
    \/ /\ main = "runs"
       /\ \/ \E d \in Databases : MySqlConnection(d)
          \/ \E t \in Tables :
                \/ CreateTable(t) \/ DeleteTable(t) \/ DeleteFromTable(t)
                \/ \E row \in Rows : InsertIntoTable(t, row) \/ UpdateIntoTable(t, row)
    \/ main # "panicked" /\ Reach

ServicesNext ==
    \/ ServerStep /\ UNCHANGED databaseVars
    \/ DatabaseStep /\ UNCHANGED serverVars

ServicesSpec == ServicesInit /\ [][ServicesNext]_servicesVars
=============================================================================
