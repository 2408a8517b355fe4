----------------------------- MODULE MCObjects -----------------------------
(***************************************************************************)
(* Components that share no state: sequences, URI, HTTP messages, DNS, and *)
(* the two halves of FS.  In each behaviour one of them runs, and the      *)
(* others stay as they are when they are made.                             *)
(***************************************************************************)
EXTENDS Prototypes, MCMessages, Resolver, Files

VARIABLE runs
objectsVars == <<prototypesVars, uriVars, httpVars, resolverVars, filesVars, runs>>

ObjectsInit ==
  /\ \/ runs = "uri" /\ UriInit /\ HttpIdle
     \/ runs = "http" /\ UriIdle /\ HttpInit
     \/ runs \in {"sequences", "dns", "watch", "read"} /\ UriIdle /\ HttpIdle
  /\ PrototypesInit /\ ResolverInit /\ FilesInit

ObjectsNext ==
  /\ UNCHANGED runs
  /\ \/ runs = "sequences" /\ PrototypesNext /\ UNCHANGED <<uriVars, httpVars, resolverVars, filesVars>>
     \/ runs = "uri" /\ UriNext /\ UNCHANGED <<prototypesVars, httpVars, resolverVars, filesVars>>
     \/ runs = "http" /\ HttpNext /\ UNCHANGED <<prototypesVars, uriVars, resolverVars, filesVars>>
     \/ runs = "dns" /\ ResolverNext /\ UNCHANGED <<prototypesVars, uriVars, httpVars, filesVars>>
     \/ /\ UNCHANGED <<prototypesVars, uriVars, httpVars, resolverVars>>
        /\ \/ runs = "watch" /\ FilesNext /\ UNCHANGED read
           \/ runs = "read" /\ FilesNext /\ UNCHANGED watching

ObjectsSpec == ObjectsInit /\ [][ObjectsNext]_objectsVars
=============================================================================
