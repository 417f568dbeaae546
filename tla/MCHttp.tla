------------------------------ MODULE MCHttp ------------------------------
(* Small instances of Http for TLC. *)
EXTENDS Http
MCServlets == {[status |-> 200, body |-> 1, close |-> FALSE, throws |-> FALSE],
               [status |-> 204, body |-> 1, close |-> FALSE, throws |-> FALSE],
               [status |-> 200, body |-> 0, close |-> TRUE,  throws |-> TRUE]}
MCClientPieces == {<<<<"GET", 11>>>>, <<<<"POST", 10>>, <<"length", 1>>>>, <<<<"unknown", 11>>>>,
                   <<<<"length", -1>>>>, <<<<"length", 2>>>>, <<<<"encoding", 1>>>>,
                   <<<<"connection", 0>>>>, <<<<"crlf", 0>>>>, <<<<"data", 0>>>>}
MCServerPieces == {<<<<"status", 200>>, <<"encoding", 1>>, <<"crlf", 0>>>>,
                   <<<<"status", 200>>, <<"length", 1>>>>, <<<<"status10", 200>>>>,
                   <<<<"status", 100>>, <<"crlf", 0>>>>, <<<<"encoding", 0>>>>,
                   <<<<"size", 1>>, <<"data", 0>>, <<"crlf", 0>>>>, <<<<"size", 0>>>>, <<<<"data", 0>>>>,
                   <<<<"connection", 1>>>>, <<<<"crlf", 0>>>>,
                   <<<<"size", 0>>, <<"other", 0>>, <<"other", 0>>, <<"other", 0>>, <<"other", 0>>>>}
=============================================================================
