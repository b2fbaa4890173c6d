--------------------------- MODULE MCApiPipeline ---------------------------
(* Requests of every kind: to a public endpoint with and without a token, to *)
(* the endpoints for users and for operators with every outcome of the      *)
(* dependencies.                                                             *)
EXTENDS ApiPipeline, TLC

Received(endpoint, credentials) ==
    [address : Addresses, endpoint : {endpoint}, credential : credentials,
     userRole : {"unset"}, stage : {"received"}]

MCRequests ==
    Received("stadiums", {"none", "operator"})
    \cup Received("navigate", {"invalid", "fan", "operator"})
    \cup Received("ingest", {"none", "fan", "admin"})

TasksSymmetry == Permutations(Tasks)
=============================================================================
