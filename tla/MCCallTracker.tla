--------------------------- MODULE MCCallTracker ---------------------------
(* Instances of CallTracker for TLC. *)
EXTENDS CallTracker, TLC

CONSTANTS user, redis, pdo, curl, query, apcu, setopt, enable, disable

\* What the functions of the instances are to the extension.
MCKind == (user :> "user") @@ (redis :> "redis") @@ (pdo :> "pdo")
       @@ (curl :> "curl_exec") @@ (query :> "mysqli") @@ (apcu :> "apcu")
       @@ (setopt :> "curl_other") @@ (enable :> "opa_enable")
       @@ (disable :> "opa_disable")
MCKindOf == [fn \in Function |-> MCKind[fn]]
Symmetric == Permutations(Address)
=============================================================================
