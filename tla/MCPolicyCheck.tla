--------------------------- MODULE MCPolicyCheck ---------------------------
(* Small instances of PolicyCheck for TLC: three callers that share the    *)
(* key of "guest", one without a user id.                                  *)
EXTENDS PolicyInvariant, TLC

CONSTANTS c1, c2, c3, t

OneTool == [c \in Calls |-> t]

ThreeUsers == c1 :> "" @@ c2 :> "guest" @@ c3 :> "guest"

RedisAndCrash == {"redis", "crash"}
OnlyCrash == {"crash"}
=============================================================================
