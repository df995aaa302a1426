----------------------------- MODULE MCDIDResolver -----------------------------
(* Model-checking instance of DIDResolver: three DIDs and documents that   *)
(* give roots, deactivated documents, self-control with and without a      *)
(* capabilityInvocation key, controller cycles, a missing controller       *)
(* beside an active one, and service references in chains and cycles.    *)
(* Every assignment of these documents (or none) to the DIDs is an initial *)
(* store.  maxControllerDepth is the code's 5; ServiceResolver.Resolve is  *)
(* called with maxDepth 2, so that a chain of three documents exceeds it.  *)
EXTENDS DIDResolver, TLC

CONSTANTS a, b, c

MCDIDs == {a, b, c}
MCDocs ==
    { [controllers |-> <<>>,     capInv |-> TRUE,  service |-> "endpoint"],
      [controllers |-> <<>>,     capInv |-> FALSE, service |-> None],
      [controllers |-> <<a>>,    capInv |-> TRUE,  service |-> b],
      [controllers |-> <<a>>,    capInv |-> FALSE, service |-> c],
      [controllers |-> <<b>>,    capInv |-> FALSE, service |-> a],
      [controllers |-> <<c, a>>, capInv |-> FALSE, service |-> "endpoint"],
      [controllers |-> <<b, c>>, capInv |-> TRUE,  service |-> a] }
MCMaxControllerDepth == 5
MCMaxServiceDepth == 2
=============================================================================
