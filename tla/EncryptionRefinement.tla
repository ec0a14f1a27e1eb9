------------------------- MODULE EncryptionRefinement -------------------------
(* EncryptionClient implements KeyRetrieval: a retrieval runs from the     *)
(* moment its task is created until the task is done, whatever exchanges,  *)
(* requests, retries and messages it takes.                                *)
EXTENDS EncryptionClient

LoadOf(t) ==
    IF Live(t) THEN "running" ELSE taskPc[t]

Retrieval == INSTANCE KeyRetrieval WITH load <- [t \in Calls |-> LoadOf(t)]

(* Every behaviour of the client is one that its callers were promised,    *)
(* including that every call ends.                                         *)
ImplementsKeyRetrieval == Retrieval!FairSpec

=============================================================================
