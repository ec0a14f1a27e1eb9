------------------------- MODULE MCConversationClient -------------------------
(* Instances of ConversationClient for TLC. The frames: an encrypted post    *)
(* alone, with its key among other messages, with messages in two places and *)
(* a malformed one; an activity that is no message; a key by itself.         *)
EXTENDS ConversationClient, TLC

CONSTANTS k1, raw, h1, h2

Nothing == [p \in ToSet(Places) |-> <<>>]

Carries(kind, verb, text, kms) ==
    [kind |-> kind, verb |-> verb, text |-> text, key |-> k1, kms |-> kms]
Post(kms) == Carries("conversation.activity", "post", "sealed", kms)

MCFrames ==
    {Post(Nothing),
     Post([Nothing EXCEPT !["nested"] = <<"other", "unreadable", "key">>]),
     Post([Nothing EXCEPT !["dotted"] = <<"key", "malformed">>, !["direct"] = <<"unreadable">>]),
     Carries("conversation.activity", "add", "plain", Nothing),
     Carries("encryption.kms_message", "add", "plain", [Nothing EXCEPT !["serialized"] = <<"key">>])}

MCTopic == raw :> "message.created" @@ h1 :> "post" @@ h2 :> "any"
===============================================================================
