------------------------------ MODULE MCClientSync -----------------------------
(* One thread is there, a second one may be made by a bootstrap and a third *)
(* one by the server itself.  Another command comes over the socket, and    *)
(* one is posted; of these and the server's writes any two happen.          *)
EXTENDS ClientSync

MCThreadOf == [c \in Bootstraps |-> "new"]
MCInitialLog == <<[cmd |-> None, thread |-> "old", kind |-> "created", time |-> 0]>>
=============================================================================
