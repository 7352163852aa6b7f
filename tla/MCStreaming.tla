--------------------------- MODULE MCStreaming ---------------------------
(* An instance of Streaming with the code's bound on held chunks: chunks of *)
(* text, of usage that may carry the cost, of the kind that completes a     *)
(* stream, and one that cannot be formatted; the settings of the Chat       *)
(* format with keepalives and of the Messages format without.               *)
EXTENDS Streaming

Plain == {}
Carrier == {"carrier", "usage"}
Final == {"completes"}
FinalCarrier == {"carrier", "usage", "completes"}
Bad == {"bad"}
AllKinds == {Plain, Carrier, Final, FinalCarrier, Bad}
Chat == [keepalive |-> TRUE, checked |-> TRUE, doneOnError |-> TRUE]
Messages == [keepalive |-> FALSE, checked |-> TRUE, doneOnError |-> FALSE]
AllModes == {Chat, Messages}
==========================================================================
