--------------------------- MODULE MCMessageQueue ---------------------------
(* Two writers and a reader; the cfg files choose the reader's loop. *)
EXTENDS MessageQueue

CONSTANTS w1, w2

TwoWriters  == {w1, w2}
OneQueue    == {Queue}
OneWaitSet  == {Reader}
ReaderWaits == {Reader}
NoWaitSet   == {}
=============================================================================
