---------------------------- MODULE MCDataChannel ----------------------------
(***************************************************************************)
(* Instances of DataChannel.tla for TLC: messages whose bytes, or whose CRC *)
(* bytes, have to be escaped, and answers, one of them cut short and one    *)
(* too long for a read.                                                     *)
(***************************************************************************)
EXTENDS DataChannel

MCScript == <<<<126>>, <<8, 125>>, <<27>>>>

\* Frames that are whole, empty, cut short by their last byte, and longer than the
\* buffer by one.
MCAnswers == <<nhdlc_frame(<<1>>), Front(nhdlc_frame(<<2>>)), nhdlc_frame(<<3, 3>>),
               nhdlc_frame(<<>>)>>
=============================================================================
