---------------------------- MODULE MCChatStream ----------------------------
(* Three requests in one chat, and a page that shows it.                    *)
EXTENDS ChatStream

CONSTANTS p1, p2, p3, c1
=============================================================================
