---------------------------- MODULE MCChatOutbox ----------------------------
(* Three messages, one of them an upload, within two seconds; Telegram asks *)
(* for less and for more than MaxWait, or answers without a number.         *)
EXTENDS ChatOutbox

CONSTANTS s1, s2, f1

MCSends   == {s1, s2, f1}
MCUploads == {f1}
MCRetries == {0, 3}
=============================================================================
