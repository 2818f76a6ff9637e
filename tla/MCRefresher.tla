----------------------------- MODULE MCRefresher -----------------------------
(* The three answers of the protocol: they start alike and are of          *)
(* different length, the longest filling the buffer with its NUL.          *)
EXTENDS Refresher

CONSTANTS ref, ok, faild, invalid

MCParts == {ref, ok, faild, invalid}
MCOK == <<ref, ok>>
MCFailed == <<ref, faild, faild>>
MCOthers == {<<ref, invalid, invalid, invalid>>, <<>>}
=============================================================================
