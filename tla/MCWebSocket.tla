----------------------------- MODULE MCWebSocket -----------------------------
(* Small instances of WebSocket for TLC.                                    *)
EXTENDS WebSocket
=============================================================================
