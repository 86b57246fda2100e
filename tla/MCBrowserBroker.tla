--------------------------- MODULE MCBrowserBroker ---------------------------
(* Small instances of BrowserBroker for TLC. *)
EXTENDS BrowserBroker

CONSTANT d1

\* Every session id was made by the extension of the one device.
MCHome == [s \in Sessions |-> d1]
=============================================================================
