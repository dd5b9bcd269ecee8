------------------------------- MODULE MCLoop -------------------------------
(* Two cables and two channels.                                            *)
EXTENDS Loop
CONSTANTS phone, modem
ByLabel == <<modem, phone>>
=============================================================================
