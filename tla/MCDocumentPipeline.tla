------------------------ MODULE MCDocumentPipeline ------------------------
(* Instances of DocumentPipeline for TLC.  Documents share nothing but the *)
(* clients, so one document is enough.                                     *)
EXTENDS DocumentPipeline

CONSTANTS d1, c1, c2

MCDocs == {d1}
MCClients == {c1, c2}

=============================================================================
