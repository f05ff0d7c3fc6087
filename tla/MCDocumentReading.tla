-------------------------- MODULE MCDocumentReading --------------------------
(***************************************************************************)
(* Instances of DocumentReading for TLC.                                    *)
(***************************************************************************)
EXTENDS DocumentReading

CONSTANTS good, bad, odd   \* documents
CONSTANTS w1, w2           \* worker threads

\* One document reads well, one is always refused with a 400, and the third
\* reads well or as several documents, cannot be read or is refused.
MCAnswers == [d \in Docs |-> CASE d = good -> {"ok"}
                               [] d = bad -> {"rejected"}
                               [] d = odd -> {"rejected", "unreadable", "ok", "combined"}]
=============================================================================
