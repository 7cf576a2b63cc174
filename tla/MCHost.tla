------------------------------- MODULE MCHost -------------------------------
(* A small host for TLC: one analysis request of every kind and one that is  *)
(* in order, and one event of the file agent.  A content and its SHA-256 are *)
(* the same value, so the digest Chrome gives for a file is what it saw.     *)
EXTENDS Host

CONSTANTS odd, fine, task, text, file, url

MCAnalyses == {odd, fine}
MCEvents == {odd, fine, task}

Upload == [connector |-> "FILE_ATTACHED", url |-> url, text |-> Null, file |-> file,
           digest |-> file]
Paste == [Upload EXCEPT !.connector = "BULK_DATA_ENTRY", !.text = text, !.file = Null,
                        !.digest = Null]

OddRequests ==
    {Upload, [Upload EXCEPT !.digest = Null],
     [Paste EXCEPT !.url = Empty], [Paste EXCEPT !.url = Malformed]}

\* What becomes of the file before it is read: another content, the one without a fuzzy
\* hash, or none that can be read.
MCRewrites == {Empty, Unreadable}

MCRequestsOf(r) == IF r = odd THEN OddRequests ELSE {Paste}
=============================================================================
