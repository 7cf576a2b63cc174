----------------------------- MODULE Connector ------------------------------
(***************************************************************************)
(* client/connector: what becomes of one content analysis request of       *)
(* Chrome on its way to a TraceEvent: the bridge's JSON, the intake's      *)
(* fingerprint, the mapping.  Pure operators.                              *)
(*                                                                         *)
(* A string is Empty, or a value that stands for itself; content and the   *)
(* SHA-256 of that content are the same value.                             *)
(***************************************************************************)
EXTENDS Naturals

CONSTANTS
    Null,         \* JSON null, Python's None, a field that is not set
    Empty,        \* ""
    Malformed,    \* a url that urlparse refuses
    Unreadable    \* reading the file raises OSError

\* None is not a string, and an event type is one.
ASSUME ConnectorAssumption == Null \notin {Empty, "upload", "download", "paste"}

NoEvent == [event_type |-> Null]

\* json_str: an empty string is written as null.
JsonStr(v) == IF v = Empty THEN Null ELSE v

\* Mutant of json_str: an empty string is written as "".
JsonEmptyStr(v) == IF v = Null THEN Empty ELSE v

JsonValue(v) == JsonStr(v)

\* build_json: the analysis_connector enum by name, the content from the oneof of
\* text and file path, an unset field like an empty one.
BuildJson(a) ==
    LET known == {"FILE_ATTACHED", "FILE_DOWNLOADED", "BULK_DATA_ENTRY"} IN
    [connector    |-> IF a.connector \in known THEN a.connector ELSE "UNKNOWN",
     url          |-> JsonValue(a.url),
     digest       |-> JsonValue(a.digest),
     text_content |-> JsonValue(a.text),
     file_path    |-> IF a.text = Null THEN JsonValue(a.file) ELSE Null]

Given(v) == v \notin {Null, Empty}

\* compute_sha256, compute_fuzzy: nothing has no fuzzy hash.
Fingerprint(data) == [sha256 |-> data, fuzzy_hash |-> IF data = Empty THEN Null ELSE data]

NoFingerprint == [sha256 |-> Null, fuzzy_hash |-> Null]

\* _fingerprint: the text, else the file as it is now (`read`), else the digest that
\* Chrome gave for a file that cannot be read.
RequestFingerprint(req, read) ==
    CASE req.text_content # Null -> Fingerprint(req.text_content)
      [] req.text_content = Null /\ Given(req.file_path) /\ read # Unreadable ->
            Fingerprint(read)
      [] req.text_content = Null /\ Given(req.file_path) /\ read = Unreadable
            /\ Given(req.digest) -> [sha256 |-> req.digest, fuzzy_hash |-> Null]
      [] OTHER -> NoFingerprint

EventType(connector) ==
    CASE connector = "FILE_ATTACHED" -> "upload"
      [] connector = "FILE_DOWNLOADED" -> "download"
      [] connector = "BULK_DATA_ENTRY" -> "paste"
      [] OTHER -> Null

\* Mutant of to_trace_event: a missing url is let through.
MappableAnyUrl(req) == EventType(req.connector) # Null

\* to_trace_event raises MappingError for the others.
Mappable(req) == EventType(req.connector) # Null /\ Given(req.url)

\* handle_request and do_POST: the answer, and what was submitted.  A fingerprint
\* that cannot be made or a request that cannot be mapped is dropped with a 200,
\* any other exception is a 500.
HandleRequest(req, read) ==
    LET fp == RequestFingerprint(req, read)
        answer(status, event) == [status |-> status, event |-> event]
    IN
    CASE fp = NoFingerprint \/ ~Mappable(req) -> answer("ok", NoEvent)
      [] fp # NoFingerprint /\ Mappable(req) /\ req.url = Malformed -> answer("error", NoEvent)
      [] OTHER ->
            answer("ok", [event_type |-> EventType(req.connector), sha256 |-> fp.sha256,
                          fuzzy_hash |-> fp.fuzzy_hash, url |-> req.url])

=============================================================================
