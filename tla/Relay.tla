-------------------------------- MODULE Relay ---------------------------------
(***************************************************************************)
(* _relay_upstream_response (nvidia_nim_proxy/server.py): one answer of    *)
(* NVIDIA's on its way to the client, with the look for tool-call markup   *)
(* in the content of a stream's first events.                              *)
(*                                                                         *)
(* A stream is a sequence of events, of which the proxy knows what has     *)
(* arrived, in chunks cut anywhere; it may end or break anywhere too.  A   *)
(* byte is its position in the stream.  An event has a size in bytes (of   *)
(* which a few are enough here) and adds to the content of one choice:     *)
(* plain text, a marker, or the first or the second half of one.           *)
(***************************************************************************)
EXTENDS Integers, SequencesExt, ClientConnection

CONSTANTS
    Events,         \* what an event may be
    MaxEvents,      \* bound: events of a stream
    ChunkSize,      \* STREAM_CHUNK_SIZE
    MaxScanBytes,   \* STREAM_DIAGNOSTIC_SCAN_BYTES
    MaxScanEvents   \* STREAM_DIAGNOSTIC_SCAN_EVENTS

ASSUME RelayAssumption ==
    /\ {ChunkSize, MaxScanBytes, MaxScanEvents} \subseteq Nat \ {0}
    /\ MaxEvents \in Nat
    /\ \A e \in Events : e.size \in Nat \ {0}

VARIABLES
    events,    \* the stream, or the choices of a plain answer
    success,   \* its status is a 2xx
    looks,     \* the proxy is in diagnostic mode
    arrived,   \* bytes read from NVIDIA
    buffered,  \* bytes read and not sent yet
    written,   \* bytes sent to the client
    doing      \* where the relay is

answerVars == <<events, success, looks>>
relayVars == <<answerVars, arrived, buffered, written, doing>>

Idle ==
    /\ events = <<>>
    /\ success = FALSE
    /\ looks = FALSE
    /\ arrived = 0
    /\ buffered = <<>>
    /\ written = <<>>
    /\ doing = "idle"

SizeOf(evs) == FoldSeq(LAMBDA e, n : e.size + n, 0, evs)
Size == SizeOf(events)

\* The next n bytes.
Chunk(n) == [i \in 1 .. n |-> arrived + i]

\* read1 returns what there is, up to its argument.
ChunkSizes(most) == 1 .. Min({most, ChunkSize, Size - arrived})

\* parse_completed_sse_events of the first bytes
Completed(bytes) ==
    SubSeq(events, 1, Max({n \in 0 .. Len(events) : SizeOf(SubSeq(events, 1, n)) <= bytes}))

\* contains_tool_call_text_leak_in_sse: the content of one choice is put
\* together from its events, whatever the other choices have in between.
Leak(evs) ==
    \/ \E i \in 1 .. Len(evs) : evs[i].part = "whole"
    \/ \E i, j \in 1 .. Len(evs) :
           /\ i < j
           /\ evs[i].choice = evs[j].choice
           /\ evs[i].part = "head" /\ evs[j].part = "tail"
           /\ \A k \in i + 1 .. j - 1 : evs[k].choice # evs[i].choice

\* Tool-call markup in an answer is made known to the client.
Inspects == looks /\ success

-----------------------------------------------------------------------------
\* The call, with the status and the mode known.
CallRelay(ok, diagnostic, isStream) ==
    /\ doing = "idle"
    /\ events' \in BoundedSeq(Events, MaxEvents)
    /\ success' = ok
    /\ looks' = diagnostic
    /\ doing' = IF ~isStream THEN "whole" ELSE IF Inspects' THEN "scan" ELSE "begin"
    /\ UNCHANGED <<arrived, buffered, written>>

\* The call returns or raises.
LeaveRelay ==
    /\ events' = <<>>
    /\ success' = FALSE
    /\ looks' = FALSE
    /\ arrived' = 0
    /\ buffered' = <<>>
    /\ written' = <<>>
    /\ doing' = "idle"

\* read() of an answer that is no stream.
ReadWhole ==
    /\ doing = "whole"
    /\ arrived' = Size
    /\ buffered' = Chunk(Size)
    /\ doing' = IF Inspects /\ Leak(events) THEN "diagnose" ELSE "begin and end"
    /\ UNCHANGED <<answerVars, written, clientVars>>

\* Seeded fault: enough events end the scan before the last is inspected.
AfterChunkCountsFirst(bytes) ==
    IF Len(Completed(bytes)) >= MaxScanEvents \/ bytes >= MaxScanBytes THEN "begin"
    ELSE IF Leak(Completed(bytes)) THEN "diagnose" ELSE "scan"

AfterChunk(bytes) ==
    IF Leak(Completed(bytes)) THEN "diagnose"
    ELSE IF Len(Completed(bytes)) >= MaxScanEvents \/ bytes >= MaxScanBytes
           THEN "begin" ELSE "scan"

\* read_stream_prefix_for_tool_call_detection
ScanChunk ==
    /\ doing = "scan"
    /\ \E n \in ChunkSizes(MaxScanBytes - Len(buffered)) :
           /\ buffered' = buffered \o Chunk(n)
           /\ arrived' = arrived + n
    /\ doing' = AfterChunk(Len(buffered'))
    /\ UNCHANGED <<answerVars, written, clientVars>>

ScanEnds ==
    /\ doing = "scan"
    /\ doing' = "begin and end"
    /\ UNCHANGED <<answerVars, arrived, buffered, written, clientVars>>

ReadFails ==
    /\ doing \in {"whole", "scan"}
    /\ doing' = "raised"
    /\ UNCHANGED <<answerVars, arrived, buffered, written, clientVars>>

\* Seeded fault: the bytes that were inspected are not sent.
BeginWithoutBuffer ==
    /\ doing \in {"begin", "begin and end"}
    /\ Respond("relayed")
    /\ buffered' = <<>>
    /\ doing' = IF doing = "begin" THEN "stream" ELSE "done"
    /\ UNCHANGED <<answerVars, arrived, written>>

\* Status line, headers, and the bytes read so far.
Begin ==
    /\ doing \in {"begin", "begin and end"}
    /\ Respond("relayed")
    /\ written' = buffered
    /\ buffered' = <<>>
    /\ doing' = IF doing = "begin" THEN "stream" ELSE "done"
    /\ UNCHANGED <<answerVars, arrived>>

\* The client does not take them all: the response counts as begun.
BeginBreaks ==
    /\ gone
    /\ doing \in {"begin", "begin and end"}
    /\ Respond("relayed")
    /\ written' \in {SubSeq(buffered, 1, n) : n \in 0 .. Len(buffered)}
    /\ buffered' = <<>>
    /\ doing' = "raised"
    /\ UNCHANGED <<answerVars, arrived>>

StreamChunk ==
    /\ doing = "stream"
    /\ \E n \in ChunkSizes(ChunkSize) :
           /\ written' = written \o Chunk(n)
           /\ arrived' = arrived + n
    /\ UNCHANGED <<answerVars, buffered, doing, clientVars>>

\* The end of the stream, or a stall, which is swallowed.
StreamEnds ==
    /\ doing = "stream"
    /\ doing' = "done"
    /\ UNCHANGED <<answerVars, arrived, buffered, written, clientVars>>

\* Either side breaks off; the caller has to look whether a response has begun.
StreamBreaks ==
    /\ doing = "stream"
    /\ doing' = "raised"
    /\ UNCHANGED <<answerVars, arrived, buffered, written, clientVars>>

\* _send_tool_call_text_diagnostic; that the client has gone is swallowed.
SendDiagnostic ==
    /\ doing = "diagnose"
    /\ Respond("diagnostic")
    /\ buffered' = <<>>
    /\ doing' = "done"
    /\ UNCHANGED <<answerVars, arrived, written>>

RelayStep ==
    \/ ReadWhole \/ ScanChunk \/ ScanEnds \/ ReadFails
    \/ Begin \/ BeginBreaks \/ StreamChunk \/ StreamEnds \/ StreamBreaks
    \/ SendDiagnostic

-----------------------------------------------------------------------------
\* Properties

\* The client gets NVIDIA's bytes, each once and in their order, and however
\* the bytes are cut into chunks none is held back once the scan is over.
RelayFaithful ==
    /\ \A i \in DOMAIN (written \o buffered) : (written \o buffered)[i] = i
    /\ doing \in {"stream", "done"} /\ responses = <<"relayed">> => Len(written) = arrived

\* The first events that the limits let the scan inspect.
ScannedEvents ==
    SubSeq(Completed(Min({arrived, MaxScanBytes})), 1,
           Min({MaxScanEvents, Len(Completed(Min({arrived, MaxScanBytes})))}))

\* However the network cuts the stream, markup that the first events show is
\* withheld, and a diagnostic is sent for nothing but markup.
LeakWithheld ==
    /\ Inspects /\ Leak(ScannedEvents) => written = <<>>
    /\ doing = "done" /\ responses = <<"diagnostic">> =>
           Inspects /\ Leak(Completed(arrived))
=============================================================================
