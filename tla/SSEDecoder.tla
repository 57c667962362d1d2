----------------------------- MODULE SSEDecoder -----------------------------
(***************************************************************************)
(* The Server-Sent Events parser of internal/opencodego/sse.go, line by    *)
(* line.  A line is abstracted to its field, its length and, for a data    *)
(* line, the payload it carries; CR, LF and CRLF all end a line, and a     *)
(* byte-order mark before the first line is not part of it.  The id and    *)
(* the retry value are kept by the code but read by nobody.                *)
(***************************************************************************)
EXTENDS Integers, Sequences, SequencesExt

CONSTANTS
    MaxLineBytes, MaxEventBytes, MaxBufferedBytes,   \* SSEDecoderOptions
    Payloads,                                        \* the values of data lines
    Empty                                            \* the empty value

ASSUME SSEAssumption ==
    /\ MaxLineBytes \in Nat \ {0}
    /\ MaxEventBytes \in Nat \ {0}
    /\ MaxBufferedBytes \in Nat \ {0}
    /\ Empty \notin Payloads

Fields == {"blank", "comment", "data", "event", "retry", "other"}

\* One line of the stream. Only the last line can lack a terminator, and then it
\* is not blank: readLine reports EOF instead.
Line == [field      : Fields,
         value      : Payloads \cup {Empty},
         bytes      : Nat,
         valueBytes : Nat,
         utf8       : BOOLEAN,
         terminated : BOOLEAN]

SSEErrors == {"", "limit", "unexpected_eof", "utf8", "transport"}

SSE == [data       : Seq(Payloads \cup {Empty}),
        dataBytes  : Nat,
        event      : BOOLEAN,      \* an event name was set
        retry      : BOOLEAN,      \* a retry value was set
        eventBytes : Nat,
        err        : SSEErrors]

NewSSEDecoder == [data |-> << >>, dataBytes |-> 0, event |-> FALSE, retry |-> FALSE,
                  eventBytes |-> 0, err |-> ""]

lineLimit == Min({MaxLineBytes, MaxBufferedBytes, MaxEventBytes})

rememberError(s, e) == [s EXCEPT !.err = e]

hasPendingEvent(s) == s.dataBytes > 0 \/ s.event \/ s.retry

addEventBytes(s, n) ==
    IF s.eventBytes > MaxEventBytes - n THEN rememberError(s, "limit")
    ELSE IF s.eventBytes + n > MaxBufferedBytes
    THEN rememberError([s EXCEPT !.eventBytes = @ + n], "limit")
    ELSE [s EXCEPT !.eventBytes = @ + n]

processLine(s, l) ==
    CASE l.field = "data" ->
           IF s.dataBytes > MaxEventBytes - l.valueBytes - 1 THEN rememberError(s, "limit")
           ELSE [s EXCEPT !.data = Append(@, l.value), !.dataBytes = @ + l.valueBytes + 1]
      [] l.field = "event" -> [s EXCEPT !.event = l.value # Empty]
      [] l.field = "retry" -> [s EXCEPT !.retry = TRUE]
      [] OTHER -> s

dispatch(s) == [s EXCEPT !.data = << >>, !.dataBytes = 0, !.event = FALSE,
                         !.retry = FALSE, !.eventBytes = 0]

\* One turn of the loop in Next, for a line of the stream.
AfterLine(s, l) ==
    IF l.bytes > lineLimit THEN rememberError(s, "limit")
    ELSE IF ~l.utf8 THEN rememberError(s, "utf8")
    ELSE LET a == addEventBytes(s, l.bytes + 1)
             p == processLine(a, l)
         IN IF a.err # "" THEN a
            ELSE IF ~l.terminated
            THEN IF p.err # "" THEN p ELSE rememberError(p, "unexpected_eof")
            ELSE IF l.field = "blank"
            THEN IF hasPendingEvent(a) THEN dispatch(a) ELSE [a EXCEPT !.eventBytes = 0]
            ELSE p

\* The line makes Next return an event: a blank line after data that is not
\* empty. An event without data is dispatched and dropped.
Dispatches(s, l) ==
    /\ l.field = "blank"
    /\ AfterLine(s, l).err = ""
    /\ s.data \notin {<< >>, <<Empty>>}

\* The stream ends between two lines. Pending fields make it an error.
AfterEOF(s) == IF hasPendingEvent(s) THEN rememberError(s, "unexpected_eof") ELSE s
=============================================================================
