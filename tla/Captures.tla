------------------------------ MODULE Captures ------------------------------
(***************************************************************************)
(* The decoders of recorded traffic (core/record): event streams, protobuf *)
(* messages, socket.io frames and payload previews.  A capture is capped   *)
(* and teed while it streams, so what is decoded is nearly always a prefix *)
(* of what was sent; `wireTokens` grows by a token at a time.                    *)
(***************************************************************************)
EXTENDS Naturals, Sequences, SequencesExt

CONSTANTS
  MaxWire,            \* tokens of a capture
  MAX_VARINT_BYTES,   \* bytes of a varint
  MAX_DEPTH,          \* nesting of messages
  PreviewCap          \* bytes of a preview: room for a character

ASSUME CapturesAssumption ==
  MAX_VARINT_BYTES \in Nat /\ MAX_DEPTH \in Nat /\ PreviewCap \in Nat /\ PreviewCap >= 4

VARIABLES wireKind, wireTokens

captureVars == <<wireKind, wireTokens>>

-----------------------------------------------------------------------------
\* Event streams.  A body is line ends and pieces of lines; the piece that opens a
\* line names its field, and "nul" is a value an id may not have.
SseTokens == {"data", "id", "x", "nul", "CR", "LF"}

\* Variant: a line ends at CR and at LF, one by one.
NextNewlineBare(text, i) == 1

\* nextNewline: the length of the line end at i.
NextNewline(text, i) ==
  IF i < Len(text) /\ text[i] = "CR" /\ text[i + 1] = "LF" THEN 2 ELSE 1

\* A dispatch: a block without data is no event, the id outlives it.
Dispatch(st) ==
  [st EXCEPT !.events = IF st.data = <<>> THEN @ ELSE Append(@, [id |-> st.id, data |-> st.data]),
             !.data = <<>>]

\* One complete line.
FieldLine(st, line) ==
  CASE line = <<>> -> Dispatch(st)
    [] line # <<>> /\ Head(line) = "data" -> [st EXCEPT !.data = Append(@, Tail(line))]
    [] line # <<>> /\ Head(line) = "id" /\ ~Contains(Tail(line), "nul") ->
         [st EXCEPT !.id = Tail(line)]
    [] OTHER -> st

\* A turn of parseSse: one more character of the line, or its end; a line that does
\* not end stays in `trailing`.
ReadOn(text, r) ==
  CASE r.pos > Len(text) -> r
    [] r.pos <= Len(text) /\ text[r.pos] \in {"CR", "LF"} ->
         [pos |-> r.pos + NextNewline(text, r.pos), line |-> <<>>, st |-> FieldLine(r.st, r.line)]
    [] OTHER -> [r EXCEPT !.pos = @ + 1, !.line = Append(@, text[r.pos])]

\* Where the reader stands, the line it is in and what it has made of the others.
ReadLines(text) ==
  LET read[n \in Nat] ==
        IF n = 0 THEN [pos |-> 1, line |-> <<>>, st |-> [events |-> <<>>, data |-> <<>>, id |-> <<>>]]
        ELSE ReadOn(text, read[n - 1])
  IN read

ParseSse(text) == ReadLines(text)[Len(text)].st

\* The same body with every line end written LF.
WriteOn(text, w) ==
  CASE w.pos > Len(text) -> w
    [] w.pos <= Len(text) /\ text[w.pos] = "CR" ->
         [pos |-> w.pos + (IF w.pos < Len(text) /\ text[w.pos + 1] = "LF" THEN 2 ELSE 1),
          out |-> Append(w.out, "LF")]
    [] OTHER -> [pos |-> w.pos + 1, out |-> Append(w.out, text[w.pos])]

UnixWritten(text) ==
  LET written[n \in Nat] ==
        IF n = 0 THEN [pos |-> 1, out |-> <<>>] ELSE WriteOn(text, written[n - 1])
  IN written

Unix(text) == UnixWritten(text)[Len(text)].out

-----------------------------------------------------------------------------
\* Protobuf.  A tag byte is 8 * field + wireTokens type; a byte of 128 and more goes on.
WireBytes == {0, 1, 8, 10, 13, 129}

Bad == [ok |-> FALSE, value |-> 0, next |-> 0]

\* Seven bits a byte, the first the lowest.
VarintValue(bytes) ==
  LET sum[n \in 0 .. Len(bytes)] ==
        IF n = 0 THEN 0 ELSE (bytes[Len(bytes) + 1 - n] % 128) + 128 * sum[n - 1]
  IN sum[Len(bytes)]

\* Reader.varint at i.
Varint(b, i) ==
  LET ends == {n \in 1 .. MAX_VARINT_BYTES : i + n - 1 <= Len(b) /\ b[i + n - 1] < 128}
      n == CHOOSE k \in ends : \A j \in ends : k <= j
  IN IF ends = {} THEN Bad
     ELSE [ok |-> TRUE, next |-> i + n, value |-> VarintValue(SubSeq(b, i, i + n - 1))]

\* Variant: a length that runs past the end takes what is there.
TakeShort(b, i, n) == [ok |-> TRUE, value |-> n, next |-> i + n]

\* Reader.fixed and Reader.take: n bytes at i, all of them there.
Take(b, i, n) == IF i + n - 1 <= Len(b) THEN [ok |-> TRUE, value |-> n, next |-> i + n] ELSE Bad

\* Bytes that are printable text; the rest shows as base64.
AsText(b) == \A i \in DOMAIN b : b[i] \in {10, 13}

\* readField: where it ends and of which kind it is; `kindOf` tells a payload's.
ReadField(b, i, kindOf) ==
  LET tag == Varint(b, i)
      wire3 == tag.value % 8
      len == Varint(b, tag.next)
      body == CASE wire3 = 0 -> len
                [] wire3 = 1 -> Take(b, tag.next, 8)
                [] wire3 = 5 -> Take(b, tag.next, 4)
                [] wire3 = 2 /\ len.ok -> Take(b, len.next, len.value)
                [] OTHER -> Bad
  IN IF ~tag.ok \/ tag.value \div 8 = 0 \/ ~body.ok THEN [ok |-> FALSE, next |-> 0, kind |-> "none"]
     ELSE [ok |-> TRUE, next |-> body.next,
           kind |-> IF wire3 = 2 THEN kindOf[SubSeq(b, len.next, body.next - 1)] ELSE "number"]

\* A turn of the loop of decodeProtobuf and of asMessage: a field, or the error.
ParseOn(b, kindOf, p) ==
  IF p.error \/ p.at > Len(b) THEN p
  ELSE LET f == ReadField(b, p.at, kindOf)
       IN IF ~f.ok THEN [p EXCEPT !.error = TRUE]
          ELSE [at |-> f.next, error |-> FALSE,
                fields |-> Append(p.fields, [at |-> p.at, next |-> f.next, kind |-> f.kind])]

Parsed(b, kindOf) ==
  LET parsed[n \in Nat] ==
        IF n = 0 THEN [at |-> 1, fields |-> <<>>, error |-> FALSE]
        ELSE ParseOn(b, kindOf, parsed[n - 1])
  IN parsed

\* The fields up to the first bad one.
ReadFields(b, kindOf) == Parsed(b, kindOf)[Len(b)]

LeafKind(payload) == IF AsText(payload) THEN "string" ELSE "bytes"

\* A payload that parses completely as a message is one, if so many levels of
\* nesting are left; else text; else bytes.
PayloadKinds ==
  LET kinds[levels \in Nat] ==
        IF levels = 0 THEN [payload \in Seq(WireBytes) |-> LeafKind(payload)]
        ELSE [payload \in Seq(WireBytes) |->
                IF payload # <<>> /\ ~ReadFields(payload, kinds[levels - 1]).error THEN "message"
                ELSE LeafKind(payload)]
  IN kinds

DecodeProtobuf(b) == ReadFields(b, PayloadKinds[MAX_DEPTH])

-----------------------------------------------------------------------------
\* Previews.  UTF-8 as the length a lead byte announces; 0 is a continuation.
Utf8Bytes == 0 .. 4

\* A whole character stands at i.
Whole(b, i) ==
  /\ i <= Len(b) /\ b[i] # 0 /\ i + b[i] - 1 <= Len(b)
  /\ \A k \in i + 1 .. i + b[i] - 1 : b[k] = 0

\* Where the characters begin, as far as they are whole.
CharacterStarts(b) ==
  LET at[n \in Nat] ==
        IF n = 0 THEN 1
        ELSE IF Whole(b, at[n - 1]) THEN at[n - 1] + b[at[n - 1]] ELSE at[n - 1]
  IN at

\* The bytes are whole characters.
Decodes(b) == CharacterStarts(b)[Len(b)] = Len(b) + 1

\* Variant: one shorter slice is tried.
TrimsOne(truncated) == 0 .. (IF truncated THEN 1 ELSE 0)

\* The shorter slices that are tried when the payload was cut.
Trims(truncated) == 0 .. (IF truncated THEN 3 ELSE 0)

\* previewBytes: the longest slice that is text, else base64.
PreviewBytes(b) ==
  LET head == IF Len(b) > PreviewCap THEN SubSeq(b, 1, PreviewCap) ELSE b
      texts == {t \in Trims(Len(b) > PreviewCap) :
                  t < Len(head) /\ Decodes(SubSeq(head, 1, Len(head) - t))}
  IN IF texts = {} THEN [base64 |-> TRUE, preview |-> head]
     ELSE LET trim == CHOOSE t \in texts : \A u \in texts : t <= u
          IN [base64 |-> FALSE, preview |-> SubSeq(head, 1, Len(head) - trim)]

-----------------------------------------------------------------------------
\* socket.io.  A packet, and the frame it is sent as.
Packets ==
  [type : {"2", "3", "5"}, attachments : {<<>>, <<"1">>}, namespace : {<<>>, <<"/", "n">>},
   ackId : {<<>>, <<"1", "7">>}, payload : {<<>>, <<"J">>}]

\* Only binary packets announce attachments.
LegalPacket(p) == (p.attachments # <<>>) = (p.type = "5")

Digits == {"1", "7"}

Encode(p) ==
  <<"4", p.type>> \o (IF p.attachments = <<>> THEN <<>> ELSE Append(p.attachments, "-"))
    \o (IF p.namespace = <<>> THEN <<>> ELSE Append(p.namespace, ",")) \o p.ackId \o p.payload

\* readDigits: as many as stand at i.
ReadDigits(text, i) ==
  SubSeq(text, i, CHOOSE e \in i - 1 .. Len(text) :
                    /\ \A k \in i .. e : text[k] \in Digits
                    /\ e = Len(text) \/ text[e + 1] \notin Digits)

\* Variant: the attachments are read like any other digits.
AttachmentsIgnored(text) == <<>>

\* `<n>-` of a binary packet.
Attachments(text) ==
  LET count == ReadDigits(text, 3)
      dash == 3 + Len(count)
  IN IF text[2] = "5" /\ count # <<>> /\ dash <= Len(text) /\ text[dash] = "-" THEN count ELSE <<>>

\* The namespace runs to the comma, or to the end.
Namespace(text, i) ==
  IF i > Len(text) \/ text[i] # "/" THEN <<>>
  ELSE SubSeq(text, i, (CHOOSE e \in i .. Len(text) + 1 :
                          /\ e = Len(text) + 1 \/ text[e] = ","
                          /\ \A k \in i .. e - 1 : text[k] # ",") - 1)

DecodeSocketIoPacket(text) ==
  LET count == Attachments(text)
      i == IF count = <<>> THEN 3 ELSE 4 + Len(count)
      ns == Namespace(text, i)
      j == IF ns = <<>> THEN i ELSE i + Len(ns) + 1
      ack == ReadDigits(text, j)
  IN [type |-> text[2], attachments |-> count, namespace |-> ns, ackId |-> ack,
      payload |-> SubSeq(text, j + Len(ack), Len(text))]

-----------------------------------------------------------------------------
Tokens(kind) == CASE kind = "sse" -> SseTokens
                  [] kind = "protobuf" -> WireBytes
                  [] kind = "preview" -> Utf8Bytes
                  [] OTHER -> {}                  \* packets are taken whole

CaptureInit == wireKind \in {"sse", "protobuf", "preview", "packet"} /\ wireTokens = <<>>

\* One more token of the stream is captured.
Capture ==
  /\ Len(wireTokens) < MaxWire
  /\ \E t \in Tokens(wireKind) : wireTokens' = Append(wireTokens, t)
  /\ UNCHANGED wireKind

CaptureNext == Capture

CaptureSpec == CaptureInit /\ [][CaptureNext]_captureVars

\* What a cut capture shows is what the whole stream shows first: a decoder never
\* invents an event or a field at the place where the capture was cut, a line ends
\* where it ends whichever way it is written, a text that is cut inside a character
\* is still shown as text, and a frame decodes to the packet it was made of.
CutCapturesTellNoLies ==
  /\ wireKind = "sse" =>
       /\ ParseSse(wireTokens).events = ParseSse(Unix(wireTokens)).events
       /\ wireTokens # <<>> => IsPrefix(ParseSse(Front(wireTokens)).events, ParseSse(wireTokens).events)
  /\ wireKind = "protobuf" =>
       /\ wireTokens # <<>> => IsPrefix(DecodeProtobuf(Front(wireTokens)).fields, DecodeProtobuf(wireTokens).fields)
       /\ \A i \in DOMAIN DecodeProtobuf(wireTokens).fields :
            DecodeProtobuf(wireTokens).fields[i].next <= Len(wireTokens) + 1
  /\ wireKind = "preview" /\ Decodes(wireTokens) /\ wireTokens # <<>> =>
       ~PreviewBytes(wireTokens).base64 /\ IsPrefix(PreviewBytes(wireTokens).preview, wireTokens)
  /\ wireKind = "packet" => \A p \in Packets : LegalPacket(p) => DecodeSocketIoPacket(Encode(p)) = p
=============================================================================
