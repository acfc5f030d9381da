----------------------------- MODULE GrpcFrames -----------------------------
(***************************************************************************)
(* What the record proxy keeps of a stream it relays                       *)
(* (engine/record-proxy.ts): GrpcFrameCapture walks the framing of one     *)
(* direction, BodyTee keeps the head of the body.  Both are pushed the     *)
(* chunks as they come off the socket, which may end anywhere: between a   *)
(* header's bytes as well as inside a message.                             *)
(***************************************************************************)
EXTENDS Captures

CONSTANTS
  HeaderLength,      \* bytes of a frame's header: a flag, and the length (5 in the code)
  GRPC_MESSAGE_CAP,  \* messages that are kept
  PROXY_BODY_CAP,    \* bytes that are kept, of a direction's messages and of its body
  MaxByte,           \* bound: what a byte can be; a flag is 0 or 1, a length any of them
  MaxStream          \* bound: bytes of the stream

ASSUME FramesAssumption ==
  /\ HeaderLength \in Nat \ {0, 1} /\ GRPC_MESSAGE_CAP \in Nat /\ PROXY_BODY_CAP \in Nat
  /\ MaxByte \in Nat /\ MaxStream \in Nat

VARIABLES
  teed,      \* history: the stream so far
  capture,   \* the fields of GrpcFrameCapture
  bodyTee    \* those of BodyTee

frameVars == <<teed, capture, bodyTee>>

Bytes == 0 .. MaxByte
NoEntry == 0      \* `current' is null; else the index of its entry

FramesInit ==
  /\ teed = <<>>
  /\ capture = [messages |-> 0, captured |-> <<>>, header |-> <<>>, payloadLeft |-> 0,
                budget |-> PROXY_BODY_CAP, current |-> NoEntry]
  /\ bodyTee = [bytes |-> 0, chunks |-> <<>>]

-----------------------------------------------------------------------------
Least(a, b) == IF a < b THEN a ELSE b

\* The entry is complete: what was kept of it is there, if only nothing.
FinishMessage(c) ==
  IF c.current = NoEntry THEN c
  ELSE [c EXCEPT !.captured[c.current].whole = TRUE, !.current = NoEntry]

Entry(compressed, length) ==
  [bytes |-> length, compressed |-> compressed, truncated |-> FALSE, whole |-> FALSE, kept |-> <<>>]

\* Variant: an empty message waits for its payload.
BeginWaits(c, compressed, length) ==
  LET n == [c EXCEPT !.messages = @ + 1, !.payloadLeft = length, !.header = <<>>]
  IN IF Len(c.captured) >= GRPC_MESSAGE_CAP THEN [n EXCEPT !.current = NoEntry]
     ELSE [n EXCEPT !.captured = Append(@, Entry(compressed, length)), !.current = Len(c.captured) + 1]

\* A header is complete: the message is counted, and kept below the cap.
BeginMessage(c, compressed, length) ==
  LET n == [c EXCEPT !.messages = @ + 1, !.payloadLeft = length, !.header = <<>>]
      kept == [n EXCEPT !.captured = Append(@, Entry(compressed, length)), !.current = Len(c.captured) + 1]
  IN IF Len(c.captured) >= GRPC_MESSAGE_CAP THEN [n EXCEPT !.current = NoEntry]
     ELSE IF length = 0 THEN FinishMessage(kept) ELSE kept

\* As much of the slice as the budget of the direction allows.
Retain(c, slice) ==
  LET keep == Least(Len(slice), c.budget)
      entry == c.captured[c.current]
      grown == [entry EXCEPT !.kept = @ \o SubSeq(slice, 1, keep), !.truncated = @ \/ keep < Len(slice)]
  IN IF c.current = NoEntry THEN c
     ELSE [c EXCEPT !.captured[c.current] = grown, !.budget = @ - keep]

\* Variant: a header is looked for at the start of every chunk.
HeaderSoFarForgets(c) == <<>>

\* The header bytes that earlier chunks brought.
HeaderSoFar(c) == c.header

\* A turn of the loop of push: as much of the payload, or of the header, as the
\* chunk has from `off' on.
Turn(l, chunk) ==
  LET c == l.capture
      left == Len(chunk) - l.off
  IN IF left = 0 THEN l
     ELSE IF c.payloadLeft > 0
     THEN LET take == Least(c.payloadLeft, left)
              n == [Retain(c, SubSeq(chunk, l.off + 1, l.off + take)) EXCEPT !.payloadLeft = @ - take]
          IN [capture |-> IF n.payloadLeft = 0 THEN FinishMessage(n) ELSE n, off |-> l.off + take]
     ELSE LET take == Least(HeaderLength - Len(HeaderSoFar(c)), left)
              h == HeaderSoFar(c) \o SubSeq(chunk, l.off + 1, l.off + take)
          IN [capture |-> IF Len(h) = HeaderLength THEN BeginMessage(c, h[1] = 1, h[HeaderLength])
                                                   ELSE [c EXCEPT !.header = h],
              off |-> l.off + take]

\* push: each turn takes a byte at least, and none when the chunk is through.
Push(c, chunk) ==
  LET turn[n \in Nat] == IF n = 0 THEN [capture |-> c, off |-> 0] ELSE Turn(turn[n - 1], chunk)
  IN turn[Len(chunk)].capture

\* BodyTee: every byte is counted, the first ones are kept.
TeeChunk(tee, chunk) ==
  LET room == PROXY_BODY_CAP - Len(tee.chunks)
  IN [bytes |-> tee.bytes + Len(chunk),
      chunks |-> IF room <= 0 THEN tee.chunks ELSE tee.chunks \o SubSeq(chunk, 1, Least(room, Len(chunk)))]

Truncated(tee) == tee.bytes > Len(tee.chunks)

-----------------------------------------------------------------------------
\* A chunk of the stream passes.
ChunkPasses ==
  /\ \E n \in 1 .. MaxStream - Len(teed) : \E chunk \in [1 .. n -> Bytes] :
       /\ teed' = teed \o chunk
       /\ capture' = Push(capture, chunk)
       /\ bodyTee' = TeeChunk(bodyTee, chunk)

FramesNext == ChunkPasses

-----------------------------------------------------------------------------
\* The length in the header after the first `at' bytes of a stream, once it is there.
LengthAt(s, at) == IF at + HeaderLength <= Len(s) THEN s[at + HeaderLength] ELSE 0

\* Of each frame, counted from 0, how many bytes of the stream, and of payload, are before it.
Frames(s) ==
  LET frame[k \in Nat] ==
        IF k = 0 THEN [at |-> 0, payload |-> 0]
        ELSE LET last == frame[k - 1]
             IN [at |-> last.at + HeaderLength + LengthAt(s, last.at),
                 payload |-> last.payload + LengthAt(s, last.at)]
  IN frame

\* What is to be shown of a frame when so many bytes of the stream have passed.
Shown(s, passed, frame) ==
  LET length == LengthAt(s, frame.at)
      have == Least(length, passed - (frame.at + HeaderLength))
      kept == Least(have, PROXY_BODY_CAP - Least(frame.payload, PROXY_BODY_CAP))
  IN [bytes |-> length, compressed |-> s[frame.at + 1] = 1, whole |-> have = length,
      kept |-> SubSeq(s, frame.at + HeaderLength + 1, frame.at + HeaderLength + kept),
      truncated |-> kept < have]

\* However a stream is cut into chunks, every message of it is counted, the first ones
\* are kept with the length and the flag of their header and with what the budget of the
\* direction allows of their payload, a message is whole when its last byte has come, be it
\* empty, and truncated when bytes of it were dropped; and the preview is the head of the body.
FramesAreTheWire ==
  /\ \A k \in 0 .. Len(teed) + 1 :
       k < capture.messages <=> Frames(teed)[k].at + HeaderLength <= Len(teed)
  /\ Len(capture.captured) = Least(capture.messages, GRPC_MESSAGE_CAP)
  /\ \A k \in DOMAIN capture.captured :
       capture.captured[k] = Shown(teed, Len(teed), Frames(teed)[k - 1])
  /\ bodyTee.chunks = SubSeq(teed, 1, Least(Len(teed), PROXY_BODY_CAP))
  /\ bodyTee.bytes = Len(teed) /\ (Truncated(bodyTee) <=> Len(teed) > PROXY_BODY_CAP)

\* What the recorder keeps of a stream is the head of what was sent, however it was
\* chunked, and what is decoded from the head of a capture is the head of what the
\* whole would show (engine/record-proxy.ts, core/record).
CapturesTellNoLies == CutCapturesTellNoLies /\ FramesAreTheWire

FramesSpec == FramesInit /\ [][FramesNext]_frameVars
=============================================================================
