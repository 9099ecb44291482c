----------------------------- MODULE FrameCodec -----------------------------
(***************************************************************************)
(* vz_protocol/src/frame.rs byte for byte: frames written to a stream and  *)
(* read back from what arrives of it.                                      *)
(***************************************************************************)
EXTENDS Bytes

CONSTANT MaxFramePayload   \* MAX_FRAME_PAYLOAD

ASSUME PayloadAssumption == MaxFramePayload \in Nat

Channels == <<"Control", "Stdin", "Stdout", "Stderr">>

ToByte(channel) == (CHOOSE i \in DOMAIN Channels : Channels[i] = channel) - 1

\* u32 little-endian.
Higher(n) == n \div 256
Le32(n) == <<n % 256, Higher(n) % 256, Higher(Higher(n)) % 256, Higher(Higher(Higher(n))) % 256>>
FromLe32(b) == b[1] + 256 * (b[2] + 256 * (b[3] + 256 * b[4]))

\* Nothing is written of a frame that is refused.
WriteFrame(frame) ==
    IF Len(frame.payload) > MaxFramePayload THEN [error |-> "Oversized", bytes |-> <<>>]
    ELSE [error |-> "None",
          bytes |-> Le32(Len(frame.payload)) \o <<ToByte(frame.channel)>> \o frame.payload]

TooLong_OffByOne(declared) == declared >= MaxFramePayload

TooLong(declared) == declared > MaxFramePayload

\* One frame or the error that ends the stream; a clean close is told from a
\* cut frame, and the length is judged before anything behind it is read.
ReadFrame(stream) ==
    LET declared == FromLe32(Slice(stream, 0, 4))
    IN  CASE stream = <<>>                      -> [error |-> "Closed"]
          [] stream # <<>> /\ Len(stream) < 4   -> [error |-> "UnexpectedEof"]
          [] Len(stream) >= 4 /\ TooLong(declared) -> [error |-> "Oversized"]
          [] Len(stream) = 4 /\ ~TooLong(declared) -> [error |-> "UnexpectedEof"]
          [] Len(stream) > 4 /\ ~TooLong(declared) /\ At(stream, 4) >= Len(Channels)
                -> [error |-> "UnknownChannel"]
          [] OTHER
                -> IF Len(stream) < 5 + declared THEN [error |-> "UnexpectedEof"]
                   ELSE [error |-> "None",
                         frame |-> [channel |-> Channels[At(stream, 4) + 1],
                                    payload |-> Slice(stream, 5, 5 + declared)],
                         rest  |-> From(stream, 5 + declared)]

\* What a reader that goes on until an error gets from a stream.
ReadAll(stream) ==
    LET read[n \in 0..Len(stream)] ==   \* the last n bytes
          LET r == ReadFrame(From(stream, Len(stream) - n))
          IN  IF r.error # "None" THEN [frames |-> <<>>, error |-> r.error]
              ELSE LET more == read[Len(r.rest)]
                   IN  [more EXCEPT !.frames = <<r.frame>> \o @]
    IN  read[Len(stream)]
=============================================================================
