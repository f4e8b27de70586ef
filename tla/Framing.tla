------------------------------ MODULE Framing ------------------------------
(* The two framings of the wire, written by Framer.h or transport.ts's        *)
(* frame(), and read from one stream by both readers: the TypeScript          *)
(* FrameParser, which is pushed chunks as they arrive, and the framers of     *)
(* Framer.h, which block on an istream.  Comparing them over the same bytes   *)
(* covers either direction of a connection.                                   *)
(*                                                                            *)
(* A byte is a digit below Base, and a length takes Width of them: 256 and 4  *)
(* in the code.                                                               *)
EXTENDS Integers, Sequences, SequencesExt

CONSTANTS
    Base, Width,    \* of the length prefix
    Newline,        \* the byte that ends a line
    Payloads,       \* what may be written
    MaxFrames       \* bound on the frames written

ASSUME BaseAssumption == Base \in Nat \ {0, 1} /\ Width \in Nat \ {0} /\ MaxFrames \in Nat
ASSUME PayloadAssumption == Payloads \subseteq Seq(0..(Base - 1)) /\ Newline \in 0..(Base - 1)

VARIABLES
    framing,    \* "line" or "length32", the codec's choice
    written,    \* the payloads written
    pipe,       \* bytes written and not delivered
    cut,        \* the writer died within a frame
    eof,        \* the stream has ended after `pipe`
    buffer,     \* FrameParser.buffer
    start,      \* drainLine's start
    pushing,    \* FrameParser.push is running
    emitted,    \* the frames FrameParser emitted
    input,      \* bytes delivered to the istream and not read
    frames,     \* what the framer's read() returned
    done        \* read() returned nullopt

vars == <<framing, written, pipe, cut, eof, buffer, start, pushing, emitted, input, frames, done>>

Init == /\ framing \in {"line", "length32"}
        /\ written = <<>> /\ pipe = <<>> /\ cut = FALSE /\ eof = FALSE
        /\ buffer = <<>> /\ start = 0 /\ pushing = FALSE /\ emitted = <<>>
        /\ input = <<>> /\ frames = <<>> /\ done = FALSE

-----------------------------------------------------------------------------
(* Writing. *)
LineBytes(p) == Append(p, Newline)

(* What a shift by k bytes multiplies by. *)
Power[k \in 0..Width] == IF k = 0 THEN 1 ELSE Base * Power[k - 1]

(* Mutants of Prefix: in the order of the machine; digits not masked. *)
PrefixLittleEndian(n) == [k \in 1..Width |-> (n \div Power[k - 1]) % Base]
PrefixUnmasked(n) == [k \in 1..Width |-> n \div Power[Width - k]]

(* The length, truncated to the width of the prefix, most significant first. *)
Prefix(n) == [k \in 1..Width |-> (n \div Power[Width - k]) % Base]

Length32Bytes(p) == Prefix(Len(p)) \o p

Framed(p) == IF framing = "line" THEN LineBytes(p) ELSE Length32Bytes(p)

(* What each codec may send: JSON text on one line has no newline in it; a    *)
(* longer message than the prefix can count is not made.                      *)
Carries(p) == IF framing = "line" THEN \A k \in 1..Len(p) : p[k] # Newline
                                  ELSE Len(p) < Power[Width]

(* One write() of a framer, or one frame() sent. *)
Write(p) ==
    /\ ~eof /\ Len(written) < MaxFrames /\ Carries(p)
    /\ written' = Append(written, p)
    /\ pipe' = pipe \o Framed(p)
    /\ UNCHANGED <<framing, cut, eof, buffer, start, pushing, emitted, input, frames, done>>

(* The writer closes the stream, or dies with its last bytes not written. *)
End(n) ==
    /\ ~eof /\ eof' = TRUE
    /\ pipe' = SubSeq(pipe, 1, n)
    /\ cut' = (n < Len(pipe))
    /\ UNCHANGED <<framing, written, buffer, start, pushing, emitted, input, frames, done>>

-----------------------------------------------------------------------------
(* The operating system delivers n bytes: a 'data' event for the parser, and  *)
(* more to read for the istream.                                              *)
Deliver(n) ==
    /\ ~pushing
    /\ pipe' = SubSeq(pipe, n + 1, Len(pipe))
    /\ buffer' = buffer \o SubSeq(pipe, 1, n)
    /\ start' = 0 /\ pushing' = TRUE
    /\ input' = input \o SubSeq(pipe, 1, n)
    /\ UNCHANGED <<framing, written, cut, eof, emitted, frames, done>>

NewlineAt(s, from, k) == s[k] = Newline /\ \A j \in (from + 1)..(k - 1) : s[j] # Newline

HasNewline(s, from) == \E k \in (from + 1)..Len(s) : s[k] = Newline

(* Mutant of DrainLine: the loop's end drops the rest of the buffer. *)
DrainLineForgets ==
    /\ pushing /\ framing = "line"
    /\ \/ \E k \in (start + 1)..Len(buffer) :
             /\ NewlineAt(buffer, start, k)
             /\ emitted' = Append(emitted, SubSeq(buffer, start + 1, k - 1))
             /\ start' = k
             /\ UNCHANGED <<buffer, pushing>>
       \/ /\ ~HasNewline(buffer, start)
          /\ buffer' = <<>>
          /\ pushing' = FALSE /\ start' = 0
          /\ UNCHANGED emitted
    /\ UNCHANGED <<framing, written, pipe, cut, eof, input, frames, done>>

(* drainLine: emits up to each newline, and at the end keeps what follows the *)
(* last one.                                                                  *)
DrainLine ==
    /\ pushing /\ framing = "line"
    /\ \/ \E k \in (start + 1)..Len(buffer) :
             /\ NewlineAt(buffer, start, k)
             /\ emitted' = Append(emitted, SubSeq(buffer, start + 1, k - 1))
             /\ start' = k
             /\ UNCHANGED <<buffer, pushing>>
       \/ /\ ~HasNewline(buffer, start)
          /\ buffer' = SubSeq(buffer, start + 1, Len(buffer))
          /\ pushing' = FALSE /\ start' = 0
          /\ UNCHANGED emitted
    /\ UNCHANGED <<framing, written, pipe, cut, eof, input, frames, done>>

(* The number the first Width bytes make. *)
Decoded(s) ==
    LET value[k \in 0..Width] == IF k = 0 THEN 0 ELSE value[k - 1] * Base + s[k]
    IN  value[Width]

(* Mutant: a frame that ends with the buffer waits for the next byte. *)
CompleteOffByOne(s) == Len(s) >= Width /\ Len(s) > Width + Decoded(s)

(* A whole frame, prefix and payload, is there. *)
Complete(s) == Len(s) >= Width /\ Len(s) >= Width + Decoded(s)

DrainLength32 ==
    /\ pushing /\ framing = "length32"
    /\ IF Complete(buffer)
       THEN LET total == Width + Decoded(buffer)
            IN /\ emitted' = Append(emitted, SubSeq(buffer, Width + 1, total))
               /\ buffer' = SubSeq(buffer, total + 1, Len(buffer))
               /\ UNCHANGED pushing
       ELSE pushing' = FALSE /\ UNCHANGED <<emitted, buffer>>
    /\ UNCHANGED <<framing, written, pipe, cut, eof, start, input, frames, done>>

-----------------------------------------------------------------------------
InputEnded == eof /\ pipe = <<>>

(* read() returns a payload and leaves the rest of the stream. *)
Got(p, n) == /\ frames' = Append(frames, p)
             /\ input' = SubSeq(input, n + 1, Len(input))
             /\ UNCHANGED done

GotNothing == done' = TRUE /\ input' = <<>> /\ UNCHANGED frames

(* LineFramer::read: up to a newline; at the end of input, what is left.      *)
LineRead ==
    /\ framing = "line" /\ ~done
    /\ \/ \E k \in 1..Len(input) : NewlineAt(input, 0, k) /\ Got(SubSeq(input, 1, k - 1), k)
       \/ /\ ~HasNewline(input, 0) /\ InputEnded
          /\ IF input = <<>> THEN GotNothing ELSE Got(input, Len(input))
    /\ UNCHANGED <<framing, written, pipe, cut, eof, buffer, start, pushing, emitted>>

(* Mutant of Length32Read: the count of the bytes read is not looked at. *)
Length32ReadShort ==
    /\ framing = "length32" /\ ~done
    /\ \/ /\ Complete(input)
          /\ LET total == Width + Decoded(input)
             IN Got(SubSeq(input, Width + 1, total), total)
       \/ /\ ~Complete(input) /\ InputEnded
          /\ IF Len(input) < Width THEN GotNothing
             ELSE Got([k \in 1..Decoded(input) |-> IF Width + k <= Len(input) THEN input[Width + k] ELSE 0],
                      Len(input))
    /\ UNCHANGED <<framing, written, pipe, cut, eof, buffer, start, pushing, emitted>>

(* Length32Framer::read: a prefix and its payload, or nothing at the end of   *)
(* input within them.                                                         *)
Length32Read ==
    /\ framing = "length32" /\ ~done
    /\ \/ /\ Complete(input)
          /\ LET total == Width + Decoded(input)
             IN Got(SubSeq(input, Width + 1, total), total)
       \/ ~Complete(input) /\ InputEnded /\ GotNothing
    /\ UNCHANGED <<framing, written, pipe, cut, eof, buffer, start, pushing, emitted>>

Read == LineRead \/ Length32Read

(* Nothing is left to deliver or to read. *)
Terminated == done /\ ~pushing /\ InputEnded /\ UNCHANGED vars

Next ==
    \/ \E p \in Payloads : Write(p)
    \/ \E n \in 0..Len(pipe) : End(n)
    \/ \E n \in 1..Len(pipe) : Deliver(n)
    \/ DrainLine \/ DrainLength32
    \/ Read
    \/ Terminated

Spec == Init /\ [][Next]_vars

-----------------------------------------------------------------------------
(* The values of the state: payloads and bytes. *)
Bytes == 0..(Base - 1)
TypeOK ==
    /\ framing \in {"line", "length32"}
    /\ written \in Seq(Payloads)
    /\ pipe \in Seq(Bytes) /\ buffer \in Seq(Bytes) /\ input \in Seq(Bytes)
    /\ emitted \in Seq(Seq(Bytes)) /\ frames \in Seq(Seq(Bytes))
    /\ start \in 0..Len(buffer)
    /\ cut \in BOOLEAN /\ eof \in BOOLEAN /\ pushing \in BOOLEAN /\ done \in BOOLEAN

(* However the bytes are cut into chunks, the parser emits the payloads that  *)
(* were written, in order: none invented, split, joined or repeated.          *)
ParserFaithful == IsPrefix(emitted, written)

(* So does the framer's read(), but for one frame: what a writer that died    *)
(* left of a line is returned as if it were a line.                           *)
ReaderFaithful ==
    \/ IsPrefix(frames, written)
    \/ /\ cut /\ framing = "line" /\ InputEnded
       /\ IsPrefix(Front(frames), written)
       /\ Len(frames) <= Len(written)
       /\ IsPrefix(Last(frames), written[Len(frames)])

(* push() returns only when the buffer holds no complete frame: a frame whose *)
(* last byte has come is not kept until the next one arrives.                 *)
NothingHeldBack ==
    ~pushing /\ pipe = <<>> /\ ~eof => emitted = written

(* Over a stream that was not cut both readers return all that was written. *)
AllDelivered ==
    done /\ ~pushing /\ InputEnded /\ ~cut => emitted = written /\ frames = written
=============================================================================
