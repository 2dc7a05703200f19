------------------------------- MODULE Framing -------------------------------
(***************************************************************************)
(* streams.rs and bytes.rs: how a message is marked off from what follows   *)
(* it.  Three forms have a u32 in front that counts bytes: the messages of  *)
(* IncomingStream and OutgoingStream (the codec's), the header of a stream  *)
(* (write_framed, read_framed), the prefix of a datagram.  A message is     *)
(* the bytes that bincode makes of it.                                     *)
(*                                                                         *)
(* The specification is the first bi stream: its receiver sits in a select   *)
(* whose other branches drop the call of next whenever they are taken.     *)
(***************************************************************************)
EXTENDS Integers, SequencesExt

CONSTANTS ByteCount,     \* values of a byte
          CountBytes,    \* bytes of a u32
          MaxFrame,      \* set_max_frame_length
          MaxMessages    \* bound: messages sent

\* The number of values of a u32.
CountValues ==
    LET power[i \in 0..CountBytes] == IF i = 0 THEN 1 ELSE ByteCount * power[i - 1]
    IN  power[CountBytes]

ASSUME FramingAssumption ==
    /\ ByteCount \in Nat \ {0, 1} /\ CountBytes \in Nat \ {0}
    /\ MaxFrame \in 0..(CountValues - 1) /\ MaxMessages \in Nat

Byte == 0..(ByteCount - 1)

\* Big-endian; what is beyond a u32 is cut off.
PutU32(n) ==
    LET shifted[i \in 0..CountBytes] ==
            IF i = 0 THEN n ELSE shifted[i - 1] \div ByteCount
    IN  [i \in 1..CountBytes |-> shifted[CountBytes - i] % ByteCount]

GetU32(bytes) ==
    LET read[i \in 0..CountBytes] ==
            IF i = 0 THEN 0 ELSE read[i - 1] * ByteCount + bytes[i]
    IN  read[CountBytes]

Counted(bytes) == PutU32(Len(bytes)) \o bytes

Drop(bytes, n) == SubSeq(bytes, n + 1, Len(bytes))

-----------------------------------------------------------------------------
(* Headers of streams and datagrams.                                       *)

WriteFramed(header) == Counted(header)

\* Mutant: what has been read ahead is dropped with the reader.
ReadFramedAhead(bytes, maxSize) ==
    LET len == GetU32(bytes)
    IN  IF Len(bytes) < CountBytes \/ len > maxSize \/ Len(bytes) < CountBytes + len
        THEN [ok |-> FALSE, header |-> <<>>, rest |-> <<>>]
        ELSE [ok |-> TRUE, header |-> SubSeq(bytes, CountBytes + 1, CountBytes + len),
              rest |-> <<>>]

\* What read_framed returns for a stream that holds just these bytes, and what
\* the stream holds then.
ReadFramed(bytes, maxSize) ==
    LET len == GetU32(bytes)
    IN  IF Len(bytes) < CountBytes \/ len > maxSize \/ Len(bytes) < CountBytes + len
        THEN [ok |-> FALSE, header |-> <<>>, rest |-> <<>>]
        ELSE [ok |-> TRUE, header |-> SubSeq(bytes, CountBytes + 1, CountBytes + len),
              rest |-> Drop(bytes, CountBytes + len)]

Prefix(header, data) == Counted(header) \o data

\* Defined on what prefix makes: shorter data panics in get_u32 or in the slice.
DropPrefix(bytes) ==
    LET data == Drop(bytes, CountBytes)
        len == GetU32(bytes)
    IN  [header |-> SubSeq(data, 1, len), data |-> Drop(data, len)]

-----------------------------------------------------------------------------
(* The stream of messages.                                                 *)

VARIABLES sent,        \* messages that OutgoingStream::send has taken
          wire,        \* bytes on their way
          buffer,      \* bytes FramedRead has read
          polled,      \* a call of next is under way
          delivered    \* messages next has returned

vars == <<sent, wire, buffer, polled, delivered>>

Init == sent = <<>> /\ wire = <<>> /\ buffer = <<>> /\ polled = FALSE /\ delivered = <<>>

\* The codec of the sender refuses what that of the receiver would: the caller
\* logs the error and goes on.
Send(message) ==
    /\ Len(sent) < MaxMessages /\ Len(message) <= MaxFrame
    /\ sent' = Append(sent, message)
    /\ wire' = wire \o Counted(message)
    /\ UNCHANGED <<buffer, polled, delivered>>

CallNext ==
    /\ ~polled
    /\ polled' = TRUE
    /\ UNCHANGED <<sent, wire, buffer, delivered>>

\* Any number of bytes arrives.
ReadBytes(n) ==
    /\ polled /\ n \in 1..Len(wire)
    /\ buffer' = buffer \o SubSeq(wire, 1, n)
    /\ wire' = Drop(wire, n)
    /\ UNCHANGED <<sent, polled, delivered>>

Return ==
    /\ polled /\ ReadFramed(buffer, MaxFrame).ok
    /\ delivered' = Append(delivered, ReadFramed(buffer, MaxFrame).header)
    /\ buffer' = Drop(buffer, CountBytes + GetU32(buffer))
    /\ polled' = FALSE
    /\ UNCHANGED <<sent, wire>>

\* Mutant: the bytes read are held by the call, as they are in read_framed.
DropCallAndBytes ==
    /\ polled
    /\ polled' = FALSE /\ buffer' = <<>>
    /\ UNCHANGED <<sent, wire, delivered>>

\* Another branch of the select is taken.  FramedRead keeps its buffer.
DropCall ==
    /\ polled
    /\ polled' = FALSE
    /\ UNCHANGED <<sent, wire, buffer, delivered>>

Next == \/ \E message \in SeqOf(Byte, MaxFrame) : Send(message)
        \/ CallNext \/ Return \/ DropCall
        \/ \E n \in 1..Len(wire) : ReadBytes(n)

Spec == Init /\ [][Next]_vars

-----------------------------------------------------------------------------
(* Properties.                                                             *)

\* The messages returned are those sent, in order and whole, however their bytes
\* arrive and however often the call of next is dropped halfway.
MessagesIntact ==
    /\ IsPrefix(delivered, sent)
    /\ wire = <<>> /\ ~ReadFramed(buffer, MaxFrame).ok => delivered = sent

\* A header is read as it was written, whatever data follows it, and leaves just
\* that data to the copy of the stream; one longer than the reader allows is
\* refused, and so is one that breaks off.
HeaderThenData(header, data, maxSize) ==
    LET bytes == WriteFramed(header) \o data
        read == ReadFramed(bytes, maxSize)
    IN  IF Len(header) <= maxSize
        THEN /\ read = [ok |-> TRUE, header |-> header, rest |-> data]
             /\ \A n \in 0..(CountBytes + Len(header) - 1) :
                    ~ReadFramed(SubSeq(bytes, 1, n), maxSize).ok
        ELSE ~read.ok

\* A datagram comes out of drop_prefix as it went into prefix.
DatagramIntact(header, data) ==
    DropPrefix(Prefix(header, data)) = [header |-> header, data |-> data]
=============================================================================
