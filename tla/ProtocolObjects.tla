--------------------------- MODULE ProtocolObjects ---------------------------
(***************************************************************************)
(* Protocol objects on the wire: what a Deliverable writes as header and   *)
(* payload, and what a ReceivableFactory and a Receivable make of it at    *)
(* the other end of a stream that carries one object after the other.      *)
(*                                                                         *)
(* Integers are four bytes, as in the code, in a base that stands for 256; *)
(* the four characters of a type, those of the start sequence and the two  *)
(* of an address family are one unit of the stream each.                   *)
(***************************************************************************)
EXTENDS Integers, Sequences

CONSTANTS
  Base,        \* stands for 256
  Object,      \* the objects to be sent, a subset of Objects(...) below
  MaxObjects   \* bound: objects sent over one stream

ASSUME BaseAssumption == Base \in Nat /\ Base > 1 /\ Base % 2 = 0
ASSUME MaxAssumption == MaxObjects \in Nat

B(n) == [what |-> "byte", byte |-> n]
C(chars) == [what |-> chars, byte |-> 0]

VARIABLES
  sent,         \* the objects given to the sender's end
  stream,       \* units on their way
  receivable,   \* the Receivable waiting for its payload
  received,     \* the objects that have been read
  failed        \* ProtObjFactory::create threw

vars == <<sent, stream, receivable, received, failed>>

-----------------------------------------------------------------------------
(* The classes of protocol objects and what they hold *)

FileHandle(fh) == [type |-> "filh", word |-> fh]
ClientHandle(ch) == [type |-> "clnh", word |-> ch]
CloseFile(fh) == [type |-> "clos", word |-> fh]
Disconnect(ch) == [type |-> "disc", word |-> ch]
File(filename) == [type |-> "open", text |-> filename]
NotAcknowledged(reason) == [type |-> "nack", text |-> reason]
Message(message, fh) == [type |-> "mesg", word |-> fh, text |-> message]
Client(name, ip) == [type |-> "clnt", text |-> name, ip |-> ip]
Acknowledged == [type |-> "ackn"]

\* All objects that can be made of some words and texts.  A client's address is
\* v4 or v6; its name is not empty, as the reader asserts.
Objects(words, texts) ==
  UNION {{FileHandle(w), ClientHandle(w), CloseFile(w), Disconnect(w)} : w \in words}
    \cup UNION {{File(s), NotAcknowledged(s)} : s \in texts}
    \cup {Message(s, w) : s \in texts, w \in words}
    \cup {Client(s, v) : s \in texts \ {<<>>}, v \in {"v4", "v6"}}
    \cup {Acknowledged}

-----------------------------------------------------------------------------
(* Integers *)

encode_32bit_int(n) ==
  <<B(n % Base), B((n \div Base) % Base), B((n \div (Base * Base)) % Base),
    B(n \div (Base * Base * Base))>>

decode_32bit_int(s) ==
  s[1].byte + Base * (s[2].byte + Base * (s[3].byte + Base * s[4].byte))

\* Message does not use decode_32bit_int.  It shifts the bytes as they are,
\* plain chars, and takes their disjunction: one that is negative sets all bits
\* above it.
Negative(unit) == 2 * unit.byte >= Base

DecodeChars(s) ==
  decode_32bit_int(
    [i \in 1..4 |-> IF \E j \in 1..(i - 1) : Negative(s[j])
                      THEN B(Base - 1) ELSE s[i]])

-----------------------------------------------------------------------------
(* Writing: get_header of a Deliverable and get_payload.  The length in the  *)
(* header is computed apart from the payload.                                *)

create_header(type, length) == <<C("logs"), C(type)>> \o encode_32bit_int(length)
HeaderLength == 6

Write_FileHandle(fh) == create_header("filh", 4) \o encode_32bit_int(fh)
Write_ClientHandle(ch) == create_header("clnh", 4) \o encode_32bit_int(ch)
Write_CloseFile(fh) == create_header("clos", 4) \o encode_32bit_int(fh)
Write_Disconnect(ch) == create_header("disc", 4) \o encode_32bit_int(ch)
Write_File(filename) == create_header("open", Len(filename)) \o filename
Write_NotAcknowledged(reason) == create_header("nack", Len(reason)) \o reason
Write_Message(message, fh) ==
  create_header("mesg", 4 + Len(message)) \o encode_32bit_int(fh) \o message
Write_Acknowledged == create_header("ackn", 0)

AddressLength(ip) == IF ip = "v4" THEN 4 ELSE 16
Address(ip) == [i \in 1..AddressLength(ip) |-> B(Base - 1)]

\* Mutant: as many bytes for the address as the older constructor counts.
Write_Client_AlwaysV4(name, ip) ==
  create_header("clnt", 1 + 4 + Len(name)) \o <<C(ip)>> \o Address(ip) \o name

Write_Client(name, ip) ==
  create_header("clnt", 1 + AddressLength(ip) + Len(name))
    \o <<C(ip)>> \o Address(ip) \o name

Written(obj) ==
  CASE obj.type = "filh" -> Write_FileHandle(obj.word)
    [] obj.type = "clnh" -> Write_ClientHandle(obj.word)
    [] obj.type = "clos" -> Write_CloseFile(obj.word)
    [] obj.type = "disc" -> Write_Disconnect(obj.word)
    [] obj.type = "open" -> Write_File(obj.text)
    [] obj.type = "nack" -> Write_NotAcknowledged(obj.text)
    [] obj.type = "mesg" -> Write_Message(obj.text, obj.word)
    [] obj.type = "clnt" -> Write_Client(obj.text, obj.ip)
    [] obj.type = "ackn" -> Write_Acknowledged

Send(obj) ==
  /\ Len(sent) < MaxObjects
  /\ sent' = Append(sent, obj)
  /\ stream' = stream \o Written(obj)
  /\ UNCHANGED <<receivable, received, failed>>

-----------------------------------------------------------------------------
(* Reading: a header's worth of units, then as many as the Receivable that   *)
(* is made for it asks for                                                   *)

\* An object that waits for its payload: its type and the length it says
Receivable(type, length) == [type |-> type, length |-> length]
NoReceivable == Receivable("none", 0)

New_FileHandle == Receivable("filh", 4)
New_ClientHandle == Receivable("clnh", 4)
New_CloseFile == Receivable("clos", 4)
New_Disconnect == Receivable("disc", 4)
New_Acknowledged == Receivable("ackn", 0)
New_File(length) == Receivable("open", length)
New_Message(length) == Receivable("mesg", length)
New_NotAcknowledged(length) == Receivable("nack", length)
New_Client(length) == Receivable("clnt", length)

\* What ProtObjFactory may throw instead
MalformedHeader == Receivable("malformed header", 0)
UnknownProtocolObjectType == Receivable("unknown type", 0)
Exceptions == {MalformedHeader, UnknownProtocolObjectType}

check_payload_length(actual, expected, new) ==
  IF actual = expected THEN new ELSE MalformedHeader

creators(type, length) ==
  CASE type = "filh" -> check_payload_length(length, 4, New_FileHandle)
    [] type = "clnh" -> check_payload_length(length, 4, New_ClientHandle)
    [] type = "clos" -> check_payload_length(length, 4, New_CloseFile)
    [] type = "disc" -> check_payload_length(length, 4, New_Disconnect)
    [] type = "ackn" -> check_payload_length(length, 0, New_Acknowledged)
    [] type = "open" -> New_File(length)
    [] type = "mesg" -> New_Message(length)
    [] type = "nack" -> New_NotAcknowledged(length)
    [] type = "clnt" -> New_Client(length)
    [] OTHER -> UnknownProtocolObjectType

create(header) ==
  IF header[1] = C("logs")
    THEN creators(header[2].what, decode_32bit_int(SubSeq(header, 3, HeaderLength)))
    ELSE MalformedHeader

ReadHeader ==
  LET created == create(SubSeq(stream, 1, HeaderLength))
  IN  /\ ~failed
      /\ receivable = NoReceivable
      /\ Len(stream) >= HeaderLength
      /\ stream' = SubSeq(stream, HeaderLength + 1, Len(stream))
      /\ failed' = (created \in Exceptions)
      /\ receivable' = IF failed' THEN NoReceivable ELSE created
      /\ UNCHANGED <<sent, received>>

From(n, s) == SubSeq(s, n, Len(s))

Read_FileHandle(s) == FileHandle(decode_32bit_int(s))
Read_ClientHandle(s) == ClientHandle(decode_32bit_int(s))

\* Mutant: decoded as Message does it.
Read_CloseFile_AsChars(s) == CloseFile(DecodeChars(s))

Read_CloseFile(s) == CloseFile(decode_32bit_int(s))
Read_Disconnect(s) == Disconnect(decode_32bit_int(s))
Read_File(s) == File(s)
Read_NotAcknowledged(s) == NotAcknowledged(s)
Read_Message(s) == Message(From(5, s), DecodeChars(SubSeq(s, 1, 4)))

Read_Client(s) == Client(From(2 + AddressLength(Head(s).what), s), Head(s).what)

read_payload(type, s) ==
  CASE type = "filh" -> Read_FileHandle(s)
    [] type = "clnh" -> Read_ClientHandle(s)
    [] type = "clos" -> Read_CloseFile(s)
    [] type = "disc" -> Read_Disconnect(s)
    [] type = "open" -> Read_File(s)
    [] type = "nack" -> Read_NotAcknowledged(s)
    [] type = "mesg" -> Read_Message(s)
    [] type = "clnt" -> Read_Client(s)
    [] type = "ackn" -> Acknowledged

\* The object that has arrived with the Receivable's payload
Arrived == read_payload(receivable.type, SubSeq(stream, 1, receivable.length))

ReadPayload ==
  /\ receivable # NoReceivable
  /\ Len(stream) >= receivable.length
  /\ received' = Append(received, Arrived)
  /\ stream' = From(receivable.length + 1, stream)
  /\ receivable' = NoReceivable
  /\ UNCHANGED <<sent, failed>>

Init ==
  /\ sent = <<>>
  /\ stream = <<>>
  /\ receivable = NoReceivable
  /\ received = <<>>
  /\ failed = FALSE

Next == (\E obj \in Object : Send(obj)) \/ ReadHeader \/ ReadPayload

Spec == Init /\ [][Next]_vars

-----------------------------------------------------------------------------
(* Properties *)

\* Objects of all types can follow each other: every header announces just the
\* payload that is written, and the reader never takes the one for the other.
Framed ==
  /\ ~failed
  /\ Len(received) + (IF receivable = NoReceivable THEN 0 ELSE 1) <= Len(sent)
  /\ Len(received) = Len(sent) => stream = <<>>

\* A handle of which no byte but the highest is negative as a char
Plain(word) == \A i \in 1..3 : ~Negative(encode_32bit_int(word)[i])

\* What is read is what was written, object by object; except that a message
\* keeps its file handle only when it is plain.
ObjectsSurvive ==
  \A i \in DOMAIN received :
    IF sent[i].type = "mesg" /\ ~Plain(sent[i].word)
      THEN received[i] = [sent[i] EXCEPT !.word = received[i].word]
      ELSE received[i] = sent[i]

\* protocol.txt: "Any prot::ProtocolObject can be serialized.  The
\* prot::ProtocolObject can create itself from serialization data."
AnyObjectCanBeSerialized ==
  \A i \in DOMAIN received : received[i] = sent[i]
=============================================================================
