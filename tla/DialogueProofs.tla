--------------------------- MODULE DialogueProofs ---------------------------
(***************************************************************************)
(* What is proved of the data of a conversation, for all names, paths,     *)
(* texts and handles that four bytes can count, and of timestamps, for     *)
(* every time of the day and any days.  The invariant says what is on the  *)
(* way in either direction, and what the two ends then know of each other. *)
(***************************************************************************)
EXTENDS Dialogue, SequenceTheorems, FiniteSetTheorems, TLAPS

-----------------------------------------------------------------------------
(* Timestamps *)

\* Rounding to the nearest millisecond may give one millisecond too many.
LEMMA ToMs ==
  ASSUME NEW m \in Micros
  PROVE  /\ to_ms(m) \in Nat /\ to_ms(m) <= 1000
         /\ to_ms(m) = 1000 <=> m >= 999500
BY SMT DEF to_ms, Micros

LEMMA ToMsMonotone ==
  ASSUME NEW m \in Micros, NEW n \in Micros, m <= n
  PROVE  to_ms(m) <= to_ms(n)
BY SMT DEF to_ms, Micros

\* The fields of a stamp add up to its second of the day.
LEMMA ToldIs ==
  ASSUME NEW t \in Time
  PROVE  Told(get_timestamp(t)) = 1000 * t.second + to_ms(t.micro)
<1>1. t.second \in Seconds /\ to_ms(t.micro) \in Int
  BY SMT, ToMs DEF Time, Seconds, Micros
<1>2. ASSUME NEW s \in Seconds
      PROVE  3600 * (s \div 3600) + 60 * ((s \div 60) % 60) + (s % 60) = s
  BY SMT DEF Seconds
<1>3. /\ get_timestamp(t).hour = t.second \div 3600
      /\ get_timestamp(t).minute = (t.second \div 60) % 60
      /\ get_timestamp(t).second = t.second % 60
      /\ get_timestamp(t).ms = to_ms(t.micro)
  BY SMT DEF get_timestamp
<1> QED
  BY SMT, <1>1, <1>2, <1>3 DEF Told

\* The format of a timestamp is kept in all but the last half millisecond of a
\* second (DefaultTimestampFactory's to_ms and field).
THEOREM FormatKept ==
  \A now \in Time : FieldsFit(get_timestamp(now)) <=> now.micro < 999500
<1> SUFFICES ASSUME NEW now \in Time
    PROVE  FieldsFit(get_timestamp(now)) <=> now.micro < 999500
  OBVIOUS
<1>1. now.second \in Seconds /\ now.micro \in Micros
  BY SMT DEF Time, Seconds
<1>2. ASSUME NEW s \in Seconds
      PROVE  s \div 3600 < 100 /\ (s \div 60) % 60 < 100 /\ s % 60 < 100
  BY SMT DEF Seconds
<1>3. to_ms(now.micro) < 1000 <=> now.micro < 999500
  BY SMT, <1>1, ToMs DEF Micros
<1> QED
  BY SMT, <1>1, <1>2, <1>3, ToMs DEF FieldsFit, get_timestamp

\* Of two times the later has no earlier stamp.
LEMMA StampsMonotone ==
  ASSUME NEW t \in Time, NEW u \in Time, NotAfter(t, u)
  PROVE  ToldNotAfter(get_timestamp(t), get_timestamp(u))
<1>1. /\ t.day \in Nat /\ u.day \in Nat
      /\ t.second \in Seconds /\ u.second \in Seconds
      /\ t.micro \in Micros /\ u.micro \in Micros
  BY SMT DEF Time, Seconds
<1>2. get_timestamp(t).day = t.day /\ get_timestamp(u).day = u.day
  BY SMT DEF get_timestamp
<1>3. CASE t.day < u.day
  BY SMT, <1>2, <1>3 DEF ToldNotAfter
<1>4. /\ to_ms(t.micro) \in Nat /\ to_ms(t.micro) <= 1000
      /\ to_ms(u.micro) \in Nat /\ to_ms(u.micro) <= 1000
      /\ t.micro <= u.micro => to_ms(t.micro) <= to_ms(u.micro)
  BY SMT, <1>1, ToMs, ToMsMonotone DEF Micros
<1>5. ASSUME t.day = u.day,
             t.second < u.second \/ (t.second = u.second /\ t.micro <= u.micro)
      PROVE  ToldNotAfter(get_timestamp(t), get_timestamp(u))
  <2>1. ASSUME NEW a \in Seconds, NEW b \in Seconds,
               NEW m \in Nat, NEW n \in Nat, m <= 1000,
               a < b \/ (a = b /\ m <= n)
        PROVE  1000 * a + m <= 1000 * b + n
    BY SMT, <2>1 DEF Seconds
  <2>2. 1000 * t.second + to_ms(t.micro) <= 1000 * u.second + to_ms(u.micro)
    BY SMT, <1>1, <1>4, <1>5, <2>1
  <2> QED
    BY SMT, <1>2, <1>5, <2>2, ToldIs DEF ToldNotAfter
<1> QED
  BY SMT, <1>3, <1>5 DEF NotAfter

-----------------------------------------------------------------------------
\* A line carries the stamp of the time it was written at.
Stamped(line) == line.at \in Clock /\ line.stamp = get_timestamp(line.at)

LinesStamped ==
  /\ \E S : lines \in Seq(S)
  /\ \A i \in DOMAIN lines : Stamped(lines[i])

LEMMA WriteStamps ==
  ASSUME LinesStamped, NEW fh, NEW message, write_message(fh, message)
  PROVE  LinesStamped'
<1>1. PICK line : lines' = Append(lines, line) /\ Stamped(line)
  BY DEF write_message, Stamped
<1>2. PICK S : lines \in Seq(S)
  BY DEF LinesStamped
<1>3. lines' \in Seq(S \cup {line})
  BY <1>1, <1>2
<1>4. /\ DOMAIN lines' = 1..(Len(lines) + 1)
      /\ \A i \in 1..Len(lines) : lines'[i] = lines[i]
      /\ lines'[Len(lines) + 1] = line
  BY <1>1, <1>2
<1>5. DOMAIN lines = 1..Len(lines) /\ Len(lines) \in Nat
  BY <1>2
<1>6. \A i \in DOMAIN lines' : Stamped(lines'[i])
  BY <1>1, <1>4, <1>5 DEF LinesStamped
<1> QED
  BY <1>3, <1>6 DEF LinesStamped, Stamped

LEMMA LinesStampedStep ==
  LinesStamped /\ [DialogueNext]_dialogueVars => LinesStamped'
<1> SUFFICES ASSUME LinesStamped, [DialogueNext]_dialogueVars
             PROVE  LinesStamped'
  OBVIOUS
<1>1. CASE UNCHANGED lines
  BY <1>1 DEF LinesStamped, Stamped
<1>2. ASSUME NEW obj, NEW reply, act(obj, reply)
      PROVE  LinesStamped'
  BY <1>1, <1>2, WriteStamps DEF act, Act_Client, Act_File, Act_Message,
     Act_CloseFile, Act_Disconnect, Refuse, open_file, open_file_Throws, close_file,
     disconnect_client, sessionVars
<1>3. CASE Serve
  BY <1>2, <1>3 DEF Serve
<1>4. CASE DialogueNext /\ ~Serve
  BY <1>1, <1>4 DEF DialogueNext, Introduce, OpenFile, writeln, Close, Leave,
     Request, ReadReply, sessionVars
<1>5. CASE UNCHANGED dialogueVars
  BY <1>1, <1>5 DEF dialogueVars, sessionVars
<1> QED
  BY <1>3, <1>4, <1>5

\* Stamps tell the order in which the clock gave the times, whatever is rounded
\* and however the local time jumps (DefaultTimestampFactory::get_timestamp,
\* RealSession::write_message).
THEOREM StampsOrdered == DialogueSpec => []StampsFollowClock
<1>1. DialogueInit => LinesStamped
  BY DEF DialogueInit, LinesStamped
<1>2. LinesStamped => StampsFollowClock
  BY StampsMonotone, ClockAssumption
     DEF LinesStamped, Stamped, StampsFollowClock
<1> QED
  BY <1>1, <1>2, LinesStampedStep, PTL DEF DialogueSpec

-----------------------------------------------------------------------------
(* The invariant *)

Byte == {B(n) : n \in 0..(Base - 1)}
Types == {"filh", "clnh", "clos", "disc", "open", "nack", "mesg", "clnt", "ackn"}
Unit == [what : Types \cup {"byte", "logs", "v4", "v6"}, byte : Int]
Handle == Word \cup {None}

\* What the client sends and what the session replies
Requests ==
  {Client(name, ip) : name \in Name, ip \in local_ip}
    \cup {File(path) : path \in Path}
    \cup {Message(text, fh) : text \in Text, fh \in Word}
    \cup {CloseFile(fh) : fh \in Word}
    \cup {Disconnect(ch) : ch \in Word}

Answers ==
  {Acknowledged} \cup {NotAcknowledged(reason) : reason \in Reason}
    \cup {ClientHandle(ch) : ch \in Word} \cup {FileHandle(fh) : fh \in Word}

Sequence(s) == \E S : s \in Seq(S)

DialogueTypeOK ==
  /\ sent \in Seq(Requests) /\ replied \in Seq(Answers)
  /\ Sequence(received) /\ Sequence(answers) /\ Sequence(lines)
  /\ client_handle \in Handle /\ file \in Handle
  /\ own_handle \in Word
  /\ file_handle_counter \in Nat
  /\ file_handle_counter + (MaxObjects - Len(replied)) \in Word
  /\ Len(replied) <= MaxObjects
  /\ \A path \in DOMAIN open_filehandles : open_filehandles[path] \in Word

\* An object's payload, and the Receivable that is made of its header
Payload(obj) == SubSeq(Written(obj), HeaderLength + 1, Len(Written(obj)))
Announced(obj) == Receivable(obj.type, Len(Written(obj)) - HeaderLength)

\* What is read of what is written
Survives(written, read) ==
  IF written.type = "mesg" /\ ~Plain(written.word)
    THEN read = [written EXCEPT !.word = read.word]
    ELSE read = written

\* A stream with nothing on it; one with one object, or with its payload.
Idle(units, next) == units = <<>> /\ next = NoReceivable

OnTheWay(units, next, obj) ==
  \/ units = Written(obj) /\ next = NoReceivable
  \/ units = Payload(obj) /\ next = Announced(obj)

\* The two ends take turns: no more than one object is on its way.
Asking == /\ Len(sent) = Len(replied) + 1 /\ Len(answers) = Len(replied)
          /\ OnTheWay(stream, receivable, Last(sent)) /\ Idle(back, awaited)
Answering == /\ Len(sent) = Len(replied) /\ Len(replied) = Len(answers) + 1
             /\ Idle(stream, receivable) /\ OnTheWay(back, awaited, Last(replied))
Settled == /\ Len(sent) = Len(replied) /\ Len(answers) = Len(replied)
           /\ Idle(stream, receivable) /\ Idle(back, awaited)

TakeTurns ==
  /\ ~failed /\ ~confused
  /\ Len(received) = Len(replied)
  /\ Asking \/ Answering \/ Settled
  /\ \A i \in DOMAIN received : Survives(sent[i], received[i])
  /\ \A i \in DOMAIN answers : answers[i] = replied[i]

\* What the client asks for is what it can ask for where it stands.
Fits(obj) ==
  CASE obj.type = "clnt" -> client_handle = None /\ file = None /\ Len(sent) = 1
    [] obj.type = "open" -> client_handle # None /\ file = None
    [] obj.type = "mesg" -> client_handle # None /\ file # None /\ obj.word = file
    [] obj.type = "clos" -> client_handle # None /\ file # None /\ obj.word = file
    [] obj.type = "disc" -> /\ client_handle # None /\ file = None
                            /\ obj.word = client_handle

InUse(fh) == IF fh = None THEN {} ELSE {fh}

\* The reply is one to the request, and so is what the session has open then.
Served(obj, reply) ==
  CASE obj.type = "clnt" -> reply = ClientHandle(own_handle) /\ open_files = {}
    [] obj.type = "open" ->
         \/ reply.type = "filh" /\ open_files = {reply.word}
         \/ /\ reply.type = "nack" /\ open_files = {}
            /\ obj.text = InvalidPath \/ obj.text \in Unopenable
    [] obj.type = "mesg" ->
         /\ open_files = {file}
         /\ reply = Acknowledged \/ (reply.type = "nack" /\ ~Plain(obj.word))
    [] obj.type = "clos" -> reply = Acknowledged /\ open_files = {}
    [] obj.type = "disc" -> reply = Acknowledged /\ open_files = {}

\* The client knows which file the session has open for it, if any.
KnowEachOther ==
  /\ client_handle \in {None, own_handle}
  /\ client_handle = None <=> answers = <<>>
  /\ file # None => client_handle # None
  /\ Asking \/ Answering => Fits(Last(sent))
  /\ IF Answering THEN Served(Last(sent), Last(replied)) ELSE open_files = InUse(file)
  /\ \A i \in DOMAIN sent : sent[i].type = "clnt" <=> i = 1

\* file_path is that of the last file the client asked for.
Asked(i) == i \in DOMAIN sent /\ sent[i].type = "open"
PathKept ==
  /\ (\E i \in DOMAIN sent : Asked(i)) =>
       \E i \in DOMAIN sent :
         /\ Asked(i) /\ sent[i].text = file_path
         /\ \A j \in DOMAIN sent : Asked(j) => j <= i
  /\ file # None => \E i \in DOMAIN sent : Asked(i)

\* A refusal has its reason, and ends up in an exception that says so.
Complained ==
  IF Last(replied).type # "nack" THEN thrown = NotThrown
  ELSE /\ thrown.reason = Last(replied).text /\ thrown.filename = file_path
       /\ \E i \in DOMAIN sent : Asked(i)

Refusals ==
  /\ \A i \in DOMAIN replied : replied[i].type = "nack" =>
       \/ sent[i] = File(InvalidPath)
       \/ sent[i].type = "open" /\ sent[i].text \in Unopenable
       \/ sent[i].type = "mesg" /\ ~Plain(sent[i].word)
  /\ Settled /\ sent # <<>> => Complained

\* The session writes under the name the client has given itself.
Introduced ==
  replied # <<>> => client_name = sent[1].text /\ client_address = sent[1].ip

DialogueInv ==
  /\ DialogueTypeOK /\ TakeTurns /\ KnowEachOther /\ PathKept /\ Refusals
  /\ Introduced /\ LogSaysWhatWasSaid

-----------------------------------------------------------------------------
(* Integers of four bytes *)

\* Division by a positive number
LEMMA Divides ==
  ASSUME NEW n \in Nat, NEW d \in Nat \ {0}
  PROVE  /\ n \div d \in Nat /\ n % d \in 0..(d - 1)
         /\ n = d * (n \div d) + (n % d)
BY SMT
LEMMA DivOfDiv ==
  ASSUME NEW n \in Nat, NEW a \in Nat \ {0}, NEW b \in Nat \ {0}
  PROVE  n \div (a * b) = (n \div a) \div b
<1> DEFINE m == n \div a  r == n % a  q == m \div b  t == m % b
<1>1. m \in Nat /\ r \in 0..(a - 1) /\ n = a * m + r
  BY Divides
<1>2. q \in Nat /\ t \in 0..(b - 1) /\ m = b * q + t
  BY <1>1, Divides
<1> HIDE DEF m, r, q, t
<1>3. a * t + r \in 0..(a * b - 1) /\ a * b \in Nat \ {0}
  BY <1>1, <1>2, SMT
<1>4. n = (a * b) * q + (a * t + r)
  BY <1>1, <1>2, SMT
<1>5. n \div (a * b) = q
  <2> DEFINE d == a * b  u == a * t + r
  <2>1. d \in Nat \ {0} /\ u \in 0..(d - 1) /\ n = d * q + u
    BY <1>3, <1>4
  <2> HIDE DEF d, u
  <2>2. n \div d = q
    BY <1>2, <2>1, SMT
  <2> QED
    BY <2>2 DEF d
<1> QED
  BY <1>5 DEF q, m

LEMMA Digit ==
  ASSUME NEW n \in Nat
  PROVE  \E q \in Nat, r \in 0..(Base - 1) :
           n \div Base = q /\ n % Base = r /\ n = Base * q + r
<1>1. Base \in Nat \ {0}
  BY BaseAssumption
<1> QED
  BY <1>1, Divides

LEMMA WordCoding ==
  ASSUME NEW n \in Word
  PROVE  LET s == encode_32bit_int(n)
         IN  /\ s \in Seq({B(k) : k \in 0..(Base - 1)}) /\ Len(s) = 4
             /\ decode_32bit_int(s) = n
<1>1. Base \in Nat \ {0} /\ n \in Nat
  BY BaseAssumption DEF Word
<1>2. PICK n1 \in Nat, r0 \in 0..(Base - 1) :
        n \div Base = n1 /\ n % Base = r0 /\ n = Base * n1 + r0
  BY <1>1, Digit
<1>3. PICK n2 \in Nat, r1 \in 0..(Base - 1) :
        n1 \div Base = n2 /\ n1 % Base = r1 /\ n1 = Base * n2 + r1
  BY Digit
<1>4. PICK n3 \in Nat, r2 \in 0..(Base - 1) :
        n2 \div Base = n3 /\ n2 % Base = r2 /\ n2 = Base * n3 + r2
  BY Digit
<1>5. n \div (Base * Base) = n2
  BY <1>1, <1>2, <1>3, DivOfDiv
<1>6. n \div (Base * Base * Base) = n3
  <2>1. Base * Base \in Nat \ {0}
    BY <1>1
  <2>2. n \div ((Base * Base) * Base) = (n \div (Base * Base)) \div Base
    BY <1>1, <2>1, DivOfDiv
  <2> QED
    BY <1>4, <1>5, <2>2
<1>7. n3 < Base
  <2>1. ASSUME NEW a \in Nat, NEW b \in Nat, a >= b PROVE Base * a >= Base * b
    BY <1>1, <2>1, SMT
  <2>2. ASSUME n3 >= Base PROVE FALSE
    <3>1. n2 >= Base * Base
      BY <1>1, <1>4, <2>1, <2>2
    <3>2. n1 >= Base * (Base * Base)
      BY <1>1, <1>3, <2>1, <3>1
    <3>3. n >= Base * (Base * (Base * Base))
      BY <1>1, <1>2, <2>1, <3>2
    <3>4. Base * (Base * (Base * Base)) = Base * Base * Base * Base
      BY <1>1
    <3> QED
      BY <1>1, <3>3, <3>4 DEF Word
  <2> QED
    BY <1>1, <1>4, <2>2
<1> DEFINE s == <<B(r0), B(r1), B(r2), B(n3)>>
<1>8. encode_32bit_int(n) = s
  BY <1>2, <1>3, <1>4, <1>5, <1>6 DEF encode_32bit_int
<1>9. decode_32bit_int(s) = n
  <2>1. /\ s[1].byte = r0 /\ s[2].byte = r1 /\ s[3].byte = r2 /\ s[4].byte = n3
    BY DEF B
  <2>2. /\ r2 + Base * n3 = n2 /\ r1 + Base * n2 = n1 /\ r0 + Base * n1 = n
    BY <1>1, <1>2, <1>3, <1>4
  <2> HIDE DEF s
  <2> QED
    BY <2>1, <2>2 DEF decode_32bit_int
<1>10. s \in Seq({B(k) : k \in 0..(Base - 1)}) /\ Len(s) = 4
  <2>1. n3 \in 0..(Base - 1)
    BY <1>1, <1>7
  <2> QED
    BY <2>1
<1> QED
  BY <1>8, <1>9, <1>10

\* Message decodes a handle as well as the others if no byte but the last has
\* its highest bit set.
LEMMA PlainCoding ==
  ASSUME NEW n \in Word, Plain(n)
  PROVE  DecodeChars(encode_32bit_int(n)) = n
<1> DEFINE s == encode_32bit_int(n)
           chars == [i \in 1..4 |-> IF \E j \in 1..(i - 1) : Negative(s[j])
                                      THEN B(Base - 1) ELSE s[i]]
<1>1. \A i \in 1..4 : \A j \in 1..(i - 1) : ~Negative(s[j])
  BY DEF Plain
<1>2. \A i \in 1..4 : chars[i] = s[i]
  BY <1>1
<1>3. decode_32bit_int(chars) = decode_32bit_int(s)
  <2> HIDE DEF chars, s
  <2> QED
    BY <1>2 DEF decode_32bit_int
<1> QED
  BY <1>3, WordCoding DEF DecodeChars

-----------------------------------------------------------------------------
(* Headers and payloads *)

\* Two sequences put together can be taken apart again.
LEMMA TakeApart ==
  ASSUME NEW S, NEW s \in Seq(S), NEW t \in Seq(S)
  PROVE  /\ SubSeq(s \o t, 1, Len(s)) = s
         /\ SubSeq(s \o t, Len(s) + 1, Len(s \o t)) = t
<1>1. /\ s \o t \in Seq(S) /\ Len(s \o t) = Len(s) + Len(t)
      /\ \A i \in 1..(Len(s) + Len(t)) :
           (s \o t)[i] = IF i <= Len(s) THEN s[i] ELSE t[i - Len(s)]
  BY ConcatProperties
<1>2. /\ Len(s) \in Nat /\ Len(t) \in Nat
      /\ \A i \in 1..Len(s) : s[i] \in S
      /\ \A i \in 1..Len(t) : t[i] \in S
  BY ElementOfSeq, LenProperties
<1> DEFINE st == s \o t  first == SubSeq(st, 1, Len(s))
           rest == SubSeq(st, Len(s) + 1, Len(st))
<1> HIDE DEF st
<1>3. first = s
  <2>1. \A i \in 1..Len(s) : st[i] \in S
    BY <1>1, <1>2 DEF st
  <2>2. /\ first \in Seq(S) /\ Len(first) = Len(s)
        /\ \A i \in 1..Len(s) : first[i] = st[i]
    BY <1>2, <2>1, SubSeqProperties
  <2>3. \A i \in 1..Len(s) : first[i] = s[i]
    BY <1>1, <1>2, <2>2 DEF st
  <2> HIDE DEF first
  <2> QED
    BY <2>2, <2>3, SeqEqual
<1>4. rest = t
  <2>1. \A i \in (Len(s) + 1)..Len(st) : st[i] \in S
    BY <1>1, <1>2 DEF st
  <2>2. /\ rest \in Seq(S) /\ Len(rest) = Len(t)
        /\ \A i \in 1..Len(t) : rest[i] = st[Len(s) + i]
    <3>1. Len(s) + 1 \in Int /\ Len(st) \in Int /\ Len(st) = Len(s) + Len(t)
      BY <1>1, <1>2 DEF st
    <3>2. /\ rest \in Seq(S)
          /\ Len(rest) = IF Len(s) + 1 <= Len(st)
                           THEN Len(st) - (Len(s) + 1) + 1 ELSE 0
          /\ \A i \in 1..(Len(st) - (Len(s) + 1) + 1) :
               rest[i] = st[Len(s) + 1 + i - 1]
      BY <2>1, <3>1, SubSeqProperties
    <3> QED
      BY <1>2, <3>1, <3>2
  <2>3. \A i \in 1..Len(t) : rest[i] = t[i]
    BY <1>1, <1>2, <2>2 DEF st
  <2> HIDE DEF rest
  <2> QED
    BY <2>2, <2>3, SeqEqual
<1> QED
  BY <1>3, <1>4 DEF st

LEMMA BytesAreUnits == Byte \subseteq Unit /\ Seq(Byte) \subseteq Seq(Unit)
<1>1. Byte \subseteq Unit
  <2>1. ASSUME NEW n \in 0..(Base - 1) PROVE B(n) \in Unit
    BY BaseAssumption DEF Unit, B
  <2> QED
    BY <2>1 DEF Byte
<1> QED
  BY <1>1, SeqMonotonic

LEMMA HeaderIs ==
  ASSUME NEW type \in Types, NEW length \in Word
  PROVE  LET h == create_header(type, length)
         IN  /\ h \in Seq(Unit) /\ Len(h) = HeaderLength
             /\ create(h) = creators(type, length)
<1> DEFINE s == <<C("logs"), C(type)>>
           n == encode_32bit_int(length)
<1>1. n \in Seq(Unit) /\ Len(n) = 4 /\ decode_32bit_int(n) = length
  BY WordCoding, BytesAreUnits DEF Byte
<1>2. s \in Seq(Unit) /\ Len(s) = 2 /\ s[1] = C("logs") /\ s[2] = C(type)
  <2>1. C("logs") \in Unit /\ C(type) \in Unit
    BY DEF C, Unit, Types
  <2> QED
    BY <2>1
<1> HIDE DEF s, n
<1>3. /\ s \o n \in Seq(Unit) /\ Len(s \o n) = 6
      /\ (s \o n)[1] = C("logs") /\ (s \o n)[2] = C(type)
      /\ SubSeq(s \o n, 3, 6) = n
  <2>1. /\ s \o n \in Seq(Unit) /\ Len(s \o n) = Len(s) + Len(n)
        /\ \A i \in 1..(Len(s) + Len(n)) :
             (s \o n)[i] = IF i <= Len(s) THEN s[i] ELSE n[i - Len(s)]
    BY <1>1, <1>2, ConcatProperties
  <2>2. SubSeq(s \o n, Len(s) + 1, Len(s \o n)) = n
    BY <1>1, <1>2, TakeApart
  <2> QED
    BY <1>1, <1>2, <2>1, <2>2
<1>4. create_header(type, length) = s \o n
  BY DEF create_header, s, n
<1>5. C(type).what = type
  BY DEF C
<1> QED
  BY <1>1, <1>3, <1>4, <1>5 DEF create, HeaderLength

\* p is obj's payload, and what its header announces is read.
CodedAs(obj, p) ==
  /\ obj.type \in Types /\ p \in Seq(Unit) /\ Len(p) \in Word
  /\ Written(obj) = create_header(obj.type, Len(p)) \o p
  /\ creators(obj.type, Len(p)) = Receivable(obj.type, Len(p))
  /\ Survives(obj, read_payload(obj.type, p))

LEMMA TextsFit ==
  ASSUME NEW s \in Name \cup Path \cup Text \cup Reason
  PROVE  /\ s \in Seq(Unit) /\ Len(s) \in Nat
         /\ Len(s) \in Word /\ 4 + Len(s) \in Word
         /\ 5 + Len(s) \in Word /\ 17 + Len(s) \in Word
<1>1. s \in Seq(Byte) /\ Len(s) + 17 \in Word
  BY TextAssumption DEF Byte
<1>2. s \in Seq(Unit) /\ Len(s) \in Nat
  BY <1>1, BytesAreUnits, LenProperties
<1> DEFINE top == Base * Base * Base * Base - 1
<1>3. top \in Int
  BY BaseAssumption
<1> HIDE DEF top
<1>4. Word = 0..top
  BY DEF Word, top
<1> QED
  BY <1>1, <1>2, <1>3, <1>4

LEMMA SmallWords == 0 \in Word /\ 4 \in Word
<1>1. Base \in Nat /\ Base >= 2
  BY BaseAssumption
<1>2. ASSUME NEW a \in Nat, a >= 2 PROVE a * Base \in Nat /\ a * Base >= 2 * a
  BY <1>1, <1>2, SMT
<1>3. Base * Base \in Nat /\ Base * Base >= 4
  BY <1>1, <1>2
<1>4. Base * Base * Base \in Nat /\ Base * Base * Base >= 8
  BY <1>2, <1>3
<1>5. Base * Base * Base * Base \in Nat /\ Base * Base * Base * Base >= 16
  BY <1>2, <1>4
<1> QED
  BY <1>5 DEF Word

\* The four types whose payload is a handle
LEMMA WordsCoded ==
  ASSUME NEW w \in Word
  PROVE  LET p == encode_32bit_int(w)
         IN  /\ CodedAs(FileHandle(w), p) /\ CodedAs(ClientHandle(w), p)
             /\ CodedAs(CloseFile(w), p) /\ CodedAs(Disconnect(w), p)
<1> DEFINE p == encode_32bit_int(w)
<1>1. p \in Seq(Unit) /\ Len(p) = 4 /\ decode_32bit_int(p) = w
  BY WordCoding, BytesAreUnits DEF Byte
<1> HIDE DEF p
<1>2. CodedAs(FileHandle(w), p)
  BY <1>1, SmallWords DEF CodedAs, FileHandle, Written, Write_FileHandle, p,
     creators, check_payload_length, New_FileHandle, Survives, read_payload,
     Read_FileHandle, Types
<1>3. CodedAs(ClientHandle(w), p)
  BY <1>1, SmallWords DEF CodedAs, ClientHandle, Written, Write_ClientHandle, p,
     creators, check_payload_length, New_ClientHandle, Survives, read_payload,
     Read_ClientHandle, Types
<1>4. CodedAs(CloseFile(w), p)
  BY <1>1, SmallWords DEF CodedAs, CloseFile, Written, Write_CloseFile, p,
     creators, check_payload_length, New_CloseFile, Survives, read_payload,
     Read_CloseFile, Types
<1>5. CodedAs(Disconnect(w), p)
  BY <1>1, SmallWords DEF CodedAs, Disconnect, Written, Write_Disconnect, p,
     creators, check_payload_length, New_Disconnect, Survives, read_payload,
     Read_Disconnect, Types
<1> QED
  BY <1>2, <1>3, <1>4, <1>5 DEF p

\* Those whose payload is a text
LEMMA TextsCoded ==
  ASSUME NEW s \in Name \cup Path \cup Text \cup Reason
  PROVE  CodedAs(File(s), s) /\ CodedAs(NotAcknowledged(s), s)
<1>1. s \in Seq(Unit) /\ Len(s) \in Word
  BY TextsFit
<1>2. CodedAs(File(s), s)
  BY <1>1 DEF CodedAs, File, Written, Write_File, creators, New_File, Survives,
     read_payload, Read_File, Types
<1>3. CodedAs(NotAcknowledged(s), s)
  BY <1>1 DEF CodedAs, NotAcknowledged, Written, Write_NotAcknowledged, creators,
     New_NotAcknowledged, Survives, read_payload, Read_NotAcknowledged, Types
<1> QED
  BY <1>2, <1>3

LEMMA AcknowledgedCoded == CodedAs(Acknowledged, <<>>)
<1>1. <<>> \in Seq(Unit) /\ Len(<<>>) = 0
  OBVIOUS
<1>2. create_header("ackn", 0) \in Seq(Unit)
  BY SmallWords, HeaderIs DEF Types
<1>3. create_header("ackn", 0) = create_header("ackn", 0) \o <<>>
  BY <1>2, ConcatEmptySeq
<1> QED
  BY <1>1, <1>3, SmallWords DEF CodedAs, Acknowledged, Written,
     Write_Acknowledged, creators, check_payload_length, New_Acknowledged,
     Survives, read_payload, Types

\* A handle and a text
LEMMA MessageCoded ==
  ASSUME NEW s \in Text, NEW w \in Word
  PROVE  CodedAs(Message(s, w), encode_32bit_int(w) \o s)
<1> DEFINE n == encode_32bit_int(w)  h == create_header("mesg", 4 + Len(s))
<1>1. n \in Seq(Unit) /\ Len(n) = 4
  BY WordCoding, BytesAreUnits DEF Byte
<1>2. s \in Seq(Unit) /\ Len(s) \in Nat /\ 4 + Len(s) \in Word
  BY TextsFit
<1>3. h \in Seq(Unit)
  BY <1>2, HeaderIs DEF Types
<1>4. Plain(w) => DecodeChars(n) = w
  BY PlainCoding
<1>5. Write_Message(s, w) = h \o n \o s
  BY DEF Write_Message
<1> HIDE DEF n, h
<1>6. n \o s \in Seq(Unit) /\ Len(n \o s) = 4 + Len(s)
  <2>1. n \o s \in Seq(Unit) /\ Len(n \o s) = Len(n) + Len(s)
    BY <1>1, <1>2, ConcatProperties
  <2> QED
    BY <1>1, <2>1
<1>7. h \o n \o s = h \o (n \o s)
  BY <1>1, <1>2, <1>3, ConcatAssociative
<1>8. SubSeq(n \o s, 1, 4) = n /\ From(5, n \o s) = s
  <2>1. /\ SubSeq(n \o s, 1, Len(n)) = n
        /\ SubSeq(n \o s, Len(n) + 1, Len(n \o s)) = s
    BY <1>1, <1>2, TakeApart
  <2>2. Len(n) + 1 = 5
    BY <1>1
  <2>3. SubSeq(n \o s, 1, 4) = n
    BY <1>1, <2>1
  <2>4. SubSeq(n \o s, 5, Len(n \o s)) = s
    BY <2>1, <2>2
  <2> QED
    BY <2>3, <2>4 DEF From
<1>9. Read_Message(n \o s) = Message(s, DecodeChars(n))
  BY <1>8 DEF Read_Message
<1>10. /\ Message(s, w) = [type |-> "mesg", word |-> w, text |-> s]
       /\ Message(s, DecodeChars(n)) =
            [type |-> "mesg", word |-> DecodeChars(n), text |-> s]
  BY DEF Message
<1>11. Survives(Message(s, w), Read_Message(n \o s))
  BY <1>4, <1>9, <1>10 DEF Survives
<1>12. Written(Message(s, w)) = Write_Message(s, w)
  BY <1>10 DEF Written
<1>13. Written(Message(s, w)) = h \o (n \o s)
  BY <1>5, <1>7, <1>12
<1>14. CodedAs(Message(s, w), n \o s)
  BY <1>2, <1>6, <1>10, <1>11, <1>13 DEF CodedAs, creators, New_Message,
     read_payload, Types, h
<1> QED
  BY <1>14 DEF n

\* An address family, an address and a name
LEMMA AddressBytes ==
  ASSUME NEW ip
  PROVE  /\ AddressLength(ip) \in {4, 16}
         /\ Address(ip) \in Seq(Unit) /\ Len(Address(ip)) = AddressLength(ip)
<1>1. AddressLength(ip) \in {4, 16}
  BY DEF AddressLength
<1>2. B(Base - 1) \in Unit
  <2>1. Base - 1 \in 0..(Base - 1)
    BY BaseAssumption
  <2> QED
    BY <2>1, BytesAreUnits DEF Byte
<1> QED
  BY <1>1, <1>2 DEF Address

LEMMA AddressIs ==
  ASSUME NEW ip \in local_ip
  PROVE  LET a == <<C(ip)>> \o Address(ip)
         IN  /\ a \in Seq(Unit) /\ Len(a) = 1 + AddressLength(ip)
             /\ a[1] = C(ip)
<1>3. /\ AddressLength(ip) \in {4, 16}
      /\ Address(ip) \in Seq(Unit) /\ Len(Address(ip)) = AddressLength(ip)
  BY AddressBytes
<1>4. <<C(ip)>> \in Seq(Unit) /\ Len(<<C(ip)>>) = 1 /\ <<C(ip)>>[1] = C(ip)
  <2>1. C(ip) \in Unit
    BY DEF C, Unit, Types, local_ip
  <2> QED
    BY <2>1
<1> DEFINE f == <<C(ip)>>  a == Address(ip)
<1>5. /\ f \o a \in Seq(Unit) /\ Len(f \o a) = Len(f) + Len(a)
      /\ (f \o a)[1] = f[1]
  <2> HIDE DEF f, a
  <2>1. f \in Seq(Unit) /\ Len(f) = 1 /\ a \in Seq(Unit) /\ Len(a) \in Nat
    BY <1>3, <1>4, LenProperties DEF f, a
  <2>2. /\ f \o a \in Seq(Unit) /\ Len(f \o a) = Len(f) + Len(a)
        /\ \A i \in 1..(Len(f) + Len(a)) :
             (f \o a)[i] = IF i <= Len(f) THEN f[i] ELSE a[i - Len(f)]
    BY <2>1, ConcatProperties
  <2> QED
    BY <2>1, <2>2
<1> QED
  BY <1>3, <1>4, <1>5

LEMMA ClientCoded ==
  ASSUME NEW s \in Name, NEW ip \in local_ip
  PROVE  CodedAs(Client(s, ip), <<C(ip)>> \o Address(ip) \o s)
<1> DEFINE a == <<C(ip)>> \o Address(ip)
           h == create_header("clnt", 1 + AddressLength(ip) + Len(s))
           p == a \o s
<1>1. a \in Seq(Unit) /\ Len(a) = 1 + AddressLength(ip) /\ a[1] = C(ip)
  BY AddressIs
<1>2. AddressLength(ip) \in {4, 16}
  BY DEF AddressLength
<1>3. /\ s \in Seq(Unit) /\ Len(s) \in Nat
      /\ 1 + AddressLength(ip) + Len(s) \in Word
  BY <1>2, TextsFit
<1>4. h \in Seq(Unit)
  BY <1>3, HeaderIs DEF Types
<1>5. Write_Client(s, ip) = h \o <<C(ip)>> \o Address(ip) \o s
  BY DEF Write_Client
<1>6. h \o <<C(ip)>> \o Address(ip) \o s = h \o p
  <2>1. <<C(ip)>> \in Seq(Unit)
    BY DEF C, Unit, Types, local_ip
  <2>2. Address(ip) \in Seq(Unit)
    BY AddressBytes
  <2>3. (h \o <<C(ip)>>) \o Address(ip) = h \o a
    <3> HIDE DEF h
    <3> QED
      BY <1>4, <2>1, <2>2, ConcatAssociative
  <2>4. (h \o a) \o s = h \o (a \o s)
    <3>1. a \in Seq(Unit) /\ s \in Seq(Unit) /\ h \in Seq(Unit)
      BY <1>1, <1>3, <1>4
    <3> HIDE DEF h, a
    <3> QED
      BY <3>1, ConcatAssociative
  <2> QED
    BY <2>3, <2>4
<1> HIDE DEF a, h
<1>7. /\ p \in Seq(Unit) /\ Len(p) = Len(a) + Len(s) /\ p[1] = a[1]
      /\ SubSeq(p, Len(a) + 1, Len(p)) = s
  <2>1. /\ p \in Seq(Unit) /\ Len(p) = Len(a) + Len(s)
        /\ \A i \in 1..(Len(a) + Len(s)) :
             p[i] = IF i <= Len(a) THEN a[i] ELSE s[i - Len(a)]
    BY <1>1, <1>3, ConcatProperties
  <2>2. SubSeq(p, Len(a) + 1, Len(p)) = s
    BY <1>1, <1>3, TakeApart
  <2>3. 1 \in 1..(Len(a) + Len(s)) /\ 1 <= Len(a)
    BY <1>1, <1>2, <1>3
  <2> HIDE DEF p
  <2> QED
    BY <2>1, <2>2, <2>3
<1> HIDE DEF p
<1>8. Head(p).what = ip
  <2>1. Head(p) = p[1]
    BY <1>1, <1>2, <1>3, <1>7
  <2> QED
    BY <1>1, <1>7, <2>1 DEF C
<1>9. Read_Client(p) = Client(s, ip)
  <2>1. 2 + AddressLength(ip) = Len(a) + 1
    BY <1>1, <1>2
  <2>2. From(2 + AddressLength(ip), p) = s
    BY <1>7, <2>1 DEF From
  <2> QED
    BY <1>8, <2>2 DEF Read_Client
<1>10. Client(s, ip) = [type |-> "clnt", text |-> s, ip |-> ip]
  BY DEF Client
<1>11. Written(Client(s, ip)) = h \o p
  <2>1. Written(Client(s, ip)) = Write_Client(s, ip)
    BY <1>10 DEF Written
  <2> QED
    BY <1>5, <1>6, <2>1
<1>12. Len(p) = 1 + AddressLength(ip) + Len(s)
  BY <1>1, <1>2, <1>3, <1>7
<1> HIDE DEF p
<1>13. h = create_header("clnt", Len(p)) /\ Len(p) \in Word
  BY <1>3, <1>12 DEF h
<1>14. /\ creators("clnt", Len(p)) = Receivable("clnt", Len(p))
       /\ read_payload("clnt", p) = Client(s, ip)
  BY <1>9 DEF creators, New_Client, read_payload
<1>15. CodedAs(Client(s, ip), p)
  BY <1>7, <1>10, <1>11, <1>13, <1>14 DEF CodedAs, Survives, Types
<1> QED
  BY <1>15 DEF p, a

LEMMA AllCoded ==
  \A obj \in Requests \cup Answers : \E p : CodedAs(obj, p)
<1>1. ASSUME NEW obj \in Requests PROVE \E p : CodedAs(obj, p)
  <2>1. CASE obj \in {Client(name, ip) : name \in Name, ip \in local_ip}
    <3>1. PICK name \in Name, ip \in local_ip : obj = Client(name, ip)
      BY <2>1, SMT
    <3> QED
      BY <3>1, ClientCoded, Zenon
  <2>2. CASE obj \in {File(path) : path \in Path}
    BY <2>2, TextsCoded
  <2>3. CASE obj \in {Message(text, fh) : text \in Text, fh \in Word}
    BY <2>3, MessageCoded
  <2>4. CASE obj \in {CloseFile(fh) : fh \in Word}
               \cup {Disconnect(ch) : ch \in Word}
    BY <2>4, WordsCoded
  <2> QED
    BY <1>1, <2>1, <2>2, <2>3, <2>4 DEF Requests
<1>2. ASSUME NEW obj \in Answers PROVE \E p : CodedAs(obj, p)
  BY <1>2, WordsCoded, TextsCoded, AcknowledgedCoded DEF Answers
<1> QED
  BY <1>1, <1>2

\* What the reader finds of any object of any type: a header that announces its
\* payload, a payload that is as long as announced, and the object as it was, but
\* for the handle of a message that is not plain (ProtObjFactory::create,
\* Deliverable::get_header, get_payload and read_payload of all types).
THEOREM Coding ==
  ASSUME NEW obj \in Requests \cup Answers
  PROVE  LET w == Written(obj)
         IN  /\ w \in Seq(Unit) /\ Len(w) >= HeaderLength
             /\ create(SubSeq(w, 1, HeaderLength)) = Announced(obj)
             /\ SubSeq(w, HeaderLength + 1, Len(w)) = Payload(obj)
             /\ Announced(obj) \notin Exceptions
             /\ Announced(obj) # NoReceivable
             /\ Payload(obj) \in Seq(Unit)
             /\ Len(Payload(obj)) = Announced(obj).length
             /\ Announced(obj).type = obj.type
             /\ Survives(obj, read_payload(obj.type, Payload(obj)))
<1>1. PICK p : CodedAs(obj, p)
  BY AllCoded
<1> DEFINE h == create_header(obj.type, Len(p))
<1>2. /\ h \in Seq(Unit) /\ Len(h) = HeaderLength
      /\ create(h) = Receivable(obj.type, Len(p))
  BY <1>1, HeaderIs DEF CodedAs
<1>3. Written(obj) = h \o p /\ p \in Seq(Unit) /\ Len(p) \in Nat
  BY <1>1, LenProperties DEF CodedAs
<1> HIDE DEF h
<1>4. Written(obj) \in Seq(Unit) /\ Len(Written(obj)) = HeaderLength + Len(p)
  BY <1>2, <1>3, ConcatProperties
<1>5. SubSeq(Written(obj), 1, HeaderLength) = h /\ Payload(obj) = p
  BY <1>2, <1>3, TakeApart DEF Payload
<1>6. Announced(obj) = Receivable(obj.type, Len(p))
  BY <1>3, <1>4 DEF Announced, HeaderLength
<1>7. obj.type \in Types
  BY <1>1 DEF CodedAs
<1>8. /\ Announced(obj).type = obj.type /\ Announced(obj).length = Len(p)
      /\ Announced(obj) \notin Exceptions /\ Announced(obj) # NoReceivable
  <2>1. /\ Announced(obj).type = obj.type /\ Announced(obj).length = Len(p)
        /\ NoReceivable.type = "none" /\ MalformedHeader.type = "malformed header"
        /\ UnknownProtocolObjectType.type = "unknown type"
    BY <1>6 DEF Receivable, NoReceivable, MalformedHeader, UnknownProtocolObjectType
  <2>2. obj.type \notin {"none", "malformed header", "unknown type"}
    BY <1>7 DEF Types
  <2> QED
    BY <2>1, <2>2 DEF Exceptions
<1>9. Survives(obj, read_payload(obj.type, p))
  BY <1>1 DEF CodedAs
<1>10. Len(Written(obj)) >= HeaderLength
  BY <1>3, <1>4 DEF HeaderLength
<1>11. create(SubSeq(Written(obj), 1, HeaderLength)) = Announced(obj)
  BY <1>2, <1>5, <1>6
<1>12. SubSeq(Written(obj), HeaderLength + 1, Len(Written(obj))) = Payload(obj)
  BY DEF Payload
<1> HIDE DEF Payload, Announced
<1> QED
  BY <1>3, <1>4, <1>5, <1>8, <1>9, <1>10, <1>11, <1>12

-----------------------------------------------------------------------------
(* Streams *)

\* Both ends code alike.
LEMMA SameCoding ==
  /\ \A obj : Back!Written(obj) = Written(obj)
  /\ \A header : Back!create(header) = create(header)
  /\ \A type, s : Back!read_payload(type, s) = read_payload(type, s)
  /\ Back!Exceptions = Exceptions /\ Back!NoReceivable = NoReceivable
  /\ Back!HeaderLength = HeaderLength
  /\ \A n, s : Back!From(n, s) = From(n, s)
<1>1. \A n : Back!encode_32bit_int(n) = encode_32bit_int(n)
  BY DEF encode_32bit_int, Back!encode_32bit_int, B, Back!B
<1>2. \A s : Back!decode_32bit_int(s) = decode_32bit_int(s)
  BY DEF decode_32bit_int, Back!decode_32bit_int
<1>3. \A t, n : Back!create_header(t, n) = create_header(t, n)
  BY <1>1 DEF create_header, Back!create_header, C, Back!C
<1>4. \A obj : Back!Written(obj) = Written(obj)
  <2>1. \A ip : Back!Address(ip) = Address(ip) /\ Back!C(ip) = C(ip)
                /\ Back!AddressLength(ip) = AddressLength(ip)
    BY DEF Address, Back!Address, AddressLength, Back!AddressLength, B, Back!B,
       C, Back!C
  <2> QED
    BY <1>1, <1>3, <2>1 DEF Written, Back!Written,
       Write_FileHandle, Back!Write_FileHandle,
       Write_ClientHandle, Back!Write_ClientHandle,
       Write_CloseFile, Back!Write_CloseFile,
       Write_Disconnect, Back!Write_Disconnect, Write_File, Back!Write_File,
       Write_NotAcknowledged, Back!Write_NotAcknowledged,
       Write_Message, Back!Write_Message, Write_Client, Back!Write_Client,
       Write_Acknowledged, Back!Write_Acknowledged
<1>5. \A t, n : Back!Receivable(t, n) = Receivable(t, n)
  BY DEF Receivable, Back!Receivable
<1>6. /\ Back!Exceptions = Exceptions /\ Back!NoReceivable = NoReceivable
      /\ Back!HeaderLength = HeaderLength
      /\ Back!MalformedHeader = MalformedHeader
      /\ Back!UnknownProtocolObjectType = UnknownProtocolObjectType
      /\ \A n, s : Back!From(n, s) = From(n, s)
  BY <1>5 DEF Exceptions, Back!Exceptions, NoReceivable, Back!NoReceivable,
     HeaderLength, Back!HeaderLength, MalformedHeader, Back!MalformedHeader,
     UnknownProtocolObjectType, Back!UnknownProtocolObjectType, From, Back!From
<1>7. \A t, n : Back!creators(t, n) = creators(t, n)
  BY <1>5, <1>6 DEF creators, Back!creators,
     check_payload_length, Back!check_payload_length,
     New_FileHandle, Back!New_FileHandle, New_ClientHandle, Back!New_ClientHandle,
     New_CloseFile, Back!New_CloseFile, New_Disconnect, Back!New_Disconnect,
     New_Acknowledged, Back!New_Acknowledged, New_File, Back!New_File,
     New_Message, Back!New_Message, New_NotAcknowledged, Back!New_NotAcknowledged,
     New_Client, Back!New_Client
<1>8. \A header : Back!create(header) = create(header)
  BY <1>2, <1>6, <1>7 DEF create, Back!create, C, Back!C
<1>9. \A type, s : Back!read_payload(type, s) = read_payload(type, s)
  <2>1. \A s : Back!DecodeChars(s) = DecodeChars(s)
    BY <1>2 DEF DecodeChars, Back!DecodeChars, Negative, Back!Negative, B, Back!B
  <2>2. \A ip : Back!AddressLength(ip) = AddressLength(ip)
    BY DEF AddressLength, Back!AddressLength
  <2> QED
    BY <1>2, <1>6, <2>1, <2>2 DEF read_payload, Back!read_payload,
       Read_FileHandle, Back!Read_FileHandle, FileHandle, Back!FileHandle,
       Read_ClientHandle, Back!Read_ClientHandle, ClientHandle, Back!ClientHandle,
       Read_CloseFile, Back!Read_CloseFile, CloseFile, Back!CloseFile,
       Read_Disconnect, Back!Read_Disconnect, Disconnect, Back!Disconnect,
       Read_File, Back!Read_File, File, Back!File,
       Read_NotAcknowledged, Back!Read_NotAcknowledged,
       NotAcknowledged, Back!NotAcknowledged,
       Read_Message, Back!Read_Message, Message, Back!Message,
       Read_Client, Back!Read_Client, Client, Back!Client,
       Acknowledged, Back!Acknowledged
<1> QED
  BY <1>4, <1>6, <1>8, <1>9

\* The header of the object on the way is read.
LEMMA HeaderArrives ==
  ASSUME NEW obj \in Requests \cup Answers, NEW units, NEW next,
         OnTheWay(units, next, obj), next = NoReceivable
  PROVE  /\ create(SubSeq(units, 1, HeaderLength)) \notin Exceptions
         /\ OnTheWay(SubSeq(units, HeaderLength + 1, Len(units)),
                     create(SubSeq(units, 1, HeaderLength)), obj)
<1>1. units = Written(obj)
  BY Coding DEF OnTheWay
<1> QED
  BY <1>1, Coding DEF OnTheWay, HeaderLength

\* Then its payload.
LEMMA PayloadArrives ==
  ASSUME NEW obj \in Requests \cup Answers, NEW units, NEW next,
         OnTheWay(units, next, obj), next # NoReceivable
  PROVE  /\ Survives(obj, read_payload(next.type, SubSeq(units, 1, next.length)))
         /\ From(next.length + 1, units) = <<>>
<1>1. /\ units = Payload(obj) /\ next.length = Len(Payload(obj))
      /\ next.type = obj.type /\ Payload(obj) \in Seq(Unit)
      /\ Survives(obj, read_payload(obj.type, Payload(obj)))
  BY Coding DEF OnTheWay
<1> DEFINE p == Payload(obj)
<1>2. p \in Seq(Unit) /\ Len(p) \in Nat
  BY <1>1, LenProperties
<1> HIDE DEF p
<1>3. SubSeq(p, 1, Len(p)) = p /\ SubSeq(p, Len(p) + 1, Len(p)) = <<>>
  <2>1. p \o <<>> = p
    BY <1>2, ConcatEmptySeq
  <2>2. <<>> \in Seq(Unit)
    OBVIOUS
  <2> QED
    BY <1>2, <2>1, <2>2, TakeApart
<1> QED
  BY <1>1, <1>3 DEF p, From

-----------------------------------------------------------------------------
(* The two ends take turns. *)

LEMMA AppendIs ==
  ASSUME NEW s, Sequence(s), NEW e
  PROVE  /\ Sequence(Append(s, e))
         /\ Len(s) \in Nat /\ Len(Append(s, e)) = Len(s) + 1
         /\ DOMAIN s = 1..Len(s) /\ DOMAIN Append(s, e) = 1..(Len(s) + 1)
         /\ \A i \in 1..Len(s) : Append(s, e)[i] = s[i]
         /\ Append(s, e)[Len(s) + 1] = e
         /\ Last(Append(s, e)) = e
<1>1. PICK S : s \in Seq(S)
  BY DEF Sequence
<1> DEFINE T == S \cup {e}
<1>2. s \in Seq(T) /\ e \in T
  BY <1>1, SeqMonotonic
<1> HIDE DEF T
<1>3. Append(s, e) \in Seq(T)
  BY <1>2
<1> QED
  BY <1>2, <1>3 DEF Sequence, Last

LEMMA Lengths ==
  ASSUME DialogueTypeOK
  PROVE  /\ Sequence(sent) /\ Sequence(replied)
         /\ Sequence(received) /\ Sequence(answers) /\ Sequence(lines)
         /\ Len(sent) \in Nat /\ Len(replied) \in Nat /\ Len(received) \in Nat
         /\ Len(answers) \in Nat /\ Len(lines) \in Nat
         /\ DOMAIN sent = 1..Len(sent) /\ DOMAIN replied = 1..Len(replied)
         /\ DOMAIN received = 1..Len(received) /\ DOMAIN answers = 1..Len(answers)
<1>1. ASSUME NEW s, Sequence(s) PROVE Len(s) \in Nat /\ DOMAIN s = 1..Len(s)
  BY <1>1 DEF Sequence
<1>2. Sequence(sent) /\ Sequence(replied)
  BY DEF Sequence, DialogueTypeOK
<1> QED
  BY <1>1, <1>2 DEF DialogueTypeOK

LEMMA LastsAre ==
  ASSUME DialogueTypeOK, TakeTurns
  PROVE  /\ Asking => Last(sent) = sent[Len(sent)] /\ Last(sent) \in Requests
                      /\ Len(sent) \in DOMAIN sent
         /\ Answering => /\ Last(sent) = sent[Len(sent)] /\ Last(sent) \in Requests
                         /\ Last(replied) = replied[Len(sent)]
                         /\ Last(replied) \in Answers /\ Len(sent) \in DOMAIN replied
                         /\ Len(sent) \in DOMAIN sent
BY Lengths DEF Asking, Answering, Last, DialogueTypeOK

LEMMA RequestTurns ==
  ASSUME DialogueTypeOK, TakeTurns, NEW obj \in Requests, Request(obj)
  PROVE  /\ Settled /\ Asking' /\ TakeTurns'
         /\ sent' \in Seq(Requests) /\ sent' = Append(sent, obj)
         /\ Last(sent') = obj /\ Len(sent') = Len(sent) + 1
         /\ \A i \in DOMAIN sent : sent'[i] = sent[i]
         /\ sent'[Len(sent) + 1] = obj
         /\ DOMAIN sent' = 1..(Len(sent) + 1)
         /\ UNCHANGED <<received, backVars, client_handle, file, thrown, sessionVars>>
<1>1. /\ Len(answers) = Len(sent) /\ sent' = Append(sent, obj)
      /\ stream' = stream \o Written(obj)
      /\ UNCHANGED <<receivable, received, failed>>
      /\ UNCHANGED <<backVars, client_handle, file, thrown, sessionVars>>
  BY DEF Request, Send
<1>2. UNCHANGED <<replied, back, awaited, answers, confused>>
  BY <1>1 DEF backVars
<1>3. Settled
  <2>1. Asking \/ Answering \/ Settled
    BY DEF TakeTurns
  <2>2. /\ Len(answers) = Len(sent) /\ Len(sent) \in Nat
        /\ Len(answers) \in Nat /\ Len(replied) \in Nat
    BY <1>1, Lengths
  <2>3. Asking => Len(sent) = Len(replied) + 1 /\ Len(answers) = Len(replied)
    BY DEF Asking
  <2>4. Answering => Len(sent) = Len(replied) /\ Len(replied) = Len(answers) + 1
    BY DEF Answering
  <2> QED
    BY <2>1, <2>2, <2>3, <2>4
<1>4. /\ sent' \in Seq(Requests)
      /\ Last(sent') = obj /\ Len(sent') = Len(sent) + 1
      /\ \A i \in DOMAIN sent : sent'[i] = sent[i]
      /\ sent'[Len(sent) + 1] = obj
      /\ DOMAIN sent' = 1..(Len(sent) + 1)
  BY <1>1, Lengths, AppendIs DEF DialogueTypeOK
<1>5. OnTheWay(stream', receivable', obj)
  <2>1. stream = <<>> /\ receivable = NoReceivable
    BY <1>3 DEF Settled, Idle
  <2>2. Written(obj) \in Seq(Unit)
    BY Coding
  <2>3. stream' = Written(obj)
    BY <1>1, <2>1, <2>2, ConcatEmptySeq
  <2> QED
    BY <1>1, <2>1, <2>3 DEF OnTheWay
<1>6. Asking'
  BY <1>2, <1>3, <1>4, <1>5, Lengths DEF Asking, Settled, Idle
<1>7. TakeTurns'
  BY <1>1, <1>2, <1>3, <1>4, <1>6, Lengths DEF TakeTurns, Settled
<1> QED
  BY <1>1, <1>3, <1>4, <1>6, <1>7

LEMMA HeaderTurns ==
  ASSUME DialogueTypeOK, TakeTurns, ReadHeader,
         UNCHANGED <<backVars, clientVars, sessionVars>>
  PROVE  TakeTurns' /\ Asking /\ Asking' /\ UNCHANGED <<sent, received>>
<1>1. /\ receivable = NoReceivable /\ Len(stream) >= HeaderLength
      /\ stream' = SubSeq(stream, HeaderLength + 1, Len(stream))
      /\ failed' = (create(SubSeq(stream, 1, HeaderLength)) \in Exceptions)
      /\ receivable' = IF failed' THEN NoReceivable
                       ELSE create(SubSeq(stream, 1, HeaderLength))
      /\ UNCHANGED <<sent, received>>
  BY DEF ReadHeader
<1>2. UNCHANGED <<replied, back, awaited, answers, confused>>
  BY DEF backVars
<1>3. stream # <<>>
  BY <1>1 DEF HeaderLength
<1>4. Asking
  BY <1>3 DEF TakeTurns, Answering, Settled, Idle
<1>5. OnTheWay(stream, receivable, Last(sent)) /\ Last(sent) \in Requests \cup Answers
  BY <1>4, LastsAre DEF Asking
<1>6. ~failed' /\ OnTheWay(stream', receivable', Last(sent))
  BY <1>1, <1>5, HeaderArrives
<1>7. Asking'
  BY <1>1, <1>2, <1>4, <1>6 DEF Asking, Idle, Last
<1>8. TakeTurns'
  BY <1>1, <1>2, <1>6, <1>7 DEF TakeTurns
<1> QED
  BY <1>1, <1>4, <1>7, <1>8

LEMMA BackHeaderTurns ==
  ASSUME DialogueTypeOK, TakeTurns, Back!ReadHeader,
         UNCHANGED <<vars, clientVars, sessionVars>>
  PROVE  TakeTurns' /\ Answering /\ Answering' /\ UNCHANGED <<replied, answers>>
<1>1. /\ awaited = NoReceivable /\ Len(back) >= HeaderLength
      /\ back' = SubSeq(back, HeaderLength + 1, Len(back))
      /\ confused' = (create(SubSeq(back, 1, HeaderLength)) \in Exceptions)
      /\ awaited' = IF confused' THEN NoReceivable
                    ELSE create(SubSeq(back, 1, HeaderLength))
      /\ UNCHANGED <<replied, answers>>
  BY SameCoding DEF Back!ReadHeader
<1>2. UNCHANGED <<sent, stream, receivable, received, failed>>
  BY DEF vars
<1>3. back # <<>>
  BY <1>1 DEF HeaderLength
<1>4. Answering
  BY <1>3 DEF TakeTurns, Asking, Settled, Idle
<1>5. OnTheWay(back, awaited, Last(replied)) /\ Last(replied) \in Requests \cup Answers
  BY <1>4, LastsAre DEF Answering
<1>6. ~confused' /\ OnTheWay(back', awaited', Last(replied))
  BY <1>1, <1>5, HeaderArrives
<1>7. Answering'
  BY <1>1, <1>2, <1>4, <1>6 DEF Answering, Idle, Last
<1>8. TakeTurns'
  BY <1>1, <1>2, <1>6, <1>7 DEF TakeTurns
<1> QED
  BY <1>1, <1>4, <1>7, <1>8

LEMMA ServeTurns ==
  ASSUME DialogueTypeOK, TakeTurns, ReadPayload, NEW reply \in Answers,
         Back!Send(reply)
  PROVE  /\ Asking /\ Answering' /\ TakeTurns'
         /\ Survives(Last(sent), Arrived)
         /\ UNCHANGED <<sent, answers>> /\ Sequence(received')
         /\ replied' = Append(replied, reply) /\ replied' \in Seq(Answers)
         /\ Len(replied) < MaxObjects
         /\ Len(replied') = Len(replied) + 1 /\ Last(replied') = reply
         /\ DOMAIN replied' = 1..(Len(replied) + 1)
         /\ \A i \in DOMAIN replied : replied'[i] = replied[i]
         /\ replied'[Len(sent)] = reply
<1>1. /\ receivable # NoReceivable
      /\ received' = Append(received, Arrived)
      /\ stream' = From(receivable.length + 1, stream)
      /\ receivable' = NoReceivable
      /\ UNCHANGED <<sent, failed>>
  BY DEF ReadPayload
<1>2. /\ Len(replied) < MaxObjects /\ replied' = Append(replied, reply)
      /\ back' = back \o Written(reply)
      /\ UNCHANGED <<awaited, answers, confused>>
  BY SameCoding DEF Back!Send
<1>3. Asking
  BY <1>1 DEF TakeTurns, Answering, Settled, Idle
<1>4. OnTheWay(stream, receivable, Last(sent)) /\ Last(sent) \in Requests \cup Answers
  BY <1>3, LastsAre DEF Asking
<1>5. Survives(Last(sent), Arrived) /\ stream' = <<>>
  BY <1>1, <1>4, PayloadArrives DEF Arrived
<1>6. OnTheWay(back', awaited', reply)
  <2>1. back = <<>> /\ awaited = NoReceivable
    BY <1>3 DEF Asking, Idle
  <2>2. Written(reply) \in Seq(Unit)
    BY Coding
  <2>3. back' = Written(reply)
    BY <1>2, <2>1, <2>2, ConcatEmptySeq
  <2> QED
    BY <1>2, <2>1, <2>3 DEF OnTheWay
<1>7. /\ replied' \in Seq(Answers) /\ Last(replied') = reply
      /\ Len(replied') = Len(replied) + 1
      /\ DOMAIN replied' = 1..(Len(replied) + 1)
      /\ \A i \in DOMAIN replied : replied'[i] = replied[i]
      /\ replied'[Len(replied) + 1] = reply
  BY <1>2, Lengths, AppendIs DEF DialogueTypeOK
<1>8. /\ Sequence(received') /\ Len(received') = Len(received) + 1
      /\ DOMAIN received' = 1..(Len(received) + 1)
      /\ \A i \in DOMAIN received : received'[i] = received[i]
      /\ received'[Len(received) + 1] = Arrived
  BY <1>1, Lengths, AppendIs
<1>9. Len(sent) = Len(replied) + 1 /\ Len(answers) = Len(replied)
  BY <1>3 DEF Asking
<1>10. Idle(stream', receivable')
  BY <1>1, <1>5 DEF Idle
<1>11. Answering'
  BY <1>1, <1>2, <1>6, <1>7, <1>9, <1>10 DEF Answering
<1>12. TakeTurns'
  <2>1. \A i \in DOMAIN received' : Survives(sent'[i], received'[i])
    <3>1. Last(sent) = sent[Len(sent)]
      BY DEF Last
    <3>2. Len(received) + 1 = Len(sent)
      BY <1>9 DEF TakeTurns
    <3>3. \A i \in DOMAIN received : Survives(sent[i], received[i])
      BY DEF TakeTurns
    <3>4. Survives(sent[Len(received) + 1], received'[Len(received) + 1])
      BY <1>5, <1>8, <3>1, <3>2
    <3> QED
      BY <1>1, <1>8, <3>3, <3>4, Lengths
  <2>2. \A i \in DOMAIN answers' : answers'[i] = replied'[i]
    BY <1>2, <1>7, <1>9, Lengths DEF TakeTurns
  <2>3. ~failed' /\ ~confused' /\ Len(received') = Len(replied')
    BY <1>1, <1>2, <1>7, <1>8 DEF TakeTurns
  <2> QED
    BY <1>11, <2>1, <2>2, <2>3 DEF TakeTurns
<1> QED
  BY <1>1, <1>2, <1>3, <1>5, <1>7, <1>8, <1>9, <1>11, <1>12

LEMMA ReplyTurns ==
  ASSUME DialogueTypeOK, TakeTurns, Back!ReadPayload, UNCHANGED vars
  PROVE  /\ Answering /\ Settled' /\ TakeTurns'
         /\ Back!Arrived = Last(replied)
         /\ UNCHANGED <<sent, replied, received>> /\ Sequence(answers')
         /\ Len(answers') = Len(answers) + 1
<1>1. /\ awaited # NoReceivable
      /\ answers' = Append(answers, Back!Arrived)
      /\ back' = From(awaited.length + 1, back)
      /\ awaited' = NoReceivable
      /\ UNCHANGED <<replied, confused>>
  BY SameCoding DEF Back!ReadPayload
<1>2. UNCHANGED <<sent, stream, receivable, received, failed>>
  BY DEF vars
<1>3. Answering
  BY <1>1 DEF TakeTurns, Asking, Settled, Idle
<1>4. OnTheWay(back, awaited, Last(replied)) /\ Last(replied) \in Answers
  BY <1>3, LastsAre DEF Answering
<1>5. Back!Arrived = Last(replied) /\ back' = <<>>
  <2>1. Back!Arrived = read_payload(awaited.type, SubSeq(back, 1, awaited.length))
    BY SameCoding DEF Back!Arrived
  <2>2. Survives(Last(replied), Back!Arrived) /\ back' = <<>>
    BY <1>1, <1>4, <2>1, PayloadArrives
  <2>3. Last(replied).type # "mesg"
    BY <1>4 DEF Answers, Acknowledged, NotAcknowledged, ClientHandle, FileHandle
  <2> QED
    BY <2>2, <2>3 DEF Survives
<1>6. /\ Sequence(answers') /\ Len(answers') = Len(answers) + 1
      /\ DOMAIN answers' = 1..(Len(answers) + 1)
      /\ \A i \in DOMAIN answers : answers'[i] = answers[i]
      /\ answers'[Len(answers) + 1] = Last(replied)
  BY <1>1, <1>5, Lengths, AppendIs
<1>7. Len(sent) = Len(replied) /\ Len(replied) = Len(answers) + 1
  BY <1>3 DEF Answering
<1>8. Settled'
  BY <1>1, <1>2, <1>3, <1>5, <1>6, <1>7 DEF Settled, Answering, Idle
<1>9. TakeTurns'
  <2>1. \A i \in DOMAIN answers' : answers'[i] = replied'[i]
    <3>1. Last(replied) = replied[Len(answers) + 1]
      BY <1>7 DEF Last
    <3>2. \A i \in DOMAIN answers : answers[i] = replied[i]
      BY DEF TakeTurns
    <3> QED
      BY <1>1, <1>6, <3>1, <3>2, Lengths
  <2> QED
    BY <1>1, <1>2, <1>8, <2>1 DEF TakeTurns
<1> QED
  BY <1>1, <1>2, <1>3, <1>5, <1>6, <1>8, <1>9

-----------------------------------------------------------------------------
(* Requests, and objects that have arrived *)

LEMMA RequestIs ==
  ASSUME NEW obj \in Requests
  PROVE  /\ obj.type \in {"clnt", "open", "mesg", "clos", "disc"}
         /\ obj.type = "open" => obj = File(obj.text)
         /\ obj.type = "mesg" =>
              obj = [type |-> "mesg", word |-> obj.word, text |-> obj.text]
         /\ obj.type \in {"mesg", "clos", "disc"} => obj.word \in Word
<1>1. CASE \E name \in Name, ip \in local_ip : obj = Client(name, ip)
  BY <1>1 DEF Client
<1>2. CASE \E path \in Path : obj = File(path)
  BY <1>2 DEF File
<1>3. CASE \E text \in Text, fh \in Word : obj = Message(text, fh)
  BY <1>3 DEF Message
<1>4. CASE \E fh \in Word : obj = CloseFile(fh)
  BY <1>4 DEF CloseFile
<1>5. CASE \E ch \in Word : obj = Disconnect(ch)
  BY <1>5 DEF Disconnect
<1> QED
  BY <1>1, <1>2, <1>3, <1>4, <1>5 DEF Requests

LEMMA AnswerIs ==
  ASSUME NEW obj \in Answers
  PROVE  /\ obj.type \in {"ackn", "nack", "clnh", "filh"}
         /\ obj.type = "ackn" => obj = Acknowledged
         /\ obj.type = "clnh" => obj = ClientHandle(obj.word) /\ obj.word \in Word
         /\ obj.type = "filh" => obj = FileHandle(obj.word) /\ obj.word \in Word
BY DEF Answers, Acknowledged, NotAcknowledged, ClientHandle, FileHandle

LEMMA Heard ==
  ASSUME NEW obj \in Requests, NEW got, Survives(obj, got)
  PROVE  /\ got.type = obj.type
         /\ obj.type = "mesg" => got.text = obj.text
         /\ obj.type # "mesg" \/ Plain(obj.word) => got = obj
<1>1. CASE obj.type = "mesg" /\ ~Plain(obj.word)
  <2>1. obj = [type |-> "mesg", word |-> obj.word, text |-> obj.text]
    BY <1>1, RequestIs
  <2>2. got = [obj EXCEPT !.word = got.word]
    BY <1>1 DEF Survives
  <2>3. got = [type |-> "mesg", word |-> got.word, text |-> obj.text]
    BY <2>1, <2>2
  <2> QED
    BY <1>1, <2>3
<1>2. CASE obj.type # "mesg" \/ Plain(obj.word)
  BY <1>2 DEF Survives
<1> QED
  BY <1>1, <1>2

LEMMA NoneIsNoWord == None \notin Word
<1>1. \A n \in Word : n >= 0
  BY DEF Word
<1> DEFINE one == 1
<1>2. one \in Nat /\ one > 0
  OBVIOUS
<1>3. None = -one
  BY DEF None
<1> HIDE DEF one
<1>4. -one < 0
  BY <1>2, SMT
<1> QED
  BY <1>1, <1>3, <1>4

-----------------------------------------------------------------------------
(* Steps that leave both ends alone *)

LEMMA OneTurn ==
  ASSUME DialogueTypeOK
  PROVE  ~(Asking /\ Answering) /\ ~(Asking /\ Settled) /\ ~(Answering /\ Settled)
<1>1. Len(sent) \in Nat /\ Len(answers) \in Nat /\ Len(replied) \in Nat
  BY Lengths
<1>2. Asking => Len(sent) = Len(replied) + 1 /\ Len(answers) = Len(replied)
  BY DEF Asking
<1>3. Answering => Len(sent) = Len(replied) /\ Len(replied) = Len(answers) + 1
  BY DEF Answering
<1>4. Settled => Len(sent) = Len(replied) /\ Len(answers) = Len(replied)
  BY DEF Settled
<1> QED
  BY <1>1, <1>2, <1>3, <1>4

LEMMA CalmStep ==
  ASSUME DialogueInv, TakeTurns', UNCHANGED <<sent, replied, received, answers>>,
         UNCHANGED <<clientVars, sessionVars>>,
         Asking => Asking', Answering => Answering', Settled => Settled'
  PROVE  DialogueInv'
<1>1. /\ UNCHANGED <<client_handle, file, file_path, thrown>>
      /\ UNCHANGED <<own_handle, client_name, client_address>>
      /\ UNCHANGED <<file_handle_counter, open_filehandles, open_files, lines>>
  BY DEF clientVars, logVars, sessionVars, whoVars, fileVars
<1>2. /\ Len(sent) \in Nat /\ Len(replied) \in Nat /\ Len(answers) \in Nat
      /\ Asking \/ Answering \/ Settled
  BY Lengths DEF DialogueInv, TakeTurns
<1>3. Asking' <=> Asking
  BY <1>2 DEF Asking, Answering, Settled
<1>4. Answering' <=> Answering
  BY <1>2 DEF Asking, Answering, Settled
<1>5. Settled' <=> Settled
  BY <1>2 DEF Asking, Answering, Settled
<1>6. DialogueTypeOK'
  BY <1>1 DEF DialogueInv, DialogueTypeOK, Sequence
<1>7. KnowEachOther'
  BY <1>1, <1>3, <1>4 DEF DialogueInv, KnowEachOther, Fits, Served, Last, InUse
<1>8. PathKept' /\ Introduced'
  BY <1>1 DEF DialogueInv, PathKept, Asked, Introduced
<1>9. Refusals'
  BY <1>1, <1>5 DEF DialogueInv, Refusals, Complained, Asked, Last
<1>10. LogSaysWhatWasSaid'
  BY <1>1 DEF DialogueInv, LogSaysWhatWasSaid, LineSays, LineOf, Logs
<1> QED
  BY <1>6, <1>7, <1>8, <1>9, <1>10 DEF DialogueInv

LEMMA HeaderStep ==
  ASSUME DialogueInv, ReadHeader, UNCHANGED <<backVars, clientVars, sessionVars>>
  PROVE  DialogueInv'
<1>1. DialogueTypeOK /\ TakeTurns
  BY DEF DialogueInv
<1>2. TakeTurns' /\ Asking /\ Asking' /\ UNCHANGED <<sent, received>>
  BY <1>1, HeaderTurns
<1>3. UNCHANGED <<replied, answers>>
  BY DEF backVars
<1>4. ~Answering /\ ~Settled
  BY <1>1, <1>2, OneTurn
<1> QED
  BY <1>2, <1>3, <1>4, CalmStep

LEMMA BackHeaderStep ==
  ASSUME DialogueInv, Back!ReadHeader, UNCHANGED <<vars, clientVars, sessionVars>>
  PROVE  DialogueInv'
<1>1. DialogueTypeOK /\ TakeTurns
  BY DEF DialogueInv
<1>2. TakeTurns' /\ Answering /\ Answering' /\ UNCHANGED <<replied, answers>>
  BY <1>1, BackHeaderTurns
<1>3. UNCHANGED <<sent, received>>
  BY DEF vars
<1>4. ~Asking /\ ~Settled
  BY <1>1, <1>2, OneTurn
<1> QED
  BY <1>2, <1>3, <1>4, CalmStep

LEMMA StutterStep ==
  ASSUME DialogueInv, UNCHANGED dialogueVars
  PROVE  DialogueInv'
<1>1. /\ UNCHANGED <<vars, backVars, clientVars, sessionVars>>
      /\ UNCHANGED <<sent, stream, receivable, received, failed>>
      /\ UNCHANGED <<replied, back, awaited, answers, confused>>
  BY DEF dialogueVars, vars, backVars
<1>2. (Asking => Asking') /\ (Answering => Answering') /\ (Settled => Settled')
  BY <1>1 DEF Asking, Answering, Settled, OnTheWay, Idle, Last
<1>3. TakeTurns'
  BY <1>1, <1>2 DEF DialogueInv, TakeTurns
<1>4. UNCHANGED <<sent, replied, received, answers>>
  BY <1>1
<1> QED
  BY <1>1, <1>2, <1>3, <1>4, CalmStep

-----------------------------------------------------------------------------
(* Steps of the client that ask for something *)

\* A request that fits leaves the invariant as it is.
LEMMA AskStep ==
  ASSUME DialogueInv, NEW obj \in Requests, Request(obj), Fits(obj)',
         obj.type = "clnt" <=> sent = <<>>,
         file_path' = IF obj.type = "open" THEN obj.text ELSE file_path
  PROVE  DialogueInv'
<1>1. DialogueTypeOK /\ TakeTurns
  BY DEF DialogueInv
<1>2. /\ Settled /\ Asking' /\ TakeTurns'
      /\ sent' \in Seq(Requests) /\ sent' = Append(sent, obj)
      /\ Last(sent') = obj /\ Len(sent') = Len(sent) + 1
      /\ \A i \in DOMAIN sent : sent'[i] = sent[i]
      /\ sent'[Len(sent) + 1] = obj
      /\ DOMAIN sent' = 1..(Len(sent) + 1)
      /\ UNCHANGED received
      /\ UNCHANGED <<replied, back, awaited, answers, confused>>
      /\ UNCHANGED <<client_handle, file, thrown>>
      /\ UNCHANGED <<own_handle, client_name, client_address>>
      /\ UNCHANGED <<file_handle_counter, open_filehandles, open_files, lines>>
  BY <1>1, RequestTurns DEF backVars, sessionVars, whoVars, fileVars
<1>3. /\ DOMAIN sent = 1..Len(sent) /\ Len(sent) \in Nat
      /\ DOMAIN replied = 1..Len(replied) /\ Len(replied) \in Nat
      /\ Len(replied) = Len(sent)
  BY <1>1, <1>2, Lengths DEF Settled
<1>4. ~Answering /\ ~Asking
  BY <1>1, <1>2, OneTurn
<1>5. ~Answering' /\ ~Settled'
  <2>1. Len(sent') = Len(replied') + 1 /\ Len(replied') \in Nat
    BY <1>2, <1>3
  <2>2. Answering' \/ Settled' => Len(sent') = Len(replied')
    BY DEF Answering, Settled
  <2> QED
    BY <2>1, <2>2
<1>6. DialogueTypeOK'
  BY <1>1, <1>2 DEF DialogueTypeOK, Sequence
<1>7. KnowEachOther'
  <2>1. \A i \in DOMAIN sent' : sent'[i].type = "clnt" <=> i = 1
    <3>1. \A i \in DOMAIN sent : sent[i].type = "clnt" <=> i = 1
      BY DEF DialogueInv, KnowEachOther
    <3>2. sent = <<>> <=> Len(sent) = 0
      BY <1>1 DEF DialogueTypeOK
    <3> QED
      BY <1>2, <1>3, <3>1, <3>2
  <2>2. Fits(Last(sent))'
    BY <1>2 DEF Fits
  <2> QED
    BY <1>2, <1>4, <1>5, <2>1, <2>2 DEF DialogueInv, KnowEachOther, InUse, Last
<1>8. PathKept'
  <2>1. PathKept
    BY DEF DialogueInv
  <2>2. CASE obj.type = "open"
    <3>1. PICK n \in Nat : n = Len(sent) + 1
      BY <1>3
    <3>2. n \in DOMAIN sent' /\ Asked(n)' /\ sent'[n].text = file_path'
      BY <1>2, <1>3, <2>2, <3>1 DEF Asked
    <3>3. \A j \in DOMAIN sent' : j <= n
      BY <1>2, <1>3, <3>1
    <3> QED
      BY <3>2, <3>3 DEF PathKept
  <2>3. CASE obj.type # "open"
    <3>1. \A i \in DOMAIN sent' : Asked(i)' <=> Asked(i)
      BY <1>2, <1>3, <2>3 DEF Asked
    <3>2. \A i : Asked(i) => i \in DOMAIN sent /\ i \in DOMAIN sent'
      BY <1>2, <1>3 DEF Asked
    <3>3. file_path' = file_path /\ file' = file
      BY <1>2, <2>3
    <3>4. ASSUME \E i \in DOMAIN sent' : Asked(i)'
          PROVE  \E i \in DOMAIN sent' :
                   /\ Asked(i)' /\ sent'[i].text = file_path'
                   /\ \A j \in DOMAIN sent' : Asked(j)' => j <= i
      <4>1. PICK i \in DOMAIN sent : /\ Asked(i) /\ sent[i].text = file_path
                                     /\ \A j \in DOMAIN sent : Asked(j) => j <= i
        BY <2>1, <3>1, <3>2, <3>4 DEF PathKept
      <4>2. sent'[i] = sent[i] /\ i \in DOMAIN sent'
        BY <1>2, <3>2, <4>1
      <4> QED
        BY <3>1, <3>2, <3>3, <4>1, <4>2
    <3>5. file' # None => \E i \in DOMAIN sent' : Asked(i)'
      BY <2>1, <3>1, <3>2, <3>3 DEF PathKept
    <3> QED
      BY <3>4, <3>5 DEF PathKept
  <2> QED
    BY <2>2, <2>3
<1>9. Refusals'
  BY <1>2, <1>3, <1>5 DEF DialogueInv, Refusals
<1>10. Introduced'
  <2>1. replied # <<>> => 1 \in DOMAIN sent
    BY <1>1, <1>3 DEF DialogueTypeOK
  <2> QED
    BY <1>2, <2>1 DEF DialogueInv, Introduced
<1>11. LogSaysWhatWasSaid'
  <2>1. \A i \in DOMAIN replied : Logs(i)' <=> Logs(i)
    BY <1>2, <1>3 DEF Logs
  <2>2. ASSUME NEW i \in 0..Len(replied) PROVE LineOf(i)' = LineOf(i)
    <3>1. {j \in 1..i : Logs(j)'} = {j \in 1..i : Logs(j)}
      BY <1>3, <2>1
    <3> QED
      BY <3>1 DEF LineOf
  <2>3. LogSaysWhatWasSaid
    BY DEF DialogueInv
  <2>4. Len(lines') = LineOf(Len(replied))'
    <3>1. PICK n \in Nat : n = Len(replied)
      BY <1>3
    <3>2. LineOf(n)' = LineOf(n)
      BY <2>2, <3>1
    <3>3. Len(lines) = LineOf(n)
      BY <2>3, <3>1 DEF LogSaysWhatWasSaid
    <3>4. LineOf(Len(replied))' = LineOf(n)'
      BY <1>2, <3>1 DEF LineOf
    <3> QED
      BY <1>2, <3>2, <3>3, <3>4
  <2>5. ASSUME NEW i \in DOMAIN replied, Logs(i)
        PROVE  /\ LineOf(i)' = LineOf(i) /\ lines' = lines
               /\ sent'[i] = sent[i] /\ sent'[1] = sent[1]
               /\ replied'[i] = replied[i]
    BY <1>2, <1>3, <2>2
  <2>6. DOMAIN replied' = DOMAIN replied
    BY <1>2
  <2>7. ASSUME NEW i \in DOMAIN replied, Logs(i)
        PROVE  LineSays(i)'
    <3>1. LineSays(i)
      BY <2>3, <2>7 DEF LogSaysWhatWasSaid
    <3> QED
      BY <2>5, <2>7, <3>1 DEF LineSays
  <2> QED
    BY <2>1, <2>4, <2>6, <2>7 DEF LogSaysWhatWasSaid
<1> QED
  BY <1>2, <1>6, <1>7, <1>8, <1>9, <1>10, <1>11 DEF DialogueInv

LEMMA RequestStep ==
  ASSUME DialogueInv, Introduce \/ OpenFile \/ writeln \/ Close \/ Leave
  PROVE  DialogueInv'
<1>1. DialogueTypeOK /\ TakeTurns /\ KnowEachOther
  BY DEF DialogueInv
<1>2. ASSUME NEW obj \in Requests, Request(obj)
      PROVE  /\ Len(answers) = Len(sent) /\ (sent = <<>> <=> answers = <<>>)
             /\ Len(sent') = Len(sent) + 1 /\ Len(sent) \in Nat
             /\ UNCHANGED <<client_handle, file>>
             /\ sent = <<>> => Len(sent) = 0
  <2>1. Len(answers) = Len(sent)
    BY <1>2 DEF Request
  <2>2. /\ sent = <<>> <=> Len(sent) = 0
        /\ answers = <<>> <=> Len(answers) = 0
    BY <1>1 DEF DialogueTypeOK, Sequence
  <2> QED
    BY <1>1, <1>2, <2>1, <2>2, RequestTurns, Lengths
<1>3. ASSUME Introduce PROVE DialogueInv'
  <2>1. PICK name \in Name, ip \in local_ip :
          Request(Client(name, ip)) /\ file_path' = file_path
    BY <1>3 DEF Introduce, create_client_info
  <2> DEFINE obj == Client(name, ip)
  <2>2. obj \in Requests /\ obj.type = "clnt"
    BY DEF Requests, Client
  <2>3. client_handle = None /\ file = None /\ sent = <<>>
    BY <1>1, <1>2, <1>3, <2>1, <2>2 DEF Introduce, KnowEachOther
  <2> HIDE DEF obj
  <2>4. Request(obj)
    BY <2>1 DEF obj
  <2>5. Fits(obj)'
    BY <1>2, <2>2, <2>3, <2>4 DEF Fits
  <2> QED
    BY <2>1, <2>2, <2>3, <2>4, <2>5, AskStep
<1>4. ASSUME NEW obj \in Requests, Request(obj), client_handle # None,
             obj.type # "clnt", Fits(obj),
             file_path' = IF obj.type = "open" THEN obj.text ELSE file_path
      PROVE  DialogueInv'
  <2>1. sent # <<>>
    BY <1>1, <1>2, <1>4 DEF KnowEachOther
  <2>2. Fits(obj)'
    BY <1>2, <1>4 DEF Fits
  <2> QED
    BY <1>4, <2>1, <2>2, AskStep
<1>5. file # None => client_handle # None /\ file \in Word
  BY <1>1 DEF KnowEachOther, DialogueTypeOK, Handle
<1>6. ASSUME OpenFile PROVE DialogueInv'
  <2>1. PICK path \in Path : Request(File(path)) /\ file_path' = path
    BY <1>6 DEF OpenFile
  <2>2. /\ File(path) \in Requests /\ File(path).type = "open"
        /\ File(path).text = path
    BY DEF Requests, File
  <2>3. Fits(File(path)) /\ client_handle # None
    BY <1>6, <2>2 DEF OpenFile, Fits
  <2> QED
    BY <1>4, <2>1, <2>2, <2>3
<1>7. ASSUME writeln PROVE DialogueInv'
  <2>1. PICK text \in Text : Request(Message(text, file)) /\ file_path' = file_path
    BY <1>7 DEF writeln
  <2>2. /\ Message(text, file) \in Requests /\ Message(text, file).type = "mesg"
        /\ Message(text, file).word = file
    BY <1>5, <1>7 DEF Requests, Message, writeln
  <2>3. Fits(Message(text, file)) /\ client_handle # None
    BY <1>5, <1>7, <2>2 DEF writeln, Fits
  <2> QED
    BY <1>4, <2>1, <2>2, <2>3
<1>8. ASSUME Close PROVE DialogueInv'
  <2>1. /\ CloseFile(file) \in Requests /\ CloseFile(file).type = "clos"
        /\ CloseFile(file).word = file
    BY <1>5, <1>8 DEF Requests, CloseFile, Close
  <2>2. Fits(CloseFile(file)) /\ client_handle # None
    BY <1>5, <1>8, <2>1 DEF Close, Fits
  <2> QED
    BY <1>4, <1>8, <2>1, <2>2 DEF Close
<1>9. ASSUME Leave PROVE DialogueInv'
  <2>1. client_handle \in Word
    BY <1>1, <1>9 DEF DialogueTypeOK, Handle, Leave
  <2>2. /\ Disconnect(client_handle) \in Requests
        /\ Disconnect(client_handle).type = "disc"
        /\ Disconnect(client_handle).word = client_handle
    BY <2>1 DEF Requests, Disconnect
  <2>3. Fits(Disconnect(client_handle))
    BY <1>9, <2>2 DEF Leave, Fits
  <2> QED
    BY <1>4, <1>9, <2>2, <2>3 DEF Leave
<1> QED
  BY <1>3, <1>6, <1>7, <1>8, <1>9

-----------------------------------------------------------------------------
(* Lines and requests *)

\* How many numbers up to n are in A
LEMMA Counting ==
  ASSUME NEW A, NEW n \in Nat
  PROVE  LET upTo(i) == Cardinality({j \in 1..i : j \in A})
         IN  /\ upTo(n) \in Nat
             /\ upTo(n + 1) = IF n + 1 \in A THEN upTo(n) + 1 ELSE upTo(n)
             /\ \A i \in 1..n : upTo(i) <= upTo(n) /\ (i \in A => upTo(i) >= 1)
             /\ \A i \in 1..n : upTo(i) \in Nat
<1> DEFINE S(i) == {j \in 1..i : j \in A}
<1>1. ASSUME NEW i \in Nat PROVE IsFiniteSet(S(i)) /\ Cardinality(S(i)) \in Nat
  <2>1. IsFiniteSet(1..i)
    BY FS_Interval
  <2>2. IsFiniteSet(S(i))
    BY <2>1, FS_Subset
  <2> QED
    BY <2>2, FS_CardinalityType
<1>2. Cardinality(S(n + 1)) = IF n + 1 \in A THEN Cardinality(S(n)) + 1
                              ELSE Cardinality(S(n))
  <2>1. CASE n + 1 \in A
    <3>1. S(n + 1) = S(n) \cup {n + 1} /\ n + 1 \notin S(n)
      BY <2>1
    <3> QED
      BY <1>1, <2>1, <3>1, FS_AddElement
  <2>2. CASE n + 1 \notin A
    <3>1. S(n + 1) = S(n)
      BY <2>2
    <3> QED
      BY <2>2, <3>1
  <2> QED
    BY <2>1, <2>2
<1>3. ASSUME NEW i \in 1..n
      PROVE  /\ Cardinality(S(i)) <= Cardinality(S(n)) /\ Cardinality(S(i)) \in Nat
             /\ i \in A => Cardinality(S(i)) >= 1
  <2>1. S(i) \subseteq S(n)
    OBVIOUS
  <2>2. Cardinality(S(i)) <= Cardinality(S(n))
    BY <1>1, <2>1, FS_Subset
  <2>3. i \in A => S(i) # {}
    OBVIOUS
  <2>4. IsFiniteSet(S(i)) /\ Cardinality(S(i)) \in Nat
    BY <1>1
  <2>5. S(i) # {} => Cardinality(S(i)) # 0
    BY <2>4, FS_EmptySet
  <2> QED
    BY <2>2, <2>3, <2>4, <2>5
<1> QED
  BY <1>1, <1>2, <1>3

\* The line that a request leaves is the next one.
LEMMA LineStep ==
  ASSUME DialogueTypeOK, LogSaysWhatWasSaid, NEW n \in Nat,
         Len(replied) = n, Len(sent) = n + 1, sent' = sent, Introduced',
         Len(replied') = n + 1, DOMAIN replied' = 1..(n + 1),
         \A i \in DOMAIN replied : replied'[i] = replied[i],
         replied' # <<>>,
         NEW obj, obj = sent[n + 1], NEW reply, reply = replied'[n + 1],
         IF obj.type \in {"open", "mesg", "clos"} /\ reply.type # "nack"
           THEN \E line :
                  /\ lines' = Append(lines, line)
                  /\ line.text = CASE obj.type = "open" -> Opened
                                   [] obj.type = "clos" -> Closed
                                   [] obj.type = "mesg" -> obj.text
                  /\ line.file = IF obj.type = "open" THEN reply.word ELSE obj.word
                  /\ line.name = client_name' /\ line.address = client_address'
           ELSE lines' = lines
  PROVE  LogSaysWhatWasSaid' /\ Sequence(lines')
<1> DEFINE m == n + 1
           A == {j \in 1..n : Logs(j)}
           N == {j \in 1..m : Logs(j)'}
<1>1. m \in Nat /\ DOMAIN replied = 1..n /\ Sequence(lines) /\ Len(lines) \in Nat
  BY Lengths
<1>2. \A i \in 1..n : Logs(i)' <=> Logs(i)
  BY <1>1 DEF Logs
<1>3. \A i \in 1..n : LineOf(i) = Cardinality({j \in 1..i : j \in N})
  <2>1. ASSUME NEW i \in 1..n
        PROVE  {j \in 1..i : j \in N} = {j \in 1..i : Logs(j)}
    BY <1>2
  <2> QED
    BY <2>1 DEF LineOf
<1>4. \A i \in 1..m : LineOf(i)' = Cardinality({j \in 1..i : j \in N})
  <2>1. ASSUME NEW i \in 1..m
        PROVE  {j \in 1..i : j \in N} = {j \in 1..i : Logs(j)'}
    OBVIOUS
  <2> QED
    BY <2>1 DEF LineOf
<1>5. Len(lines) = Cardinality({j \in 1..n : j \in N})
  <2>1. {j \in 1..n : j \in N} = {j \in 1..n : Logs(j)}
    BY <1>2
  <2> QED
    BY <2>1 DEF LogSaysWhatWasSaid, LineOf
<1>6. m \in N <=> obj.type \in {"open", "mesg", "clos"} /\ reply.type # "nack"
  BY DEF Logs
<1> HIDE DEF N
<1>7. /\ LineOf(m)' = IF m \in N THEN Len(lines) + 1 ELSE Len(lines)
      /\ \A i \in 1..n : /\ LineOf(i) = LineOf(i)' /\ LineOf(i) <= Len(lines)
                         /\ LineOf(i) \in Nat
                         /\ i \in N => LineOf(i) >= 1
  <2> DEFINE upTo(i) == Cardinality({j \in 1..i : j \in N})
  <2>1. /\ upTo(n + 1) = IF n + 1 \in N THEN upTo(n) + 1 ELSE upTo(n)
        /\ \A i \in 1..n : upTo(i) <= upTo(n) /\ (i \in N => upTo(i) >= 1)
        /\ \A i \in 1..n : upTo(i) \in Nat
    BY Counting
  <2>2. /\ \A i \in 1..n : LineOf(i) = upTo(i)
        /\ \A i \in 1..m : LineOf(i)' = upTo(i)
        /\ Len(lines) = upTo(n)
    BY <1>3, <1>4, <1>5
  <2> HIDE DEF upTo
  <2>3. m \in 1..m /\ \A i \in 1..n : i \in 1..m
    OBVIOUS
  <2>4. LineOf(m)' = upTo(n + 1)
    BY <2>2, <2>3
  <2>5. \A i \in 1..n : LineOf(i) = upTo(i) /\ LineOf(i)' = upTo(i)
    BY <2>2, <2>3
  <2> QED
    BY <2>1, <2>2, <2>4, <2>5
<1>8. ASSUME NEW i \in 1..n, Logs(i), lines'[LineOf(i)] = lines[LineOf(i)]
      PROVE  LineSays(i)'
  <2>1. LineSays(i)
    BY <1>1, <1>8 DEF LogSaysWhatWasSaid
  <2>2. LineOf(i)' = LineOf(i) /\ replied'[i] = replied[i]
    BY <1>1, <1>7
  <2> QED
    BY <1>8, <2>1, <2>2 DEF LineSays
<1>9. \A i \in 1..n : Logs(i) => i \in N
  BY <1>2 DEF N
<1>10. CASE m \in N
  <2>1. PICK line :
          /\ lines' = Append(lines, line)
          /\ line.text = CASE obj.type = "open" -> Opened
                           [] obj.type = "clos" -> Closed
                           [] obj.type = "mesg" -> obj.text
          /\ line.file = IF obj.type = "open" THEN reply.word ELSE obj.word
          /\ line.name = client_name' /\ line.address = client_address'
    BY <1>6, <1>10
  <2>2. /\ Sequence(lines') /\ Len(lines') = Len(lines) + 1
        /\ \A i \in 1..Len(lines) : lines'[i] = lines[i]
        /\ lines'[Len(lines) + 1] = line
    BY <1>1, <2>1, AppendIs
  <2>3. client_name' = sent[1].text /\ client_address' = sent[1].ip
    BY DEF Introduced
  <2>4. LineOf(m)' = Len(lines) + 1
    BY <1>7, <1>10
  <2>5. LineSays(m)'
    BY <2>1, <2>2, <2>3, <2>4 DEF LineSays
  <2>6. ASSUME NEW i \in 1..n, Logs(i) PROVE LineSays(i)'
    <3>1. LineOf(i) \in 1..Len(lines)
      BY <1>1, <1>7, <1>9, <2>6
    <3> QED
      BY <1>8, <2>2, <2>6, <3>1
  <2>7. Len(lines') = LineOf(Len(replied))'
    BY <2>2, <2>4 DEF LineOf
  <2>8. \A i \in DOMAIN replied' : Logs(i)' => LineSays(i)'
    BY <1>1, <1>2, <2>5, <2>6
  <2> QED
    BY <2>2, <2>7, <2>8 DEF LogSaysWhatWasSaid
<1>11. CASE m \notin N
  <2>1. lines' = lines
    BY <1>6, <1>11
  <2>2. ASSUME NEW i \in 1..n, Logs(i) PROVE LineSays(i)'
    BY <1>8, <2>1, <2>2
  <2>3. Len(lines') = LineOf(Len(replied))'
    BY <1>7, <1>11, <2>1 DEF LineOf
  <2>4. ~Logs(m)'
    BY <1>11 DEF N
  <2>5. \A i \in DOMAIN replied' : Logs(i)' => LineSays(i)'
    BY <1>1, <1>2, <2>2, <2>4
  <2> QED
    BY <1>1, <2>1, <2>3, <2>5 DEF LogSaysWhatWasSaid
<1> QED
  BY <1>10, <1>11

-----------------------------------------------------------------------------
(* What a request does *)

\* The line that a request that is carried out adds
LineFor(obj, reply, line) ==
  /\ line.text = CASE obj.type = "open" -> Opened
                   [] obj.type = "clos" -> Closed
                   [] obj.type = "mesg" -> obj.text
  /\ line.file = IF obj.type = "open" THEN reply.word ELSE obj.word
  /\ line.name = client_name /\ line.address = client_address

LEMMA WriteIs ==
  ASSUME NEW fh, NEW message, write_message(fh, message)
  PROVE  \E line : /\ lines' = Append(lines, line)
                   /\ line.text = message /\ line.file = fh
                   /\ line.name = client_name /\ line.address = client_address
BY DEF write_message

\* Handles are given out as the session counts them, and there are enough.
LEMMA HandlesSuffice ==
  ASSUME DialogueTypeOK, Len(replied) < MaxObjects, NEW path
  PROVE  LET fh == get_filehandle_for_path(path)
         IN  /\ fh \in Word
             /\ file_handle_counter + (MaxObjects - (Len(replied) + 1)) \in Word
             /\ path \notin DOMAIN open_filehandles =>
                  /\ fh + 1 \in Nat
                  /\ fh + 1 + (MaxObjects - (Len(replied) + 1)) \in Word
<1> DEFINE top == Base * Base * Base * Base - 1
<1>1. top \in Int /\ MaxObjects \in Nat /\ Len(replied) \in Nat
  BY BaseAssumption, MaxAssumption, Lengths
<1> HIDE DEF top
<1>2. Word = 0..top
  BY DEF Word, top
<1>3. /\ file_handle_counter \in Nat
      /\ file_handle_counter + (MaxObjects - Len(replied)) \in 0..top
      /\ \A p \in DOMAIN open_filehandles : open_filehandles[p] \in Word
  BY <1>2 DEF DialogueTypeOK
<1>4. /\ file_handle_counter \in 0..top
      /\ file_handle_counter + (MaxObjects - (Len(replied) + 1)) \in 0..top
      /\ file_handle_counter + 1 \in Nat
      /\ file_handle_counter + 1 + (MaxObjects - (Len(replied) + 1)) \in 0..top
  BY <1>1, <1>3
<1> QED
  BY <1>2, <1>3, <1>4 DEF get_filehandle_for_path

SessionTyped(n) ==
  /\ file_handle_counter \in Nat
  /\ file_handle_counter + (MaxObjects - n) \in Word
  /\ \A path \in DOMAIN open_filehandles : open_filehandles[path] \in Word

\* What has become of the session with the reply
Outcome(obj, reply, n) ==
  /\ own_handle' = own_handle /\ SessionTyped(n)'
  /\ Served(obj, reply)' /\ reply \in Answers
  /\ IF obj.type = "clnt" THEN client_name' = obj.text /\ client_address' = obj.ip
     ELSE UNCHANGED <<client_name, client_address>>
  /\ IF obj.type \in {"open", "mesg", "clos"} /\ reply.type # "nack"
       THEN \E line : lines' = Append(lines, line) /\ LineFor(obj, reply, line)
       ELSE lines' = lines

LEMMA AnswersAre ==
  /\ Acknowledged \in Answers /\ Acknowledged.type = "ackn"
  /\ \A reason \in Reason : /\ NotAcknowledged(reason) \in Answers
                            /\ NotAcknowledged(reason).type = "nack"
  /\ \A w \in Word : /\ ClientHandle(w) \in Answers /\ FileHandle(w) \in Answers
                     /\ ClientHandle(w).type = "clnh" /\ ClientHandle(w).word = w
                     /\ FileHandle(w).type = "filh" /\ FileHandle(w).word = w
BY DEF Answers, Acknowledged, NotAcknowledged, ClientHandle, FileHandle

LEMMA ServeOutcome ==
  ASSUME DialogueTypeOK, KnowEachOther, Asking, Len(replied) < MaxObjects,
         NEW obj, obj = Last(sent), obj \in Requests,
         NEW got, Survives(obj, got), NEW reply, act(got, reply),
         UNCHANGED <<sent, client_handle, file>>,
         NEW n \in Nat, n = Len(replied) + 1
  PROVE  Outcome(obj, reply, n)
<1>1. /\ Fits(obj) /\ client_handle \in {None, own_handle}
      /\ file # None => client_handle # None
  BY DEF KnowEachOther
<1>2. open_files = InUse(file)
  <2>1. ~Answering
    BY OneTurn
  <2> QED
    BY <2>1 DEF KnowEachOther
<1>3. /\ obj.type \in {"clnt", "open", "mesg", "clos", "disc"}
      /\ obj.type = "open" => obj = File(obj.text)
      /\ obj.type \in {"mesg", "clos", "disc"} => obj.word \in Word
  BY RequestIs
<1>4. /\ got.type = obj.type
      /\ obj.type = "mesg" => got.text = obj.text
      /\ obj.type # "mesg" \/ Plain(obj.word) => got = obj
  BY Heard
<1>5. UNCHANGED fileVars => SessionTyped(n)'
  BY HandlesSuffice DEF SessionTyped, DialogueTypeOK, fileVars
<1>6. own_handle \in Word
  BY DEF DialogueTypeOK
<1>7. ASSUME Refuse(reply)
      PROVE  /\ reply \in Answers /\ reply.type = "nack"
             /\ UNCHANGED <<own_handle, client_name, client_address>>
             /\ UNCHANGED <<fileVars, open_files, lines>> /\ SessionTyped(n)'
  BY <1>5, <1>7, AnswersAre DEF Refuse, sessionVars, whoVars, fileVars
<1>8. CASE obj.type = "clnt"
  <2>1. Act_Client(obj, reply)
    BY <1>4, <1>8 DEF act
  <2>2. /\ client_name' = obj.text /\ client_address' = obj.ip
        /\ reply = ClientHandle(own_handle)
        /\ UNCHANGED <<own_handle, fileVars, open_files, lines>>
    BY <2>1 DEF Act_Client, set_client_info, fileVars
  <2>3. open_files' = {}
    BY <1>1, <1>2, <1>8, <2>2 DEF Fits, InUse
  <2>4. Served(obj, reply)'
    BY <1>8, <2>2, <2>3 DEF Served
  <2> QED
    BY <1>5, <1>6, <1>8, <2>2, <2>4, AnswersAre DEF Outcome
<1>9. CASE obj.type = "open"
  <2>1. Act_File(obj, reply) /\ open_files = {}
    BY <1>1, <1>2, <1>4, <1>9 DEF act, Fits, InUse
  <2>2. CASE get_name_Throws(obj.text)
    <3>1. Refuse(reply)
      BY <2>1, <2>2 DEF Act_File
    <3>2. Served(obj, reply)'
      BY <1>7, <1>9, <2>1, <2>2, <3>1 DEF Served, get_name_Throws
    <3> QED
      BY <1>7, <1>9, <3>1, <3>2 DEF Outcome
  <2>3. CASE ~get_name_Throws(obj.text)
    <3> DEFINE fh == get_filehandle_for_path(obj.text)
    <3>1. \/ reply = FileHandle(fh) /\ open_file(obj.text, fh)
          \/ /\ \E reason \in Reason : reply = NotAcknowledged(reason)
             /\ open_file_Throws(obj.text, fh)
      BY <2>1, <2>3 DEF Act_File
    <3>2. /\ fh \in Word
          /\ file_handle_counter + (MaxObjects - n) \in Word
          /\ obj.text \notin DOMAIN open_filehandles =>
               fh + 1 \in Nat /\ fh + 1 + (MaxObjects - n) \in Word
      BY HandlesSuffice
    <3> HIDE DEF fh
    <3>3. ASSUME keep_filehandle(obj.text, fh)
          PROVE  SessionTyped(n)'
      BY <3>2, <3>3 DEF keep_filehandle, SessionTyped, DialogueTypeOK
    <3>4. CASE reply = FileHandle(fh) /\ open_file(obj.text, fh)
      <4>1. /\ keep_filehandle(obj.text, fh)
            /\ open_files' = {fh}
            /\ write_message(fh, Opened)
            /\ UNCHANGED <<own_handle, client_name, client_address>>
        BY <2>1, <3>4 DEF open_file, open_file_if_necessary, whoVars
      <4>2. SessionTyped(n)'
        BY <3>3, <4>1
      <4>3. reply \in Answers /\ reply.type = "filh" /\ reply.word = fh
        BY <3>2, <3>4, AnswersAre
      <4>4. Served(obj, reply)'
        BY <1>9, <4>1, <4>3 DEF Served
      <4>5. \E line : lines' = Append(lines, line) /\ LineFor(obj, reply, line)
        BY <1>9, <4>1, <4>3, WriteIs DEF LineFor
      <4> QED
        BY <1>9, <4>1, <4>2, <4>3, <4>4, <4>5 DEF Outcome
    <3>5. CASE /\ \E reason \in Reason : reply = NotAcknowledged(reason)
               /\ open_file_Throws(obj.text, fh)
      <4>1. /\ keep_filehandle(obj.text, fh) /\ obj.text \in Unopenable
            /\ open_files' = {} /\ lines' = lines
            /\ UNCHANGED <<own_handle, client_name, client_address>>
        BY <2>1, <3>5 DEF open_file_Throws, whoVars
      <4>2. SessionTyped(n)'
        BY <3>3, <4>1
      <4>3. reply \in Answers /\ reply.type = "nack"
        BY <3>5, AnswersAre
      <4>4. Served(obj, reply)'
        BY <1>9, <4>1, <4>3 DEF Served
      <4> QED
        BY <1>9, <4>1, <4>2, <4>3, <4>4 DEF Outcome
    <3> QED
      BY <3>1, <3>4, <3>5
  <2> QED
    BY <2>2, <2>3
<1>10. CASE obj.type = "mesg"
  <2>1. Act_Message(got, reply) /\ open_files = {file} /\ obj.word = file
    BY <1>1, <1>2, <1>4, <1>10 DEF act, Fits, InUse
  <2>2. CASE got.word \in open_files
    <3>1. got.word = obj.word /\ got.text = obj.text
      BY <1>4, <1>10, <2>1, <2>2
    <3>2. /\ reply = Acknowledged /\ write_message(obj.word, obj.text)
          /\ UNCHANGED <<own_handle, client_name, client_address>>
          /\ UNCHANGED <<fileVars, open_files>>
      BY <2>1, <2>2, <3>1 DEF Act_Message, whoVars, fileVars
    <3>3. Served(obj, reply)'
      BY <1>10, <2>1, <3>2 DEF Served
    <3>4. \E line : lines' = Append(lines, line) /\ LineFor(obj, reply, line)
      BY <1>10, <3>2, WriteIs DEF LineFor
    <3> QED
      BY <1>5, <1>10, <3>2, <3>3, <3>4, AnswersAre DEF Outcome
  <2>3. CASE got.word \notin open_files
    <3>1. Refuse(reply) /\ ~Plain(obj.word)
      BY <1>4, <2>1, <2>3 DEF Act_Message
    <3>2. Served(obj, reply)'
      BY <1>7, <1>10, <2>1, <3>1 DEF Served
    <3> QED
      BY <1>7, <1>10, <3>1, <3>2 DEF Outcome
  <2> QED
    BY <2>2, <2>3
<1>11. CASE obj.type = "clos"
  <2>1. /\ Act_CloseFile(obj, reply) /\ open_files = {obj.word}
    BY <1>1, <1>2, <1>4, <1>11 DEF act, Fits, InUse
  <2>2. /\ reply = Acknowledged /\ write_message(obj.word, Closed)
        /\ open_files' = {}
        /\ UNCHANGED <<own_handle, client_name, client_address>>
        /\ UNCHANGED <<file_handle_counter, open_filehandles>>
    BY <2>1 DEF Act_CloseFile, close_file, whoVars
  <2>3. Served(obj, reply)'
    BY <1>11, <2>2 DEF Served
  <2>4. \E line : lines' = Append(lines, line) /\ LineFor(obj, reply, line)
    BY <1>11, <2>2, WriteIs DEF LineFor
  <2>5. SessionTyped(n)'
    BY <2>2, HandlesSuffice DEF SessionTyped, DialogueTypeOK
  <2> QED
    BY <1>11, <2>2, <2>3, <2>4, <2>5, AnswersAre DEF Outcome
<1>12. CASE obj.type = "disc"
  <2>1. Act_Disconnect(obj, reply) /\ obj.word = own_handle /\ open_files = {}
    BY <1>1, <1>2, <1>4, <1>12 DEF act, Fits, InUse
  <2>2. /\ reply = Acknowledged
        /\ UNCHANGED <<own_handle, client_name, client_address>>
        /\ UNCHANGED <<fileVars, open_files, lines>>
    BY <2>1 DEF Act_Disconnect, disconnect_client, sessionVars, whoVars, fileVars
  <2>3. Served(obj, reply)'
    BY <1>12, <2>1, <2>2 DEF Served
  <2> QED
    BY <1>5, <1>12, <2>2, <2>3, AnswersAre DEF Outcome
<1> QED
  BY <1>3, <1>8, <1>9, <1>10, <1>11, <1>12

LEMMA RepliesAreAnswers ==
  ASSUME DialogueTypeOK, Asking, Len(replied) < MaxObjects
  PROVE  Replies \subseteq Answers
<1>1. own_handle \in Word
  BY DEF DialogueTypeOK
<1>2. \A path \in Path : get_filehandle_for_path(path) \in Word
  BY HandlesSuffice
<1> QED
  BY <1>1, <1>2, AnswersAre DEF Replies

LEMMA ServeStep ==
  ASSUME DialogueInv, Serve
  PROVE  DialogueInv'
<1>1. DialogueTypeOK /\ TakeTurns /\ KnowEachOther
  BY DEF DialogueInv
<1>2. PICK reply \in Replies : act(Arrived, reply) /\ Back!Send(reply)
  BY DEF Serve
<1>3. /\ ReadPayload
      /\ UNCHANGED <<client_handle, file, file_path, thrown>>
  BY DEF Serve, clientVars, logVars
<1>4. Asking /\ Len(replied) < MaxObjects
  <2>1. receivable # NoReceivable
    BY <1>3 DEF ReadPayload
  <2> QED
    BY <1>1, <1>2, <2>1 DEF TakeTurns, Answering, Settled, Idle, Back!Send
<1>5. reply \in Answers
  BY <1>1, <1>2, <1>4, RepliesAreAnswers
<1>6. /\ Answering' /\ TakeTurns'
      /\ Survives(Last(sent), Arrived)
      /\ UNCHANGED <<sent, answers>> /\ Sequence(received')
      /\ replied' = Append(replied, reply) /\ replied' \in Seq(Answers)
      /\ Len(replied') = Len(replied) + 1 /\ Last(replied') = reply
      /\ DOMAIN replied' = 1..(Len(replied) + 1)
      /\ \A i \in DOMAIN replied : replied'[i] = replied[i]
      /\ replied'[Len(sent)] = reply
  BY <1>1, <1>2, <1>3, <1>5, ServeTurns
<1>7. PICK n \in Nat : n = Len(replied)
  BY <1>1, Lengths
<1>8. PICK obj \in Requests : obj = Last(sent) /\ obj = sent[n + 1]
  BY <1>1, <1>4, <1>7, LastsAre DEF Asking
<1>9. PICK m \in Nat : m = n + 1
  BY <1>7
<1>10. Len(sent) = m /\ DOMAIN sent = 1..m /\ DOMAIN replied = 1..n
  BY <1>1, <1>4, <1>7, <1>9, Lengths DEF Asking
<1>11. Outcome(obj, reply, m)
  BY <1>1, <1>2, <1>3, <1>4, <1>6, <1>7, <1>8, <1>9, ServeOutcome
<1>12. Last(sent') = obj /\ Fits(obj)
  BY <1>1, <1>4, <1>6, <1>8 DEF KnowEachOther
<1>13. ~Asking' /\ ~Settled'
  <2>1. Len(sent') = m /\ Len(replied') = m /\ Len(answers') = n
    BY <1>4, <1>6, <1>7, <1>9, <1>10 DEF Asking
  <2>2. Asking' => Len(sent') = Len(replied') + 1
    BY DEF Asking
  <2>3. Settled' => Len(answers') = Len(replied')
    BY DEF Settled
  <2> QED
    BY <1>9, <2>1, <2>2, <2>3
<1>14. \A i \in DOMAIN sent : sent[i].type = "clnt" <=> i = 1
  BY <1>1 DEF KnowEachOther
<1>15. Introduced'
  <2>1. CASE obj.type = "clnt"
    <3>1. obj = sent[1]
      BY <1>8, <1>9, <1>10, <1>14, <2>1
    <3> QED
      BY <1>6, <1>11, <2>1, <3>1 DEF Introduced, Outcome
  <2>2. CASE obj.type # "clnt"
    <3>1. n # 0
      BY <1>8, <1>9, <1>10, <1>14, <2>2
    <3>2. replied # <<>>
      BY <1>7, <3>1
    <3> QED
      BY <1>6, <1>11, <2>2, <3>2 DEF DialogueInv, Introduced, Outcome
  <2> QED
    BY <2>1, <2>2
<1>16. LogSaysWhatWasSaid' /\ Sequence(lines')
  <2>1. LogSaysWhatWasSaid
    BY DEF DialogueInv
  <2>2. /\ Len(replied') = n + 1 /\ DOMAIN replied' = 1..(n + 1)
        /\ Len(sent) = n + 1 /\ sent' = sent /\ reply = replied'[n + 1]
    BY <1>6, <1>7, <1>9, <1>10
  <2>3. replied' # <<>>
    BY <1>7, <2>2
  <2>4. IF obj.type \in {"open", "mesg", "clos"} /\ reply.type # "nack"
          THEN \E line :
                 /\ lines' = Append(lines, line)
                 /\ line.text = CASE obj.type = "open" -> Opened
                                  [] obj.type = "clos" -> Closed
                                  [] obj.type = "mesg" -> obj.text
                 /\ line.file = IF obj.type = "open" THEN reply.word ELSE obj.word
                 /\ line.name = client_name' /\ line.address = client_address'
          ELSE lines' = lines
    <3>1. CASE obj.type \in {"open", "mesg", "clos"} /\ reply.type # "nack"
      <4>1. PICK line : lines' = Append(lines, line) /\ LineFor(obj, reply, line)
        BY <1>11, <3>1 DEF Outcome
      <4>2. client_name' = client_name /\ client_address' = client_address
        BY <1>11, <3>1 DEF Outcome
      <4> QED
        BY <3>1, <4>1, <4>2 DEF LineFor
    <3>2. CASE ~(obj.type \in {"open", "mesg", "clos"} /\ reply.type # "nack")
      BY <1>11, <3>2 DEF Outcome
    <3> QED
      BY <3>1, <3>2
  <2> QED
    BY <1>1, <1>6, <1>7, <1>8, <1>15, <2>1, <2>2, <2>3, <2>4, LineStep
<1>17. DialogueTypeOK'
  <2>1. SessionTyped(m)' /\ own_handle' = own_handle
    BY <1>11 DEF Outcome
  <2>2. m <= MaxObjects /\ Len(replied') = m
    BY <1>4, <1>6, <1>7, <1>9, MaxAssumption
  <2>3. SessionTyped(Len(replied))'
    BY <2>1, <2>2 DEF SessionTyped
  <2>4. Sequence(answers') /\ Sequence(received') /\ Sequence(lines')
    BY <1>1, <1>6, <1>16 DEF DialogueTypeOK
  <2> QED
    BY <1>1, <1>3, <1>6, <2>1, <2>2, <2>3, <2>4
       DEF DialogueTypeOK, SessionTyped, Sequence
<1>18. KnowEachOther'
  <2>1. Fits(obj)'
    BY <1>3, <1>6, <1>12 DEF Fits
  <2>2. Fits(Last(sent))' /\ Served(Last(sent), Last(replied))'
    BY <1>6, <1>11, <1>12, <2>1 DEF Fits, Served, Outcome
  <2>3. own_handle' = own_handle
    BY <1>11 DEF Outcome
  <2> QED
    BY <1>1, <1>3, <1>6, <1>14, <2>2, <2>3 DEF KnowEachOther
<1>19. PathKept'
  BY <1>3, <1>6 DEF DialogueInv, PathKept, Asked
<1>20. Refusals'
  <2>1. reply.type = "nack" => \/ obj = File(InvalidPath)
                               \/ obj.type = "open" /\ obj.text \in Unopenable
                               \/ obj.type = "mesg" /\ ~Plain(obj.word)
    <3>1. Served(obj, reply)'
      BY <1>11 DEF Outcome
    <3>2. \A h : ClientHandle(h).type = "clnh"
      BY DEF ClientHandle
    <3>3. obj.type = "open" /\ obj.text = InvalidPath => obj = File(InvalidPath)
      BY RequestIs
    <3>4. obj.type \in {"clnt", "open", "mesg", "clos", "disc"}
      BY RequestIs
    <3>5. Acknowledged.type = "ackn"
      BY AnswersAre
    <3>6. CASE obj.type \in {"clnt", "clos", "disc"}
      BY <3>1, <3>2, <3>5, <3>6 DEF Served
    <3>7. CASE obj.type = "open"
      BY <3>1, <3>3, <3>7 DEF Served
    <3>8. CASE obj.type = "mesg"
      BY <3>1, <3>5, <3>8 DEF Served
    <3> QED
      BY <3>4, <3>6, <3>7, <3>8
  <2>2. \A i \in DOMAIN replied : replied[i].type = "nack" =>
          \/ sent[i] = File(InvalidPath)
          \/ sent[i].type = "open" /\ sent[i].text \in Unopenable
          \/ sent[i].type = "mesg" /\ ~Plain(sent[i].word)
    BY DEF DialogueInv, Refusals
  <2>3. \A i \in DOMAIN replied' : replied'[i].type = "nack" =>
          \/ sent'[i] = File(InvalidPath)
          \/ sent'[i].type = "open" /\ sent'[i].text \in Unopenable
          \/ sent'[i].type = "mesg" /\ ~Plain(sent'[i].word)
    <3>1. replied'[n + 1] = reply /\ DOMAIN replied' = 1..(n + 1)
      BY <1>6, <1>7, <1>9, <1>10
    <3> QED
      BY <1>6, <1>8, <1>10, <2>1, <2>2, <3>1
  <2> QED
    BY <1>13, <2>3 DEF Refusals
<1> QED
  BY <1>6, <1>15, <1>16, <1>17, <1>18, <1>19, <1>20 DEF DialogueInv

-----------------------------------------------------------------------------
(* What a reply does *)

\* What has become of the client with the reply
Understood(obj, reply) ==
  /\ client_handle' \in {None, own_handle} /\ client_handle' # None
  /\ file' \in Handle /\ open_files = InUse(file')
  /\ file' # None => obj.type = "open" \/ file # None
  /\ IF reply.type = "nack"
       THEN /\ obj.type \in {"open", "mesg"}
            /\ thrown'.reason = reply.text /\ thrown'.filename = file_path
       ELSE thrown' = NotThrown

LEMMA ReplyOutcome ==
  ASSUME DialogueTypeOK, KnowEachOther, Answering, NEW obj \in Requests,
         obj = Last(sent), NEW reply \in Answers, reply = Last(replied),
         ClientAct(reply)
  PROVE  Understood(obj, reply)
<1>1. /\ Fits(obj) /\ Served(obj, reply)
      /\ client_handle \in {None, own_handle}
  BY DEF KnowEachOther
<1>2. own_handle # None /\ own_handle \in Word /\ file \in Handle /\ None \in Handle
  BY NoneIsNoWord DEF DialogueTypeOK, Handle
<1>3. /\ obj.type \in {"clnt", "open", "mesg", "clos", "disc"}
      /\ reply.type \in {"ackn", "nack", "clnh", "filh"}
      /\ reply.type = "filh" => reply.word \in Word
  BY RequestIs, AnswerIs
<1>4. /\ reply.type = "clnh" => Act_ClientHandle(reply)
      /\ reply.type = "filh" => Act_FileHandle(reply)
      /\ reply.type = "ackn" => Act_Acknowledged
      /\ reply.type = "nack" => Act_NotAcknowledged(reply)
  BY <1>3 DEF ClientAct
<1>5. CASE obj.type = "clnt"
  <2>1. /\ reply = ClientHandle(own_handle) /\ open_files = {}
        /\ client_handle = None /\ file = None
    BY <1>1, <1>5 DEF Served, Fits
  <2>2. reply.type = "clnh" /\ reply.word = own_handle
    BY <2>1 DEF ClientHandle
  <2>3. client_handle' = own_handle /\ file' = file /\ thrown' = NotThrown
    BY <1>4, <1>5, <2>2 DEF Act_ClientHandle, set_client_handle
  <2> QED
    BY <1>2, <2>1, <2>2, <2>3 DEF Understood, InUse
<1>6. CASE obj.type = "open"
  <2>1. client_handle # None /\ file = None
    BY <1>1, <1>6 DEF Fits
  <2>2. CASE reply.type = "filh" /\ open_files = {reply.word}
    <3>1. client_handle' = client_handle /\ file' = reply.word /\ thrown' = NotThrown
      BY <1>4, <1>6, <2>2 DEF Act_FileHandle, set_file_handle
    <3>2. reply.word # None /\ reply.word \in Handle
      BY <1>3, <2>2, NoneIsNoWord DEF Handle
    <3> QED
      BY <1>1, <1>6, <2>1, <2>2, <3>1, <3>2 DEF Understood, InUse
  <2>3. CASE reply.type = "nack" /\ open_files = {}
    <3>1. /\ client_handle' = client_handle /\ file' = file
          /\ thrown' = OpenFileError(file_path, reply.text)
      BY <1>4, <1>6, <2>3 DEF Act_NotAcknowledged, Ended, set_error, Complaint
    <3> QED
      BY <1>1, <1>2, <1>6, <2>1, <2>3, <3>1 DEF Understood, InUse, OpenFileError
  <2> QED
    BY <1>1, <1>6, <2>2, <2>3 DEF Served
<1>7. CASE obj.type = "mesg"
  <2>1. /\ client_handle # None /\ file # None /\ open_files = {file}
        /\ reply = Acknowledged \/ reply.type = "nack"
    BY <1>1, <1>7 DEF Fits, Served
  <2>2. CASE reply = Acknowledged
    <3>1. reply.type = "ackn"
      BY <2>2, AnswersAre
    <3>2. client_handle' = client_handle /\ file' = file /\ thrown' = NotThrown
      BY <1>4, <1>7, <3>1 DEF Act_Acknowledged, Ended
    <3> QED
      BY <1>1, <1>2, <2>1, <3>1, <3>2 DEF Understood, InUse
  <2>3. CASE reply.type = "nack"
    <3>1. /\ client_handle' = client_handle /\ file' = file
          /\ thrown' = FileWriteError(file_path, reply.text)
      BY <1>4, <1>7, <2>3 DEF Act_NotAcknowledged, Ended, set_error, Complaint
    <3> QED
      BY <1>1, <1>2, <1>7, <2>1, <2>3, <3>1 DEF Understood, InUse, FileWriteError
  <2> QED
    BY <2>1, <2>2, <2>3
<1>8. CASE obj.type \in {"clos", "disc"}
  <2>1. /\ reply = Acknowledged /\ client_handle # None /\ open_files = {}
        /\ obj.type = "disc" => file = None
    BY <1>1, <1>8 DEF Fits, Served
  <2>2. reply.type = "ackn"
    BY <2>1, AnswersAre
  <2>3. client_handle' = client_handle /\ file' = None /\ thrown' = NotThrown
    BY <1>4, <1>8, <2>1, <2>2 DEF Act_Acknowledged, Ended
  <2> QED
    BY <1>1, <1>2, <2>1, <2>2, <2>3 DEF Understood, InUse
<1> QED
  BY <1>3, <1>5, <1>6, <1>7, <1>8

LEMMA ReplyStep ==
  ASSUME DialogueInv, ReadReply
  PROVE  DialogueInv'
<1>1. DialogueTypeOK /\ TakeTurns /\ KnowEachOther
  BY DEF DialogueInv
<1>2. /\ Back!ReadPayload /\ ClientAct(Back!Arrived)
      /\ UNCHANGED vars /\ UNCHANGED file_path
      /\ UNCHANGED <<own_handle, client_name, client_address>>
      /\ UNCHANGED <<file_handle_counter, open_filehandles, open_files, lines>>
  BY DEF ReadReply, sessionVars, whoVars, fileVars
<1>3. /\ Answering /\ Settled' /\ TakeTurns'
      /\ Back!Arrived = Last(replied)
      /\ UNCHANGED <<sent, replied, received>> /\ Sequence(answers')
      /\ Len(answers') = Len(answers) + 1
  BY <1>1, <1>2, ReplyTurns
<1>4. PICK obj \in Requests, reply \in Answers :
        obj = Last(sent) /\ reply = Last(replied)
  BY <1>1, <1>3, LastsAre
<1>5. Understood(obj, reply)
  BY <1>1, <1>2, <1>3, <1>4, ReplyOutcome
<1>6. ~Asking' /\ ~Answering'
  <2>1. /\ Len(sent') = Len(replied') /\ Len(answers') = Len(replied')
        /\ Len(replied') \in Nat
    BY <1>1, <1>3, Lengths DEF Settled
  <2>2. Asking' => Len(sent') = Len(replied') + 1
    BY DEF Asking
  <2>3. Answering' => Len(replied') = Len(answers') + 1
    BY DEF Answering
  <2> QED
    BY <2>1, <2>2, <2>3
<1>7. DialogueTypeOK'
  <2>1. client_handle' \in Handle /\ file' \in Handle
    BY <1>1, <1>5 DEF Understood, DialogueTypeOK, Handle
  <2> QED
    BY <1>1, <1>2, <1>3, <2>1 DEF DialogueTypeOK, Sequence
<1>8. KnowEachOther'
  <2>1. answers' # <<>>
    BY <1>1, <1>3, Lengths
  <2> QED
    BY <1>1, <1>2, <1>3, <1>5, <1>6, <2>1 DEF KnowEachOther, Understood, InUse
<1>9. obj.type = "open" \/ file # None => \E i \in DOMAIN sent : Asked(i)
  <2>1. CASE obj.type = "open"
    BY <1>1, <1>3, <1>4, <2>1, LastsAre DEF Asked
  <2>2. CASE file # None
    BY <2>2 DEF DialogueInv, PathKept
  <2> QED
    BY <2>1, <2>2
<1>10. \A i : Asked(i)' <=> Asked(i)
  BY <1>3 DEF Asked
<1>11. PathKept'
  <2>1. (\E i \in DOMAIN sent : Asked(i)) =>
          \E i \in DOMAIN sent :
            /\ Asked(i) /\ sent[i].text = file_path
            /\ \A j \in DOMAIN sent : Asked(j) => j <= i
    BY DEF DialogueInv, PathKept
  <2>2. file' # None => \E i \in DOMAIN sent : Asked(i)
    BY <1>5, <1>9 DEF Understood
  <2> QED
    BY <1>2, <1>3, <1>10, <2>1, <2>2 DEF PathKept
<1>12. Refusals'
  <2>1. Complained'
    <3>1. CASE reply.type = "nack"
      <4>1. /\ thrown'.reason = reply.text /\ thrown'.filename = file_path
            /\ obj.type \in {"open", "mesg"}
        BY <1>5, <3>1 DEF Understood
      <4>2. obj.type = "mesg" => file # None
        BY <1>1, <1>3, <1>4 DEF KnowEachOther, Fits
      <4> QED
        BY <1>2, <1>3, <1>4, <1>9, <1>10, <3>1, <4>1, <4>2 DEF Complained, Last
    <3>2. CASE reply.type # "nack"
      BY <1>3, <1>4, <1>5, <3>2 DEF Complained, Understood, Last
    <3> QED
      BY <3>1, <3>2
  <2> QED
    BY <1>3, <2>1 DEF DialogueInv, Refusals
<1>13. Introduced' /\ LogSaysWhatWasSaid'
  <2>1. UNCHANGED <<sent, replied, lines, client_name, client_address>>
    BY <1>2, <1>3
  <2>2. Introduced /\ LogSaysWhatWasSaid
    BY DEF DialogueInv
  <2>3. Introduced'
    BY <2>1, <2>2 DEF Introduced
  <2>4. LogSaysWhatWasSaid'
    BY <2>1, <2>2 DEF LogSaysWhatWasSaid, LineSays, LineOf, Logs
  <2> QED
    BY <2>3, <2>4
<1> QED
  BY <1>3, <1>7, <1>8, <1>11, <1>12, <1>13 DEF DialogueInv

-----------------------------------------------------------------------------
(* The theorems *)

LEMMA DialogueStart == DialogueInit => DialogueInv
<1> SUFFICES ASSUME DialogueInit PROVE DialogueInv
  OBVIOUS
<1>1. /\ sent = <<>> /\ stream = <<>> /\ receivable = NoReceivable
      /\ received = <<>> /\ failed = FALSE
  BY DEF DialogueInit, Init
<1>2. /\ replied = <<>> /\ back = <<>> /\ awaited = NoReceivable
      /\ answers = <<>> /\ confused = FALSE
  BY SameCoding DEF DialogueInit, Back!Init
<1>3. /\ client_handle = None /\ file = None /\ thrown = NotThrown
      /\ own_handle \in Number /\ file_handle_counter \in Number
      /\ open_filehandles = <<>> /\ open_files = {} /\ lines = <<>>
  BY DEF DialogueInit
<1>4. \A s : s = <<>> => Sequence(s) /\ Len(s) = 0 /\ DOMAIN s = {}
  BY DEF Sequence
<1>5. Len(sent) = 0 /\ Len(replied) = 0 /\ Len(answers) = 0 /\ Len(received) = 0
      /\ Len(lines) = 0
  BY <1>1, <1>2, <1>3
<1>6. DialogueTypeOK
  <2>1. sent \in Seq(Requests) /\ replied \in Seq(Answers)
    BY <1>1, <1>2
  <2>2. ASSUME NEW n \in Number
        PROVE  n \in Nat /\ n \in Word /\ n + (MaxObjects - 0) \in Word
    <3> DEFINE top == Base * Base * Base * Base - 1
    <3>1. top \in Int /\ n \in Nat /\ MaxObjects \in Nat
      BY BaseAssumption, NumberAssumption, MaxAssumption
    <3> HIDE DEF top
    <3>2. Word = 0..top
      BY DEF Word, top
    <3> QED
      BY <3>1, <3>2, NumberAssumption
  <2> QED
    BY <1>1, <1>2, <1>3, <1>4, <1>5, <2>1, <2>2, MaxAssumption
       DEF DialogueTypeOK, Handle
<1>7. ~Asking /\ ~Answering /\ Settled
  BY <1>1, <1>2, <1>5 DEF Asking, Answering, Settled, Idle
<1>8. TakeTurns
  BY <1>1, <1>2, <1>4, <1>5, <1>7 DEF TakeTurns
<1>9. KnowEachOther
  BY <1>1, <1>2, <1>3, <1>4, <1>7 DEF KnowEachOther, InUse
<1>10. PathKept /\ Refusals /\ Introduced
  BY <1>1, <1>2, <1>3, <1>4 DEF PathKept, Refusals, Introduced
<1>11. LogSaysWhatWasSaid
  <2>1. {j \in 1..0 : Logs(j)} = {}
    OBVIOUS
  <2> QED
    BY <1>2, <1>4, <1>5, <2>1, FS_EmptySet DEF LogSaysWhatWasSaid, LineOf
<1> QED
  BY <1>6, <1>8, <1>9, <1>10, <1>11 DEF DialogueInv

LEMMA DialogueStep == DialogueInv /\ [DialogueNext]_dialogueVars => DialogueInv'
BY RequestStep, HeaderStep, ServeStep, BackHeaderStep, ReplyStep, StutterStep
   DEF DialogueNext

LEMMA DialogueInvariant == DialogueSpec => []DialogueInv
BY DialogueStart, DialogueStep, PTL DEF DialogueSpec

\* Whatever objects follow each other in either direction, none is taken for
\* another or for a part of one, and each is read as it was written, but for the
\* handle of a message that is not plain (ProtObjFactory::create,
\* Deliverable::get_header, get_payload and read_payload of all types).
THEOREM AllIsReadAsWritten == DialogueSpec => []BothWaysSurvive
<1>1. ASSUME DialogueInv PROVE BothWaysSurvive
  <2>1. DialogueTypeOK /\ TakeTurns
    BY <1>1 DEF DialogueInv
  <2>2. /\ Len(sent) \in Nat /\ Len(replied) \in Nat /\ Len(received) = Len(replied)
        /\ Len(answers) \in Nat
        /\ DOMAIN answers = 1..Len(answers)
    BY <2>1, Lengths DEF TakeTurns
  <2>3. ASSUME Asking PROVE Framed /\ Back!Framed
    <3>1. /\ Len(sent) = Len(replied) + 1 /\ Len(answers) = Len(replied)
          /\ back = <<>> /\ awaited = NoReceivable /\ ~failed /\ ~confused
      BY <2>1, <2>3 DEF Asking, Idle, TakeTurns
    <3> QED
      BY <2>2, <3>1, SameCoding DEF Framed, Back!Framed
  <2>4. ASSUME Answering PROVE Framed /\ Back!Framed
    <3>1. /\ Len(sent) = Len(replied) /\ Len(replied) = Len(answers) + 1
          /\ stream = <<>> /\ receivable = NoReceivable /\ ~failed /\ ~confused
      BY <2>1, <2>4 DEF Answering, Idle, TakeTurns
    <3>2. Len(replied) = Len(answers) + 1 /\ Len(answers) \in Nat /\ ~confused
      BY <2>2, <3>1
    <3>3. Back!Framed
      BY <3>2 DEF Back!Framed
    <3>4. Framed
      BY <2>2, <3>1 DEF Framed
    <3> QED
      BY <3>3, <3>4
  <2>5. ASSUME Settled PROVE Framed /\ Back!Framed
    <3>1. /\ Len(sent) = Len(replied) /\ Len(answers) = Len(replied)
          /\ stream = <<>> /\ receivable = NoReceivable /\ ~failed /\ ~confused
          /\ back = <<>> /\ awaited = NoReceivable
      BY <2>1, <2>5 DEF Settled, Idle, TakeTurns
    <3> QED
      BY <2>2, <3>1, SameCoding DEF Framed, Back!Framed
  <2>6. Framed /\ Back!Framed
    BY <2>1, <2>3, <2>4, <2>5 DEF TakeTurns
  <2>7. ObjectsSurvive
    BY <2>1 DEF TakeTurns, Survives, ObjectsSurvive
  <2>8. Back!ObjectsSurvive
    <3>1. ASSUME NEW i \in DOMAIN answers
          PROVE  answers[i] = replied[i] /\ replied[i].type # "mesg"
      <4>1. replied[i] \in Answers
        BY <2>1, <2>2 DEF TakeTurns, DialogueTypeOK, Asking, Answering, Settled
      <4> QED
        BY <2>1, <4>1, AnswerIs DEF TakeTurns
    <3> QED
      BY <3>1 DEF Back!ObjectsSurvive
  <2> QED
    BY <2>6, <2>7, <2>8 DEF BothWaysSurvive
<1> QED
  BY <1>1, DialogueInvariant, PTL

\* Each line in the log is of a request that was carried out, and they are in
\* the order of the requests and say what those said (ConnectedLogFile,
\* DefaultSocketSession, RealSession::write_message).
THEOREM LinesAreWhatWasSaid == DialogueSpec => []LogSaysWhatWasSaid
<1>1. DialogueInv => LogSaysWhatWasSaid
  BY DEF DialogueInv
<1> QED
  BY <1>1, DialogueInvariant, PTL

\* Nothing is refused but a file of the name that means none, a file that the
\* file system does not let the daemon look at, and texts to a file whose handle
\* is misread; a file that could not be opened, whose handle the session keeps,
\* costs no later request its reply; and the exception says which file and why
\* (File::act, RealSession::open_file, NotAcknowledged::act, ConnectedLogFile,
\* OpenFileError, FileWriteError).
THEOREM RefusalsHaveReasons == DialogueSpec => []RefusedForAReason
<1>1. ASSUME DialogueInv PROVE RefusedForAReason
  <2>1. /\ DialogueTypeOK /\ TakeTurns /\ Refusals /\ PathKept
    BY <1>1 DEF DialogueInv
  <2>2. \A i \in DOMAIN answers : i \in DOMAIN replied /\ answers[i] = replied[i]
    <3>1. Len(answers) <= Len(replied)
      <4>1. Len(replied) \in Nat /\ Len(answers) \in Nat
        BY <2>1, Lengths
      <4>2. Len(answers) = Len(replied) \/ Len(replied) = Len(answers) + 1
        BY <2>1 DEF TakeTurns, Asking, Answering, Settled
      <4> QED
        BY <4>1, <4>2
    <3>2. \A i \in DOMAIN answers : answers[i] = replied[i]
      BY <2>1 DEF TakeTurns
    <3> QED
      BY <2>1, <3>1, <3>2, Lengths
  <2>3. \A i \in DOMAIN answers :
          answers[i].type = "nack" =>
            \/ sent[i] = File(InvalidPath)
            \/ sent[i].type = "open" /\ sent[i].text \in Unopenable
            \/ sent[i].type = "mesg" /\ ~Plain(sent[i].word)
    BY <2>1, <2>2 DEF Refusals
  <2>4. ASSUME Len(answers) = Len(sent), sent # <<>>
        PROVE  IF Last(replied).type # "nack" THEN thrown = NotThrown
               ELSE LET opened == {i \in DOMAIN sent : sent[i].type = "open"}
                    IN  /\ thrown.reason = Last(replied).text
                        /\ \E i \in opened : /\ \A j \in opened : j <= i
                                             /\ thrown.filename = sent[i].text
    <3>1. Settled
      <4>1. /\ Len(sent) \in Nat /\ Len(replied) \in Nat
            /\ Len(answers) = Len(sent)
        BY <2>1, <2>4, Lengths
      <4>2. Asking => Len(sent) = Len(replied) + 1 /\ Len(answers) = Len(replied)
        BY DEF Asking
      <4>3. Answering => Len(sent) = Len(replied) /\ Len(replied) = Len(answers) + 1
        BY DEF Answering
      <4> QED
        BY <2>1, <4>1, <4>2, <4>3 DEF TakeTurns
    <3>2. Complained
      BY <2>1, <2>4, <3>1 DEF Refusals
    <3>3. CASE Last(replied).type # "nack"
      BY <3>2, <3>3 DEF Complained
    <3>4. CASE Last(replied).type = "nack"
      <4>1. /\ thrown.reason = Last(replied).text /\ thrown.filename = file_path
            /\ \E i \in DOMAIN sent : Asked(i)
        BY <3>2, <3>4 DEF Complained
      <4>2. PICK i \in DOMAIN sent : /\ Asked(i) /\ sent[i].text = file_path
                                     /\ \A j \in DOMAIN sent : Asked(j) => j <= i
        BY <2>1, <4>1 DEF PathKept
      <4> QED
        BY <3>4, <4>1, <4>2 DEF Asked
    <3> QED
      BY <3>3, <3>4
  <2> QED
    BY <2>3, <2>4 DEF RefusedForAReason
<1> QED
  BY <1>1, DialogueInvariant, PTL
=============================================================================
