----------------------------- MODULE DataStream -----------------------------
(***************************************************************************)
(* A message on its way through the program, octet by octet: the client's  *)
(* DATA through smtp.dataReader into the staged file, and a message of the *)
(* archive through pop3.streamMessage to the client of RETR or TOP.        *)
(*                                                                         *)
(* The octets of the clients are what the protocols ask for: a leading dot *)
(* is doubled and a line with a dot alone ends the text; lines end in CRLF *)
(* or, from some senders, in LF.  A connection may be cut at any octet.    *)
(***************************************************************************)
EXTENDS Integers, Sequences, SequencesExt

CONSTANTS
    Contents,       \* what a line of a message may be, without its end
    MaxLine,        \* maxDataLineBytes
    MaxBytes,       \* maxMessageSize
    MaxLines,       \* bound: lines of a message
    Limits,         \* numbers of body lines that TOP asks for
    Imported,       \* messages of the file archive, which are taken over as they are
    None            \* RETR: no limit; no message yet

VARIABLES
    sent,       \* the lines that the SMTP client has sent, without their ends
    wire,       \* octets of the client that the server has not read
    conn,       \* the client's side: "open", "ended" (the text is), "cut"
    data,       \* dataReader: its state, bytesRead and what it has handed on
    stored,     \* the message in the archive
    resp        \* streamMessage

vars == <<sent, wire, conn, data, stored, resp>>

CR == "CR"
LF == "LF"
Dot == "."
EndMark == <<Dot, CR, LF>>

\* Server.deliveryHeaders: lines before the client's.
deliveryHeaders == <<"R", CR, LF>>

startsWithDot(line) == Len(line) > 0 /\ line[1] = Dot

\* Both protocols' transparency: a leading dot is doubled.
stuff(line) == IF startsWithDot(line) THEN <<Dot>> \o line ELSE line

\* A line ends with its LF.
takeOctet(read, octet) ==
    IF octet = LF
    THEN [lines |-> Append(read.lines, Append(read.rest, octet)), rest |-> <<>>]
    ELSE [read EXCEPT !.rest = Append(@, octet)]

\* The lines of an octet sequence; what follows the last LF is not among them.
split(octets) ==
    LET upTo[n \in 0..Len(octets)] ==
            IF n = 0 THEN [lines |-> <<>>, rest |-> <<>>]
            ELSE takeOctet(upTo[n - 1], octets[n])
    IN  upTo[Len(octets)]

linesOf(octets) == split(octets).lines

noResponse == [st |-> "none", limit |-> None, left |-> <<>>, out |-> <<>>,
               inBody |-> FALSE, bodyLines |-> 0, lastEndedWithLF |-> TRUE]

Init ==
    /\ sent = <<>>
    /\ wire = <<>>
    /\ conn = "open"
    /\ resp = noResponse
    /\ \/ /\ data = [st |-> "reading", bytesRead |-> 0, out |-> deliveryHeaders]
          /\ stored = None
       \/ /\ data = [st |-> "idle", bytesRead |-> 0, out |-> <<>>]
          /\ stored \in Imported

-----------------------------------------------------------------------------
(* The SMTP client *)

SendLine(content, end) ==
    /\ conn = "open" /\ data.st = "reading"
    /\ Len(sent) < MaxLines
    \* A CR before a bare LF is the end of the line, not content.
    /\ ~(end = <<LF>> /\ content # <<>> /\ Last(content) = CR)
    /\ sent' = Append(sent, content)
    /\ wire' = wire \o stuff(content) \o end
    /\ UNCHANGED <<conn, data, stored, resp>>

SendEnd(end) ==
    /\ conn = "open" /\ data.st = "reading"
    /\ conn' = "ended"
    /\ wire' = wire \o <<Dot>> \o end
    /\ UNCHANGED <<sent, data, stored, resp>>

\* The connection ends; the last octets on their way may be lost.
Cut ==
    /\ conn # "cut" /\ data.st = "reading"
    /\ conn' = "cut"
    /\ \E n \in 0..Len(wire) : wire' = SubSeq(wire, 1, n)
    /\ UNCHANGED <<sent, data, stored, resp>>

-----------------------------------------------------------------------------
(* smtp.dataReader *)

\* Mutant: the doubled dot is taken off before the line is compared.
endsDataUnstuffed(line) ==
    LET l == IF Len(line) >= 2 /\ line[1] = Dot /\ line[2] = Dot THEN Tail(line) ELSE line
    IN  l \in {EndMark, <<Dot, LF>>}

endsData(line) == line \in {EndMark, <<Dot, LF>>}

unstuff(line) == IF Len(line) >= 2 /\ line[1] = Dot /\ line[2] = Dot THEN Tail(line) ELSE line

trimSuffix(line, octet) == IF line # <<>> /\ Last(line) = octet THEN Front(line) ELSE line

canonicalDataLine(line) == trimSuffix(trimSuffix(line, LF), CR) \o <<CR, LF>>

\* readLimitedLineRaw with its buffer of a little more than the limit: the line
\* is too long when the limit is passed, before its end has come.
lineTooLong ==
    \/ linesOf(wire) # <<>> /\ Len(linesOf(wire)[1]) > MaxLine
    \/ linesOf(wire) = <<>> /\ Len(wire) > MaxLine

haveLine == ~lineTooLong /\ linesOf(wire) # <<>>

nextLine == linesOf(wire)[1]

restOfWire == SubSeq(wire, Len(nextLine) + 1, Len(wire))

ReadLine ==
    /\ data.st = "reading" /\ haveLine /\ ~endsData(nextLine)
    /\ LET line == canonicalDataLine(unstuff(nextLine))
       IN  /\ Len(line) <= MaxLine
           /\ data.bytesRead + Len(line) <= MaxBytes
           /\ data' = [data EXCEPT !.bytesRead = @ + Len(line), !.out = @ \o line]
    /\ wire' = restOfWire
    /\ UNCHANGED <<sent, conn, stored, resp>>

\* The end of the text: Stage has read all, and the message is published.
ReadEnd ==
    /\ data.st = "reading" /\ haveLine /\ endsData(nextLine)
    /\ data' = [data EXCEPT !.st = "done"]
    /\ stored' = data.out
    /\ wire' = restOfWire
    /\ UNCHANGED <<sent, conn, resp>>

\* errDataLineTooLong, errMessageTooLarge or io.ErrUnexpectedEOF: the staged
\* file is dropped and the connection closed.
ReadFails ==
    /\ data.st = "reading"
    /\ \/ lineTooLong
       \/ /\ haveLine /\ ~endsData(nextLine)
          /\ LET line == canonicalDataLine(unstuff(nextLine))
             IN  Len(line) > MaxLine \/ data.bytesRead + Len(line) > MaxBytes
       \/ conn = "cut" /\ ~lineTooLong /\ linesOf(wire) = <<>>
    /\ data' = [data EXCEPT !.st = "failed", !.out = <<>>]
    /\ UNCHANGED <<sent, wire, conn, stored, resp>>

-----------------------------------------------------------------------------
(* pop3.streamMessage *)

\* RETR, or TOP with a number of lines.
Request(limit) ==
    /\ stored # None
    /\ resp.st = "none"
    /\ resp' = [noResponse EXCEPT !.st = "streaming", !.limit = limit, !.left = stored]
    /\ UNCHANGED <<sent, wire, conn, data, stored>>

\* reader.ReadBytes('\n'): up to the LF, or all that is left.
chunk == IF linesOf(resp.left) # <<>> THEN linesOf(resp.left)[1] ELSE resp.left

limitReached == resp.limit # None /\ resp.inBody /\ resp.bodyLines >= resp.limit

StreamLine ==
    /\ resp.st = "streaming" /\ resp.left # <<>> /\ ~limitReached
    /\ resp' = [resp EXCEPT
            !.left = SubSeq(@, Len(chunk) + 1, Len(@)),
            !.out = @ \o stuff(chunk),
            !.lastEndedWithLF = Last(chunk) = LF,
            !.bodyLines = IF resp.inBody THEN @ + 1 ELSE @,
            !.inBody = @ \/ chunk = <<CR, LF>>]
    /\ UNCHANGED <<sent, wire, conn, data, stored>>

\* The end of the message or of what TOP asks for.
StreamEnd ==
    /\ resp.st = "streaming" /\ (resp.left = <<>> \/ limitReached)
    /\ resp' = [resp EXCEPT !.st = "done",
            !.out = @ \o (IF resp.lastEndedWithLF THEN <<>> ELSE <<CR, LF>>) \o EndMark]
    /\ UNCHANGED <<sent, wire, conn, data, stored>>

\* Reading or writing fails: the connection is closed, without an end mark.
StreamFails ==
    /\ resp.st = "streaming"
    /\ resp' = [resp EXCEPT !.st = "failed"]
    /\ UNCHANGED <<sent, wire, conn, data, stored>>

Next ==
    \/ \E content \in Contents, end \in {<<CR, LF>>, <<LF>>} : SendLine(content, end)
    \/ \E end \in {<<CR, LF>>, <<LF>>} : SendEnd(end)
    \/ Cut
    \/ ReadLine
    \/ ReadEnd
    \/ ReadFails
    \/ \E limit \in Limits \cup {None} : Request(limit)
    \/ StreamLine
    \/ StreamEnd
    \/ StreamFails

Spec == Init /\ [][Next]_vars

-----------------------------------------------------------------------------
(* Properties *)

\* The lines that a client of RETR or TOP makes of a response: up to the first
\* end mark, with a leading dot taken off.
received(octets) ==
    LET lines == linesOf(octets)
        end == CHOOSE k \in DOMAIN lines :
                    lines[k] = EndMark /\ \A j \in 1..(k - 1) : lines[j] # EndMark
    IN  [k \in 1..(end - 1) |->
            IF startsWithDot(lines[k]) THEN Tail(lines[k]) ELSE lines[k]]

\* What TOP is about: the header, the empty line and the first n lines after
\* it; all when the message has no empty line.
top(lines, n) ==
    LET empty == {k \in DOMAIN lines : lines[k] = <<CR, LF>>}
        last == (CHOOSE k \in empty : \A j \in empty : k <= j) + n
    IN  IF n = None \/ empty = {} \/ last >= Len(lines) THEN lines ELSE SubSeq(lines, 1, last)

\* A file that does not end in LF is a text whose last line was not ended.
wholeLines(octets) ==
    linesOf(IF octets # <<>> /\ Last(octets) # LF THEN octets \o <<CR, LF>> ELSE octets)

\* What a client sends is what is stored, and what is stored is what a client
\* gets, line by line: neither stuffed nor unended lines, nor the lines with
\* dots alone, nor a cut connection, nor the limits on lines and on the whole
\* make a message shorter, longer or different, and the end mark of a response
\* is the first in it and its last line.
MailIsUnchanged ==
    /\ data.st = "done" =>
        /\ linesOf(stored) = <<deliveryHeaders>> \o [k \in DOMAIN sent |-> sent[k] \o <<CR, LF>>]
        /\ wire = <<>>
    /\ resp.st = "done" => received(resp.out) = top(wholeLines(stored), resp.limit)
=============================================================================
