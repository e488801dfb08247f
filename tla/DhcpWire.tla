------------------------------ MODULE DhcpWire ------------------------------
(***************************************************************************)
(* DHCP messages as octets (internal/dhcp/option.go and message.go): a      *)
(* client, or a relay before it, composes the option areas of a request;   *)
(* Unpack reads them; Reply, Options.Set and Pack make the answer; and      *)
(* whoever gets the answer reads it again.                                 *)
(*                                                                         *)
(* Options are tag, length and data, between pads and up to an end mark     *)
(* that may be missing.  A long option comes in several fragments, an       *)
(* option may lie in the fields file and sname when option 52 says so, and  *)
(* an area may be cut off in the middle of an option.                       *)
(*                                                                         *)
(* A length octet holds Chunk at most, 255 in the code.  Of the fixed       *)
(* header only the length of the hardware address is kept.                  *)
(***************************************************************************)
EXTENDS Integers, Sequences, SequencesExt

CONSTANTS
    Chunk,          \* the longest fragment a length octet can announce
    Data,           \* data of one fragment, among it octets like a pad's and an end's
    HLens,          \* lengths of the hardware address a sender may claim
    PadTo,          \* the size an answer is padded to
    MaxItems        \* bound on the fragments, pads and end marks of a request

Pad == 0
End == 255
Overload == 52
MessageType == 53
ServerID == 54
RelayInfo == 82

ASSUME WireAssumption ==
    /\ Chunk \in Nat \ {0} /\ PadTo \in Nat /\ MaxItems \in Nat
    /\ Data \subseteq Seq(0..255) /\ HLens \subseteq 0..255

VARIABLES
    area,       \* the octets of the three option areas
    meant,      \* auxiliary: the fragments composed, and where each of them ends
    writing,    \* the area that is being written
    ended,      \* whether that area has its end mark
    items,      \* how many fragments, pads and end marks there are
    hlen,       \* the claimed length of the hardware address
    request,    \* what Unpack made of it
    answer,     \* the options of the reply
    reply,      \* the reply's octets, if it could be packed
    phase

vars == <<area, meant, writing, ended, items, hlen, request, answer, reply, phase>>

Areas == {"options", "file", "sname"}
NoMessage == [options |-> <<>>, hlen |-> 0, chaddr |-> 0]

Option(c, d) == [code |-> c, data |-> d]

-----------------------------------------------------------------------------
(* Option lists. *)

IndexOf(o, c) == SelectInSeq(o, LAMBDA x : x.code = c)

\* The data of an option: a set of one element, or none.
Get(o, c) == {o[i].data : i \in {IndexOf(o, c)} \ {0}}

Set(o, c, d) ==
    IF IndexOf(o, c) = 0 THEN Append(o, Option(c, d))
    ELSE [o EXCEPT ![IndexOf(o, c)].data = d]

\* RFC 3396: a fragment of an option that is there already continues it.
Extend(o, x) ==
    IF IndexOf(o, x.code) = 0 THEN Append(o, x)
    ELSE [o EXCEPT ![IndexOf(o, x.code)].data = @ \o x.data]

-----------------------------------------------------------------------------
(* Reading. *)

\* Where the options of b begin, from position i on: past the pads, and up to the
\* end mark or to what does not fit any more.
Items(b) ==
    LET From[i \in 1..Len(b) + 1] ==
            IF i > Len(b) THEN <<>>
            ELSE IF b[i] = Pad THEN From[i + 1]
            ELSE IF b[i] = End \/ i = Len(b) THEN <<>>
            ELSE IF i + 1 + b[i + 1] > Len(b) THEN <<>>
            ELSE <<Option(b[i], SubSeq(b, i + 2, i + 1 + b[i + 1]))>> \o From[i + 2 + b[i + 1]]
    IN From[1]

\* One option of parseOptions' loop: the list so far, and the overload flags seen.
Take(p, x) ==
    [options  |-> Extend(p.options, x),
     overload |-> IF x.code = Overload /\ Len(x.data) = 1 THEN x.data[1] ELSE p.overload]

\* parseOptions: the options it adds to out, and the overload flags.
ParseOptions(b, out) == FoldLeft(Take, [options |-> out, overload |-> 0], Items(b))

FileToo(v) == v % 2 = 1
SnameToo(v) == (v \div 2) % 2 = 1

\* Faulty variant of Unpack: the sname field is read before the file field.
UnpackSnameFirst(a, h) ==
    LET first  == ParseOptions(a["options"], <<>>)
        second == IF SnameToo(first.overload)
                  THEN ParseOptions(a["sname"], first.options).options ELSE first.options
    IN [options |-> IF FileToo(first.overload)
                    THEN ParseOptions(a["file"], second).options ELSE second,
        hlen |-> h, chaddr |-> IF h > 16 THEN 16 ELSE h]

\* The flags count that the options field itself has; the claimed length of the
\* hardware address is kept, and the address is as long as there is room for.
Unpack(a, h) ==
    LET first  == ParseOptions(a["options"], <<>>)
        second == IF FileToo(first.overload)
                  THEN ParseOptions(a["file"], first.options).options ELSE first.options
    IN [options |-> IF SnameToo(first.overload)
                    THEN ParseOptions(a["sname"], second).options ELSE second,
        hlen |-> h, chaddr |-> IF h > 16 THEN 16 ELSE h]

-----------------------------------------------------------------------------
(* Writing. *)

\* Faulty variant of Fragments: what does not fit the length octet is left out.
FragmentsCutOff(x) ==
    LET n == IF Len(x.data) > Chunk THEN Chunk ELSE Len(x.data)
    IN <<x.code, n>> \o SubSeq(x.data, 1, n)

\* One option as octets, in as many fragments as it takes, and one if it is empty.
Fragments(x) ==
    LET Upto(j) == IF j * Chunk > Len(x.data) THEN Len(x.data) ELSE j * Chunk
        count == IF x.data = <<>> THEN 1 ELSE (Len(x.data) + Chunk - 1) \div Chunk
    IN FlattenSeq([j \in 1..count |->
         <<x.code, Upto(j) - Upto(j - 1)>> \o SubSeq(x.data, Upto(j - 1) + 1, Upto(j))])

\* The two codes without data are never written from the list.
AppendTo(o) ==
    LET b == FlattenSeq([i \in DOMAIN o |-> IF o[i].code \in {Pad, End} THEN <<>>
                                            ELSE Fragments(o[i])]) \o <<End>>
    IN b \o [i \in 1..(IF Len(b) < PadTo THEN PadTo - Len(b) ELSE 0) |-> Pad]

\* Pack: refused for a hardware address longer than its field.
Pack(o, h) ==
    {a \in {[x \in Areas |-> IF x = "options" THEN AppendTo(o) ELSE <<>>]} : h <= 16}

-----------------------------------------------------------------------------
(* Composing a request. *)

Init ==
    /\ area = [a \in Areas |-> <<>>] /\ meant = [a \in Areas |-> <<>>]
    /\ writing = "options" /\ ended = FALSE
    /\ items = 0 /\ hlen = 0
    /\ request = NoMessage /\ answer = <<>> /\ reply = {} /\ phase = "composing"

Put(octets) ==
    /\ phase = "composing" /\ items < MaxItems
    /\ items' = items + 1
    /\ area' = [area EXCEPT ![writing] = @ \o octets]
    /\ UNCHANGED <<writing, hlen, request, answer, reply, phase>>

PutPad == ~ended /\ Put(<<Pad>>) /\ UNCHANGED <<meant, ended>>

PutEnd == ~ended /\ Put(<<End>>) /\ ended' = TRUE /\ UNCHANGED meant

\* A fragment; past the end mark it is what was in the buffer before.
PutOption(c, d) ==
    /\ Put(<<c, Len(d)>> \o d)
    /\ meant' = IF ended THEN meant
                ELSE [meant EXCEPT ![writing] =
                        Append(@, [code |-> c, data |-> d, ends |-> Len(area'[writing])])]
    /\ UNCHANGED ended

\* Option 52, once at most, in the options field.
PutOverload(v) ==
    /\ writing = "options"
    /\ \A i \in DOMAIN meant["options"] : meant["options"][i].code # Overload
    /\ PutOption(Overload, <<v>>)

NextArea ==
    /\ phase = "composing" /\ writing # "sname"
    /\ writing' = IF writing = "options" THEN "file" ELSE "sname"
    /\ ended' = FALSE
    /\ UNCHANGED <<area, meant, items, hlen, request, answer, reply, phase>>

\* The message arrives, with one of its areas cut off after n octets.
Receive(a, n) ==
    /\ phase = "composing"
    /\ area' = [area EXCEPT ![a] = SubSeq(@, 1, n)]
    /\ hlen' \in HLens
    /\ request' = Unpack(area', hlen')
    /\ phase' = "received"
    /\ UNCHANGED <<meant, writing, ended, items, answer, reply>>

\* What is not a DHCP message gets no answer.  Reply carries the relay's option
\* over, and the server adds its own.
Answer(d) ==
    LET kind == Set(<<>>, MessageType, <<2>>)
        skeleton == {Set(kind, RelayInfo, r) : r \in Get(request.options, RelayInfo)}
    IN
    /\ phase = "received"
    /\ \E t \in Get(request.options, MessageType) : Len(t) = 1
    /\ \E o \in IF skeleton = {} THEN {kind} ELSE skeleton :
          /\ answer' = Set(o, ServerID, d)
          /\ reply' = Pack(answer', request.hlen)
    /\ phase' = "answered"
    /\ UNCHANGED <<area, meant, writing, ended, items, hlen, request>>

\* The next datagram.
NextMessage ==
    /\ phase \in {"received", "answered"}
    /\ area' = [a \in Areas |-> <<>>] /\ meant' = [a \in Areas |-> <<>>]
    /\ writing' = "options" /\ ended' = FALSE
    /\ items' = 0 /\ hlen' = 0
    /\ request' = NoMessage /\ answer' = <<>> /\ reply' = {} /\ phase' = "composing"

Next ==
    \/ PutPad \/ PutEnd
    \/ \E d \in Data : PutOption(RelayInfo, d)
    \/ PutOption(MessageType, <<3>>)
    \/ \E v \in 0..3 : PutOverload(v)
    \/ NextArea
    \/ \E a \in Areas : \E n \in 0..Len(area[a]) : Receive(a, n)
    \/ \E d \in Data : Answer(d)
    \/ NextMessage

Spec == Init /\ [][Next]_vars

-----------------------------------------------------------------------------
(* Properties. *)

\* The fragments of an area that arrived whole.
Arrived(a) == {i \in DOMAIN meant[a] : meant[a][i].ends <= Len(area[a])}

\* Which of them count: those of the options field, and of file and sname as far
\* as the overload option in the options field says.
Counting(a) ==
    LET flags == {meant["options"][i].data[1] : i \in {k \in Arrived("options") :
                                                      meant["options"][k].code = Overload}}
        wanted == CASE a = "options" -> TRUE
                    [] a = "file" -> \E v \in flags : FileToo(v)
                    [] a = "sname" -> \E v \in flags : SnameToo(v)
    IN {i \in Arrived(a) : wanted}

\* What an area says of an option: the data of its fragments, end to end.
DataIn(a, c) ==
    FlattenSeq([i \in DOMAIN meant[a] |-> IF i \in Counting(a) /\ meant[a][i].code = c
                                         THEN meant[a][i].data ELSE <<>>])

\* The data of an option over the three areas: a set of one element, or none.
Meaning(c) ==
    {DataIn("options", c) \o DataIn("file", c) \o DataIn("sname", c) :
        a \in {a \in Areas : \E i \in Counting(a) : meant[a][i].code = c}}

\* Wherever pads and end marks are, however an option is split and over however
\* many areas, and wherever an area is cut: every option that arrived whole is
\* read with exactly its data, what was cut away takes nothing else along, what
\* follows an end mark is not read, and no code is listed twice.
ReadAsMeant ==
    phase # "composing" =>
        /\ \A c \in {Overload, MessageType, RelayInfo} : Get(request.options, c) = Meaning(c)
        /\ \A i, j \in DOMAIN request.options :
              request.options[i].code = request.options[j].code => i = j

\* An answer can be read again: the relay finds its own option as it sent it, in
\* however many fragments it came and goes back, and the client what the server
\* set.  There is no answer only to a claimed hardware address that is too long.
AnswerRead ==
    phase = "answered" =>
        /\ reply = {} => hlen > 16
        /\ \A r \in reply :
              LET back == Unpack(r, request.hlen)
              IN back.options = answer /\ Get(back.options, RelayInfo) = Meaning(RelayInfo)

=============================================================================
