------------------------------ MODULE Transfer ------------------------------
(***************************************************************************)
(* The Olympus File Protocol of network.cpp: a Sender cuts a file, line by *)
(* line, or the chunks of a message into transmission blocks whose last    *)
(* character says whether more will come, and receiveLongMessage_sync puts *)
(* them together again.  A connection delivers the characters in order,    *)
(* but what one read returns may begin and end inside a block.             *)
(*                                                                         *)
(* Characters are numbers: NUL, NEWLINE, and letters above them.           *)
(***************************************************************************)
EXTENDS Naturals, Sequences, SequencesExt, FiniteSetsExt

CONSTANTS BufferSize,   (* of the Sender: 1000                             *)
          ReadSize,     (* of the Networker that receives: 1024            *)
          MaxFile,      (* bound: the characters of a file                 *)
          MaxChunks     (* bound: the chunks of a message                  *)

ASSUME TransferAssumption ==
  /\ BufferSize \in Nat /\ BufferSize >= 4
  /\ ReadSize \in Nat /\ ReadSize >= BufferSize
  /\ MaxFile \in Nat /\ MaxChunks \in Nat

NUL == 0
NEWLINE == 1
END_OF_FILE == NUL
MORE_PACKETS == NEWLINE
Letter(i) == i + 1

(* The files: a letter tells its place, so that no two are alike.          *)
FileWith(n, newlines) ==
  [i \in 1 .. n |-> IF i \in newlines THEN NEWLINE ELSE Letter(i)]
Files == UNION {{FileWith(n, newlines) : newlines \in SUBSET (1 .. n)} :
                n \in 0 .. MaxFile}

(* The messages: chunks of any length that a buffer can hold.              *)
Messages == UNION {[1 .. n -> 1 .. BufferSize - 1] : n \in 1 .. MaxChunks}
Total(sizes) ==
  LET sum[n \in 0 .. Len(sizes)] == IF n = 0 THEN 0 ELSE sum[n - 1] + sizes[n]
  IN  sum[Len(sizes)]
Text(sizes) == [i \in 1 .. Total(sizes) |-> Letter(i)]

VARIABLES
  content,    (* what is sent                                              *)
  lengths,    (* the lengths of the chunks not yet added to the message    *)
  rest,       (* what has not been read from the file or the message       *)
  buffer, writehead,   (* of the Sender                                    *)
  pc,         (* "file": add_chunk_from_file, "retry" within it,           *)
              (* "chunks": add_chunk, "close", "sent"; or how the sender   *)
              (* came to grief: "exited", "assertion", "undefined"         *)
  wire,       (* the blocks under way, the first one may have been read in *)
              (* part                                                      *)
  ret,        (* what receiveLongMessage_sync has put together             *)
  receiver,   (* "reading", "done" or "assertion"                          *)
  merged      (* history: a read has not returned just one block           *)

senderVars   == <<content, lengths, rest, buffer, writehead, pc>>
receiverVars == <<ret, receiver, merged>>
vars == <<senderVars, wire, receiverVars>>

Init ==
  /\ \/ /\ pc = "file"
        /\ content \in Files
        /\ lengths = <<>>
     \/ /\ pc = "chunks"
        /\ lengths \in Messages
        /\ content = Text(lengths)
  /\ rest = content
  /\ buffer = [i \in 0 .. BufferSize - 1 |-> NUL] /\ writehead = 0
  /\ wire = <<>>
  /\ ret = <<>> /\ receiver = "reading" /\ merged = FALSE

-----------------------------------------------------------------------------
(* The Sender and a file.                                                  *)

(* The first n characters of the buffer.                                   *)
First(n) == [i \in 1 .. n |-> buffer[i - 1]]

(* The buffer with text written from the write head on.                    *)
Written(text) ==
  [i \in 0 .. BufferSize - 1 |->
     IF i \in writehead .. writehead + Len(text) - 1
       THEN text[i - writehead + 1] ELSE buffer[i]]

(* getline: how many characters it may store besides its NUL ...           *)
Room == IF BufferSize - writehead - 1 = 0 THEN 0 ELSE BufferSize - writehead - 2

(* ... and how many the line has.                                          *)
LineLength ==
  Min({i \in 1 .. Len(rest) : rest[i] = NEWLINE} \cup {Len(rest) + 1}) - 1

addingLine == pc \in {"file", "retry"}

(* try_add_chunk when the line is the last one, and not ended.             *)
addLastLine ==
  /\ addingLine
  /\ LineLength = Len(rest) /\ LineLength <= Room
  /\ buffer' = Written(Append(rest, END_OF_FILE))
  /\ writehead' = writehead + LineLength
  /\ rest' = <<>>
  /\ pc' = "close"
  /\ UNCHANGED <<content, lengths, wire, receiverVars>>

(* try_add_chunk when the line and its newline have been read.  If there   *)
(* was room for the newline only, the marker is written behind the buffer. *)
addLine ==
  /\ addingLine
  /\ LineLength < Len(rest) /\ LineLength <= Room
  /\ writehead' = writehead + LineLength + 1
  /\ buffer' = Written(Append(SubSeq(rest, 1, LineLength + 1), MORE_PACKETS))
  /\ rest' = SubSeq(rest, LineLength + 2, Len(rest))
  /\ pc' = IF writehead' = BufferSize THEN "undefined" ELSE "file"
  /\ UNCHANGED <<content, lengths, wire, receiverVars>>

(* Seeded fault: the copy begins one character late.                       *)
FaultyMovedUp(got) ==
  [i \in 0 .. BufferSize - 1 |->
     got[IF i + writehead + 1 < BufferSize - 1 THEN i + writehead + 1 ELSE i]]

(* The loop that copies all but the last character from the write head on  *)
(* to the front.                                                           *)
MovedUp(got) ==
  [i \in 0 .. BufferSize - 1 |->
     got[IF i + writehead < BufferSize - 1 THEN i + writehead ELSE i]]

(* Seeded fault: one character more is sent.                               *)
FaultySendFullBuffer ==
  /\ pc = "file" /\ LineLength > Room /\ writehead # 0
  /\ LET got == Written(Append(SubSeq(rest, 1, Room), NUL))
     IN  /\ wire' = Append(wire, [i \in 1 .. writehead + 1 |-> got[i - 1]])
         /\ buffer' = MovedUp(got)
  /\ writehead' = BufferSize - 1 - writehead
  /\ rest' = SubSeq(rest, Room + 1, Len(rest))
  /\ pc' = "retry"
  /\ UNCHANGED <<content, lengths, receiverVars>>

(* Seeded fault: the write head is one too far.                            *)
FaultyWritehead ==
  /\ pc = "file" /\ LineLength > Room /\ writehead # 0
  /\ wire' = Append(wire, First(writehead))
  /\ buffer' = MovedUp(Written(Append(SubSeq(rest, 1, Room), NUL)))
  /\ writehead' = BufferSize - writehead
  /\ rest' = SubSeq(rest, Room + 1, Len(rest))
  /\ pc' = "retry"
  /\ UNCHANGED <<content, lengths, receiverVars>>

(* add_chunk_from_file when the line does not fit: what was there before   *)
(* it is sent, and its beginning with getline's NUL moves to the front.    *)
sendFullBuffer ==
  /\ pc = "file" /\ LineLength > Room /\ writehead # 0
  /\ wire' = Append(wire, First(writehead))
  /\ buffer' = MovedUp(Written(Append(SubSeq(rest, 1, Room), NUL)))
  /\ writehead' = BufferSize - 1 - writehead
  /\ rest' = SubSeq(rest, Room + 1, Len(rest))
  /\ pc' = "retry"
  /\ UNCHANGED <<content, lengths, receiverVars>>

(* The line is longer than the whole buffer, or than what its beginning    *)
(* has left of it.                                                         *)
lineTooLong ==
  /\ addingLine /\ LineLength > Room
  /\ \/ writehead = 0 /\ pc' = "exited"
     \/ writehead # 0 /\ pc = "retry" /\ pc' = "assertion"
  /\ UNCHANGED <<content, lengths, rest, buffer, writehead, wire, receiverVars>>

-----------------------------------------------------------------------------
(* The Sender and a message.                                               *)

(* Does a chunk fit in the buffer, with a marker behind it?                *)
Fits(length) == length <= BufferSize - 1 - writehead

(* Sender::add_chunk, for a chunk that fits.                               *)
add_chunk ==
  /\ pc = "chunks" /\ lengths # <<>>
  /\ Fits(Head(lengths))
  /\ buffer' = Written(Append(SubSeq(rest, 1, Head(lengths)), MORE_PACKETS))
  /\ writehead' = writehead + Head(lengths)
  /\ rest' = SubSeq(rest, Head(lengths) + 1, Len(rest))
  /\ lengths' = Tail(lengths)
  /\ UNCHANGED <<content, pc, wire, receiverVars>>

(* Sender::send_chunks makes room for one that does not fit.               *)
send_chunks ==
  /\ pc = "chunks" /\ lengths # <<>>
  /\ ~Fits(Head(lengths))
  /\ wire' = Append(wire, First(writehead + 1))
  /\ writehead' = 0
  /\ UNCHANGED <<content, lengths, rest, buffer, pc, receiverVars>>

(* Seeded fault: the last block is marked like the others.                 *)
FaultyClose ==
  /\ pc = "close" \/ (pc = "chunks" /\ lengths = <<>>)
  /\ buffer' = [buffer EXCEPT ![writehead] = MORE_PACKETS]
  /\ wire' = Append(wire, First(writehead) \o <<MORE_PACKETS>>)
  /\ writehead' = 0
  /\ pc' = "sent"
  /\ UNCHANGED <<content, lengths, rest, receiverVars>>

(* Sender::close, after the last line or chunk.                            *)
close ==
  /\ pc = "close" \/ (pc = "chunks" /\ lengths = <<>>)
  /\ buffer' = [buffer EXCEPT ![writehead] = END_OF_FILE]
  /\ wire' = Append(wire, First(writehead) \o <<END_OF_FILE>>)
  /\ writehead' = 0
  /\ pc' = "sent"
  /\ UNCHANGED <<content, lengths, rest, receiverVars>>

-----------------------------------------------------------------------------
(* The receiver.                                                           *)

(* Without the marker.                                                     *)
Appended(packet) == ret \o Front(packet)

(* A step of receiveLongMessage_sync: receiveMessage_sync returns what has *)
(* come of one block or of several, which may end anywhere within the last *)
(* of them, as far as its buffer holds it.                                 *)
receive ==
  /\ receiver = "reading"
  /\ \E n \in 1 .. Len(wire) :
       LET come == FlattenSeq(SubSeq(wire, 1, n))
       IN  \E size \in 1 .. Min({Len(come), ReadSize}) :
             LET got  == SubSeq(come, 1, size)
                 left == SubSeq(come, size + 1, Len(come))
             IN  /\ size > Len(come) - Len(wire[n])
                 /\ wire' = (IF left = <<>> THEN <<>> ELSE <<left>>)
                              \o SubSeq(wire, n + 1, Len(wire))
                 /\ ret' = Appended(got)
                 /\ receiver' = CASE Last(got) = END_OF_FILE  -> "done"
                                  [] Last(got) = MORE_PACKETS -> "reading"
                                  [] OTHER                    -> "assertion"
                 /\ merged' = (merged \/ n > 1 \/ left # <<>>)
  /\ UNCHANGED senderVars

send == addLastLine \/ addLine \/ sendFullBuffer \/ lineTooLong
          \/ add_chunk \/ send_chunks \/ close

Next == send \/ receive

Spec == Init /\ [][Next]_vars

(* The sender runs on, and what it has sent arrives.                       *)
FairSpec == Spec /\ WF_vars(send) /\ WF_vars(receive)

-----------------------------------------------------------------------------

(* What is left of some characters without newlines and NULs.              *)
Letters(s) == FlattenSeq([i \in DOMAIN s |-> IF s[i] > NEWLINE THEN <<s[i]>> ELSE <<>>])

(* network.cpp:53-142: whatever the lengths of the lines and chunks and    *)
(* however the reads fall, no letter is lost, doubled or overtaken by      *)
(* another on its way through the two buffers; and as long as every read   *)
(* returns one block, a message of any number of them arrives as it is,    *)
(* and so does a file that fits in one.                                    *)
ArrivesInOrder ==
  /\ receiver # "assertion" => IsPrefix(Letters(ret), Letters(content))
  /\ ~merged /\ receiver = "done"
       /\ (NEWLINE \notin Range(content) \/ Len(content) < BufferSize - 1)
       => ret = content

(* network.cpp:14: "chunks are not split up through transmission blocks":  *)
(* as long as every read returns one block, the receiver takes no letter   *)
(* for a marker, and no NUL of getline for the end of the file.            *)
InStepWithBlocks ==
  ~merged =>
    /\ receiver # "assertion"
    /\ receiver = "done" =>
         pc = "sent" /\ wire = <<>> /\ Letters(ret) = Letters(content)

(* How many characters the line that is read has, those before rest        *)
(* included.                                                               *)
WholeLine ==
  LET consumed == Len(content) - Len(rest)
      start == Max({i \in 1 .. consumed : content[i] = NEWLINE} \cup {0})
  IN  consumed - start + LineLength

(* network.cpp:73-101: the sender gives up only on a line that fills the   *)
(* buffer but for two characters, wherever the line before has ended; so   *)
(* the beginning that is moved to the front costs no more than its NUL.    *)
GivesUpOnLongLines ==
  pc \in {"exited", "assertion"} => WholeLine >= BufferSize - 2

(* network.cpp:117-142: sender and receiver come to an end, unless the     *)
(* sender gives up.                                                        *)
TransferEnds == <>(receiver # "reading" \/ pc \notin {"file", "retry", "chunks",
                                                     "close", "sent"})

-----------------------------------------------------------------------------
(* What a comment of the code says and it does not do.                     *)

(* network.cpp:82: "we want to transmit the file as-is": what comes out of *)
(* receiveLongMessage_sync is the file.                                    *)
FileAsIs == ~merged /\ receiver = "done" => ret = content
=============================================================================
