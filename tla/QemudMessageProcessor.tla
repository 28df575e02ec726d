----------------------- MODULE QemudMessageProcessor -----------------------
(***************************************************************************)
(* qemu/qemud_message_processor.cpp: how the bytes a guest writes become   *)
(* commands.  A command is a header with the size of the body, and the     *)
(* body.  Here a command is its number, its sizes are those BodySize gives *)
(* for it, and its bytes are pairs of its number and their position.       *)
(***************************************************************************)
EXTENDS Naturals, Sequences

CONSTANTS
  header_size,  \* header_size, 4 in the code
  BodySize      \* the size of the body of each command

Commands == DOMAIN BodySize

ASSUME QemudAssumption ==
  /\ header_size \in Nat \ {0}
  /\ Commands \subseteq Nat
  /\ BodySize \in [Commands -> Nat]

TotalSize(c) == header_size + BodySize[c]

Bytes == UNION {{c} \X (1 .. TotalSize(c)) : c \in Commands}

BytesOf(c) == [i \in 1 .. TotalSize(c) |-> <<c, i>>]

\* sscanf of the header at the begin of the buffer.
ParsedSize(buffer) == TotalSize(Head(buffer)[1])

Complete_HeaderOnly(buffer) == Len(buffer) >= header_size

Complete(buffer) == Len(buffer) >= header_size /\ Len(buffer) >= ParsedSize(buffer)

Erased_Body(buffer) == SubSeq(buffer, ParsedSize(buffer) - header_size + 1, Len(buffer))

Erased(buffer) == SubSeq(buffer, ParsedSize(buffer) + 1, Len(buffer))

(***************************************************************************)
(* remaining is buffer_.size() - consumed after the erase, that is, what   *)
(* was consumed is subtracted twice, without a sign: it is 0, and the loop *)
(* ends, when exactly as much is left as has just been consumed.           *)
(***************************************************************************)
GoesOnAfter(buffer) == Len(Erased(buffer)) # ParsedSize(buffer)

\* process_commands: the commands it handles, and what it leaves in the buffer.
process_commands[buffer \in Seq(Bytes)] ==
  IF ~Complete(buffer)
  THEN [handled |-> <<>>, buffer |-> buffer]
  ELSE LET c == Head(buffer)[1]
           rest == Erased(buffer)
           next == IF GoesOnAfter(buffer) THEN process_commands[rest]
                   ELSE [handled |-> <<>>, buffer |-> rest]
       IN [handled |-> <<c>> \o next.handled, buffer |-> next.buffer]
=============================================================================
