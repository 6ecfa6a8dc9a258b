---------------------------- MODULE FrameStream ----------------------------
(***************************************************************************)
(* What the stream decoder of the collector promises, said without its     *)
(* state machine.  The bytes that arrived since the decoder last started   *)
(* to look for a packet form a window.  The first 0xff 0xff in the window  *)
(* opens a packet: the byte after it is the flags, the next one the type.  *)
(* A packet of a known type is handed over as soon as its last byte is     *)
(* there, one of an unknown type is given up at its type byte, and both    *)
(* start a new window.  How the bytes were cut into reads plays no part.   *)
(***************************************************************************)
EXTENDS Integers, Sequences

CONSTANTS Alphabet,               \* the bytes that occur in the stream
          MsgType,                \* the types a packet may have
          packetLengthForType(_)  \* the length of a packet of each type

VARIABLES window,     \* bytes since the decoder last started over
          messages    \* packets handed to WmrMessage, in order

vars == <<window, messages>>

Marker == 255

(* The start marker of w is the first pair of adjacent marker bytes.       *)
MarkerAt(w, j) ==
    /\ j \in 1..Len(w) - 1
    /\ w[j] = Marker /\ w[j + 1] = Marker
    /\ \A i \in 1..j - 1 : ~(w[i] = Marker /\ w[i + 1] = Marker)

(* w ends with the last byte of the packet that its marker at j opens.     *)
Complete(w, j) ==
    /\ MarkerAt(w, j)
    /\ Len(w) >= j + 3
    /\ w[j + 3] \in MsgType
    /\ Len(w) = j + 1 + packetLengthForType(w[j + 3])

(* w ends with a type byte that opens no packet.                           *)
Unknown(w, j) ==
    /\ MarkerAt(w, j)
    /\ Len(w) = j + 3
    /\ w[j + 3] \notin MsgType

Init == window = <<>> /\ messages = <<>>

(* One more byte of the stream.                                            *)
Receive(byte) ==
    LET w == Append(window, byte) IN
    \/ \E j \in 1..Len(w) :
          /\ Complete(w, j)
          /\ messages' = Append(messages, SubSeq(w, j + 2, Len(w)))
          /\ window' = <<>>
    \/ /\ \E j \in 1..Len(w) : Unknown(w, j)
       /\ window' = <<>>
       /\ UNCHANGED messages
    \/ /\ \A j \in 1..Len(w) : ~Complete(w, j) /\ ~Unknown(w, j)
       /\ window' = w
       /\ UNCHANGED messages

Next == \E byte \in Alphabet : Receive(byte)

Spec == Init /\ [][Next]_vars
=============================================================================
