---------------------------- MODULE StreamReceiver ----------------------------
(***************************************************************************)
(* How the frames of a TCP stream are found again by a BufferParser,       *)
(* however the stream is cut into the pieces that are read.                *)
(*                                                                         *)
(* Three users differ in how they come by a parser.  The server of         *)
(* dvs_host_server makes one for each piece of a play request and drops it *)
(* afterwards.  A stream of frames has one that is kept from one piece to  *)
(* the next (AVBufferParserFilter of libav, http_flv_host_server).  The    *)
(* download session of storage_host_server keeps one too, but makes it     *)
(* without naming the bytes of its buffer, which are then none.            *)
(*                                                                         *)
(* A frame is a header, which begins with a flag, and a payload.  Only the *)
(* positions of bytes in the stream matter: the buffer always holds a      *)
(* stretch of it, pos bytes from position base on.  Payloads are taken not *)
(* to contain the flag where a frame might begin.                          *)
(***************************************************************************)
EXTENDS Integers, SequencesExt, FiniteSets

CONSTANTS
  NFrames,     \* frames of a stream
  Header,      \* bytes of a header, 32 in the code
  Flag,        \* bytes of the flag, 4 in the code
  MaxPayload,  \* bound of the bytes of a payload
  MaxPiece,    \* bytes that are read at once, 1 MB in the code
  BufSize      \* bytes of a buffer that is asked for, 3 MB in the code

ASSUME ReceiverAssumption ==
  /\ NFrames \in Nat /\ MaxPayload \in Nat \ {0} /\ MaxPiece \in Nat \ {0}
  /\ Flag \in Nat \ {0} /\ Header \in Nat /\ Flag <= Header
  /\ BufSize \in Nat /\ MaxPiece <= BufSize

Frames == 1 .. NFrames

Users == {"play", "stream", "download"}

VARIABLES
  user,       \* whose parser it is
  payload,    \* the bytes of each frame's payload
  read,       \* bytes of the stream that have been read
  base,       \* where in the stream the buffer begins
  pos,        \* the bytes it holds
  delivered,  \* the frames that were passed on, in order
  refused,    \* history: a piece was not taken
  split       \* history: the last piece was, but not all of it was parsed

vars == <<user, payload, read, base, pos, delivered, refused, split>>

(* Frame f is the bytes after Start[f] up to Start[f + 1].                 *)
Start[f \in 1 .. NFrames + 1] ==
  IF f = 1 THEN 0 ELSE Start[f - 1] + Header + payload[f - 1]

Length == Start[NFrames + 1]

IsStart(x) == \E f \in Frames : Start[f] = x

(* The size the user has asked for, and whether it keeps the parser.       *)
bufSize == IF user = "download" THEN 0 ELSE BufSize
kept == user # "play"

(* A frame with which the buffer's end may be passed: behind all but one   *)
(* of its bytes there is no room for a piece, but for one byte of it, that *)
(* has gone in before.                                                     *)
TooLong(f) == Header + payload[f] + MaxPiece > BufSize + 2

(* The buffer holds a stretch of the stream that begins with a frame.  It  *)
(* holds more than it has room for, which nothing in input() prevents, at  *)
(* most by one piece, and only when the frame it begins with is too long.  *)
TypeOK ==
  /\ user \in Users
  /\ payload \in [Frames -> 1 .. MaxPayload]
  /\ read \in 0 .. Length /\ base \in 0 .. Length
  /\ pos \in 0 .. bufSize + MaxPiece
  /\ pos > bufSize => \E f \in Frames : Start[f] = base /\ TooLong(f)
  /\ pos > 0 => base + pos = read /\ IsStart(base)
  /\ delivered \in Seq(Frames)
  /\ refused \in BOOLEAN /\ split \in BOOLEAN

Init ==
  /\ user \in Users
  /\ payload \in [Frames -> 1 .. MaxPayload]
  /\ read = 0 /\ base = 0 /\ pos = 0
  /\ delivered = <<>>
  /\ refused = FALSE /\ split = FALSE

-----------------------------------------------------------------------------
(* Fault: a frame is complete only when a byte of the next has come. *)
ParsedLate(from, to) ==
  {f \in Frames : IsStart(from) /\ from <= Start[f] /\ Start[f + 1] < to}

(* parse(): the complete frames of a stretch of the stream.  A stretch     *)
(* that does not begin with a frame has none, and is dropped.              *)
Parsed(from, to) ==
  {f \in Frames : IsStart(from) /\ from <= Start[f] /\ Start[f + 1] <= to}

(* Fault: what was parsed is kept with the rest. *)
ResumeBefore(from, to) == IF IsStart(from) THEN from ELSE to

(* Where it goes on after them.                                            *)
Resume(from, to) ==
  IF IsStart(from)
    THEN CHOOSE x \in {from} \cup {Start[f + 1] : f \in Parsed(from, to)} :
           \A f \in Parsed(from, to) : Start[f + 1] <= x
    ELSE to

(* Frames in the order of the stream.                                      *)
InOrder(frames) ==
  CHOOSE s \in [1 .. Cardinality(frames) -> frames] :
    \A i, j \in DOMAIN s : i < j => s[i] < s[j]

Deliver(frames) == delivered' = delivered \o InOrder(frames)

(* Where the stretch in the buffer begins.                                 *)
From == IF pos = 0 THEN read ELSE base

(* A parser with an empty buffer takes only what begins with the flag.  It *)
(* compares as many bytes as the flag has; behind a shorter piece it finds *)
(* what an earlier read has left, the rest of a flag by chance or not.  No *)
(* parser takes anything that has no room left, were its buffer empty.     *)
CanTake(n) == (pos = 0 => IsStart(read)) /\ pos < bufSize
MustTake(n) == CanTake(n) /\ (pos > 0 \/ n >= Flag)

(* The one made for a piece is dropped with what it holds.                 *)
Leave(from, to) ==
  /\ base' = from
  /\ pos' = IF kept THEN to - from ELSE 0

Refuse(n) ==
  /\ ~MustTake(n)
  /\ pos' = 0 /\ base' = read + n
  /\ refused' = TRUE /\ split' = FALSE
  /\ UNCHANGED delivered

Take(n) ==
  /\ CanTake(n) /\ pos + n <= bufSize
  /\ Deliver(Parsed(From, read + n))
  /\ Leave(Resume(From, read + n), read + n)
  /\ split' = FALSE
  /\ UNCHANGED refused

(* Fault: what does not fit is forgotten. *)
TakeSplitShort(n) ==
  /\ CanTake(n) /\ pos + n > bufSize
  /\ Deliver(Parsed(From, From + bufSize))
  /\ Leave(Resume(From, From + bufSize), From + bufSize)
  /\ split' = TRUE
  /\ UNCHANGED refused

(* A piece that does not fit: what fits is parsed, and the rest put behind *)
(* what that leaves, to be parsed with the next piece.  Nothing checks     *)
(* that it fits now: behind the first part of a long frame it is written   *)
(* past the buffer's end.  What that does to other memory is not modelled; *)
(* to this parser it does nothing, for a buffer that is full or more than  *)
(* full is never read again: the next piece is refused.                    *)
TakeSplit(n) ==
  /\ CanTake(n) /\ pos + n > bufSize
  /\ Deliver(Parsed(From, From + bufSize))
  /\ Leave(Resume(From, From + bufSize), read + n)
  /\ split' = TRUE
  /\ UNCHANGED refused

Input(n) ==
  /\ read + n <= Length
  /\ read' = read + n
  /\ Refuse(n) \/ Take(n) \/ TakeSplit(n)
  /\ UNCHANGED <<user, payload>>

Next == \E n \in 1 .. MaxPiece : Input(n)

Spec == Init /\ [][Next]_vars

-----------------------------------------------------------------------------
(* Frames are passed on once and in order in any case.  A parser that is   *)
(* kept and has refused nothing misses none, wherever the pieces end and   *)
(* however long the frames: it never loses its place in the stream, nor    *)
(* what did not fit.                                                       *)
DeliveredInOrder ==
  /\ \A i, j \in DOMAIN delivered : i < j => delivered[i] < delivered[j]
  /\ kept /\ ~refused => \A i \in DOMAIN delivered : delivered[i] = i

(* It holds no complete frame back until the next piece, unless the last   *)
(* did not fit.                                                            *)
NothingHeldBack ==
  kept /\ ~refused /\ ~split =>
    \A f \in Frames : Start[f + 1] <= read => f \in ToSet(delivered)

(* The parser of dvs_host_server, made for each piece, serves all requests *)
(* that come whole in a piece which begins with one; only those that come  *)
(* in parts are lost.                                                      *)
WholeRequestIsServed ==
  [][user = "play" /\ IsStart(read) /\ read' - read >= Flag =>
       \A f \in Frames : read <= Start[f] /\ Start[f + 1] <= read'
                           => f \in ToSet(delivered')]_vars
=============================================================================
