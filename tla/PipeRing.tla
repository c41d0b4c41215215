------------------------------ MODULE PipeRing ------------------------------
(***************************************************************************)
(* The bytes of a pipe: devpipe_read() and devpipe_write() of lib/pipe.c   *)
(* on the shared page, one reader and one writer, each access to the page  *)
(* a step.  The timer or another CPU may come between any two.             *)
(*                                                                         *)
(* Whether the other end is open is what _pipeisclosed() answers; that its *)
(* answer is right is Pipe's subject.  Stores become visible in program    *)
(* order, as on the x86.                                                   *)
(***************************************************************************)
EXTENDS Integers, Sequences

CONSTANTS
  Bytes,       \* what a byte may be
  PIPEBUFSIZ,
  Width,       \* bits of an off_t: 32
  MaxCall,     \* bound: bytes a call of read() or write() asks for
  MaxPos       \* bound: no write() goes beyond this position

ASSUME RingAssumption == /\ PIPEBUFSIZ \in Nat \ {0} /\ Width \in Nat \ {0}
                         /\ PIPEBUFSIZ < 2^(Width - 1)
                         /\ MaxCall \in Nat \ {0} /\ MaxPos \in Nat

VARIABLES
  p_rpos, p_wpos, p_buf,  \* struct Pipe
  reader,                 \* the call of read(): where it is, n and buf[0 .. i-1]
  writer                  \* the call of write(): where it is, its bytes and i

ringVars == <<p_rpos, p_wpos, p_buf, reader, writer>>

\* off_t is signed; sizeof makes the test for a full pipe an unsigned one.
Half        == 2^(Width - 1)
Signed(x)   == ((x + Half) % (2 * Half)) - Half
Unsigned(x) == x % (2 * Half)
Offsets     == -Half .. Half - 1

\* pos % PIPEBUFSIZ in C has the sign of pos: once Half bytes have gone
\* through, the access is outside p_buf, and nothing is said of what follows.
Index(pos)  == IF pos >= 0 THEN pos % PIPEBUFSIZ ELSE -((-pos) % PIPEBUFSIZ)
BufIndices  == 0 .. PIPEBUFSIZ - 1

Places  == {"idle", "test", "ask", "move", "step", "closed"}
Requests == UNION {[1 .. n -> Bytes] : n \in 1 .. MaxCall}
NoRead  == [at |-> "idle", n |-> 0, buf |-> <<>>]
NoWrite == [at |-> "idle", data |-> <<>>, i |-> 0]

RingTypeOK ==
  /\ p_rpos \in Offsets /\ p_wpos \in Offsets
  /\ p_buf \in [BufIndices -> Bytes]
  /\ reader \in [at : Places, n : 0 .. MaxCall, buf : Requests \cup {<<>>}]
  /\ writer \in [at : Places, data : Requests \cup {<<>>}, i : 0 .. MaxCall]
  /\ Len(reader.buf) <= reader.n /\ writer.i <= Len(writer.data)

\* The page comes zeroed; which byte that is does not matter.
RingInit ==
  /\ p_rpos = 0 /\ p_wpos = 0
  /\ \E b \in Bytes : p_buf = [k \in BufIndices |-> b]
  /\ reader = NoRead /\ writer = NoWrite

-----------------------------------------------------------------------------
(* devpipe_read() *)

ReadCall(n) ==
  /\ reader.at = "idle"
  /\ reader' = [at |-> "test", n |-> n, buf |-> <<>>]
  /\ UNCHANGED <<p_rpos, p_wpos, p_buf, writer>>

Empty == p_rpos = p_wpos

\* All that was asked for, or all there is.
ReadReturns ==
  /\ reader.at = "test"
  /\ \/ Len(reader.buf) = reader.n
     \/ Empty /\ reader.buf # <<>>
  /\ reader' = NoRead
  /\ UNCHANGED <<p_rpos, p_wpos, p_buf, writer>>

ReadTests ==
  /\ reader.at = "test" /\ Len(reader.buf) < reader.n
  /\ Empty => reader.buf = <<>>
  /\ reader' = [reader EXCEPT !.at = IF Empty THEN "ask" ELSE "move"]
  /\ UNCHANGED <<p_rpos, p_wpos, p_buf, writer>>

\* The pipe was empty, and now all writers are gone: end of file.
ReadEof ==
  /\ reader.at = "ask" /\ writer.at = "closed"
  /\ reader' = NoRead
  /\ UNCHANGED <<p_rpos, p_wpos, p_buf, writer>>

ReadYields ==
  /\ reader.at = "ask" /\ writer.at # "closed"
  /\ reader' = [reader EXCEPT !.at = "test"]
  /\ UNCHANGED <<p_rpos, p_wpos, p_buf, writer>>

\* Mutant: p_rpos is moved on before the byte is taken.
TakeLate ==
  /\ reader.at \in {"move", "step"}
  /\ IF reader.at = "move"
     THEN p_rpos' = Signed(p_rpos + 1) /\ reader' = [reader EXCEPT !.at = "step"]
     ELSE /\ reader' = [reader EXCEPT !.at = "test",
                          !.buf = Append(@, p_buf[Index(Signed(p_rpos - 1))])]
          /\ UNCHANGED p_rpos
  /\ UNCHANGED <<p_wpos, p_buf, writer>>

\* "wait to increment rpos until the byte is taken!"
Take ==
  \/ /\ reader.at = "move" /\ Index(p_rpos) \in BufIndices
     /\ reader' = [reader EXCEPT !.at = "step", !.buf = Append(@, p_buf[Index(p_rpos)])]
     /\ UNCHANGED <<p_rpos, p_wpos, p_buf, writer>>
  \/ /\ reader.at = "step"
     /\ reader' = [reader EXCEPT !.at = "test"]
     /\ p_rpos' = Signed(p_rpos + 1)
     /\ UNCHANGED <<p_wpos, p_buf, writer>>

-----------------------------------------------------------------------------
(* devpipe_write() *)

WriteCall(bytes) ==
  /\ writer.at = "idle"
  /\ p_wpos + Len(bytes) <= MaxPos
  /\ writer' = [at |-> "test", data |-> bytes, i |-> 0]
  /\ UNCHANGED <<p_rpos, p_wpos, p_buf, reader>>

\* Mutant: the size of the buffer is left out.
FullAlways == Unsigned(p_wpos) >= Unsigned(p_rpos)

Full == Unsigned(p_wpos) >= Unsigned(p_rpos + PIPEBUFSIZ)

WriteReturns ==
  /\ writer.at = "test" /\ writer.i = Len(writer.data)
  /\ writer' = NoWrite
  /\ UNCHANGED <<p_rpos, p_wpos, p_buf, reader>>

WriteTests ==
  /\ writer.at = "test" /\ writer.i < Len(writer.data)
  /\ writer' = [writer EXCEPT !.at = IF Full THEN "ask" ELSE "move"]
  /\ UNCHANGED <<p_rpos, p_wpos, p_buf, reader>>

\* The pipe was full, and now all readers are gone: 0, whatever was written.
WriteEof ==
  /\ writer.at = "ask" /\ reader.at = "closed"
  /\ writer' = NoWrite
  /\ UNCHANGED <<p_rpos, p_wpos, p_buf, reader>>

\* Mutant: the writer waits without asking for readers.
WriteYieldsAnyway ==
  /\ writer.at = "ask"
  /\ writer' = [writer EXCEPT !.at = "test"]
  /\ UNCHANGED <<p_rpos, p_wpos, p_buf, reader>>

WriteYields ==
  /\ writer.at = "ask" /\ reader.at # "closed"
  /\ writer' = [writer EXCEPT !.at = "test"]
  /\ UNCHANGED <<p_rpos, p_wpos, p_buf, reader>>

\* "wait to increment wpos until the byte is stored!"
Store ==
  \/ /\ writer.at = "move" /\ Index(p_wpos) \in BufIndices
     /\ p_buf' = [p_buf EXCEPT ![Index(p_wpos)] = writer.data[writer.i + 1]]
     /\ writer' = [writer EXCEPT !.at = "step"]
     /\ UNCHANGED <<p_rpos, p_wpos, reader>>
  \/ /\ writer.at = "step"
     /\ p_wpos' = Signed(p_wpos + 1)
     /\ writer' = [writer EXCEPT !.at = "test", !.i = @ + 1]
     /\ UNCHANGED <<p_rpos, p_buf, reader>>

-----------------------------------------------------------------------------
\* A process closes its end, or dies wherever it is.
ReaderGone ==
  /\ reader.at # "closed"
  /\ reader' = [NoRead EXCEPT !.at = "closed"]
  /\ UNCHANGED <<p_rpos, p_wpos, p_buf, writer>>

WriterGone ==
  /\ writer.at # "closed"
  /\ writer' = [NoWrite EXCEPT !.at = "closed"]
  /\ UNCHANGED <<p_rpos, p_wpos, p_buf, reader>>

ReaderStep == ReadReturns \/ ReadTests \/ ReadEof \/ ReadYields \/ Take
WriterStep == WriteReturns \/ WriteTests \/ WriteEof \/ WriteYields \/ Store

RingNext ==
  \/ ReaderStep \/ WriterStep \/ ReaderGone \/ WriterGone
  \/ \E n \in 1 .. MaxCall : ReadCall(n)
  \/ \E bytes \in Requests : WriteCall(bytes)

\* Whoever is inside a call runs again and again (NoStarvation of KernEnv);
\* nobody has to call, or to close.
Fairness == WF_ringVars(ReaderStep) /\ WF_ringVars(WriterStep)

RingSpec == RingInit /\ [][RingNext]_ringVars /\ Fairness

-----------------------------------------------------------------------------
(* Properties *)

Queue == [k \in 1 .. p_wpos - p_rpos |-> p_buf[Index(p_rpos + k - 1)]]

\* A byte that is taken is under way until p_rpos has moved past it.
Received == IF reader.at = "step" THEN SubSeq(reader.buf, 1, Len(reader.buf) - 1)
            ELSE reader.buf

\* The ring is a FIFO queue of PIPEBUFSIZ bytes, though reader and writer take
\* no lock: no byte is lost, doubled, reordered or overwritten before it is read.
AbstractChannel == INSTANCE Channel WITH
  Size <- PIPEBUFSIZ, queue <- Queue, got <- Received
ImplementsChannel == AbstractChannel!Spec

\* A write() into a pipe that nobody reads any more comes to an end, be the
\* pipe full or not.
WriterReleased == (reader.at = "closed") ~> (writer.at \in {"idle", "closed"})

\* A reader and a writer never wait for each other: one of the calls returns.
NeverBothWait ==
  (reader.at \notin {"idle", "closed"} /\ writer.at \notin {"idle", "closed"})
    ~> (reader.at \in {"idle", "closed"} \/ writer.at \in {"idle", "closed"})
=============================================================================
